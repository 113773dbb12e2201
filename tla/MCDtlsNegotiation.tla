------------------------- MODULE MCDtlsNegotiation -------------------------
(* Pairs of configurations, in families that vary a few settings of both sides. *)
EXTENDS DtlsNegotiation

Ids == {"id1"}
CAs == {"ca1", "ca2"}
Cert(k, i) == [key |-> k, issuer |-> i]

Base ==
    [ psk |-> <<>>, hint |-> None, certs |-> <<Cert("ecdsa", "ca1")>>, suites |-> <<>>,
      schemes |-> <<>>, insecureHashes |-> FALSE, srtp |-> <<>>, ems |-> "request",
      auth |-> "none", skipVerify |-> FALSE, roots |-> {"ca1"}, refuses |-> {} ]

\* Extensions and cipher suites.
Profiles == {<<>>, <<"srtp1">>, <<"srtp2", "srtp1">>}
Extensions ==
    {[Base EXCEPT !.ems = e, !.srtp = p, !.suites = u] :
        e \in {"request", "require", "disable"}, p \in Profiles,
        u \in {<<>>, <<"CBC">>, <<"CCM", "CBC", "GCM">>, <<"PSK_CCM">>, <<"unsupported">>}}

\* Who vouches for whom, and what the server asks of the client.
Servers ==
    {[Base EXCEPT !.auth = a, !.roots = r, !.refuses = f] :
        a \in ToSet(ClientAuths), r \in SUBSET CAs,
        f \in {{}, {Cert("ecdsa", "ca1")}}}
Clients ==
    {[Base EXCEPT !.certs = c, !.roots = r, !.skipVerify = v, !.refuses = f] :
        c \in {<<>>, <<Cert("ecdsa", "ca1")>>, <<Cert("ed25519", "ca2")>>},
        r \in {{"ca1"}, {"ca2"}}, v \in BOOLEAN, f \in {{}, {Cert("ecdsa", "ca1")}}}

\* Keys and signature schemes.
Lists ==
    { <<>>, <<Scheme("sha256", "ecdsa")>>, <<Scheme("sha384", "ecdsa"), Scheme("sha256", "ecdsa")>>,
      <<Scheme("sha1", "ecdsa")>>, <<Scheme("sha1", "ecdsa"), Scheme("ed25519", "ed25519")>>,
      <<Scheme("ed25519", "unsupported")>> }
Signers ==
    {[Base EXCEPT !.certs = <<Cert(k, "ca1")>>, !.schemes = x, !.insecureHashes = h,
                  !.auth = "requireAny"] :
        k \in {"ecdsa", "ed25519", "rsa"}, x \in Lists, h \in BOOLEAN}

\* Pre-shared keys, with and without hints.
Callbacks == [Ids \cup {Empty} -> {"key1", "key2", "refused"}]
Sharers ==
    {[Base EXCEPT !.psk = k, !.hint = h, !.certs = c, !.suites = u, !.ems = e, !.auth = a] :
        k \in Callbacks \cup {<<>>}, h \in Ids \cup {None}, c \in {<<>>, Base.certs},
        u \in {<<"GCM", "PSK_GCM">>}, e \in {"request", "disable"}, a \in {"none", "requireAny"}}
HintedClients == {c \in Sharers : c.auth = "none" /\ c.certs = <<>>}

\* Who finds a scheme in common with whom.
SignerPairings == Signers \X Signers

MCPairings ==
    (Extensions \X Extensions) \cup (Clients \X Servers) \cup SignerPairings
      \cup (HintedClients \X Sharers)
=============================================================================
