--------------------------- MODULE DtlsNegotiation ---------------------------
(***************************************************************************)
(* What the two ends of a DTLS connection agree on, from the configuration *)
(* each was given (vendor-webrtc-dtls/src: config.rs, conn/mod.rs, flight/, *)
(* crypto/, cipher_suite/, signature_hash_algorithm/).  Where DtlsHandshake *)
(* asks when a flight is processed, this module asks what is in it: cipher *)
(* suite, curve, extensions, certificates, signatures and keys.  Datagrams *)
(* arrive, once and in order.                                              *)
(*                                                                         *)
(* Keys are the values they are derived from, a signature is who made it   *)
(* over what, and a certificate is the kind of its key and its issuer.     *)
(* Randoms are drawn once per connection and left out.                     *)
(***************************************************************************)
EXTENDS Naturals, SequencesExt

CONSTANTS
    Pairings,     \* the configurations <<client, server>> to be considered
    Issuers,      \* who signs certificates
    Identities    \* PSK identities and identity hints

Sides == {"client", "server"}
Peer(s) == IF s = "client" THEN "server" ELSE "client"

None == "none"            \* no hint, no profile, nothing negotiated
Empty == "empty"          \* the identity of a message that carries none
ASSUME NoneAssumption == {None, Empty} \cap Identities = {}

-----------------------------------------------------------------------------
(* Configurations                                                          *)

PskSuites   == {"PSK_CCM", "PSK_CCM_8", "PSK_GCM"}
EcdheSuites == {"CCM", "CCM_8", "GCM", "RSA_GCM", "CBC", "RSA_CBC"}
DefaultSuites == <<"GCM", "CBC", "RSA_GCM", "RSA_CBC">>

Scheme(h, a) == [hash |-> h, signature |-> a]
DefaultSchemes ==
    << Scheme("sha256", "ecdsa"), Scheme("sha384", "ecdsa"), Scheme("sha512", "ecdsa"),
       Scheme("sha256", "rsa"), Scheme("sha384", "rsa"), Scheme("sha512", "rsa"),
       Scheme("ed25519", "ed25519") >>

Certificates == [key : {"ed25519", "ecdsa", "rsa"}, issuer : Issuers]

\* ClientAuthType, in its order.
ClientAuths == <<"none", "request", "requireAny", "verifyIfGiven", "requireAndVerify">>
AtLeast(auth, bound) ==
    \E i, j \in DOMAIN ClientAuths :
        ClientAuths[i] = auth /\ ClientAuths[j] = bound /\ i >= j

Configs ==
    [ psk     : {<<>>} \cup [Identities \cup {Empty} -> {"key1", "key2", "refused"}],
      hint    : Identities \cup {None},
      certs   : Seq(Certificates),
      suites  : Seq(PskSuites \cup EcdheSuites \cup {"unsupported"}),
      schemes : Seq([hash : {"sha1", "sha256", "sha384", "sha512", "ed25519"},
                     signature : {"ecdsa", "rsa", "ed25519", "unsupported"}]),
      insecureHashes : BOOLEAN,
      srtp    : Seq({"srtp1", "srtp2"}),
      ems     : {"request", "require", "disable"},
      auth    : {"none", "request", "requireAny", "verifyIfGiven", "requireAndVerify"},
      skipVerify : BOOLEAN,
      roots   : SUBSET Issuers,         \* roots_cas or client_cas
      refuses : SUBSET Certificates ]   \* by verify_peer_certificate

ASSUME PairingsAssumption == Pairings \subseteq Configs \X Configs

UsesPsk(c) == c.psk # <<>>     \* the callback, a function of the identity

\* The elements of a list that are in a set, in order (a filter of the code's iterators).
Only(list, good) ==
    LET upTo[i \in 0 .. Len(list)] ==
          IF i = 0 THEN <<>>
          ELSE IF list[i] \in good THEN Append(upTo[i - 1], list[i]) ELSE upTo[i - 1]
    IN upTo[Len(list)]

\* parse_cipher_suites() and parse_signature_schemes().
Listed(c) == IF c.suites = <<>> THEN DefaultSuites ELSE c.suites
LocalSuites(c) ==
    Only(Listed(c), {x \in ToSet(Listed(c)) : (x \in PskSuites) = UsesPsk(c)})
Insecure(x) == x.hash = "sha1"
LocalSchemes(c) ==
    IF c.schemes = <<>> THEN DefaultSchemes
    ELSE Only(c.schemes, {x \in ToSet(c.schemes) : ~Insecure(x) \/ c.insecureHashes})

SchemesValid(c) ==
    /\ LocalSchemes(c) # <<>>
    /\ \A x \in ToSet(c.schemes) : x.signature # "unsupported"

\* Mutant of ConfigValid: a list of unknown suites is taken as it is.
ConfigValidUnknown(s, c) ==
    /\ s = "client" /\ UsesPsk(c) => c.hint # None
    /\ s = "server" /\ ~UsesPsk(c) => c.certs # <<>>
    /\ c.certs # <<>> => ~UsesPsk(c)
    /\ c.hint # None => UsesPsk(c)
    /\ \A x \in ToSet(c.certs) : x.key \in {"ed25519", "ecdsa"}
    /\ LocalSuites(c) # <<>>

\* validate_config()
ConfigValid(s, c) ==
    /\ s = "client" /\ UsesPsk(c) => c.hint # None
    /\ s = "server" /\ ~UsesPsk(c) => c.certs # <<>>
    /\ c.certs # <<>> => ~UsesPsk(c)
    /\ c.hint # None => UsesPsk(c)
    /\ \A x \in ToSet(c.certs) : x.key \in {"ed25519", "ecdsa"}
    /\ "unsupported" \notin ToSet(c.suites)
    /\ LocalSuites(c) # <<>>

-----------------------------------------------------------------------------
(* Choices                                                                 *)

\* The first element of a list that is in a set, as a set of at most one.
First(list, good) ==
    {list[i] : i \in {k \in DOMAIN list :
                        /\ list[k] \in good
                        /\ \A j \in 1..(k - 1) : list[j] \notin good}}

MatchingSuite(a, b)   == First(a, ToSet(b))
MatchingProfile(a, b) == First(a, ToSet(b))

\* Nothing fills name_to_certificate, so get_certificate() has one answer.
OwnCertificate(c) == c.certs[1]

SelectedScheme(c, cert) ==
    First(LocalSchemes(c), {x \in ToSet(LocalSchemes(c)) : x.signature = cert.key})

LocalCurves == <<"P256", "X25519", "P384">>
ImplementedCurves == {"P256", "X25519", "P384"}
DefaultCurve == "X25519"

-----------------------------------------------------------------------------
(* Keys and signatures                                                     *)

KeyPair(s, curve) == [owner |-> s, curve |-> curve]

\* What both ends compute from a key pair of each, on the same curve.
SharedSecret(mine, theirs) == <<mine.curve, {mine, theirs}>>
PskSecret(key) == <<"psk", key>>

\* With the extended master secret the keys depend on the transcript.
MasterSecret(ems, secret, transcript) ==
    IF ems THEN <<"extended", secret, transcript>> ELSE <<"master", secret>>

Signature(cert, message) == [by |-> cert, over |-> message]

\* verify_signature(): of the ECDSA keys only P-256 ones pass validate_config(),
\* and a P-256 key fits SHA-256 only.
SignatureValid(scheme, signature, cert, message) ==
    /\ signature = Signature(cert, message)
    /\ \/ scheme.signature = "ed25519" /\ cert.key = "ed25519"
       \/ scheme = Scheme("sha256", "ecdsa") /\ cert.key = "ecdsa"

\* verify_server_cert() and verify_client_cert() of a chain of one.
ChainValid(cert, roots) == cert.issuer \in roots

\* prf_verify_data_client() and prf_verify_data_server().
VerifyData(master, transcript) == <<master, transcript>>

-----------------------------------------------------------------------------
VARIABLES
    configs,   \* the configuration of each side
    phase,     \* "new"; the flight whose answer is awaited; "done"; "failed"
               \* (the handshake ended with an error); "invalid" (no connection)
    local,     \* State: what each side has chosen, received and computed
    cache,     \* the flights each side has sent and received since the hello
               \* that has a cookie
    sent       \* the flight each side has sent last

vars == <<configs, phase, local, cache, sent>>

Fresh(s) ==
    [ suite |-> None, srtp |-> None, ems |-> FALSE,
      keypair |-> None, identity |-> None, peer |-> {}, verified |-> FALSE,
      requested |-> FALSE, secret |-> None, master |-> None,
      cookie |-> IF s = "server" THEN "cookie" ELSE None ]

Silence == [flight |-> 0]
AlertFlight == [flight |-> 99]

Init ==
    /\ \E p \in Pairings : configs = [s \in Sides |-> p[IF s = "client" THEN 1 ELSE 2]]
    /\ phase = [s \in Sides |-> "new"]
    /\ local = [s \in Sides |-> Fresh(s)]
    /\ cache = [s \in Sides |-> <<>>]
    /\ sent = [s \in Sides |-> Silence]

Become(s, p) == phase' = [phase EXCEPT ![s] = p]
Sends(s, f)  == sent' = [sent EXCEPT ![s] = f]
Learns(s, l) == local' = [local EXCEPT ![s] = l]
Keeps(s, t)  == cache' = [cache EXCEPT ![s] = t]

\* An error with an alert: the handshake ends, the peer is told.
Refuse(s) ==
    /\ Become(s, "failed")
    /\ Sends(s, AlertFlight)
    /\ UNCHANGED <<configs, local, cache>>

\* A fatal alert ends the reader, and with it the handshake.
AlertArrives(s) ==
    /\ phase[s] \notin {"new", "invalid", "done", "failed"}
    /\ sent[Peer(s)] = AlertFlight
    /\ Become(s, "failed")
    /\ UNCHANGED <<configs, local, cache, sent>>

-----------------------------------------------------------------------------
(* DTLSConn::new(), and flight 1                                           *)

ClientHello(c, cookie) ==
    [ flight  |-> IF cookie = None THEN 1 ELSE 3,
      cookie  |-> cookie,
      suites  |-> LocalSuites(c),
      curves  |-> IF UsesPsk(c) THEN <<>> ELSE LocalCurves,
      srtp    |-> c.srtp,
      ems     |-> c.ems \in {"request", "require"} ]

New(s) ==
    LET c == configs[s] IN
    /\ phase[s] = "new"
    /\ IF ConfigValid(s, c) /\ SchemesValid(c)
       THEN /\ Become(s, IF s = "client" THEN "flight1" ELSE "flight0")
            /\ IF s = "client" THEN Sends(s, ClientHello(c, None)) ELSE UNCHANGED sent
       ELSE Become(s, "invalid") /\ UNCHANGED sent
    /\ UNCHANGED <<configs, local, cache>>

-----------------------------------------------------------------------------
(* The server answers the first hello: flights 0 and 2                     *)

NamedCurve(h) == First(h.curves, ImplementedCurves)

Flight0Accepts(h, c) ==
    /\ MatchingSuite(h.suites, LocalSuites(c)) # {}
    /\ h.curves # <<>> => NamedCurve(h) # {}
    /\ h.srtp # <<>> => MatchingProfile(h.srtp, c.srtp) # {}
    /\ c.ems = "require" => h.ems

\* Mutant of Negotiated: the server's own setting is not looked at.
NegotiatedAsOffered(h, c, l, suite, curve, srtp) ==
    [l EXCEPT !.suite = suite, !.srtp = srtp, !.ems = h.ems,
              !.keypair = KeyPair("server", curve)]

Negotiated(h, c, l, suite, curve, srtp) ==
    [l EXCEPT !.suite = suite, !.srtp = srtp,
              !.ems = h.ems /\ c.ems # "disable",
              !.keypair = KeyPair("server", curve)]

Optional(choice, default) == IF choice = {} THEN {default} ELSE choice

ParseFlight0 ==
    LET h == sent["client"]  c == configs["server"] IN
    /\ phase["server"] = "flight0" /\ h.flight = 1
    /\ IF Flight0Accepts(h, c)
       THEN \E suite \in MatchingSuite(h.suites, LocalSuites(c)),
               curve \in Optional(NamedCurve(h), DefaultCurve),
               srtp \in Optional(MatchingProfile(h.srtp, c.srtp), None) :
                 /\ Learns("server", Negotiated(h, c, local["server"], suite, curve, srtp))
                 /\ Sends("server", [flight |-> 2, cookie |-> local["server"].cookie])
                 /\ Become("server", "flight2")
                 /\ UNCHANGED <<configs, cache>>
       ELSE Refuse("server")

(* The client repeats its hello with the cookie: flights 1 and 3           *)

ParseFlight1 ==
    LET cookie == sent["server"].cookie
        hello  == ClientHello(configs["client"], cookie)
    IN
    /\ phase["client"] = "flight1" /\ sent["server"].flight = 2
    /\ Learns("client", [local["client"] EXCEPT !.cookie = cookie])
    /\ Sends("client", hello)
    /\ Keeps("client", <<hello>>)
    /\ Become("client", "flight3")
    /\ UNCHANGED configs

-----------------------------------------------------------------------------
(* The server's flight: flights 2 and 4                                    *)

\* What a ServerKeyExchange signs.
KeyMessage(keypair) == <<"key", keypair>>

\* The ServerKeyExchange: a signed key, a hint for the client, or no message.
KeyExchange(c, l, scheme) ==
    IF UsesPsk(c) THEN [hint |-> c.hint]
    ELSE [keypair |-> l.keypair, scheme |-> scheme,
          signature |-> Signature(OwnCertificate(c), KeyMessage(l.keypair))]

ServerFlight(c, l, scheme) ==
    [ flight  |-> 4,
      suite   |-> l.suite,
      ems     |-> c.ems \in {"request", "require"} /\ l.ems,
      srtp    |-> IF l.srtp = None THEN <<>> ELSE <<l.srtp>>,
      cert    |-> IF UsesPsk(c) THEN {} ELSE {OwnCertificate(c)},
      key     |-> KeyExchange(c, l, scheme),
      request |-> ~UsesPsk(c) /\ c.auth # "none" ]

\* The scheme is the first of the server's own list that fits its key: what the
\* client lists in its hello is not looked at.
ServerSchemes(c) ==
    IF UsesPsk(c) THEN {None} ELSE SelectedScheme(c, OwnCertificate(c))

ParseFlight2 ==
    LET h == sent["client"]  c == configs["server"]  l == local["server"] IN
    /\ phase["server"] = "flight2" /\ h.flight = 3
    /\ IF h.cookie = l.cookie /\ ServerSchemes(c) # {}
       THEN \E scheme \in ServerSchemes(c) :
              LET flight == ServerFlight(c, l, scheme) IN
              /\ Sends("server", flight)
              /\ Keeps("server", <<h, flight>>)
              /\ Become("server", "flight4")
              /\ UNCHANGED <<configs, local>>
       ELSE Refuse("server")

-----------------------------------------------------------------------------
(* The client's flight: flights 3 and 5                                    *)

HintOf(f) == IF f.key.hint = None THEN Empty ELSE f.key.hint

\* Mutant of Flight3Accepts: the client does not insist on what it requires.
Flight3AcceptsPlain(f, c) ==
    /\ f.srtp # <<>> => MatchingProfile(f.srtp, c.srtp) # {}
    /\ c.srtp # <<>> => f.srtp # <<>>
    /\ f.suite \in ToSet(LocalSuites(c))
    /\ UsesPsk(c) => c.psk[HintOf(f)] # "refused"

\* Flight3::parse()
Flight3Accepts(f, c) ==
    /\ f.srtp # <<>> => MatchingProfile(f.srtp, c.srtp) # {}
    /\ c.ems = "require" => f.ems
    /\ c.srtp # <<>> => f.srtp # <<>>
    /\ f.suite \in ToSet(LocalSuites(c))
    /\ UsesPsk(c) => c.psk[HintOf(f)] # "refused"

\* Mutant of Agreed: the client takes its own first profile.
AgreedOwn(f, c, l) ==
    LET mine == KeyPair("client", f.key.keypair.curve)
    IN [l EXCEPT !.suite = f.suite,
                 !.srtp = IF f.srtp = <<>> THEN None ELSE c.srtp[1],
                 !.ems = f.ems /\ c.ems # "disable",
                 !.peer = f.cert,
                 !.requested = f.request,
                 !.keypair = IF UsesPsk(c) THEN None ELSE mine,
                 !.identity = IF UsesPsk(c) THEN HintOf(f) ELSE None,
                 !.secret = IF UsesPsk(c) THEN PskSecret(c.psk[HintOf(f)])
                            ELSE SharedSecret(mine, f.key.keypair)]

Agreed(f, c, l) ==
    LET mine == KeyPair("client", f.key.keypair.curve)
    IN [l EXCEPT !.suite = f.suite,
                 !.srtp = IF f.srtp = <<>> THEN None ELSE f.srtp[1],
                 !.ems = f.ems /\ c.ems # "disable",
                 !.peer = f.cert,
                 !.requested = f.request,
                 !.keypair = IF UsesPsk(c) THEN None ELSE mine,
                 !.identity = IF UsesPsk(c) THEN HintOf(f) ELSE None,
                 !.secret = IF UsesPsk(c) THEN PskSecret(c.psk[HintOf(f)])
                            ELSE SharedSecret(mine, f.key.keypair)]

\* Mutant of ServerTrusted: the callback replaces the roots.
ServerTrustedByCallback(f, c, l) ==
    UsesPsk(c) \/
    \E cert \in l.peer :
        /\ f.key.scheme \in ToSet(LocalSchemes(c))
        /\ SignatureValid(f.key.scheme, f.key.signature, cert, KeyMessage(f.key.keypair))
        /\ cert \notin c.refuses

\* initialize_cipher_suite(): who the server is.
ServerTrusted(f, c, l) ==
    UsesPsk(c) \/
    \E cert \in l.peer :
        /\ f.key.scheme \in ToSet(LocalSchemes(c))
        /\ SignatureValid(f.key.scheme, f.key.signature, cert, KeyMessage(f.key.keypair))
        /\ c.skipVerify \/ ChainValid(cert, c.roots)
        /\ cert \notin c.refuses

\* Certificate and ClientKeyExchange, that session_hash() covers.
ClientKeys(c, l) ==
    [ requested |-> l.requested,
      cert |-> IF l.requested /\ c.certs # <<>> THEN {OwnCertificate(c)} ELSE {},
      keypair |-> l.keypair,
      identity |-> IF UsesPsk(c) THEN c.hint ELSE None ]

\* CertificateVerify, as a set of at most one.
MustVerify(c, l) == l.requested /\ c.certs # <<>>
ClientSchemes(c, l) ==
    IF MustVerify(c, l) THEN SelectedScheme(c, OwnCertificate(c)) ELSE {None}
CertificateVerify(c, l, scheme, transcript) ==
    IF MustVerify(c, l)
    THEN {[scheme |-> scheme, signature |-> Signature(OwnCertificate(c), transcript)]}
    ELSE {}

ClientFlight(c, l, scheme, transcript) ==
    LET verify == CertificateVerify(c, l, scheme, transcript) IN
    [ flight |-> 5, keys |-> ClientKeys(c, l), verify |-> verify,
      finished |-> VerifyData(l.master, <<transcript, verify>>),
      master |-> l.master ]      \* the key that the Finished is encrypted with

ParseFlight3 ==
    LET f == sent["server"]  c == configs["client"]
        l == Agreed(f, c, local["client"])
        t == Append(cache["client"], f) \o << ClientKeys(c, l) >>
        ready == [l EXCEPT !.master = MasterSecret(l.ems, l.secret, t)]
    IN
    /\ phase["client"] = "flight3" /\ f.flight = 4
    /\ IF /\ Flight3Accepts(f, c)
          /\ ServerTrusted(f, c, l)
          /\ ClientSchemes(c, l) # {}
       THEN \E scheme \in ClientSchemes(c, l) :
              /\ Learns("client", ready)
              /\ Keeps("client", t)
              /\ Sends("client", ClientFlight(c, ready, scheme, t))
              /\ Become("client", "flight5")
              /\ UNCHANGED configs
       ELSE Refuse("client")

-----------------------------------------------------------------------------
(* The server ends: flights 4 and 6                                        *)

\* Mutant of Proven: a CertificateVerify is awaited from every client.
ProvenAlways(f) == f.verify # {}

\* Flight4::parse() waits for a CertificateVerify if there is a certificate.
Proven(f) == f.keys.cert # {} => f.verify # {}

ClientProven(f, c, transcript) ==
    \A v \in f.verify :
        \E cert \in f.keys.cert :
            /\ v.scheme \in ToSet(LocalSchemes(c))
            /\ SignatureValid(v.scheme, v.signature, cert, transcript)
            /\ AtLeast(c.auth, "verifyIfGiven") => ChainValid(cert, c.roots)
            /\ cert \notin c.refuses

Accounted(f, c, l, transcript) ==
    LET secret == IF UsesPsk(c) THEN PskSecret(c.psk[f.keys.identity])
                  ELSE SharedSecret(l.keypair, f.keys.keypair)
    IN [l EXCEPT !.peer = f.keys.cert,
                 !.verified = f.verify # {} /\ AtLeast(c.auth, "verifyIfGiven"),
                 !.identity = f.keys.identity,
                 !.secret = secret,
                 !.master = MasterSecret(l.ems, secret, transcript)]

\* Mutant of ClientAuthorized: a certificate is demanded by one policy only.
ClientAuthorizedAny(c, l) ==
    /\ c.auth = "requireAny" => l.peer # {}
    /\ c.auth \in {"verifyIfGiven", "requireAndVerify"} => (l.peer # {} => l.verified)

\* The policy, looked at last.
ClientAuthorized(c, l) ==
    /\ c.auth \in {"requireAny", "requireAndVerify"} => l.peer # {}
    /\ c.auth \in {"verifyIfGiven", "requireAndVerify"} => (l.peer # {} => l.verified)

ServerEnd(f, l, transcript) ==
    [ flight |-> 6, master |-> l.master,
      finished |-> VerifyData(l.master, <<transcript, f.verify, f.finished>>) ]

ParseFlight4 ==
    LET f == sent["client"]  c == configs["server"]
        t == Append(cache["server"], f.keys)
        l == Accounted(f, c, local["server"], t)
    IN
    /\ phase["server"] = "flight4" /\ f.flight = 5
    /\ Proven(f)
    /\ IF ~ClientProven(f, c, t) \/ (UsesPsk(c) /\ c.psk[f.keys.identity] = "refused")
       THEN Refuse("server")
       ELSE IF f.master # l.master
       THEN UsesPsk(c) /\ Refuse("server")   \* otherwise the record is dropped
       ELSE IF ~ClientAuthorized(c, l) THEN Refuse("server")
       ELSE /\ Learns("server", l)
            /\ Keeps("server", t)
            /\ Sends("server", ServerEnd(f, l, t))
            /\ Become("server", "done")
            /\ UNCHANGED configs

(* The client ends: flight 5                                               *)

ParseFlight5 ==
    LET f == sent["server"]  l == local["client"]  mine == sent["client"] IN
    /\ phase["client"] = "flight5" /\ f.flight = 6
    /\ IF f.finished = VerifyData(l.master, <<cache["client"], mine.verify, mine.finished>>)
       THEN /\ Become("client", "done")
            /\ UNCHANGED <<configs, local, cache, sent>>
       ELSE Refuse("client")

Step ==
    \/ ParseFlight0 \/ ParseFlight1 \/ ParseFlight2
    \/ ParseFlight3 \/ ParseFlight4 \/ ParseFlight5
    \/ \E s \in Sides : AlertArrives(s)

Next == Step \/ \E s \in Sides : New(s)

Spec == Init /\ [][Next]_vars /\ WF_vars(Next)

-----------------------------------------------------------------------------
(* Properties                                                              *)

\* Every variable has its type; what is chosen is chosen from what was offered.
TypeOK ==
    /\ configs \in [Sides -> Configs]
    /\ phase \in [Sides -> {"new", "flight0", "flight1", "flight2", "flight3",
                            "flight4", "flight5", "done", "failed", "invalid"}]
    /\ \A s \in Sides :
         /\ local[s].suite \in PskSuites \cup EcdheSuites \cup {None}
         /\ local[s].srtp \in {"srtp1", "srtp2", None}
         /\ local[s].ems \in BOOLEAN
         /\ local[s].peer \subseteq Certificates

Chosen(s) == [suite |-> local[s].suite, srtp |-> local[s].srtp, ems |-> local[s].ems,
              master |-> local[s].master]

\* A client whose handshake succeeds has the cipher suite, SRTP profile, extended
\* master secret and keys of the server, which has finished too, and both of them
\* listed the suite and the profile: each side chooses in another flight, from
\* another list (flight0.rs, flight3.rs, flight5.rs).
ParametersAgree ==
    phase["client"] = "done" =>
        /\ phase["server"] = "done"
        /\ Chosen("client") = Chosen("server")
        /\ \A s \in Sides :
             /\ local[s].suite \in ToSet(LocalSuites(configs[s]))
             /\ local[s].srtp \in ToSet(configs[s].srtp) \cup {None}

\* A client that does not use a PSK takes keys into use only with the server whose
\* certificate its roots vouch for (unless it was told to skip that) and its
\* callback accepts, though the secret has been computed before either is asked
\* (flight3.rs, initialize_cipher_suite() in flight5.rs).
ServerAuthenticated ==
    LET c == configs["client"] IN
    phase["client"] \in {"flight5", "done"} /\ ~UsesPsk(c) =>
        /\ local["client"].peer = {OwnCertificate(configs["server"])}
        /\ \A cert \in local["client"].peer :
             /\ c.skipVerify \/ ChainValid(cert, c.roots)
             /\ cert \notin c.refuses

\* The server finishes only with a client that meets client_auth: the checks are
\* made in three places of flight4.rs, of which some depend on a message that the
\* client may leave out.
ClientAuthenticated ==
    LET c == configs["server"]  peer == local["server"].peer IN
    phase["server"] = "done" =>
        /\ c.auth \in {"requireAny", "requireAndVerify"} => peer # {}
        /\ \A cert \in peer :
             /\ cert = OwnCertificate(configs["client"])
             /\ AtLeast(c.auth, "verifyIfGiven") => ChainValid(cert, c.roots)
             /\ cert \notin c.refuses

\* Neither side ends up without an extension that it requires, even if it is the
\* other side that leaves it out.
RequirementsMet ==
    /\ \A s \in Sides :
         phase[s] = "done" => (configs[s].ems = "require" => local[s].ems)
    /\ phase["client"] = "done" =>
         (configs["client"].srtp # <<>> => local["client"].srtp # None)

\* When a handshake can succeed, in terms of the two configurations only.  A key
\* signs in one way whatever scheme is named: an ECDSA one, which is of P-256, with
\* SHA-256 (generate_key_signature() in crypto/mod.rs).
Usable(scheme, key) ==
    \/ scheme.signature = "ed25519" /\ key = "ed25519"
    \/ scheme = Scheme("sha256", "ecdsa") /\ key = "ecdsa"

\* Some scheme that both list, in whatever place, can be used with the signer's key.
Speaks(signer, verifier) ==
    \E x \in ToSet(LocalSchemes(signer)) \cap ToSet(LocalSchemes(verifier)) :
        Usable(x, OwnCertificate(signer).key)

Welcome(c, s, verify) ==      \* c's certificate, where s looks at it
    /\ OwnCertificate(c) \notin s.refuses
    /\ verify => OwnCertificate(c).issuer \in s.roots

\* What does not depend on schemes.  A server that has SRTP profiles takes a client
\* that has none, as test_srtp_configuration() of conn_test.rs has it.
Matching(c, s) ==
    /\ ConfigValid("client", c) /\ SchemesValid(c)
    /\ ConfigValid("server", s) /\ SchemesValid(s)
    /\ ToSet(LocalSuites(c)) \cap ToSet(LocalSuites(s)) # {}
    /\ {c.ems, s.ems} # {"require", "disable"}
    /\ c.srtp # <<>> => ToSet(c.srtp) \cap ToSet(s.srtp) # {}
    /\ IF UsesPsk(s)
       THEN /\ c.psk[IF s.hint = None THEN Empty ELSE s.hint] = s.psk[c.hint]
            /\ s.psk[c.hint] # "refused"
            /\ s.auth \notin {"requireAny", "requireAndVerify"}
       ELSE /\ Welcome(s, c, ~c.skipVerify)
            /\ \/ s.auth = "none"
               \/ c.certs = <<>> /\ s.auth \in {"request", "verifyIfGiven"}
               \/ c.certs # <<>> /\ Welcome(c, s, s.auth \in {"verifyIfGiven", "requireAndVerify"})

\* Who has to sign, and for whom.
Signed(c, s) ==
    IF UsesPsk(s) THEN {}
    ELSE IF s.auth # "none" /\ c.certs # <<>> THEN {<<s, c>>, <<c, s>>} ELSE {<<s, c>>}

Compatible(c, s) == Matching(c, s) /\ \A p \in Signed(c, s) : Speaks(p[1], p[2])

\* The first scheme that a signer lists for its key is one that it shares and can use.
FirstShared(signer, verifier) ==
    \A x \in SelectedScheme(signer, OwnCertificate(signer)) :
        x \in ToSet(LocalSchemes(verifier)) /\ Usable(x, OwnCertificate(signer).key)

InOrder(c, s) == \A p \in Signed(c, s) : FirstShared(p[1], p[2])

\* The outcome is the one the configurations call for: no combination of them is
\* accepted by one end and refused or left hanging by the other.  Success is never
\* undue; a refusal is due unless the schemes are listed in an order that the
\* choice by the signer's list alone (select_signature_scheme()) cannot cope with.
Ended(s) == phase[s] \in {"done", "failed", "invalid"}
OutcomeAsConfigured ==
    LET c == configs["client"]  s == configs["server"] IN
    \A side \in Sides : Ended(side) =>
        /\ phase[side] = "done" => Compatible(c, s)
        /\ Compatible(c, s) /\ InOrder(c, s) => phase[side] = "done"

\* "Find compatible signature scheme" (flight4.rs:601, flight5.rs:406), which "MUST"
\* be a pair that the peer has listed (crypto/mod.rs:255): where both ends list a
\* scheme that the signer's key can use, neither is refused.
NoNeedlessRefusal ==
    \A side \in Sides : Ended(side) /\ Compatible(configs["client"], configs["server"])
                          => phase[side] = "done"

\* Two valid ends settle, on success or on an error: neither waits for a message
\* that the other, by its configuration, never sends.
Settles ==
    <>(\A s \in Sides : Ended(s) \/ phase[Peer(s)] = "invalid")
=============================================================================
