-------------------------- MODULE MCDtlsHandshake --------------------------
EXTENDS DtlsHandshake
\* A post-quantum group that the crate does not have, and X25519.
MCOffers == {<<"X25519MLKEM768", "X25519">>, <<"X25519MLKEM768">>}
=============================================================================
