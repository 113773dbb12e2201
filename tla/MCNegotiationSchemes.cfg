SPECIFICATION Spec
CONSTANTS
    Pairings <- SignerPairings
    Issuers <- CAs
    Identities <- Ids
INVARIANT NoNeedlessRefusal
CHECK_DEADLOCK FALSE
