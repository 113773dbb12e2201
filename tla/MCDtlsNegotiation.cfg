SPECIFICATION Spec
CONSTANTS
    Pairings <- MCPairings
    Issuers <- CAs
    Identities <- Ids
INVARIANTS
    TypeOK
    ParametersAgree
    ServerAuthenticated
    ClientAuthenticated
    RequirementsMet
    OutcomeAsConfigured
PROPERTY Settles
CHECK_DEADLOCK FALSE
