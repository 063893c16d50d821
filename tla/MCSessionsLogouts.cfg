\* Two logouts of one account, one of them slow between its read and its write.
SPECIFICATION SessionsSpec
CONSTANTS
    Requests = {r1, r2}
    MaxTokens = 3
    MaxVersion = 3
SYMMETRY Anyone
INVARIANTS
    RevokedStayRevoked
