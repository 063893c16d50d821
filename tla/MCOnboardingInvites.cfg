\* One address without an account, invited twice; nothing fails.
SPECIFICATION AllSpec
CONSTANTS
    ana = ana
    Addresses = {ana}
    Verifications = {v1, v2, v3}
    Invites = {i1, i2}
    Requests = {t1}
    Faults = FALSE
    None = None
    Anyone = Anyone
SYMMETRY Interchangeable
INVARIANT
    InvitesComeWithTheAccount
\* A finished account, and rows that run out, leave nothing to do.
CHECK_DEADLOCK FALSE
