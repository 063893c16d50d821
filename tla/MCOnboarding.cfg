\* Two invites and failures: two requests in progress and three messages for one
\* address, or two messages, one at a time, for two addresses.
SPECIFICATION AllSpec
CONSTANTS
    ana = ana
    Addresses = {ana, bia}
    Verifications = {v1, v2, v3}
    Invites = {i1, i2}
    Requests = {t1, t2}
    Faults = TRUE
    None = None
    Anyone = Anyone
SYMMETRY Interchangeable
INVARIANTS
    OnboardingInv
PROPERTIES
    LatestLinkActivates
    FirstPasswordStays
    LinksKeepInviting
\* A finished account, and rows that run out, leave nothing to do.
CHECK_DEADLOCK FALSE
