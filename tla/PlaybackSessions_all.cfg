SPECIFICATION Spec
CONSTANTS
    p1 = p1
    p2 = p2
    l1 = l1
    l2 = l2
    c1 = c1
    c2 = c2
    None = None
    Playbacks <- TwoPlaybacks
    Logins <- TwoLogins
    Calls <- TwoCalls
    Ordinary = TRUE
    MaxTrouble = 1
INVARIANTS
    RegistryAgrees
    OnePlayback
PROPERTIES
    RevocationsAreFounded
    RevokedLoginsLoseTheirPlayback
