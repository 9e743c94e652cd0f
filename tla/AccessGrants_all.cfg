SPECIFICATION FairSpec
CONSTANTS
    Users = {u1, u2}
    Logins = {s1, s2}
    Grants = {g1}
    Requests = {r1}
    Updates = {w1}
    MaxTrouble = 1
    None = None
INVARIANT GrantsFollowTheirLogin
PROPERTIES
    ExternalPlaybackSurvivesLogout
    StreamsEnd
CHECK_DEADLOCK FALSE
