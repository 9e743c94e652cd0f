SPECIFICATION Spec
CONSTANTS
    o1 = o1
    o2 = o2
    x1 = x1
    g1 = g1
    g2 = g2
    s1 = s1
    c1 = c1
    c2 = c2
    None = None
    Operations <- TwoOperations
    Sessions <- OneSession
    SessionOf <- InOneSession
    Calls <- TwoCalls
    Subjects <- TwoSubjects
    Sources <- OneSource
    MaxTrouble = 1
SYMMETRY Alike
INVARIANTS
    TokensBelongToAccount
    SourcesWereVerified
PROPERTY AccountChangesWereAsked
