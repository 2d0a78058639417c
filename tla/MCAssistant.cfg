SPECIFICATION AssistantSpec
CONSTANTS
    Session = {s1}
    Turn = {q1, q2}
    Model = {m1, m2}
    Object = {o1, o2}
    Box = {h1, h2}
    MaxPosts = 2
    MaxKeys = 1
    MaxSignals = 1
    MaxInits = 2
    None = None
    Project = {p1}
    MaxSends = 2
    MaxGeneration = 3
    MaxLoads = 1
    NoChat = NoChat
    Replica = {h1, h2}
    Redis = Redis
    ApiKey = {m1, m2}
    Ws = Ws
    Call = {q1, q2}
    Tier = {free, pro}
    Limit = 1
    MaxWindows = 2
SYMMETRY Interchangeable
INVARIANTS
      KeyFresh FlagFollowsLatest ClosedStaysClosed
    PassedWithinLimit
PROPERTIES DeadStreamsAreSilent
CHECK_DEADLOCK FALSE
