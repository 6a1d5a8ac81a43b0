SPECIFICATION FairCacheSpec
CONSTANTS
    ApiPod = {p1}
    Key = {k1}
    Request = {r1}
    Kinds = {"generic", "platform", "identity", "relay"}
    NoEntry = NoEntry
    TTL = 1
    MaxEdits = 1
    MaxClears = 1
    MaxErrors = 1
INVARIANTS OnlyOverlapsAreStale PersonalStaysOut
PROPERTY AnswersConverge
CHECK_DEADLOCK FALSE
