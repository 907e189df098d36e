SPECIFICATION DecisionSpec
CONSTANTS
    None = None
    Observations <- MCObservations
    Pressures <- MCPressures
    Now = 3
    Grace = 2
    WarmWindow = 1
    WarmCap = 3
    ColdCap = 3
    PrefixCap = 2
    Passes = 2
    Servers <- MCServers
    Replies <- MCReplies
    OneToken <- MCOneToken
    History <- MCHistory
    Suffix <- MCSuffix
    Other <- MCOther
    BatchSize = 1
    NPredict = 2
    MaxForeign = 1
    Keys <- MCKeys
    Outcomes <- MCOutcomes
    Draws <- MCDraws
    Extras <- MCExtras
    Unit = 2
    RatioUnit = 12
    MaxPairs = 3
    MaxExtras = 2
    Floored = {"long_agent_retention", "c8_aggregate_tok_s"}
    Flags = {"stable_overnight_c8"}
    Values <- MCValues
    Thresholds <- MCThresholds
    GateRecords <- MCGateRecords
    LevelRecords <- MCLevelRecords
    FirstRecords <- MCFirst
    MaxFiled = 8
    MaxMeasured = 2
    AllowedTools = {"read", "bash"}
    Schemas <- MCSchemas
    Generations <- MCGenerations
    MaxGenerations = 4
    Digests = {2, 13}
    FirstInputs <- MCFirstInputs
    Orders <- MCOrders
    Judgments <- MCJudgments
    MaxInputs = 8
    MaxJudgments = 2
    Problems <- MCProblems
    ExactMax = 10
    ConfigMax = {2, 10}
    SwapPasses = {1, 3}
    PartLists <- MCPartLists
    Schedules <- MCSchedules
    PruneBudgets = {0, 1, 2, 4}
    Scale = 12
INVARIANTS
    VictimsInOrder DecisionHolds HarnessDecides
    NothingFavoured NumbersAgree
    VerdictIsHonest LevelsBacked
    TurnsDecide SelectionHonest SweepSound
PROPERTIES FailuresStay CasesSound
