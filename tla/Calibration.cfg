SPECIFICATION CalibrationSpec
CONSTANTS
    None = None
    Sessions <- MCSessions
    Harness <- MCHarness
    Repo <- MCRepo
    Prompt <- MCPrompt
    RefsIn <- MCRefsIn
    Fields <- MCFields
    Recorded <- MCRecorded
    Parts = {"pruning", "quant", "golden"}
    HomeOf <- MCHomeOf
    OldFrozen <- MCOldFrozen
    Oracles <- MCOracles
    EvidenceIndexes <- MCEvidenceIndexes
    MinBank = 1
    MaxBank = 1
    MaxHanded = 1
    EventKinds <- MCEventKinds
    TagsOf <- MCTagsOf
    McpTools = {}
    TestTools = {"pytest"}
    Cap = 4
    Window = 2
    LongSpan = 3
    WideSpan = 2
    ManyCalls = 2
    MaxEvents = 5
    Records <- MCRecords
    Splits = {"pruning", "quant", "golden"}
    Taxonomy = {"debugging", "shell", "git"}
    SplitWeight <- MCSplitWeight
    Anchor <- MCAnchor
    Unit = 4
    SpamWeight = 1
    MaxRecords = 4
    One = 2
    NonFinite = NonFinite
    NoLabel = NoLabel
    Unnamed = Unnamed
    code = code
    a1 = a1
    a2 = a2
    a3 = a3
    a4 = a4
    Nothing = Nothing
    Depth = 2
    Addresses = {a1, a2, a3, a4}
    Models <- MCModels
    Batches <- MCBatches
    Labels <- MCLabels
    Limit <- MCLimit
SYMMETRY MCSymmetry
INVARIANTS GroupsSound HoldoutApart EpisodesSound MixConserved RowsCounted StreamsMerge
PROPERTIES EpisodesStay
