SPECIFICATION BuildSpec
CONSTANTS
    None = None
    Layers <- MCLayers
    NExperts = 3
    TopK = 2
    Projections <- MCProjections
    Jobs <- MCJobs
    Target = 800
    Tolerance = 16
    b1 = b1
    b2 = b2
    b3 = b3
    t1 = t1
    t2 = t2
    NoText = NoText
    Nobody = Nobody
    Builders <- MCBuilders
    Texts <- MCTexts
    Choice <- MCChoice
    MaxKills = 1
    MaxEdits = 1
    MaxRetries = 1
    Tensors <- MCTensors
    Block = 4
    MinExponent <- MCMinExponent
    MaxExponent = 6
    MaxZero = 127
    c1 = c1
    c2 = c2
    lb = lb
    p1 = p1
    p2 = p2
    Partial = Partial
    Absent = Absent
    Procs = {p1}
    Temps = {tmp1, tmp2}
    Contents = {c1, c2}
    Secret = {c2}
    Labels = {lb}
    Creates <- MCCreates
    Limit <- MCLimit
INVARIANTS
    PlanFollowsMap PlanClosed DescriptionsAgree
    OneOwnMap CodecHonest ManifestHonest DamageCaught
PROPERTIES NeverClobbers PublishedUntouched PreflightSuffices
