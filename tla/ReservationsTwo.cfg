SPECIFICATION Spec
CONSTANTS
    g1 = g1
    g2 = g2
    g3 = g3
    p1 = p1
    p2 = p2
    Groups <- MCGroups
    Training <- MCTraining
    Home <- MCHome
    Legacy = {}
    MinTasks = 1
    MaxTasks = 1
    Procs = {p1, p2}
    Second = 2
    Commands = 3
    Kills = 0
    NoFile = NoFile
INVARIANTS HoldoutUnseen
