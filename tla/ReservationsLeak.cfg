SPECIFICATION Spec
CONSTANTS
    g1 = g1
    g2 = g2
    g3 = g3
    p1 = p1
    p2 = p2
    Groups <- MCGroups
    Training <- MCTraining
    Home <- MCHome
    Legacy <- MCDefect
    MinTasks = 1
    MaxTasks = 1
    Procs = {p1}
    Second = 1
    Commands = 2
    Kills = 0
    NoFile = NoFile
INVARIANTS HoldoutUnseen
