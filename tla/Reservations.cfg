SPECIFICATION Spec
CONSTANTS
    g1 = g1
    g2 = g2
    g3 = g3
    p1 = p1
    p2 = p2
    Groups <- MCGroups
    Training <- MCTraining
    Home <- MCHome
    Legacy <- MCLegacy
    MinTasks = 1
    MaxTasks = 1
    Procs = {p1}
    Second = 1
    Commands = 4
    Kills = 1
    NoFile = NoFile
INVARIANTS BanksWellFormed
PROPERTIES MigrationsKeep FrozenOnlyRestored PlacesKept
