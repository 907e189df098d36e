SPECIFICATION Spec
CONSTANTS
    c1 = c1  c2 = c2  lb = lb  p1 = p1  p2 = p2
    Partial = Partial  Absent = Absent
    Procs = {p1, p2}
    Temps = {tmp1, tmp2}
    Contents = {c1, c2}
    Secret = {c2}
    Labels = {lb}
    Creates <- MCCreates
    Limit <- MCPair
INVARIANTS CommitPoint
