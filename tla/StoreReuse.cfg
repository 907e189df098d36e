SPECIFICATION Spec
CONSTANTS
    p1 = p1  p2 = p2  ns = ns  f1 = f1  f2 = f2  s1 = s1  s2 = s2  tok = tok
    c1 = c1  c2 = c2  inA = inA  inB = inB  out = out  lost = lost  dest = dest  other = other
    Absent = Absent  Nil = Nil
    Clients = {p1, p2}
    Namespaces = {ns}
    Fingerprints = {f1, f2}
    Sessions = {s1, s2}
    Generations = {0}
    Tokens = {tok}
    Contents = {c1, c2}
    Files = {inA, inB, out, lost, dest, other}
    NoDirectory = {lost}
    Start <- MCStart
    Puts <- MCFewPuts
    Gets <- MCOneGet
    Inspects <- MCInspects
    Limits <- MCReuse
INVARIANTS DurablePublication
