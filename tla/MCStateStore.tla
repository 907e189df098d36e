---------------------------- MODULE MCStateStore ----------------------------
(* Small instances of StateStore: command sets and event bounds per run.   *)
EXTENDS StateStore, TLC, FiniteSets

CONSTANTS p1, p2, ns, f1, f2, s1, s2, tok, c1, c2, inA, inB, out, lost, dest, other

MCIdentity(f) == [namespace |-> ns, fingerprint |-> f]

MCPut(session, f, state, output) ==
    [op |-> "put", identity |-> MCIdentity(f), session |-> session,
     generation |-> 0, tokens |-> tok, state |-> state, output |-> output]
MCGet(session, f, output) ==
    [op |-> "get", id |-> <<ns, session, 0>>, identity |-> MCIdentity(f),
     output |-> output]
MCStart == (inA :> c1) @@ (inB :> c2) @@ (out :> Absent) @@ (lost :> Absent)
           @@ (dest :> Absent) @@ (other :> Absent)

(* Two payloads for one generation, the same payload for another session,  *)
(* and a generation asked for under another identity.                      *)
MCPuts == {MCPut(s1, f1, inA, out), MCPut(s1, f1, inB, out),
           MCPut(s1, f2, inA, out), MCPut(s2, f1, inA, out)}
MCGets == {MCGet(s1, f1, dest), MCGet(s1, f2, other)}
MCInspects == {[op |-> "inspect", id |-> <<ns, s1, 0>>]}
MCFewPuts == {MCPut(s1, f1, inA, out), MCPut(s1, f1, inB, out),
              MCPut(s2, f1, inA, out)}
MCOneGet == {MCGet(s1, f1, dest)}

MCBound(command, edit, rot, death, outage, tick) ==
    [command |-> command, edit |-> edit, rot |-> rot, death |-> death,
     outage |-> outage, tick |-> tick]
MCBudgets == {MCBound(3, 1, 0, 1, 0, 1), MCBound(3, 1, 1, 1, 0, 0),
              MCBound(3, 1, 0, 0, 2, 0)}
MCFair   == {MCBound(3, 1, 0, 1, 0, 0)}
MCReuse  == {MCBound(2, 0, 0, 1, 0, 0)}

MCSymmetry == Permutations(Clients)
=============================================================================
