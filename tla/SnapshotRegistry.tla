-------------------------- MODULE SnapshotRegistry --------------------------
(***************************************************************************)
(* What the state store promises its callers, with every command atomic:   *)
(* a registry keyed by (namespace, session, generation) that only grows,   *)
(* and a set of caller files that change only to registered bytes (get),   *)
(* to the receipt of a registered snapshot (put), or by the caller's hand. *)
(***************************************************************************)
EXTENDS Naturals

CONSTANTS
    Puts,       \* the put commands callers may issue
    Gets,       \* the get commands callers may issue
    Contents,   \* payloads
    Inputs,     \* caller files the callers themselves rewrite
    Start,      \* the caller files before the first command
    Ids,        \* snapshot ids
    Times,      \* clock readings, natural numbers of seconds
    Absent, Nil

VARIABLES
    registry,   \* [Ids -> snapshot rows or Nil]
    files       \* [caller file -> payload, receipt or Absent]

promised == <<registry, files>>

IdOf(a) == <<a.identity.namespace, a.session, a.generation>>

RowFor(a, c, t) ==
    [content |-> c, identity |-> a.identity, tokens |-> a.tokens,
     created |-> t, accessed |-> t]

Init ==
    /\ registry = [i \in Ids |-> Nil]
    /\ files = Start

(* A generation is registered once, with the payload read for it.          *)
Register(a) ==
    /\ registry[IdOf(a)] = Nil
    /\ \E c \in Contents, t \in Times :
          registry' = [registry EXCEPT ![IdOf(a)] = RowFor(a, c, t)]
    /\ UNCHANGED files

(* Afterwards only its access time moves, and only forwards.               *)
Access(i) ==
    /\ registry[i] # Nil
    /\ \E t \in Times : /\ t >= registry[i].accessed
                      /\ registry' = [registry EXCEPT ![i].accessed = t]
    /\ UNCHANGED files

(* A receipt states a registered snapshot exactly as it was requested.     *)
Acknowledge(a) ==
    LET row == registry[IdOf(a)] IN
    /\ row # Nil
    /\ row.identity = a.identity
    /\ row.tokens = a.tokens
    /\ \E t \in Times :
          /\ t <= row.accessed
          /\ files' = [files EXCEPT ![a.output] =
                          [id |-> IdOf(a), row |-> [row EXCEPT !.accessed = t]]]
    /\ UNCHANGED registry

(* A destination is replaced in one step, by the registered bytes, and     *)
(* only for a caller that named the registered identity.                   *)
Deliver(g) ==
    /\ registry[g.id] # Nil
    /\ registry[g.id].identity = g.identity
    /\ files' = [files EXCEPT ![g.output] = registry[g.id].content]
    /\ UNCHANGED registry

CallerWrites(f) ==
    /\ \E c \in Contents \cup {Absent} : files' = [files EXCEPT ![f] = c]
    /\ UNCHANGED registry

Next ==
    \/ \E a \in Puts : Register(a) \/ Acknowledge(a)
    \/ \E i \in Ids : Access(i)
    \/ \E g \in Gets : Deliver(g)
    \/ \E f \in Inputs : CallerWrites(f)

Spec == Init /\ [][Next]_promised
=============================================================================
