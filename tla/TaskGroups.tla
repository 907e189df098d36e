----------------------------- MODULE TaskGroups -----------------------------
(* Which sessions worked on one underlying task (traces/identity.py), and  *)
(* what partition, freeze and the labelling sampler make of it: each       *)
(* groups the transcripts it finds and can parse on its day, and they meet *)
(* only in the ids of the groups.  Transcripts arrive and vanish between   *)
(* the runs.  A run is one step here: what overlaps and what is killed is  *)
(* in GoldenReservations.                                                  *)
EXTENDS Naturals, FiniteSets, Optional

CONSTANTS
    Sessions,     \* transcripts, numbered in the order of their path hashes
    Harness,      \* the harness of each
    Repo,         \* its working directory, or None
    Prompt,       \* its first user prompt, or None
    RefsIn,       \* the issue references in each prompt
    Fields,       \* what a harness may record: repo identifier, revision
    Recorded,     \* what each did record of them, or None
    Parts,        \* the partitions
    HomeOf,       \* the one the salted hash gives each task
    OldFrozen,    \* frozen assignments of an earlier tool
    Oracles,      \* the tasks of each oracle index an operator may supply
    EvidenceIndexes,     \* and the evidence indexes
    MinBank, MaxBank,  \* bounds of an executable bank
    MaxHanded     \* bound: sessions handed to the labeller

VARIABLES
    present,   \* the transcripts that a run would find and parse
    frozen,    \* frozen-assignments.json
    placed,    \* the assignments of task-assignments.json
    handed,    \* sessions the labeller has, with what the sampler knew of them
    bank       \* the frozen tasks with their fields, and the sessions kept for them

groupVars == <<present, frozen, placed, handed, bank>>

Holdout == "golden"

(* A group id is a hash of these; equal hashes are taken for equal tasks.  *)
Explicit(repo, ref) == [kind |-> "explicit", repo |-> repo, ref |-> ref]
Retry(harness, repo, prompt) ==
    [kind |-> "prompt", harness |-> harness, repo |-> repo, prompt |-> prompt]

Located  == {s \in Sessions : Repo[s] # None}
Prompted == {s \in Sessions : Prompt[s] # None}
Refs(s)  == IF s \in Prompted THEN RefsIn[Prompt[s]] ELSE {}
Linked   == {s \in Located : Refs(s) # {}}
Alike    == (Located \cap Prompted) \ Linked   \* nothing but the prompt to go by
LinksOf(s) == {Explicit(Repo[s], r) : r \in Refs(s)}
RetryOf(s) == Retry(Harness[s], Repo[s], Prompt[s])
Tasks    == (UNION {LinksOf(s) : s \in Linked}) \cup {RetryOf(s) : s \in Alike}
Placings == UNION {[S -> Parts] : S \in SUBSET Tasks}

ASSUME PathOrderAssumption == Sessions \subseteq Nat /\ IsFiniteSet(Sessions)
ASSUME TaskHashAssumption == HomeOf \in [Tasks -> Parts] /\ OldFrozen \subseteq Placings
ASSUME PlacingAssumption == \A f \in Placings : None # f
-----------------------------------------------------------------------------
(* build_task_groups of the transcripts S                                  *)

Lookalikes(s, S) == {t \in S \cap Alike : Repo[t] = Repo[s] /\ Prompt[t] = Prompt[s]}
(* Mutant: lookalikes are grouped, or quarantined, one harness at a time.  *)
PerHarness(S) == {}
(* Lookalikes of several harnesses, which nothing else links.              *)
Ambiguous(S) ==
    {s \in S \cap Alike : \E t \in Lookalikes(s, S) : Harness[t] # Harness[s]}
Quarantined(S) == (S \ Located) \cup (S \ Prompted) \cup Ambiguous(S)

GroupsOf(S) == (UNION {LinksOf(s) : s \in S \cap Linked})
                 \cup {RetryOf(s) : s \in (S \cap Alike) \ Ambiguous(S)}
Members(task, S) ==
    {s \in S : \/ s \in Linked /\ task \in LinksOf(s)
               \/ s \in Alike /\ task = RetryOf(s) /\ s \notin Ambiguous(S)}
(* Of the attempts with one prompt the first is kept.                      *)
Kept(task, S) ==
    {s \in Members(task, S) : \A t \in Members(task, S) : Prompt[t] = Prompt[s] => s <= t}
First(S) == CHOOSE s \in S : \A t \in S : s <= t
Telling(S, f) == {s \in S : Recorded[s][f] # None}
Value(task, S, f) ==
    LET told == Telling(Kept(task, S), f)
    IN  IF told = {} THEN None ELSE Recorded[First(told)][f]
-----------------------------------------------------------------------------
PartOf(t) == IF frozen # None /\ t \in DOMAIN frozen THEN frozen[t] ELSE HomeOf[t]
(* Mutant: the hash alone.                                                 *)
Rehash(S) == [t \in GroupsOf(S) |-> HomeOf[t]]
Assign(S) == [t \in GroupsOf(S) |-> PartOf(t)]

(* partition: the first one freezes what it assigns.                       *)
PlaceGroups ==
    /\ placed' = Assign(present)
    /\ frozen' = IF frozen = None THEN Assign(present) ELSE frozen
    /\ UNCHANGED <<present, handed, bank>>

(* The sampler knows the groups of a session from formulas of its own, and *)
(* takes those whose groups all lie in one partition; it leaves aside      *)
(* groups that are not assigned yet.                                       *)
Mapped(s, S) ==
    IF s \in Linked THEN LinksOf(s)
    ELSE IF s \in Alike /\ \A t \in Lookalikes(s, S) : Harness[t] = Harness[s]
      THEN {RetryOf(s)} ELSE {}
AssignedTo(s, S) == Mapped(s, S) \cap DOMAIN placed
(* Mutant: a session goes where any of its groups is.                      *)
AnyPartition(s, S) == {placed[t] : t \in AssignedTo(s, S)} \ {Holdout}
PartsOf(s, S) == {placed[t] : t \in AssignedTo(s, S)}
Frame(S) == {s \in S : \E p \in PartsOf(s, S) : p # Holdout /\ PartsOf(s, S) = {p}}
Sheet(s, S) == [session |-> s, tasks |-> AssignedTo(s, S),
                part |-> CHOOSE p \in PartsOf(s, S) : TRUE]
HandOut ==
    /\ placed # None
    /\ \E s \in Frame(present) : handed' = handed \cup {Sheet(s, present)}
    /\ Cardinality(handed') <= MaxHanded
    /\ UNCHANGED <<present, frozen, placed, bank>>

(* An evidence index is refused whole when it names an unknown task or a   *)
(* value without a pointer into the traces.                                *)
(* Mutant: without the pointer.                                            *)
Unpointed(index, S) == DOMAIN index \subseteq GroupsOf(S)
Usable(index, S) ==
    /\ DOMAIN index \subseteq GroupsOf(S)
    /\ \A t \in DOMAIN index : \A f \in Fields :
           index[t].value[f] # None => f \in index[t].pointed
(* Mutant: the evidence overrides.                                         *)
EvidenceWins(t, S, f, index) ==
    IF t \in DOMAIN index /\ index[t].value[f] # None THEN index[t].value[f]
    ELSE Value(t, S, f)
Filled(t, S, f, index) ==
    IF Value(t, S, f) = None /\ t \in DOMAIN index THEN index[t].value[f]
    ELSE Value(t, S, f)
Complete(S, oracles, index) ==
    {t \in GroupsOf(S) \cap oracles : \A f \in Fields : Filled(t, S, f, index) # None}
Bankable(S, oracles, index) ==
    LET ready == {t \in Complete(S, oracles, index) : HomeOf[t] = Holdout}
    IN  IF Cardinality(ready) \in MinBank .. MaxBank THEN ready ELSE {}
FreezeBank ==
    \E oracles \in Oracles, index \in EvidenceIndexes :
        /\ Usable(index, present)
        /\ bank' = [t \in Bankable(present, oracles, index) |->
                       [kept |-> Kept(t, present),
                        fields |-> [f \in Fields |-> Filled(t, present, f, index)]]]
        /\ UNCHANGED <<present, frozen, placed, handed>>

Arrive == \E s \in Sessions \ present :
    present' = present \cup {s} /\ UNCHANGED <<frozen, placed, handed, bank>>
Vanish == \E s \in present :
    present' = present \ {s} /\ UNCHANGED <<frozen, placed, handed, bank>>
-----------------------------------------------------------------------------
GroupInit ==
    /\ present = {} /\ handed = {} /\ bank = [t \in {} |-> None]
    /\ frozen \in OldFrozen \cup {None} /\ placed = frozen

GroupNext ==
    \/ Arrive \/ Vanish
    \/ PlaceGroups \/ HandOut \/ FreezeBank
GroupSpec == GroupInit /\ [][GroupNext]_groupVars
-----------------------------------------------------------------------------
(* The files hold assignments of tasks and the labeller what was sampled.  *)
GroupTypeOK ==
    /\ present \subseteq Sessions
    /\ (frozen = None \/ frozen \in Placings) /\ (placed = None \/ placed \in Placings)
    /\ \A h \in handed : h.session \in Sessions /\ h.tasks \subseteq Tasks
    /\ DOMAIN bank \subseteq Tasks

(* Every session is quarantined or belongs to a group, never both, and one *)
(* that names no issue belongs to a single group.                          *)
NobodyLost(S) ==
    \A s \in S :
        /\ s \in Quarantined(S) <=> \A t \in GroupsOf(S) : s \notin Members(t, S)
        /\ s \notin Linked =>
               \A t, u \in GroupsOf(S) : s \in Members(t, S) \cap Members(u, S) => t = u
(* Attempts with one prompt in one directory share their fate, and only an *)
(* issue brings sessions of two harnesses into one group.                  *)
NeverSplit(S) ==
    \A t \in GroupsOf(S) :
        LET M == Members(t, S) IN
        \A s, r \in S :
            /\ Repo[s] = Repo[r] /\ Prompt[s] = Prompt[r] => (s \in M <=> r \in M)
            /\ {s, r} \subseteq M /\ Harness[s] # Harness[r] => t.kind = "explicit"
(* A collapsed attempt is represented by exactly one that is kept.         *)
RetriesCollapse(S) ==
    \A t \in GroupsOf(S) : \A s \in Members(t, S) :
        /\ \E k \in Kept(t, S) : Prompt[k] = Prompt[s]
        /\ \A j, k \in Kept(t, S) : Prompt[j] = Prompt[k] => j = k
(* The sampler and the partition agree on who belongs where.               *)
SamplerAgrees(S) ==
    \A s \in S : Mapped(s, S) = {t \in GroupsOf(S) : s \in Members(t, S)}
(* Whatever transcripts there are, the groups of build_task_groups are     *)
(* tasks: nobody is lost, nothing is split, retries collapse, and the      *)
(* sampler's own formulas (map_sessions_to_groups) say the same.           *)
GroupsSound ==
    /\ GroupTypeOK /\ NobodyLost(present) /\ NeverSplit(present)
    /\ RetriesCollapse(present) /\ SamplerAgrees(present)

Shadowed == {t \in Tasks : frozen # None /\ t \in DOMAIN frozen /\ frozen[t] # HomeOf[t]}
(* What was handed out lies outside the holdout: a task the sampler saw    *)
(* assigned keeps that partition, through transcripts that come and go and *)
(* any number of runs, and is no task of the bank, unless an earlier tool  *)
(* took it from the holdout.                                               *)
HandedApart ==
    \A h \in handed :
        /\ h.part # Holdout
        /\ \A t \in h.tasks : placed # None /\ t \in DOMAIN placed => placed[t] = h.part
        /\ DOMAIN bank \cap h.tasks \subseteq Shadowed
(* A frozen task has every field, from a kept session when one recorded it *)
(* and else from evidence with a pointer (apply_evidence_index).           *)
BankGrounded ==
    \A t \in DOMAIN bank : \A f \in Fields :
        LET told == Telling(bank[t].kept, f) IN
        IF told # {}
          THEN \E s \in told : bank[t].fields[f] = Recorded[s][f]
          ELSE \E index \in EvidenceIndexes :
                   /\ t \in DOMAIN index /\ f \in index[t].pointed
                   /\ bank[t].fields[f] = index[t].value[f] /\ bank[t].fields[f] # None
(* The holdout stays apart, and what is frozen in it is grounded.          *)
HoldoutApart == HandedApart /\ BankGrounded

(* "The golden partition never enters observation corpora"                 *)
(* (scripts/labeling_pilot_sample.py): no session that was handed out      *)
(* belongs to a golden task.                                               *)
GoldenUnseen ==
    placed # None =>
        \A h \in handed : \A t \in DOMAIN placed :
            placed[t] = Holdout => t \notin LinksOf(h.session) \cup {RetryOf(h.session)}
=============================================================================
