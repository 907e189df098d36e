---------------------------- MODULE SlotRestore ----------------------------
(***************************************************************************)
(* scripts/state_restore_harness.py against a server slot.  The harness    *)
(* compares a continuation of a hot slot with the same continuation after  *)
(* save, erase and restore, reading the server's global token counters     *)
(* around every request.  The server is external: what is modelled of it   *)
(* is what the harness and patches/strix-slot-restore-checkpoints.patch    *)
(* say, the two defects the patch repairs included.  Another client may    *)
(* send the server a request between any two calls of the harness.         *)
(***************************************************************************)
EXTENDS Integers, Sequences, SequencesExt

CONSTANTS
  Servers,     \* [clears, checkpoints, ram, logits : BOOLEAN]
  Replies,     \* what may be generated: non-empty, at most NPredict tokens
  OneToken,    \* what is generated when one token is asked for
  History, Suffix,
  Other,       \* the prompt of the other client
  BatchSize, NPredict, MaxForeign

Boundary == 1  \* the last token of a pass is fed again (replay_boundary_tokens)

\* Whatever is asked or answered is a text of tokens.
Texts == Replies \cup {OneToken, History, Suffix, Other}
Tokens == UNION {Range(s) : s \in Texts}
ASSUME TextsAssumption == Texts \subseteq Seq(Tokens)
ASSUME ServersAssumption ==
  Servers \subseteq [clears : BOOLEAN, checkpoints : BOOLEAN, ram : BOOLEAN, logits : BOOLEAN]
ASSUME NumbersAssumption == BatchSize \in Nat /\ NPredict \in Nat \ {0} /\ MaxForeign \in Nat
ASSUME RepliesAssumption == /\ \A r \in Replies : Len(r) \in 1 .. NPredict
                            /\ Len(OneToken) = 1
ASSUME OtherAssumption == Other # <<>> /\ History # <<>> /\ Head(Other) # Head(History)

VARIABLES
  server,      \* how the server was built and started
  probing,     \* the variant asks for the cold probe
  slot,        \* [tokens, cells, live]: bookkeeping, KV cells, reusable window
  ram,         \* the prompt a RAM cache still holds
  file,        \* the snapshot
  counter,     \* llamacpp:prompt_tokens_total
  step, stage, before,
  seen,        \* what the harness remembers of its requests
  failed,      \* the checks that failed
  foreign      \* the steps another client's request fell into or followed

slotVars == <<server, probing, slot, ram, file, counter, step, stage, before, seen, failed, foreign>>

Order == <<"baseline", "erase_initial", "warm", "save", "hot", "erase_after_hot", "cold_probe",
           "restore", "restored", "metrics", "erase_final", "done">>
Readings == {"baseline", "metrics"}  \* steps that read the counters once
Completions == {"warm", "hot", "cold_probe", "restored"}
StepNames == {Order[i] : i \in DOMAIN Order} \cup {"error"}
Ended == step \in {"done", "error"}

\* Nothing is remembered of a step that was not taken.
NoReply == [prefill |-> 0, base |-> <<>>, reply |-> <<>>]
Unseen == [requests |-> [s \in Completions |-> NoReply], baseline |-> 0, sum |-> 0,
           saved |-> 0, restored |-> 0, erased |-> 0]

Empty == [tokens |-> <<>>, cells |-> <<>>, live |-> TRUE]
Prefix(s, n) == SubSeq(s, 1, n)

\* Common prefix of what a slot holds and a prompt.
Shared(held, prompt) ==
  CHOOSE n \in 0 .. Len(prompt) :
    /\ n <= Len(held) /\ Prefix(held, n) = Prefix(prompt, n)
    /\ n < Len(held) /\ n < Len(prompt) => held[n + 1] # prompt[n + 1]

-----------------------------------------------------------------------------
(* The server                                                              *)

\* Without a live window the checkpoint search fails and all is computed
\* again; the last token of a prompt always is.
Reused(held, prompt) ==
  LET n == Shared(held.tokens, prompt)
  IN  IF ~held.live THEN 0 ELSE IF n = Len(prompt) THEN n - Boundary ELSE n

\* A cell says which request computed it.
Cells(prompt, by) == [i \in DOMAIN prompt |-> [token |-> prompt[i], by |-> by]]

\* One completion: the reply follows from the cells the request starts from.
Complete(prompt, by, reply) ==
  LET base == IF Shared(ram.tokens, prompt) > Shared(slot.tokens, prompt) THEN ram ELSE slot
      past == Reused(base, prompt)
      all  == prompt \o reply
  IN  /\ slot' = [tokens |-> Front(all),
                  cells  |-> Prefix(base.cells, past)
                               \o SubSeq(Cells(Front(all), by), past + 1, Len(all) - Boundary),
                  live   |-> TRUE]
      /\ counter' = counter + Len(prompt) - past
      /\ by \in Completions =>
           seen' = [seen EXCEPT !.requests[by] =
                      [prefill |-> Len(prompt) - past, base |-> Prefix(base.cells, past),
                       reply |-> reply]]

Clear ==
  /\ slot' = Empty
  /\ ram' = IF server.ram THEN slot ELSE ram

\* llama_state_seq_load_file merges into the cells that are there.
Merged(cells) ==
  cells \o SubSeq(file.cells, Len(cells) + 1, Len(file.cells))

\* Mutant: the slot is not emptied before the load.
LoadedOver == [tokens |-> file.tokens, cells |-> Merged(slot.cells), live |-> server.checkpoints]
Loaded ==
  [tokens |-> file.tokens,
   cells  |-> Merged(IF server.clears THEN <<>> ELSE slot.cells),
   live   |-> server.checkpoints]

-----------------------------------------------------------------------------
(* The harness                                                             *)

Saved == History \o seen.requests["warm"].reply
PromptOf(s) == CASE s = "warm" -> History
                 [] s = "cold_probe" -> Saved
                 [] OTHER -> Saved \o Suffix
RepliesTo(s) == IF s = "cold_probe" THEN {OneToken} ELSE Replies
ReplayBound == BatchSize + NPredict + Boundary

Follows(s) == CHOOSE i \in DOMAIN Order : Order[i] = s
\* Mutant: a variant without probe goes to a step the script does not have.
AfterProbe == LET n == Order[Follows(step) + 1]
              IN  IF n = "cold_probe" /\ ~probing THEN "skipped" ELSE n
AfterStep == LET n == Order[Follows(step) + 1]
             IN  IF n = "cold_probe" /\ ~probing THEN "restore" ELSE n

\* Greedy decoding repeats a reply from the same cells.
SameBase(s, t) == /\ seen.requests[s].prefill = seen.requests[t].prefill
                  /\ seen.requests[s].base = seen.requests[t].base

ReadBefore ==
  /\ stage = "before" /\ ~Ended /\ step \notin Readings
  /\ before' = counter
  /\ stage' = "call"
  /\ UNCHANGED <<server, probing, slot, ram, file, counter, step, seen, failed, foreign>>

Called == stage' = "after" /\ UNCHANGED <<server, probing, step, before, failed, foreign>>

Erase ==
  /\ stage = "call" /\ step \in {"erase_initial", "erase_after_hot", "erase_final"}
  /\ Clear
  /\ seen' = [seen EXCEPT !.erased = Len(slot.tokens)]
  /\ Called /\ UNCHANGED <<file, counter>>

CompletePrompt ==
  /\ stage = "call" /\ step \in Completions
  /\ \E reply \in RepliesTo(step) : Complete(PromptOf(step), step, reply)
  /\ step = "restored" /\ seen'.requests["restored"].prefill = seen.requests["hot"].prefill
       /\ seen'.requests["restored"].base = seen.requests["hot"].base
     => seen'.requests["restored"].reply = seen.requests["hot"].reply
  /\ Called /\ UNCHANGED <<ram, file>>

Save ==
  /\ stage = "call" /\ step = "save"
  /\ file' = slot
  /\ seen' = [seen EXCEPT !.saved = Len(slot.tokens)]
  /\ Called /\ UNCHANGED <<slot, ram, counter>>

Restore ==
  /\ stage = "call" /\ step = "restore"
  /\ slot' = Loaded
  /\ seen' = [seen EXCEPT !.restored = Len(file.tokens)]
  /\ Called /\ UNCHANGED <<ram, file, counter>>

\* The assertions made once a request has been answered.
Expected(s) == Len(Saved \o Suffix) + Len(seen.requests[s].reply) - Boundary
Bounded(s) == seen.requests[s].prefill \in Len(Suffix) .. Len(Suffix) + ReplayBound
Delta == counter - before

AnswerChecks ==
  CASE step = "warm" -> /\ seen.requests[step].prefill = Len(History)
                        /\ Delta = Len(History)
    [] step = "save" -> seen.saved = Len(Saved) - Boundary /\ Delta = 0
    [] step \in {"hot", "restored"} -> Bounded(step) /\ Delta = seen.requests[step].prefill
    [] step = "erase_after_hot" -> seen.erased = Expected("hot") /\ Delta = 0
    [] step = "cold_probe" -> seen.requests[step].prefill = Len(Saved)
    [] step = "restore" -> seen.restored = seen.saved /\ Delta = 0
    [] step = "erase_final" -> seen.erased = Expected("restored") /\ Delta = 0
    [] OTHER -> Delta = 0

\* Hot and restored arm side by side.  Cells that differ show in the logits
\* (the patch measured 0.017 against a tolerance of 0.001); a build that
\* returns none is compared by its tokens alone.
\* Mutant: replies are compared, prefill and logits are not.
SameTokens == seen.requests["hot"].reply = seen.requests["restored"].reply
Comparison ==
  /\ seen.requests["hot"].prefill = seen.requests["restored"].prefill
  /\ seen.requests["hot"].reply = seen.requests["restored"].reply
  /\ server.logits => SameBase("hot", "restored")

ReadAfter ==
  /\ stage = "after" /\ ~Ended
  /\ failed' = failed \cup (IF AnswerChecks THEN {} ELSE {step})
                      \cup (IF step = "restored" /\ ~Comparison THEN {"comparison"} ELSE {})
  /\ seen' = [seen EXCEPT !.sum = @ + Delta]
  /\ step' = AfterStep /\ stage' = "before"
  /\ UNCHANGED <<server, probing, slot, ram, file, counter, before, foreign>>

Baseline ==
  /\ stage = "before" /\ step = "baseline"
  /\ seen' = [seen EXCEPT !.baseline = counter]
  /\ step' = AfterStep
  /\ UNCHANGED <<server, probing, slot, ram, file, counter, stage, before, failed, foreign>>

\* Mutant: the sum of the requests is not compared with the total.
NoTotals == TRUE
Totals == counter - seen.baseline = seen.sum
Metrics ==
  /\ stage = "before" /\ step = "metrics"
  /\ failed' = failed \cup (IF Totals THEN {} ELSE {"metrics"})
  /\ step' = AfterStep
  /\ UNCHANGED <<server, probing, slot, ram, file, counter, stage, before, seen, foreign>>

\* A request, or a reading, that fails or times out ends the run where it
\* stands.
Abort ==
  /\ ~Ended
  /\ step' = "error"
  /\ UNCHANGED <<server, probing, slot, ram, file, counter, stage, before, seen, failed, foreign>>

\* The other client's own completion.
Intrude ==
  /\ ~Ended /\ Len(foreign) < MaxForeign
  /\ Complete(Other, "foreign", OneToken)
  /\ foreign' = Append(foreign, <<step, stage>>)
  /\ UNCHANGED <<server, probing, ram, file, step, stage, before, seen, failed>>

SlotRest == Ended /\ UNCHANGED slotVars

SlotInit ==
  /\ server \in Servers /\ probing \in BOOLEAN
  /\ slot = [tokens |-> Other, cells |-> Cells(Other, "foreign"), live |-> TRUE]
  /\ ram = Empty /\ file = Empty /\ counter = 0
  /\ step = "baseline" /\ stage = "before" /\ before = 0
  /\ seen = Unseen /\ failed = {} /\ foreign = <<>>

SlotNext == \/ Baseline \/ ReadBefore \/ Erase \/ CompletePrompt \/ Save \/ Restore \/ ReadAfter
            \/ Metrics \/ Abort \/ Intrude \/ SlotRest
SlotSpec == SlotInit /\ [][SlotNext]_slotVars
-----------------------------------------------------------------------------
(* Properties                                                              *)

SlotTypeOK ==
  /\ step \in StepNames /\ stage \in {"before", "call", "after"}
  /\ counter \in Nat /\ before \in 0 .. counter
  /\ failed \subseteq StepNames \cup {"comparison"}
  /\ slot.live \in BOOLEAN

\* A report without failures means what it says: the restored slot answered
\* from the very cells the hot slot answered from, and computed no more than
\* the suffix and the documented bound.  A build that returns no logits is
\* excepted: there the harness compares token ids alone.
OkMeansRestored ==
  (step = "done" /\ failed = {} /\ server.logits) =>
    SameBase("hot", "restored") /\ Bounded("restored")

\* With the cold probe no defect of the patch's header, and no RAM cache,
\* gets through (state_restore_harness.py:693-710, 735-760).
DefectsCaught ==
  (step = "done" /\ failed = {} /\ probing /\ server.logits /\ foreign = <<>>) =>
    server.clears /\ server.checkpoints /\ ~server.ram

\* A repaired server that nobody else uses passes every check, whatever is
\* generated.
NoFalseAlarm ==
  (server.clears /\ server.checkpoints /\ ~server.ram /\ foreign = <<>>) => failed = {}

\* A request of another client shows in the counters, except between the two
\* readings around the cold probe, whose own prefill is not compared with
\* them, and outside the readings.
Noticed(place) == /\ place[1] # "cold_probe" \/ place[2] = "before"
                  /\ place # <<"baseline", "before">>
                  /\ place # <<"erase_final", "before">>
ForeignNoticed ==
  (step = "done" /\ \E i \in DOMAIN foreign : Noticed(foreign[i])) => failed # {}

\* The bookkeeping of a slot describes its cells, also after a restore over a
\* slot that was filled: the patch empties the sequence first.
CellsMatchTokens ==
  server.clears =>
    /\ Len(slot.cells) = Len(slot.tokens)
    /\ \A i \in DOMAIN slot.cells : slot.cells[i].token = slot.tokens[i]

\* A report that passes means what it says: no defect, and no other client
\* within the readings, gets through the checks of the harness.
PassMeansRestored == SlotTypeOK /\ OkMeansRestored /\ DefectsCaught /\ ForeignNoticed

\* On a repaired server a slot's bookkeeping describes its cells, and the
\* harness, if alone, finds nothing to complain of.
RepairedPasses == NoFalseAlarm /\ CellsMatchTokens

\* The harness tells repaired servers from the others (state_restore_harness.py, check).
HarnessDecides == PassMeansRestored /\ RepairedPasses
=============================================================================
