# Verification of mimo-halo-lab

TLA+ models of the parts of this repository that keep state, make decisions
over it, or can be interrupted half-way: TLC checks them on small instances and
TLAPS proves the main theorems for every value of the constants. Paths such as
`state_tier/store.py` are relative to `src/mimo_halo/`.

Contents: the system, the models, one section per component, findings, what is
not modelled, and the plan.

## The system

mimo-halo-lab prunes and quantises MiMo mixture-of-experts models for one
machine, and keeps the state of long-running sessions on NVMe. It is a set of
Python command-line tools; nothing runs as a daemon. Components talk through
files, so what makes them hard is what happens between two file operations:
another process, the caller, or a crash.

| Component | State it keeps | Operations | Interacts with | Hard behaviour | What makes it correct |
| --- | --- | --- | --- | --- | --- |
| State store, `state_tier/store.py` | SQLite index, content-addressed blobs, lock file | `put`, `get`, `inspect` | callers' state files, destinations and receipts; the slot-restore harness | concurrent CLIs, a state file rewritten under a put, processes killed between rename, fsync and commit, power loss, damaged blobs | a generation is registered once and never changes; a row names a blob that is on disk; a get delivers the registered bytes or nothing |
| Retention, `state_tier/retention.py` | none: a decision per observation | `decide` | a scheduler that applies the decisions | five selection loops over shared pools, ties, zero-byte entries, targets that cannot be met | protected sessions are never victims, priority and LRU order, caps hold after the decision, one action per session |
| Traces, `traces/` | `task-assignments.json`, `frozen-assignments.json`, `eligibility.json`, freeze manifest, audit | `partition`, `freeze`, `migrate-reservations` and the derived views | each other through those files | no lock, several files per command, a salt that changes, a crash between writes | a golden task never reaches a training partition; a frozen reservation never shrinks |
| Task identity and sessions, `traces/identity.py`, `traces/session.py` | none: each run groups the transcripts it finds | grouping, deduplication, episode segmentation, correlation | partitions, freeze, the sampler, which has formulas of its own | transcripts that come and go between runs, groups that become ambiguous, sessions of two tasks | everybody agrees on who belongs to what; every event in one episode, once |
| Labelling and calibration, `traces/labeling.py`, `traces/calibration.py`, `scripts/labeling_pilot_sample.py` | episode records, the sampling distribution, sample sheets | label, count mass, weigh cells, sample sessions | sessions, partitions | ties, cells without mass, records of no mass | labels are stable; no mass is lost; a weight meets its target; nothing of the holdout is labelled |
| Artifact root, `artifacts.py` | one directory per artifact | `create_artifact`, `verify_artifact` | builder, evaluation, baselines | many files, manifest last, a crash leaves content that a retry refuses | a directory with a manifest is complete and verifies |
| Candidate builder, `build/candidate.py`, `build/__main__.py` | output directory, published prune map | `build_candidate`, `_publish_map` | artifact root, prune maps, quantiser | a long pipeline with no lock; builders racing for one map file; tensors planned one by one and booked against a recipe; failures leave content | routers, expert ids, config and recipe describe the same weights; what is published read back equal to what was planned; a build uses its own map |
| Quantiser, `build/quantize.py` | none | decoding, `encode_affine`, `dequant_affine` | builder, which feeds it rows | chunks, groups that are constant, far from zero or too wide | what is read back is within half a step; bytes and statistics are those of the whole tensor |
| HOPE statistics, `pruning/hope.py` | per-layer co-activation counts | `add_batch`, `merge`, `validate`, selectors | REAP observer, prune maps | partial mutation before a validation error, merging, ties | counts stay consistent with rows times top-k; a certificate claims no more than it has |
| REAP observer, `pruning/reap_adapter.py` | a wrapper installed over a method of the model | `install`, forward passes, capability context, `export`, `uninstall` | HOPE statistics | errors between the wrapped update and the accumulation, uninstall out of order | each pass is counted once, by one observer |
| Prune maps, convergence, `pruning/maps.py`, `pruning/convergence.py` | map files | selection, map, sweep over token budgets | builder, HOPE statistics | ties, quotas per layer, empty parts, budgets met exactly | a map is a renumbering of what the selection keeps; each step uses the fewest parts that meet its budget |
| Evaluation, `evaluation/` | result files, level records, tool-call transcripts, torture cases | gates, levels, pairing, tool protocol, torture suites | artifacts | incomplete and mismatched pairs, records of several stages in one directory, generations out of order | nothing passes on partial evidence; no file order and no side is privileged |
| Slot restore, `patches/strix-slot-restore-checkpoints.patch`, `scripts/state_restore_harness.py` | a server slot: KV cells, prompt tokens, checkpoints | save, erase, restore, prompt | state store | a failed load, the sliding-window bound, a prompt equal to the restored prefix | a restored slot answers as the saved one would |
| Inventory and baselines, `models/`, `baselines/` | none | parsing, comparison | artifacts | none of the kinds above | arithmetic over tables |
| Scripts, `scripts/` | hooks, workspaces, captures | privacy guard, hook installation, harnesses | Git, the runtime | idempotence of installation, staged versus working files | nothing private is committed |

`PROJECT.json` lists every component with its status, and the hazards of each
at the line where they bite. Three hazards have no property, and say why: a migration
undone by an overlapping partition, objects at a reused address in the REAP observer, and
floating-point rounding in the sweep. Others name what their property excepts, where no
line of the repository promises more.

## The models

| Module | Models | Used by |
| --- | --- | --- |
| `SnapshotRegistry` | what the state store promises, every command atomic | refined by `StateStore` |
| `StateStore` | `put`, `get` and `inspect` step by step | `MCStateStore`, `StateStoreProofs` |
| `Retention` | one retention decision, loop by loop, and its repetition | `MCDecisions` (over `MCRetention`), `RetentionProofs` |
| `GoldenReservations` | `partition`, `freeze` and `migrate-reservations` over their files | `MCGoldenReservations`, `TraceProofs` |
| `TaskGroups` | sessions, the groups each run finds, and what is assigned, handed out and frozen | `MCCalibration`, `TraceProofs` |
| `TraceEpisodes` | one session cut into episodes event by event, its correlation and labels | `MCCalibration`, `TraceProofs` |
| `CalibrationMix` | the sampling distribution, record by record | `MCCalibration`, `TraceProofs` |
| `ArtifactRoot` | `create` and `verify` of an artifact, and the builder around them | `MCArtifactRoot`, `MCCandidateBuild`, `ArtifactRootProofs` |
| `PruneMap` | inventories, selections and maps: what is accepted, what is derived (operators) | `CandidatePlan` |
| `CandidatePlan` | one build from its inputs to its records, tensor by tensor | `MCCandidateBuild`, `BuildProofs` |
| `MapPublication` | builders that race for, die over and re-read the derived map | `MCCandidateBuild`, `BuildProofs` |
| `AffineCodec` | the quantiser and the loop that feeds it rows | `MCAffineCodec`, `MCCandidateBuild` |
| `HopeStats` | the statistics of one layer: `add_batch`, `merge`, `validate` as operators | `OnePassListener`, `HopeStatsProofs` |
| `OnePassListener` | the listener around the REAP observer that fills them | `MCCalibration` (over `MCOnePassListener`), `HopeStatsProofs` |
| `ExpertSelection` | the selectors of HOPE, their toy suite, and the sweep that repeats them | `MCDecisions` |
| `SlotRestore` | the restore harness, request by request, against a server slot | `MCDecisions`, `DecisionsProofs` |
| `PairedOutcomes` | two files of runs, and their comparison | `MCDecisions`, `DecisionsProofs` |
| `Verdicts` | gates and levels over evidence that is still arriving | `MCDecisions`, `DecisionsProofs` |
| `ToolSession` | a recorded session, scored while it grows | `MCDecisions`, `DecisionsProofs` |
| `TortureCases` | generated cases and their judgments | `MCDecisions` |
| `Optional` | what `None` stands for | the modules that need it |
| `MC*` | small instances of the module they extend | the `.cfg` files |
| `FiniteSums` | lemmas about sums over finite sets, counting twice and ranks | the proofs about bytes and rows |
| `*Proofs` | theorems about the modules they extend, for every value of their constants | |

The components share no state the models need: the store, the policy, the trace files
and the artifact root are separate directories, and the scheduler that would join store
and policy is not in the repository. `OnePassListener` composes the listener with the
statistics it fills, and `CandidatePlan` the builder with the maps it derives and reads.
`MCDecisions`, `MCCalibration` and `MCCandidateBuild` put machines that do not interact
into one run: a behaviour belongs to one of them (`machine`), starts from the initial
states of its module and takes the steps of its module only, so each property is checked
over all behaviours of the module it is about.

A property a run checks may join several definitions that belong to one question; each
part is stated, and broken by a mutant of its own, in the same module.

A definition whose comment begins "Mutant:" is a plausible wrong version of the
definition below it. Nothing uses it; it records which bug each property
catches (`PROJECT.json`, "mutants").

| Run | Configuration | Kind | Distinct states |
| --- | --- | --- | --- |
| `store` | `Store.cfg` | safety, refinement | 426 000 |
| `store_progress` | `StoreProgress.cfg` | liveness | 61 000 |
| `store_reuse` | `StoreReuse.cfg` | finding 1 | |
| `decisions` | `Decisions.cfg` | safety of the policy, the harness, evaluation and selection | 650 000 |
| `reservations` | `Reservations.cfg` | safety | 2 100 000 |
| `reservations_two` | `ReservationsTwo.cfg` | safety of overlapping commands | 1 040 000 |
| `reservations_leak` | `ReservationsLeak.cfg` | finding 2 | |
| `groups_unseen` | `GroupsUnseen.cfg` | finding 5 | |
| `artifact_race` | `ArtifactRace.cfg` | finding 3 | |
| `calibration` | `Calibration.cfg` | safety of task groups, episodes, the mix and the listener | 146 000 |
| `build` | `Build.cfg` | safety of builder, publication, quantiser and artifact root | 300 000 |
| `affine_groups` | `AffineGroups.cfg` | finding 4 | |

Deadlock is checked everywhere: a module has a step (`Rest`, `Finished`, `PlanRest`,
`SlotRest`; `Stop` of `MCCalibration` for its bounded machines) that says when the system may
stop for good, and no other state may be stuck. The listener needs none: its model may
always be attached again between two forward passes.

## The state store

### State and actions

| TLA+ | Code |
| --- | --- |
| `index` | rows of `active-index/index.sqlite`; a committed row is durable (`PRAGMA synchronous = FULL`) |
| `blobs` | names under `blobs/<namespace shard>/` as processes see them |
| `onDisk` | those names as they would be found after a power loss: updated by the directory fsync |
| `user` | files of the callers: state files, restore destinations, receipts |
| `lock` | the flock on `active-index/store.lock` |
| `clock` | `int(time.time())` |
| `pc`, `job` | where a CLI process is, and its local variables |
| `result` | the exit of its last command: `ok`, `refused` (the exception StoreRefusal) or `failed` |
| `spent` | counts of the bounded events, see below |

`Invoke` and `Lock` are common to the commands. A put is `Prehash` (hash the
state file, check the generation), `Probe` (does a matching blob exist),
`Stage` (copy, compare with the prehash), `Publish` (rename), `Sync` (fsync
the directory), `Commit` (row, transaction, release of the lock) and
`WriteReceipt`. A get is `Find`, `Restore` (copy the blob beside the
destination and verify it), `Replace` and `Touch`. An `Inspect` is one step.
Each refusal is an early branch of the step that makes it. Around the commands,
`Edit` lets a caller rewrite or remove a state file at any moment, `Rot`
damages or removes a blob, `Die` ends a process at any step (a signal, or an
I/O error the command does not handle), `Outage` is a power loss, `Tick`
advances the clock.

### Abstractions

- A payload and its SHA-256 are one model value: hashes do not collide.
- Reading a state file is one step. A file that changes while it is read hashes
  to a value the copy does not reproduce, which is the refusal of `Stage`.
- Staging and restore files are the local `staged`: nothing else reads them.
- A rename is visible at once and survives a power loss only after the fsync of
  its directory, as POSIX has it (a journalled file system may give more).
  What `user` files lose in a power loss is not modelled.
- The clock does not run backwards. With a clock that does, `accessed` can.
- A missing store root is an unknown snapshot id; argument checks that only
  look at the arguments are part of the sets `Puts`, `Gets` and `Inspects`.
- Symbolic links, path confinement and file modes are not modelled.
- `payload_bytes_written` is not modelled.

### Properties

`SnapshotRegistry` is the contract: a registry that only grows, receipts that
state a registered snapshot, and destinations that receive, in one step, the
registered bytes for a caller who named the registered identity. `StateStore`
implements it (`RegistrySpec`) with `index` as the registry and `user` as the
files: the rename of a blob, the fsyncs and the staging are stutters.

`GenerationFence` (a committed row never changes, its access time only grows),
`ReceiptsTellTruth` (a receipt describes a committed row), `IntactBlobs` (a row's
blob holds its bytes, while nothing has damaged a blob and power was kept) and
`DurableUnlessKilled` (the blob of a committed row survives a power loss, while
nothing was killed or damaged), joined in `BlobsKept`, are the safety properties;
`CommandsEnd` is the liveness property. The conditions are counts of past events, so
a behaviour in which one fails is still checked up to that event.

`StoreInv` is the inductive invariant. The properties are not inductive by
themselves: a put commits what it looked up several steps earlier. `JobOK`
says what a command in flight knows at each step (its `seen` is still the row,
its hash is still what the generation check accepted), and `Serialized` says
why that cannot be disturbed: only the holder of the lock is between `Prehash`
and `Commit`, or between `Find` and `Touch`. A put that has only its receipt
left is outside the lock: what it knows there is weaker (the row exists, is
its own, and has been accessed no earlier).

### Runs

`store` takes two clients, three commands out of four puts, two gets and an
inspect, one edit, and one of three budgets of accidents (`Limits`): one death
and one tick; one damaged blob and one death; two outages. Two clients are
enough for every race over one lock and one row; three commands let two of them
race and a third observe; the puts offer two payloads for one generation, one
payload for two sessions (deduplication) and one generation under two
identities (mismatch). One death or damaged blob per behaviour reaches every
place one can fall; the outages are two so that a recovered store loses power
again. Clients are interchangeable, so the run uses symmetry; `store_progress`,
with three commands, an edit and a death, does not, as symmetry is unsound for
liveness.

Fairness: `WF_vars(Step(p))` for each client, no fairness for `Invoke`, `Die`
or the surroundings. It says that a running process is scheduled, and that the
kernel gives a free lock to a waiter. A client waiting for the lock is not
continuously enabled, but the commands in any behaviour are finitely many
(`Limits`), so weak fairness is enough; the kernel's queue of waiters is not
modelled further.

### Theorems

`StateStoreProofs` assumes only the named assumptions of `StateStore`: the
commands are well-formed and no file is both a state file and an output, there
is at least one budget and budgets are natural numbers, and the sentinels are
not data.

| Theorem | States |
| --- | --- |
| `StoreInvariant`, `TypeCorrect`, `MutualExclusion` | `StoreInv`, `TypeOK`, `Serialized` always hold |
| `GenerationsFenced` | `GenerationFence`, from `RowsGrow`: any step leaves a row or grows it |
| `ReceiptsAreTrue` | `ReceiptsTellTruth`, from the `receipt` part of `JobOK` |
| `RowsIntact` | `IntactBlobs` (`BlobInv`: blobs are content-addressed and a put past `Probe` sees its blob) |
| `PublicationDurable` | `DurableUnlessKilled` (`DiskInv`: only a put about to fsync is ahead of the disk) |
| `BlobsAreKept` | `BlobsKept`, both together |
| `StoreImplementsRegistry` | `RegistrySpec`, without conditions: deaths, outages and damage included |

The conditions inside `IntactBlobs` and `DurableUnlessKilled` are what the code
needs, and `store_reuse` shows that the second cannot be weakened to allow
killed processes. Liveness (`CommandsEnd`) is model-checked only: it is out of
the prover's reach.

## The retention policy

`decide` in `state_tier/retention.py` reads an observation (sessions, prefix
cache, pressure) and returns a decision. Each of its loops selects one entry
after another; every selection is an action, and `phase` is the loop the code is
in.

| TLA+ | Code |
| --- | --- |
| `sessions`, `prefixes`, `pressure` | the observation; indices are list positions, which break the ties of Python's stable sorts |
| `SlotDemand`, `UmaYield`, `HotDone` | the hot pool: one waiter for a slot, then waiters until the memory target is met |
| `Window`; `WarmDemote`, `WarmDone`; `ColdEvict`, `ColdDone` | demotion by age; by the warm cap; eviction by the cold cap |
| `Incompatible`; `PrefixEvict`, `PrefixDone` | useless prefixes; the prefix cap |
| `DiskPrefix`, `DiskSnapshot`, `DiskDone` | the disk target: prefixes first, then snapshots |
| `Action(i)` | the one action reported for a session |
| `Apply` | the scheduler carries the decision out and asks again; it is not in the repository |
| `quiet` | history: no earlier pass made a session yield |

Properties. `NobodyOutranked` and `LeastRecentFirst` say, of the whole state and not of
the one choice, that no entry was taken while a better victim was left: this is what the
five sorts over changing pools must add up to. `CacheBeforeState` is their order for a
disk target. `CapsHold` says the caps hold once the decision is carried out,
`FreedIsDeleted` that the claimed bytes are those of deleted entries, each once,
`NothingNeedless` that without the last choice the demand would not have been met,
`Settled` that a decision, asked again without a demand, changes nothing. The run checks
them as `VictimsInOrder` and as `DecisionHolds` (`DemandMet`, what the claims of one
decision say, and `DecisionFinal`). A session that yielded enters the warm tier and may
push others out at the next pass, hence `quiet`.

Bounds in run `decisions`: three sessions out of hot, stored and mixed inventories,
up to two prefixes, clock 3, a grace of 2, a warm window of 1, caps of 3, 3 and 2
bytes, two passes. Accesses fall on both sides of grace and window, sizes include 0,
and all caps and targets can be met exactly, exceeded and unreachable.

Theorems (`RetentionProofs`, for any observations, caps and passes):
`PolicyInvariant`, and from it `PolicyTypes`, `PriorityRespected`
(`NobodyOutranked`), `LeastRecentlyUsed` (`LeastRecentFirst`) and `CacheSpentFirst`
(`CacheBeforeState`), together `VictimsAreInOrder`. The invariant `PolicyInv` adds to
these that each loop only adds to its own choice (`PhaseOK`): a set still empty makes
its part vacuous, and a pool that a later loop shrinks keeps the order.

The bytes have a second layer, `BytesInvariant`, and from it `DemandsAreMet`
(`DemandMet`) and `DecisionsAreFinal` (`DecisionFinal`), together `DecisionsHold`
(`DecisionHolds`). `BytesInv` says which pools
fit their caps once their loop is over (`Fits`), that claimed bytes are those of
what was taken (`FreedIsDeleted`) and were still needed when the last entry was taken
(`NothingNeedless`), and what an inventory is like that a decision has left and nobody
has come into since (`Rested`): no loop has anything to do in it, which is `Settled`.
Sums are those of the code over sets of list positions. `FiniteSums` has the lemmas
they need: one more element adds its term (`SumAdd`), sums of natural numbers grow with
the set, disjoint sets add up. The assumptions are those of the module: caps and
windows that the code accepts, and observations it validates.

Behaviour a user should know, in the model and stated by no property: a snapshot
demoted for its age (`retention.py:474`) counts against the cold cap of the same pass
and can push a snapshot out (`retention.py:518`) although both pools were within
their caps; `docs/state-retention.md:45-46` says no age ever triggers a deletion.

## Golden reservations

`partition`, `freeze` and `migrate-reservations` of `traces/cli.py` share four
files and no lock. Each reads what it needs when it starts and then writes one
file after the other through `atomic_write_json`, whose temporary file has a fixed
name: two processes writing one file share it.

| TLA+ | Code |
| --- | --- |
| `disk` | `task-assignments.json`, `frozen-assignments.json`, `eligibility.json`, the freeze manifest |
| `tmp` | the temporary file of each |
| `audits` | audit directories by the second that names them: backup, moved groups, record |
| `Home` | the partition of a group by its salted hash |
| `Partition`, `Freeze`, `Migrate` | the reads and refusals of a command; `out` is what it will write |
| `Stage`, `Replace`, `Robbed` | `atomic_write_json`: write, rename, and the rename of a file another process has already renamed |
| `FirstFreeze` | the frozen file is written only if there is none |
| `Backup`, `Audit` | the other two writes of a migration |
| `Kill` | a process ends anywhere, its temporary file stays |
| `Sample`, `Execute` | the labelling sampler gives training groups away; somebody runs the bank |

Not modelled: the copy of `task-assignments.json` in the backup, public
summaries, counts and flags nobody reads.

Properties. `FrozenOnlyRestored`: a group in the frozen file keeps its partition or
comes back to golden where the hash reserves it. `GoldenStays`: no command moves a
golden group into training. `BankInBounds`: frozen tasks are a bank of legal size of
reserved groups (with the types: `BanksWellFormed`). `BankFixesAssignments`: assignments
do not change under a frozen or used bank; the two are `PlacesKept`. `BackedUpFirst`:
before a rewrite the old content is in a backup. `MigrationRestores`: a migration about
to write its record has restored both files; the two are `MigrationsKeep`.
`HoldoutUnseen`: no group in the bank was given away.

Run `reservations`: three groups, two of them reserved, banks of exactly one, one
process, four commands, one kill, over the files an earlier tool may have left
(other salts, redistributed and hand-edited assignments). Run `reservations_two`:
two processes from an empty root, three commands, the sampler between them, a clock
that ticks. Four commands allow a partition, a freeze, a killed migration and its
rerun.

Theorems (`TraceProofs`): for any number of overlapping and killed
processes `ReservationInvariant`, `ReservationTypes`, `BanksInBounds`,
`BanksAreWellFormed` and `FrozenImmutable`; `HoldoutKept` (`GoldenStays`) when
commands do not overlap (`OneAtATime`). `ReservationInv` says that every document on
its way to the frozen file holds what the hash reserves and that the file it replaces
lacks only reservations. That a file, once there, never disappears is what makes it
inductive. `SoloInv` adds, for one process, that its document covers what is on disk.

For one process at a time, killed anywhere and run again, also `MigrationsAreSafe`
(`MigrationsKeep`), `AssignmentsStay` (`BankFixesAssignments`) and `PlacesAreKept`
(`PlacesKept`). `MigrationInv` adds
what a migration knows at each write: about to replace the frozen file it has a backup
of what it reads and no bank is in use, and past it every file already replaced is
restored. It holds for one process only: what a migration read may otherwise
change under it.

`HoldoutNeverSeen` is `HoldoutUnseen` for any number of overlapping and killed
commands, under `LegacyReserves`: no file an earlier tool left has a reserved group
outside golden. Finding 2 is about the files that break it. Then every document,
on disk, in a temporary file or on its way there, reserves what the hash reserves
(`HoldoutInv`), so no training partition has ever had a group of the bank to give away.
The other theorems of `TraceProofs` are those of the next section.

Behaviour a user should know, in the model and stated by no property: the audit
record is the last write of a migration and is lost if it is killed, as the rerun
finds nothing to change; a second migration within one second overwrites the only
backup; the temporary file of a killed freeze counts as evidence that the bank was
used and blocks migrations; a partition that overlaps a migration writes the old
assignments back to `task-assignments.json`; a migration rewrites
`task-assignments.json` from the groups of the frozen file alone, so groups placed by
later partitions disappear from it until the next one.

## Task groups, episodes and the mix

The pipeline in front of the partitions, in three models that share no state.

**`TaskGroups`.** Each run of `partition`, `freeze` and the labelling sampler groups the
transcripts it finds on its day, and runs meet only in the ids of the groups.

| TLA+ | Code |
| --- | --- |
| `present`, `Arrive`, `Vanish` | the transcripts a run finds and can parse; harnesses and users add and remove them |
| `GroupsOf`, `Members`, `Ambiguous`, `Quarantined` | `build_task_groups`: sessions that name issues, attempts with one prompt, prompts two harnesses share, the rest |
| `Kept`, `Value` | `_dedup_sessions` and `_first_value`: one attempt for each prompt, the first value recorded |
| `PlaceGroups` | `partition`: `frozen` and `placed` are its two files |
| `Mapped`, `Frame`, `HandOut` | the sampler's own `map_sessions_to_groups`, the sessions of one training partition, and the sheet it hands out |
| `Usable`, `Filled`, `Bankable`, `FreezeBank` | the evidence index, accepted whole or not at all, and the bank |

A run is one step: what overlaps and what is killed is in `GoldenReservations`. Group ids
are records of what they hash. `GroupsSound`, for the transcripts that are there: every
session is quarantined or grouped and never both (`NobodyLost`); attempts with one prompt
in one directory share their groups, and only an issue brings two harnesses together
(`NeverSplit`); a collapsed attempt has exactly one that is kept (`RetriesCollapse`);
the sampler's formulas say the same (`SamplerAgrees`). `HoldoutApart`, over time: a task
the sampler saw assigned keeps its partition and is not in the bank (`HandedApart`); a
field of the bank was recorded by a session kept for it or has evidence with a pointer
(`BankGrounded`). The first excepts tasks an earlier tool took from the holdout
(`Shadowed`, finding 2), and it speaks of tasks the sampler knew: finding 5 is about the
others.

**`TraceEpisodes`.** One step reads one event. A session only grows, so the next run
reads the same events first. `PassOver`, `OpenTurn`, `OpenRetry` and `Gather` are the
branches of `segment_episodes`; `closed` and `cur` are its episodes and its buffer.
`Correlated` is `correlate`; `Tags`, `Primary` and `Difficulty` are the labels of an
episode, over events of which only what they look at is kept. `EpisodesSound`: the main
chain is cut into episodes in order, nothing is lost or read twice (`Partitioned`);
episodes are bounded, hold one turn and are cut in two only when full (`Bounded`);
labelling again changes nothing and an episode that grows gets no easier (`Labelled`); no
call has two results (`OneToOne`). `EpisodesStay`: what is closed stays as it is.

**`CalibrationMix`.** Records are folded into the masses of cells, a partition and a
capability each (`CountIn`, `LeaveOut`, `RefuseFile`), and `Conclude` gives each cell
its weight. Masses are integers in a unit that makes every division exact
(`RecordAssumption`); a weight is a fraction. `MixConserved`: a cell holds the shares of
its episodes (`CellsHonest`), no mass is lost or made (`MassKept`), and a weight turns
the mass of its cell into the target, or there is no mass to weigh (`TargetsMet`).

Run `calibration`: five sessions, one of which names two issues and three of which share a
prompt over two harnesses, so that a group becomes ambiguous and ceases to be, one of the
issues reserved by the hash; eight kinds of events, sessions of five and episodes of four,
so that one is full and a retry opens the next; seven records, one refused, in files of
up to four. `GroupsUnseen.cfg` is the same instance.

Theorems (`TraceProofs`):

| Theorem | States |
| --- | --- |
| `GroupInvariant`, `GroupsAreSound`, `HoldoutStaysApart` | `GroupInv`, `GroupsSound`, `HoldoutApart`, for any sessions, prompts, indexes and number of runs |
| `EpisodeInvariant`, `EpisodesAreSound`, `ClosedEpisodesStay` | `EpisodeInv`, `EpisodesSound`, `EpisodesStay`, for any events, caps and windows |
| `MixIsConserved` | `MixConserved`, for any records, partitions, capabilities and weights |

`GroupInv` says why agreement lasts although every run groups afresh: what is placed is
what a run would place now (`PartOf`, from the frozen file or else the hash), what was
handed out lies there too, and the bank is of the reserved slice. Once there is a frozen
file it never changes in this model, and before there is one nothing is placed.
The parts of `GroupsSound` hold of any set of transcripts; they rest on
`AlikeTogether` (of attempts with one prompt, all or none are ambiguous) and on
`GroupsOfSession`. `EpisodeInv` says of the log so far that the episodes cut it in order
(`CutInto`) and within bounds (`BoundedBy`), that the open one has room, and that an empty
buffer follows a full episode, so that what is gathered next goes on in the same turn.
`CutLonger`/`CutAnew` and `BoundedLonger`/`BoundedAnew` are the two ways a cut grows. That
difficulty grows (`DifficultyGrows`) is that each feature of a prefix is one of the whole.
One-to-one correlation is that ranks of anonymous events of one name differ
(`RanksDiffer`, by counting). `MixConserved` is inductive with its types: a new record
adds its shares to its own cells (`SumsGrow`), and these add up to its mass
(`MassIsSplit`, by the one-to-one map from its tags to its cells).

Behaviour a user should know, in the models and stated by no property: `correlate` gives
a result without an id to the call of its rank even when that call comes later, and of
several calls of one id the earlier are reported as neither paired nor missing; a kept
first attempt hides the revision only its retry recorded; `recovery` becomes primary when the
first call says nothing and its name sorts first (`labeling.py:340`), although
`docs/datasets.md:216-218` lets it only when no other decision-bearing capability applies;
negative partition weights are accepted as long as all sum to one; with downweighted
events the weights meet the target over the masses of the distribution, not over the
`weight` the definition in `calibration.py:413-415` names; and `allocate_quotas` of the
sampler orders by remainder over weight, where its docstring says largest remainder.

## The artifact root

`create_artifact` checks everything, then writes sidecar after sidecar, each
through a temporary file of its own name in the same directory, copies or adopts
the declared files, lists and digests what is there, and writes `checksums.txt` and
last `manifest.json`. The candidate builder fills the empty directory first and
then calls create and verify.

| TLA+ | Code |
| --- | --- |
| `root` | the files of the directory; files written and checked alike share an entry |
| `supplied` | the caller's files: environment, expert map, payload |
| `proc` | step, arguments, temporary file, digests (`files`) and, in a build, the prune map it read |
| `published` | history: the manifest committed last |
| `Create`; `Build`, `OpenShard`, `FillShard`, `Readback`, `Enlist` | the preflight; the builder up to its call of create |
| `Adopt`, `Stage`, `Replace` | `_copy_into_root` and `_atomic_write_bytes` |
| `Digest`, `Finish` | the scan and digests; the end, with the builder's verify |
| `Verifies`, `Explained` | `verify_artifact` |
| `KillProc`, `Revise`, `Damage`, `Place`, `Clean` | signals, the caller, the storage, and the operator |

A digest is the content itself, and a manifest is its arguments with the contents
of the listed files. Revisions, signatures, seeds and the JSON syntax that
preflight and verify check are data: a refusal for one of them is a guard that
changes nothing. Contents in `Secret` are environments with keys like secrets.

Properties. `CommitPoint`: whenever there is a manifest it explains every file.
`NothingAbsorbed`: a manifest lists what its command declared and wrote, and not what
a killed one left. `PublishedVerifies`: what is published verifies, whatever was
edited, unless the environment was exchanged for one with secrets. The three, with the
types, are `ManifestHonest`. `DamageCaught`: what verifies is, file by file, what was
published last. `PublishedUntouched`: no command changes a published artifact.
`PreflightSuffices`: after its preflight a command fails only if a file was damaged,
if the source it is about to copy is gone (`GoneSince`), or if it verifies an
environment exchanged in the meantime (`SecretSince`); any other edit is taken in as if
it had been there from the start.

Run `build`, as one of its machines: one process at a time, three commands (dataset,
dataset with its payload in place, pruned, build), one kill, one edit, one damaged file,
two contents of which one is secret. Two temporary names let a killed command leave one
and its retry meet it. Three commands allow a kill, a refused retry and a success.

Theorems (`ArtifactRootProofs`): all these properties, for any contents, arguments
and budgets, when commands on the root do not overlap (`OneAtATime`); `artifact_race`
shows that this is needed, by `CommitPoint` alone: two creates, or a create and a
builder that found the directory empty. `ArtifactInv` says that only the running command has a
temporary file and what it holds; that there is no manifest while one is writing;
which files are there at each step (`Placed`: those in place and those of the
earlier steps); and that the environment to be copied, or copied, is the one that
was accepted. The first two hold through damage; the files until one is damaged; the
last until a file is damaged or edited. `EditInv`, proved from it, is what survives
edits: a command that lists files has the inputs its stage requires, one that is about
to verify has its manifest, and the manifest there lists what its arguments declare.
From it and `CommitPoint` follows that only the environment can make verification
refuse what a command has just published.

Behaviour a user should know, in the model, and promised by no property: a killed
create leaves content that its retry refuses until somebody clears the root (`Clean`),
and a source that vanishes after the preflight does the same, although
`artifacts.py:560-567` says a refused creation leaves no files; an environment edited
between check and copy is published with its secrets, and only a later verify
refuses it (the exception of two properties above); the prune map listed in an artifact is copied at the end of a build and
need not be the one the shards were built from.

## The candidate builder

One command reads a checkpoint, a selection of experts (or a ready map), an order of
experts and a recipe, and writes a pruned and partly re-encoded checkpoint. It has
three models: what it decides (`CandidatePlan`, over `PruneMap`), the one file two
builds share (`MapPublication`), and what happens to the files of the output
(`ArtifactRoot`, above).

| TLA+ | Code |
| --- | --- |
| `job` | the inputs: `source` (inventory, headers on disk, config), `given` map, `selection`, `order`, `recipe` |
| `Structured`, `SelectionAccepted`, `PruneMapOf`, `MapAccepted` | `collect_moe_structure`, the checks of a selection, `build_prune_map`, the checks of a map that is read |
| `Prepare`, `Load`, `Validate`, `Assign`, `Open` | derive or read the map; validate the recipe against it; choose the experts to re-encode; open the source |
| `Dispatch` | one tensor of `_plan_build`: `DropScale`, `DropPruned`, `PlaceExpert`, `SliceRouter`, `CopyOther`, `CopyText`, `EncodeText`, or `RefuseTensor` |
| `Close` | the plan against the recipe: units, class totals, instances, the total and the floor |
| `Write`, `Adapt`, `Verify`, `Report` | the shards (refused where a row to encode again does not decode), config.json, the check of the output, the records |
| `planned`, `units`, `bytes`, `instance` | the plan and its books by allocation class |
| `stage` | where the command is; `bad_*` are its refusals, `crashed` an error it does not turn into one |

A tensor name is a record of what the regular expressions tell apart, and a tensor is
its shape, type and size: contents and digests are not modelled here (they are in
`AffineCodec` and `ArtifactRoot`), nor is the index file of the shards. The documents of
a job satisfy `WellFormed`, the one assumption about jobs (`JobsAssumption`): a name is
the name its parts make, a tensor is of one of the components the inventory tells apart,
sizes are natural numbers, an FP8 tensor has a byte per element (`RecordSound`), a
config has the fields that are read, `walk` lists the root tensors of the inventory and
every header is of one of them. The last is what the inventory and the index promise of
each other; the builder compares them shard by shard, and of a header of which the
inventory knew nothing its own check would not say so (see the findings).

Properties. `PlanFollowsMap`, `PlanClosed` and `DescriptionsAgree` join what follows.
`RoutersServeExperts`: row i of both routers of a layer belongs to the expert whose
tensors get the id i, though rows and tensors are handled in different branches.
`OneExpertPerId` and `PrecisionFollowsOrder` say the same of ids and of the order.
`BooksBalance`: before the first byte is written, the outputs of every class add up to
its row of the recipe, and the total is theirs. `NothingLost`: only pruned experts and
the scales of re-encoded weights are left out. `SecondGenDeclared`: nothing is quantised
again unless the ledger says so, and no FP8 tensor is written re-encoded: the plan
refuses those it classifies by name, an expert stored as FP8 is only stopped by its
decoding. `ConfigDescribes`: the config of a built candidate describes its weights.
`DerivedMapAccepted`, `MapPredictsBuild` and `MapIsBijection` relate the map to the
selection it came from, to the build that follows, and to the renumbering it stands for.
`CrashesKnown` lists the two inputs that end in an uncaught lookup error: a router of a
layer the map does not have, and a re-encoded class no output is booked on and the
ledger does not name.

Run `build`: two layers of three experts with two projections, two experts kept;
combinations of 30 sources, 12 maps, 13 selections, 6 orders and 40 recipes, each
good or with one thing wrong, so that every refusal and every branch of the dispatch
is taken. Three experts are the fewest for which a survivor changes its id and the
order of survivors differs from that of ids.

Theorems (`BuildProofs`), for any jobs, layers, numbers of experts, targets and
tolerances:

| Theorem | States |
| --- | --- |
| `PlanInvariant` | `PlanInv` always holds |
| `PlanFollows` | `PlanFollowsMap` |
| `PlanCloses` | `PlanClosed`: types, `BooksBalance`, `NothingLost`, `CrashesKnown` |
| `DescriptionsHold` | `DescriptionsAgree`: config, derived map and map of a built candidate |

`PlanFollowsMap` compares pairs of outputs, and pairs are not inductive: the second is
placed with nothing known about the first but that it is there. `PlanInv` says of each
output alone where its row, its id and its class come from (`RouterOutput`,
`ExpertPlaced`, `EncodedOutput`), with the facts about map, recipe and split those refer
to (`MapGood`, `RecipeGood`, `SplitGood`), which no later stage may change. In an accepted
map new ids are positions in the list of the retained (`NewIds`), so what holds of each
output decides every pair; the split follows the order because the first experts of a
list are those of its first positions (`OrderSplits`), and where there is no order, no
layer is split (`NothingToSplit`, by counting: all layers at zero or all at the number
retained).

`ClosedInv` is the invariant of the walk. `Books`: the bytes of a class are those of the
outputs booked on it, which every dispatch keeps because the names it adds are free
(`BooksJoin`, over `SumUnion` of `FiniteSums`); `Settled`: once written, they are the
recipe's. `Walked`: every root tensor is still in the queue or handled, and `Paired`: the
scale of a copied expert weight is made with it. At the end of the queue that is
`NothingLost`, up to one case: a scale dropped in favour of a weight that is not
re-encoded, which `Paired` excludes. `Charged` (a class encoded again is in the ledger
once an output is booked on it) is what leaves only the unused classes to `CrashesKnown`.

`DescInv` keeps what the documents are compared with: the map is still the one that was
derived (`Derives`), the headers seen so far say what the inventory says
(`HeadersAgree`), each output has the name and the bytes its tensor and its action give
it (`MadeFrom`), an expert's scale is beside its weight (`Beside`), and what is on disk
is what was planned (`Shown`). `DerivedIsAccepted` is the round trip of a derived map
through `_load_prune_map`, with a survivor's new id as its rank (`Ascends`, by counting
what is below it). That the map predicts the bytes of the build, which counted other
tensors at another time, matches the outputs of a plan without re-encoding one to one
with the tensors the map counted (`MapsPredict`), and sums of matched sets are equal
(`SumMatched` and, class by class, `SumByClass` of `FiniteSums`). TLC found `DescInv` true
of every state of `build` before it was proved.

### The published map

A map derived from a selection is written beside the output under a fixed name, read
back, and hours later copied into the artifact by its path. `Exists`, `Compare`,
`CreateMap` (`open(.., "xb")`), `Fill`, `Recheck`, `ReadMap`, `Shards` and `Carry`
are the calls of `_publish_map` and of the command around it; `Kill` ends a builder
between any two, `Retry` runs it again, `Edit` is the operator. `OneOwnMap` (it joins
`OwnMapUsed` and `CarriedMapUsed`) and `NeverClobbers` are checked for three
builders, two of one selection, one kill, one retry and one edit: two that agree and
one that does not are what a file found can be, each of them may die in the middle of
writing, and one retry meets what is left.

Theorems (`BuildProofs`): all of them for any builders, selections, kills
and retries (`PublicationTypes`, `EachUsesOwnMap`, `ArtifactCarriesItsMap`,
`BuildsUseOneOwnMap`, `PublicationNeverClobbers`). `PubInv` adds that a file in
somebody's hands is partial (`WriterOfPart`) and, while the operator leaves the file
alone, that a builder at `fill` is the one writing, and that whoever got past the
comparison stands on a whole file with his own map (`LeftAlone`). That nothing but
its writer ever changes a file that is there is what makes it inductive. The
assumptions are that every builder has a choice and that the sentinel is not a
builder.

## The quantiser

`AffineCodec` follows a tensor through `_fill_affine`: some rows are read, decoded
(`DecodeMxfp4`: two columns a byte, a block exponent for several columns; BF16),
quantised by groups, packed into codes, scales and zero points stashed, error
statistics updated, until the rows are used up or a chunk is refused. The statistics
are computed as the code does, from codes and zero points that are neither packed nor
cut to a byte yet (`ErrorsOf`); at the end the codes and the scales, tensors of their
own, are each compared with the bytes planned for them (`CodesPlanned`, `ScalesPlanned`). Values are
integers counting halves, steps are powers of two, and quotients are rounded as the
code rounds them, ties to even. The range of exponents is narrowed (to -6 .. 6), so
that both of its ends are reached with numbers TLC can hold.

Properties, joined in `CodecHonest` (`RoundTrip` and `BytesHonest`). `WithinHalfStep`: what is
unpacked and read back is within half a step of what was decoded. `DecodedInOrder`,
`BytesAsPredicted`, `StatsOfTheBytes` (the statistics added up over chunks are those of
what is read back from the bytes), `OverflowIsReal` (a tensor is refused for a zero point only if some
group fits at no exponent). Run `build` takes rows of one or two groups that are
zero, constant, far from zero, next to a tie or wider than the largest step covers,
with 3, 6 and 8 bits, packed sources with every sign, two block exponents and the NaN
byte, shapes that are refused, and chunks that divide the rows and that do not.

## Slot restore

`scripts/state_restore_harness.py` measures whether a server slot that is saved,
erased and restored answers as the hot slot did. It reads the server's global
counters before and after every request and checks each delta. `ReadBefore`, the
request (`Erase`, `CompletePrompt`, `Save`, `Restore`) and `ReadAfter` are separate
steps, so the other client's request (`Intrude`) falls anywhere; `Baseline` and
`Metrics` are the first and last readings; `Abort` is a request that fails, which
leaves the slot hot. The server is external: it is modelled from what the harness and
the header of `patches/strix-slot-restore-checkpoints.patch` say of it, with either
defect the patch repairs (`clears`: a load first empties the slot; `checkpoints`: a
restored slot has a checkpoint to continue from) or a RAM prompt cache present or
not. A cell remembers in which batch it was computed, which is what its logits show.

Properties, joined in `HarnessDecides` (`PassMeansRestored` and `RepairedPasses`).
`OkMeansRestored`: a report without failures means that the restored slot answered from
the very cells the hot one answered from. `DefectsCaught`: with the cold probe no
defective server passes. `NoFalseAlarm`: a repaired server alone passes everything.
`ForeignNoticed`: another client's request is noticed by some check. `CellsMatchTokens`:
a slot's bookkeeping describes its cells.

Bounds: a history of seven tokens, replies of one or two, one foreign request, all
eight servers that return logits and two that do not. Seven tokens leave a prefix
longer than the bound on recomputation, without which a full recomputation would pass.

Theorems (`DecisionsProofs`): `SlotInvariant`, and from it `PassesMeanRestored` and
`RepairedServersPass`, together `HarnessTellsThemApart` (`HarnessDecides`), for any
history, replies, batch size, texts and any of the servers. They assume that a reply has
one to `NPredict` tokens and that the other client's prompt does not begin as the
history does. `SlotIInv` says that slots hold what they can hold (`SlotShape`), that
whoever clears on a load has cells that match their tokens (`AllDescribed`), that
counter readings cover at least the harness's own requests and another client's request
shows in the reading around it (`Gauged`), what an accepted restore has compared
(`Accepted`), and for a harness alone with a repaired server the cells and cached tokens
of every request so far (`Alone`). The last is what makes `NoFalseAlarm` inductive: each
check compares two answers several requests apart, and the invariant follows the cells
from one to the other.

The exceptions in the properties are holes of the harness a user should know: a
foreign request between the two readings around the cold probe, or outside all
readings, goes unnoticed unless it changes an answer; a build that returns no logits
is compared by its token ids alone; without the cold probe a RAM cache is not seen.

## Evaluation

`PairedOutcomes`: two models run the same tasks under the same seeds, each into a file;
`Analysis` computes what `paired.py` reports, at any moment while runs arrive. Runs
may be on one side only, repeated, of the wrong model, or negative controls. `Mirror`
and `OrderFree` say that neither side and no order of the files is privileged,
`ControlsApart` that controls change nothing but their own summary, `SlicesCover`
that every dimension splits the matched pairs, `McNemarExact` that the p-value is that
of the exact sign test (against an enumeration of all outcomes), `IntervalSound` that
the percentile intervals lie between replicates that occurred; the run checks them as
`NothingFavoured` and `NumbersAgree`. Draws of the bootstrap
are given: two lists, so that a replicate repeats a cluster and one never succeeds.
Two tasks, one with two seeds, give every case of ties, of the clusters and of the
test that needs one seed per task.

Theorems (`DecisionsProofs`), for any tasks, seeds, outcomes, replicates and any number of
runs: `NothingIsFavoured` (`NothingFavoured`), with one assumption, `ReasonsAssumption`
(a missing value is not the name of a refusal). `OneEach` is where the refusal of repeated
keys matters: where keys count as many as runs, the run found for a key is the one that
is there, whatever the file's order and whatever else it holds. A file reversed and a file
without its controls both pick the runs of all tasks, each once (`Picks`), and files that
agree on those have the same figures (`SameFigures`), draws of the bootstrap included as
clusters are a function of the matched keys; refusals are the same as they look at all
runs. Sides are exchanged figure by figure (`FiguresMirrored`, `TestMirrored`).
`SlicesAlwaysCover` (`SlicesCover`, a part of `NumbersAgree`): a dimension gives each
matched key one value, so what a side counts is counted value by value
(`CountedByClass`, from the lemma that sums a set class by class).

`Verdicts`: evidence arrives, thresholds change, and either tool is asked in between.
`VerdictIsHonest` compares the gates with all ways of filling the holes: "fail" when
none passes, "unmeasured" when some does. `NoEvidenceNoPass`: a promotable candidate has
a passing record with all evidence on each level, an eligible one on each quality level.
`RuntimeApart`: records of level 7 do not move a candidate on or off the quality
frontier. `FilesUnordered`: no order of the files and no other candidate matters (both
are `RecordsIndependent`, and with the levels `LevelsBacked`). The run starts from
directories with six passing levels and files up to two more documents, one of them
possibly the report of an earlier call.

Theorems (`DecisionsProofs`), for any documents and any order of filing:
`VerdictsAreBacked` (`NoEvidenceNoPass`) and `RecordsSpeakForThemselves`
(`RecordsIndependent`), together `LevelsAreBacked` (`LevelsBacked`). `OneRecordPerLevel`
is the step they turn on: `RefusedDocs` leaves one record a level, so the record the
code finds is the one that is there, in whatever order files are read. They assume
`DocumentsAssumption`, the three verdicts `validate_record` accepts. `VerdictsAreHonest`
(`VerdictIsHonest`) holds for any evidence and thresholds such that every floor, and the
band of the weights, can be met by some value (`ThresholdsAssumption`): values range
over a set of the model, and a threshold outside it would make a hole impossible to fill
that the code rightly reports as unmeasured.

`ToolSession`: generations are recorded one by one, with or without the number of their
turn. `FailuresStay`: a failed metric stays failed, except errors that a later turn
handles; `ArrivalFree`: numbered generations score the same in any order;
`LastErrorCounts`: the error of the last turn is not handled (both are `TurnsDecide`).
Eleven generations, one of each kind the protocol tells apart, and sessions of up to
four. The stable sort by turn is modelled by ranks: a generation stands at one more than
the number of those before it.

Theorems (`DecisionsProofs`), for any generations and sessions of any length:
`TurnsDecideScores` (`TurnsDecide`) and `FailuresAreFinal` (`FailuresStay`). "Before" is a
strict total order of the recorded generations, so ranks number them without gaps
(`RanksOrder`); reversing the order of arrival leaves the ranks of numbered
generations as they are, and every metric is a function of the turns. One more
generation is put in at its rank and the others keep their order (`TurnsStay`): a metric
that failed has its witness still, and a last error handled is one that a later turn
answers.

`TortureCases`: `CasesSound` (`ElementsBalanced`, `InputsUnordered`, `JudgmentsKept`)
over six to eight episodes with two shuffles of the elements, episodes equal or
sorting between others.

Behaviour a user should know, in the model and stated by no property: a new episode
shifts the ranks of those after it, so their cases get other elements and other ids,
and judgments recorded for the old document find no case in the new one; a report
written into the directory of the records makes the next call refuse the directory.

## Selection and its convergence

`ExpertSelection` has the exhaustive selector, the relaxation with its refinement by
swaps, the select command, the toy suite with closed forms, and the sweep of
`convergence.py` that merges parts until each budget is met, selects, and compares
with the step before. Matrices are integers. The SLSQP solver is external: its answer
may round to any set of the right size. `CertificateHonest` compares a certificate
with all sets; `RefineSound` says the refinement only improves and where it stops no
swap improves; `DiagonalIsReap` that without interactions HOPE selects what REAP
does; `ToysPass` that the closed forms are right: together `SelectionHonest`.
`ShortestPrefix` and `MeasuresSound` are about the sweep (`SweepSound`). The matrices
have three or five experts with ties everywhere, one has more than the exact selector
takes; parts have no, one or two rows.

Behaviour a user should know, in the model and stated by no property: the select command
chooses between exact and heuristic selection by the configured maximum, the sweep by
a fixed 16 (`hope.py:943`): with a configured maximum below 16 the sweep refuses layers
that the command approximates, and with one above 16 only the command is exact. Above 16 experts the
heuristic refuses a trivial budget (nothing or everything) instead of answering it.
The convergence sweep compares its objective with a recomputed one by `!=`
(`convergence.py:187`): floats added in another order may refuse a correct selection.
Integers do not show that; it is a hazard without a property.

## HOPE statistics and the listener

During a calibration pass the pinned REAP observer calls `update_pruning_state` for
every MoE layer. `OnePassListener` of `pruning/reap_adapter.py` replaces that
function by a wrapper that resolves the routing, runs the original, which changes
the REAP metrics in the layer's state object, and adds the same rows to a
`HopeStats` (`pruning/hope.py`) it keeps by the `id()` of that object. There is one
thread; what interleaves is the order of the caller's calls, the errors that end
a forward pass between two layers, and the life of the objects.

| TLA+ | Code |
| --- | --- |
| `New`, `BatchOK`, `AddBatch`, `Valid`, `Merge`, `MergeOK`, `Loads` | the methods of `HopeStats`; a refusal is a guard that does not hold |
| `specs`, `installed`, `label` | `_spec_by_layer`, `_installed`, the `capability` contexts entered |
| `observers`, `bound`, `heap` | the observers made, the one in `_observer`, and their state objects by address, with row and expert counts of the REAP metrics |
| `layerOf`, `stats` | `_layer_by_state`, `_stats_by_state` |
| `turn` | the forward pass in progress and the layer it is at |
| `Bypass`, `Refuse`, `Clash`, `Observe` | one layer of a pass: without wrapper; refused before, and after, the original ran; accumulated |
| `Export` | `export`, when it returns |
| `seen`, `reused` | history: rows added per layer; addresses given to a new object that the listener knew |

Floats are integers: a gate is counted in units of `1/One`, sums are exact, and
rounding slack is 0. `NonFinite` stands for a NaN or an infinity. A batch is what the
resolved routing gives: the routing formulas and the padding mask are its data, and
a batch may have a flaw (its routing is refused, or REAP returns other ids). A state
object dies when neither the caller nor the listener refers to its observer, and its
address is then free. The observer and `update_pruning_state` are REAP's: they are
modelled from how the adapter uses them. The number of active experts is the
model's and the same in all batches. Not modelled: the hook pair that exposes the
logits of MiMo, two listeners at a time, slicing, and documents that the code did
not write.

Properties. `OneObservation`: REAP and HOPE have the same rows and expert counts for
every object whose batches were sound, or refused, and HOPE never has more.
`StatsValid`: whatever was refused on the way, what the listener keeps passes
`validate` and loads again. `MergeStreams`: two exported statistics merge, and adding
a batch before or after the merge is the same, so a resumed calibration is the
calibration. `ExportComplete`: an export has all rows ever added, whatever observers
came and went. `OwnContract`: a cached layer is that of the object at the address.
`ExportComplete`, `OwnContract` and `OneObservation` except objects at a reused
address (see below). The run checks all as `RowsCounted` and `StreamsMerge`.

Run `calibration` has, as one of its machines, two layers of three experts, two active
per row; a model whose two layers have a contract and one with an unsupported layer; an
empty, two sound, a non-finite, an unresolved and a drifted batch; two forward passes, two
observers, one installation, one capability and one bad batch. Two passes let an error
in one be followed by a pass that goes on from it; two observers let rows of the first
be lost from the second; the four addresses are enough for all objects to live at once
and for one to be reused.

Theorems (`HopeStatsProofs`). Of the statistics, for any number of experts and any
batch: `AccumulateCounts` and `MergeCounts` (the counts stay symmetric, with those of
experts on the diagonal, and within the Frechet bounds that `validate` demands);
`MergeIsHealthy` (any two statistics of one width merge into such a one, capabilities
included) and `MergeThenAdd` (adding a batch before or after a merge gives the same).
`Healthy` is what the code builds: statistics and capabilities that `validate` accepts, of
rows all as wide. The rows with both of two experts active are the intersection of
the rows with each; the scores of a batch are sums over disjoint sets of rows
(`SumOfUnion`); and that counts of experts sum to rows times top-k is counting pairs of
a row and an expert twice (`CountedTwice` of `FiniteSums`).

Of the listener, for any layers, models, batches, labels, addresses and bounds:
`RowsAreCounted` (`RowsCounted`) and `StreamsAreMerged` (`StreamsMerge`). They need
`ListenerInv`, which TLC checked first on the instance of the run. `Wired`: the objects
of the observer in use and of the one bound are alive and each is its layer's, so what
`_resolve_layer` caches is right. `Matched`: the object at an address has what the
statistics of that address have, and an address without statistics has an object
that has seen nothing. It is this pairing that an error between two layers, or
inside one, must not break. `Kept`: the statistics are `Healthy`, so a refused batch left
nothing behind. `Tally`: the rows ever added to a layer are the sum over the addresses
that were its own, from which `ExportComplete` follows, because export refuses rows at
addresses of other observers. All but `Typed` and `Wired` are about addresses never
reused, as the properties are. `ListenerAssumption` says what a batch is: the
experts of each row as many as in any other batch (the model has one top-k), and at
most the layer's.

Behaviour a user should know, in the model and stated by no property: a listener that
is bound to a second observer keeps layers and statistics by the addresses of the
first one's objects, and an object placed at one of them is read under the wrong
contract and its rows added to the wrong statistics; when REAP has taken a batch that
HOPE refuses (`Clash`) the two differ, and if it was the first batch, export returns
statistics without rows instead of refusing; an empty capability name is refused only
then.

## Findings

1. `store_reuse`, a bug. A put that is killed after `os.replace` and before
   `_fsync_dir` (`store.py:415-416`) leaves a visible blob whose directory entry
   may not be on disk. A later put of the same bytes finds it
   (`_blob_matches`), takes it to be "already durable" (`store.py:386`), skips
   the fsync and commits a row. After a power loss the row names a blob that is
   not there. `docs/state-store.md:130` promises the opposite. One
   `_fsync_dir(ns_dir)` on the reuse path would close it.
2. `reservations_leak`, a divergence. `freeze` draws the bank from the hash
   (`cli.py:375`) and never reads the frozen assignments. Over a file that an
   earlier tool redistributed it freezes groups that partition keeps in training
   and the sampler gives away, although `docs/datasets.md:272-273` says the holdout
   can never leak; the migration that would repair the file is then refused.
3. `artifact_race`, a bug. Nothing stands between the preflight of create
   (`artifacts.py:578`) and its writes, so two commands on one root both pass and
   the slower overwrites sidecars of what the faster has published: a manifest that
   does not explain its files, where `docs/artifact-provenance.md:79-80` says an
   artifact exists only once all of its bytes are in place.
4. `affine_groups`, a divergence. While the zero point of any group of a chunk does
   not fit int8, the exponents of all groups of the chunk are raised
   (`quantize.py:302`); the docstring (`quantize.py:252`) says "Per group". A group
   that fits is encoded more coarsely because of a neighbour, and how many groups are
   neighbours depends on the chunk size. It stays within half of its (larger) step.
5. `groups_unseen`, a divergence. A session whose prompt names two issues belongs to
   two tasks. The sampler (`scripts/labeling_pilot_sample.py:256-258`) looks at the
   partitions of those that `task-assignments.json` already knows. If the other is in
   the reserved slice and its first transcript arrived after the last `partition`, the
   session is handed to the labellers, and the next `partition` makes its task golden,
   although line 48 says "the golden partition never enters observation corpora". What
   does hold is `HoldoutApart`: a task the sampler saw assigned is never in the bank.

Of the candidate builder, found while proving: nothing in the plan looks at the type or
the packing of an expert weight that is to be encoded again (`candidate.py:958-999`), so a
source that stores it otherwise is refused only when its rows fail to decode, after hours
of writing (`bad_packing`). The check that every retained scale was dispatched
(`candidate.py:1330-1352`) can never fire: a scale without its weight is refused on the
way, and one with it is dispatched.

Receipts of the store are written after the lock is released: of two puts of one
generation that name one output file, the older receipt may stay. It is still true
(`ReceiptsTellTruth`). A put whose output directory is missing is refused after the
row was committed, although `docs/state-store.md:181-183` says every refused put
leaves the index untouched; a retry with a good path is accepted, as a repeated put.

## Not modelled, and why

- Of the traces: languages, spam patterns, redaction and the reading of prompts and
  paths (what they find is data of the models), the weight of an episode, public
  summaries and counts (hence `partly`).
- Trace parsers: one sequential pass over exported logs, no state kept.
- Model inventory and baselines: parsing of headers, and arithmetic over tables that
  are read once; `PruneMap` takes their inventory as its input.
- Repository scripts other than the restore harness and the labelling sampler: hooks,
  captures and measurements that call Git or a runtime and keep nothing between calls.
- Runtime patches other than slot restore: C++ and kernel changes to programs whose
  source is not in the repository.
- The halogen research tools: measurement code around those programs.
- Of the REAP observer, the hook pair of MiMo, two listeners at once and the formulas
  of the routing (hence `partly`); of slot restore, the download of the model fixture,
  a retried fetch with a checksum (hence `partly`).

Left to TLC: `CommandsEnd`, as liveness is beyond the prover, and what is computed by
enumerating, packing or building sequences step by step: `AffineCodec` (`CodecHonest`),
`ExpertSelection` (`SelectionHonest`, `SweepSound`), `PairedOutcomes` (`NumbersAgree`,
but for its part `SlicesCover`) and `TortureCases` (`CasesSound`). They compare a
recursive definition with a reference definition for all inputs, which is induction over
data with an operator as its parameter. Sums over finite sets are not of that kind: one
lemma about the fold, `SumAdd`, is enough, and the induction over subsets goes through
the least counterexample, a first-order fact.

## Plan

In order; (P) marks proofs.

1. `StateStore`, `SnapshotRegistry` (P): done.
2. `Retention` (P): done.
3. `GoldenReservations` (P), `TaskGroups` (P), `TraceEpisodes` (P), `CalibrationMix` (P): done.
4. `ArtifactRoot` (P): done.
5. `HopeStats` (P), `OnePassListener` (P): done. Open: the hook pair and the routing
   formulas.
6. `PruneMap`, `CandidatePlan` (P), `MapPublication` (P), `AffineCodec`: done.
7. `SlotRestore` (P): done.
8. `Verdicts` (P), `ToolSession` (P), `PairedOutcomes` (P), `TortureCases`, `ExpertSelection`:
   done. Open: what `ExpertSelection` enumerates and `AffineCodec` packs, for any input.
9. Worth proving next: a refinement of `ArtifactRoot` to an artifact that appears at
   once, and what holds of it with two processes.
