--------------------------- MODULE CalibrationMix ---------------------------
(* The sampling distribution of traces/calibration.py: episode records are *)
(* folded one by one into the masses of (partition, capability) cells, and *)
(* each cell gets the weight with which sampling meets its target.  Masses *)
(* and shares, floats there, are integers here, in a unit so fine that the *)
(* divisions are exact.                                                    *)
EXTENDS Integers, Sequences, FiniteSets, Functions, Optional

CONSTANTS
    Records,      \* the records an episodes file may hold
    Splits,       \* the partitions
    Taxonomy,     \* the capabilities
    SplitWeight,  \* target share of each partition, in 1 / Unit
    Anchor,       \* and of each capability
    Unit,
    SpamWeight,   \* what a downweighted event still counts
    MaxRecords    \* bound: records of a file

VARIABLES
    fold,     \* the records folded
    cells,    \* episodes and mass of each cell
    totals,   \* records and mass, included and left out
    outcome,  \* "folding", "refused" or "built"
    mix       \* the weights of the distribution

mixVars == <<fold, cells, totals, outcome, mix>>

Withheld == "golden"
Cells == (Splits \ {Withheld}) \X Taxonomy

ASSUME RatioAssumption ==
    /\ Unit \in Nat \ {0} /\ SpamWeight \in 0 .. Unit
    /\ Anchor \in [Taxonomy -> Nat] /\ SplitWeight \in [Splits -> Int]
    /\ IsFiniteSet(Splits) /\ IsFiniteSet(Taxonomy) /\ MaxRecords \in Nat
(* _partition_weights: the weights cover the partitions and sum to one;    *)
(* eligible: golden alone has less.                                        *)
ASSUME SplitAssumption ==
    /\ Withheld \in Splits /\ SplitWeight[Withheld] < Unit
    /\ SumFunction(SplitWeight) = Unit
-----------------------------------------------------------------------------
(* _coerce_record: labels of the taxonomy without repetition, a finite     *)
(* weight, a partition, and no more downweighted events than events.       *)
Admitted(r) ==
    /\ r.tags # <<>> /\ \A i \in DOMAIN r.tags : r.tags[i] \in Taxonomy
    /\ \A i, j \in DOMAIN r.tags : r.tags[i] = r.tags[j] => i = j
    /\ r.primary \in Taxonomy \cup {None}
    /\ r.weight \in Nat /\ r.split \in Splits
    /\ r.down \in Nat /\ (r.down > 0 => r.events \in Nat /\ r.down <= r.events)

Lost(r)  == (r.weight * (Unit - SpamWeight) * r.down) \div (Unit * r.events)
Mass(r)  == IF r.down = 0 THEN r.weight ELSE r.weight - Lost(r)
Share(r) == Mass(r) \div Len(r.tags)
InCell(c, r) == r.split = c[1] /\ \E i \in DOMAIN r.tags : r.tags[i] = c[2]

ASSUME RecordAssumption ==
    \A r \in Records : Admitted(r) =>
        /\ r.tags \in Seq(Taxonomy)
        /\ Len(r.tags) * Share(r) = Mass(r)
        /\ r.down > 0 =>
             Unit * r.events * Lost(r) = r.weight * (Unit - SpamWeight) * r.down
-----------------------------------------------------------------------------
Taking(r) == outcome = "folding" /\ Len(fold) < MaxRecords /\ fold' = Append(fold, r)

(* A bad record refuses the whole file.                                    *)
RefuseFile(r) ==
    /\ Taking(r) /\ ~Admitted(r)
    /\ outcome' = "refused" /\ UNCHANGED <<cells, totals, mix>>

(* Mutant: golden is counted in.                                           *)
LeaveNothingOut(r) ==
    /\ Taking(r) /\ Admitted(r) /\ r.split = Withheld
    /\ totals' = [totals EXCEPT !.left = @ + 1, !.leftMass = @ + Mass(r),
                                !.mass = @ + Mass(r)]
    /\ UNCHANGED <<cells, outcome, mix>>

(* Golden is counted and left out.                                         *)
LeaveOut(r) ==
    /\ Taking(r) /\ Admitted(r) /\ r.split = Withheld
    /\ totals' = [totals EXCEPT !.left = @ + 1, !.leftMass = @ + Mass(r)]
    /\ UNCHANGED <<cells, outcome, mix>>

(* Any other record splits its mass evenly over its capabilities.          *)
CountIn(r) ==
    /\ Taking(r) /\ Admitted(r) /\ r.split # Withheld
    /\ totals' = [totals EXCEPT !.records = @ + 1, !.mass = @ + Mass(r)]
    /\ cells' = [c \in Cells |->
                    IF InCell(c, r)
                      THEN [episodes |-> cells[c].episodes + 1,
                            mass |-> cells[c].mass + Share(r)]
                      ELSE cells[c]]
    /\ UNCHANGED <<outcome, mix>>

(* Target share of a cell, in 1 / ((Unit - the reserved weight) * Unit).   *)
Target(c) == SplitWeight[c[1]] * Anchor[c[2]]
Reported(c) == cells[c].episodes > 0 \/ Target(c) > 0
(* The weight is target / realized, as a fraction; that of a positive      *)
(* target that no mass reaches is null, here a fraction over zero.         *)
Unreachable == <<0, 0>>
Weighting(c) ==
    IF cells[c].mass > 0 THEN <<Target(c) * totals.mass, cells[c].mass>>
    ELSE IF Target(c) > 0 THEN Unreachable ELSE <<0, 1>>
Conclude ==
    /\ outcome = "folding"
    /\ IF totals.records = 0 \/ totals.mass <= 0
         THEN outcome' = "refused" /\ mix' = mix
         ELSE /\ outcome' = "built"
              /\ mix' = [c \in {d \in Cells : Reported(d)} |-> Weighting(c)]
    /\ UNCHANGED <<fold, cells, totals>>
-----------------------------------------------------------------------------
MixInit ==
    /\ fold = <<>> /\ cells = [c \in Cells |-> [episodes |-> 0, mass |-> 0]]
    /\ totals = [records |-> 0, mass |-> 0, left |-> 0, leftMass |-> 0]
    /\ outcome = "folding" /\ mix = <<>>
MixNext ==
    \/ \E r \in Records : RefuseFile(r) \/ LeaveOut(r) \/ CountIn(r)
    \/ Conclude
MixSpec == MixInit /\ [][MixNext]_mixVars
-----------------------------------------------------------------------------
Folded == {i \in DOMAIN fold : Admitted(fold[i])}
Sources(c)  == {i \in Folded : InCell(c, fold[i])}
Shares   == [i \in Folded |-> Share(fold[i])]
Masses   == [i \in Folded |-> Mass(fold[i])]
CellMass == [c \in Cells |-> cells[c].mass]

(* A cell holds the shares of the episodes with its partition and tag.     *)
CellsHonest ==
    \A c \in Cells :
        /\ cells[c].episodes = Cardinality(Sources(c))
        /\ cells[c].mass = SumFunctionOnSet(Shares, Sources(c))
(* No mass is lost or made: the cells share out what is included, and with *)
(* golden it is the mass of all records.                                   *)
MassKept ==
    /\ SumFunctionOnSet(CellMass, Cells) = totals.mass
    /\ totals.mass + totals.leftMass = SumFunctionOnSet(Masses, Folded)
    /\ totals.records + totals.left = Cardinality(Folded)
(* Drawn with its weight the mass of a cell is its target, and a target    *)
(* without a weight is one that no episode with mass can reach.  (Nothing  *)
(* keeps a weight of the configuration, and a target, from being negative.) *)
TargetsMet ==
    outcome = "built" =>
        \A c \in Cells :
            /\ Target(c) > 0 => c \in DOMAIN mix
            /\ c \in DOMAIN mix /\ Target(c) >= 0 =>
                 IF mix[c] = Unreachable
                   THEN \A i \in Sources(c) : Mass(fold[i]) = 0
                   ELSE /\ mix[c][2] > 0
                        /\ mix[c][1] * SumFunctionOnSet(Shares, Sources(c))
                             = Target(c) * totals.mass * mix[c][2]
(* The distribution conserves mass, leaves golden out, and its weights     *)
(* turn the masses of the records into the targets (build_distribution).   *)
MixConserved == CellsHonest /\ MassKept /\ TargetsMet
=============================================================================
