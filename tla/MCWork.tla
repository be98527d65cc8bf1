----------------------------------- MODULE MCWork -----------------------------------
(* What becomes of the work of a runtime, for TLC: the settlement of what a    *)
(* driver leaves behind, by two runtimes; in behaviours of other scenarios,    *)
(* two drivers that compete for slots, and the lifecycle outbox. They share    *)
(* no state.                                                                   *)
EXTENDS SettlementJournal, TLC

CONSTANTS d1, d2, d3, e1, e2, e3, r1, r2, r3, r4

VARIABLES
    scenario,   \* which of the instances below this behaviour is one of
    otherRow, otherAccepted, otherOut, otherPend, otherInuse, otherDrv, otherJ, otherRows,
    otherCursor, otherMnt,
    lifecycleRow, open, closed, outbox, retired, receipts, log, note, mem, work, dl,
    owner, lost, faults

otherVars == <<otherRow, otherAccepted, otherOut, otherPend, otherInuse, otherDrv, otherJ,
    otherRows, otherCursor, otherMnt>>
lifecycleVars == <<lifecycleRow, open, closed, outbox, retired, receipts, log, note,
    mem, work, dl, owner, lost, faults>>

SameHome == [driver \in {d1, d2} |-> r3]
OwnHomes == [driver \in {d3} |-> r3]

Symmetry == Permutations({e1, e2}) \cup Permutations({r1, r2})

\* Two executions and two drivers share the slots of a runtime.
Slots == INSTANCE SettlementJournal WITH
    Execs <- {e1, e2}, Runtimes <- {r3}, Drivers <- {d1, d2}, Home <- SameHome,
    Capacity <- 2, MaxFence <- 1, MaxRev <- 2, Oversized <- {}, row <- otherRow,
    accepted <- otherAccepted, out <- otherOut, pend <- otherPend, inuse <- otherInuse,
    drv <- otherDrv, j <- otherJ, rows <- otherRows, cursor <- otherCursor, mnt <- otherMnt

\* An execution that is claimed twice, faults.
Evidence == INSTANCE LifecycleOutbox WITH
    Execs <- {e3}, Runtimes <- {r3}, MaxFence <- 2, MaxNotes <- 3, Capacity <- 5,
    ClaimSlots <- 2, CancelSlots <- 1, PendingMax <- 2, Limit <- 1, Refused <- {},
    Cancels <- {}, Old <- {}, MaxFaults <- 2, row <- lifecycleRow

\* Two runtimes deliver and prune.
Journals == INSTANCE LifecycleOutbox WITH
    Execs <- {e3}, Runtimes <- {r1, r2}, MaxFence <- 1, MaxNotes <- 2, Capacity <- 4,
    ClaimSlots <- 2, CancelSlots <- 1, PendingMax <- 2, Limit <- 1, Refused <- {},
    Cancels <- {}, Old <- {e3}, MaxFaults <- 2, row <- lifecycleRow

\* An outbox that can be full.
Full == INSTANCE LifecycleOutbox WITH
    Execs <- {e3}, Runtimes <- {r3}, MaxFence <- 1, MaxNotes <- 1, Capacity <- 2,
    ClaimSlots <- 1, CancelSlots <- 1, PendingMax <- 2, Limit <- 2, Refused <- {},
    Cancels <- {e3}, Old <- {}, MaxFaults <- 1, row <- lifecycleRow

ASSUME InstancesAssumption ==
    /\ SettlementAssumption /\ Slots!SettlementAssumption /\ Evidence!LifecycleAssumption
    /\ Journals!LifecycleAssumption /\ Full!LifecycleAssumption

AnyInit ==
    /\ scenario \in {"slots", "receipts", "evidence", "journals", "capacity"}
    /\ Init /\ Slots!Init
    /\ \/ scenario \notin {"journals", "capacity"} /\ Evidence!Init
       \/ scenario = "journals" /\ Journals!Init
       \/ scenario = "capacity" /\ Full!Init

AnyNext ==
    /\ UNCHANGED scenario
    /\ \/ scenario = "receipts" /\ Next /\ UNCHANGED <<otherVars, lifecycleVars>>
       \/ scenario = "slots" /\ Slots!Next /\ UNCHANGED <<vars, lifecycleVars>>
       \/ scenario = "evidence" /\ Evidence!Next /\ UNCHANGED <<vars, otherVars>>
       \/ scenario = "journals" /\ Journals!Next /\ UNCHANGED <<vars, otherVars>>
       \/ scenario = "capacity" /\ Full!Next /\ UNCHANGED <<vars, otherVars>>

anyVars == <<scenario, vars, otherVars, lifecycleVars>>

AnySpec == AnyInit /\ [][AnyNext]_anyVars

------------------------------------------------------------------------------
\* The settlement of outcomes that compete for slots. Lifecycle events are in order,
\* kept until the journal has them, and kept before the lease of what they are about
\* is taken over.
InstancesSafe ==
    /\ [](scenario = "slots" => Slots!SettlementSafe)
    /\ [][scenario = "slots" => Slots!OneResultEachStep]_anyVars
    /\ [](scenario = "evidence" => Evidence!LifecycleSafe)
    /\ [](scenario = "journals" => Journals!LifecycleSafe)
    /\ [](scenario = "capacity" => Full!LifecycleSafe)
    /\ [](scenario = "capacity" => Full!CapacityKept)
    /\ [][scenario = "evidence" => Evidence!PrunedStaysPrunedStep]_anyVars
    /\ [][scenario = "journals" => Journals!PrunedStaysPrunedStep]_anyVars
    /\ [][scenario = "capacity" => Full!PrunedStaysPrunedStep]_anyVars

==============================================================================
