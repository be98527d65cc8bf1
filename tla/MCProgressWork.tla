------------------------------- MODULE MCProgressWork -------------------------------
(* Liveness for TLC: settlement, lifecycle events, executions, results.     *)
(* A behaviour is one of one of the instances below, whose fairness is taken  *)
(* as the hypothesis of its properties; they share no state.                  *)
EXTENDS Integers, Sequences, FiniteSets, TLC

CONSTANTS None, c1, d1, e1, e2, f1, p1, r1, w1

VARIABLES
    scenario,   \* which of the instances below this behaviour is one of
    row, accepted, out, pend, inuse, drv, j, rows, cursor, mnt,
    lifecycleRow, open, closed, outbox, retired, receipts, log, note, mem, work, dl,
    owner, lost, faults,
    closingRow, closingOpen, closingClosed, closingOutbox, closingRetired,
    closingReceipts, closingLog, closingNote, closingMem, closingWork, closingDl,
    closingOwner, closingLost, closingFaults,
    execution, effect, obligation, kernelOutbox, worker, orders, detached, ledger,
    kernel, sdk, pump, claims, handled, resultsOrders

settlementVars == <<row, accepted, out, pend, inuse, drv, j, rows, cursor, mnt>>
lifecycleVars == <<lifecycleRow, open, closed, outbox, retired, receipts, log, note,
    mem, work, dl, owner, lost, faults>>
closingVars == <<closingRow, closingOpen, closingClosed, closingOutbox, closingRetired,
    closingReceipts, closingLog, closingNote, closingMem, closingWork, closingDl,
    closingOwner, closingLost, closingFaults>>
kernelVars == <<execution, effect, obligation, kernelOutbox, worker, orders, detached,
    ledger>>
resultsVars == <<kernel, sdk, pump, claims, handled, resultsOrders>>

SameHome == [driver \in {d1} |-> r1]
OwnerOfKernel == [eff \in {f1} |-> e1]

Settlement == INSTANCE SettlementJournal WITH
    Execs <- {e1, e2}, Runtimes <- {r1}, Drivers <- {d1}, Home <- SameHome, Capacity <- 1,
    MaxFence <- 1, MaxRev <- 3, Oversized <- {e1}

Lifecycle == INSTANCE LifecycleOutbox WITH
    Execs <- {e1, e2}, Runtimes <- {r1}, MaxFence <- 1, MaxNotes <- 2, Capacity <- 6,
    ClaimSlots <- 2, CancelSlots <- 1, PendingMax <- 2, Limit <- 1, Refused <- {e1},
    Cancels <- {}, Old <- {}, MaxFaults <- 0, row <- lifecycleRow

\* A runtime may crash before it has delivered what it has in memory.
Closing == INSTANCE LifecycleOutbox WITH
    Execs <- {e1}, Runtimes <- {r1}, MaxFence <- 1, MaxNotes <- 2, Capacity <- 3,
    ClaimSlots <- 1, CancelSlots <- 1, PendingMax <- 2, Limit <- 1, Refused <- {},
    Cancels <- {}, Old <- {}, MaxFaults <- 1, row <- closingRow, open <- closingOpen,
    closed <- closingClosed, outbox <- closingOutbox, retired <- closingRetired,
    receipts <- closingReceipts, log <- closingLog, note <- closingNote, mem <- closingMem,
    work <- closingWork, dl <- closingDl, owner <- closingOwner, lost <- closingLost,
    faults <- closingFaults

Kernel == INSTANCE ExecutionKernel WITH
    Executions <- {e1}, Effects <- {f1}, OwnerOf <- OwnerOfKernel, Workers <- {w1},
    Isolation <- "process", MaxAttempts <- 2, LeaseTicks <- 1, RetryDelay <- 1,
    MaxOrders <- 1, MaxRevision <- 0, outbox <- kernelOutbox

Results == INSTANCE ResultDelivery WITH
    MaxAttempts <- 2, LeaseTicks <- 1, Delays <- {1}, Results <- {r1}, Pumps <- {p1},
    Consumers <- {c1}, MaxOrders <- 1, MaxRevision <- 0, orders <- resultsOrders

ASSUME InstancesAssumption ==
    /\ Settlement!SettlementAssumption /\ Lifecycle!LifecycleAssumption /\ Closing!LifecycleAssumption

Init ==
    /\ scenario \in {"settlement", "lifecycle", "closing", "kernel", "results"}
    /\ Settlement!Init
    /\ Lifecycle!Init
    /\ Closing!Init
    /\ Kernel!Init
    /\ Results!Init

Next ==
    /\ UNCHANGED scenario
    /\ \/ scenario = "settlement" /\ Settlement!Next
          /\ UNCHANGED <<lifecycleVars, closingVars, kernelVars, resultsVars>>
       \/ scenario = "lifecycle" /\ Lifecycle!Next
          /\ UNCHANGED <<settlementVars, closingVars, kernelVars, resultsVars>>
       \/ scenario = "closing" /\ Closing!Next
          /\ UNCHANGED <<settlementVars, lifecycleVars, kernelVars, resultsVars>>
       \/ scenario = "kernel" /\ Kernel!Next
          /\ UNCHANGED <<settlementVars, lifecycleVars, closingVars, resultsVars>>
       \/ scenario = "results" /\ Results!Next
          /\ UNCHANGED <<settlementVars, lifecycleVars, closingVars, kernelVars>>

vars == <<scenario, settlementVars, lifecycleVars, closingVars, kernelVars, resultsVars>>

Spec == Init /\ [][Next]_vars

FairSettlement ==
    /\ scenario = "settlement"
    /\ Settlement!Fairness
FairLifecycle ==
    /\ scenario = "lifecycle"
    /\ Lifecycle!Fairness
FairClosing ==
    /\ scenario = "closing"
    /\ Closing!Fairness
FairKernel ==
    /\ scenario = "kernel"
    /\ Kernel!Fairness
FairResults ==
    /\ scenario = "results"
    /\ Results!Fairness

------------------------------------------------------------------------------
\* An accepted execution ends or asks an operator, its outcome is settled, its result
\* and its lifecycle events are delivered, and their producers close.
WorkSettles ==
    /\ (FairSettlement => Settlement!EverySettled)
    /\ (FairLifecycle => Lifecycle!EventsDelivered)
    /\ (FairClosing => Closing!ProducersClose)
    /\ (FairKernel => Kernel!Settles)
    /\ (FairResults => Results!Delivered)

==============================================================================
