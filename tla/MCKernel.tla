---------------------------------- MODULE MCKernel ----------------------------------
(* ExecutionKernel for TLC: handlers in threads of two workers, and in a      *)
(* behaviour of another scenario a handler with two effects, or handlers in   *)
(* processes.                                                                  *)
EXTENDS ExecutionKernel, Sequences, TLC

CONSTANTS e1, f1, f2, f3, w1, w2

VARIABLES
    scenario,   \* which of the instances below this behaviour is one of
    otherExecution, otherEffect, otherObligation, otherOutbox, otherWorker, otherOrders,
    otherDetached, otherLedger

threadVars == <<execution, effect, obligation, outbox, worker, orders, detached, ledger>>
otherVars == <<otherExecution, otherEffect, otherObligation, otherOutbox, otherWorker,
    otherOrders, otherDetached, otherLedger>>
idleVars == <<otherVars>>

OwnerSame == [f \in Effects |-> e1]
BothSame == [f \in {f1, f2} |-> e1]

Symmetry == Permutations(Workers) \cup Permutations({f1, f2})

\* One handler has two effects, whose recovery is decided in turn.
Pair == INSTANCE ExecutionKernel WITH
    Executions <- {e1}, Effects <- {f1, f2}, OwnerOf <- BothSame, Workers <- {w1},
    Isolation <- "thread", MaxAttempts <- 1, LeaseTicks <- 1, RetryDelay <- 0,
    MaxOrders <- 2, MaxRevision <- 0, execution <- otherExecution, effect <- otherEffect,
    obligation <- otherObligation, outbox <- otherOutbox, worker <- otherWorker,
    orders <- otherOrders, detached <- otherDetached, ledger <- otherLedger

\* Handlers run in processes, which are signalled and reaped.
Isolated == INSTANCE ExecutionKernel WITH
    Executions <- {e1}, Effects <- {f3}, OwnerOf <- OwnerSame, Workers <- {w1, w2},
    Isolation <- "process", MaxAttempts <- 2, LeaseTicks <- 1, RetryDelay <- 0,
    MaxOrders <- 1, MaxRevision <- 0, execution <- otherExecution, effect <- otherEffect,
    obligation <- otherObligation, outbox <- otherOutbox, worker <- otherWorker,
    orders <- otherOrders, detached <- otherDetached, ledger <- otherLedger

AnyInit ==
    /\ scenario \in {"thread", "effects", "process"}
    /\ Init
    /\ \/ scenario \notin {"process"} /\ Pair!Init
       \/ scenario = "process" /\ Isolated!Init

AnyNext ==
    /\ UNCHANGED scenario
    /\ \/ scenario = "thread" /\ Next /\ UNCHANGED idleVars
       \/ scenario = "effects" /\ Pair!Next /\ UNCHANGED <<threadVars>>
       \/ scenario = "process" /\ Isolated!Next /\ UNCHANGED <<threadVars>>

anyVars == <<scenario, threadVars, otherVars>>

AnySpec == AnyInit /\ [][AnyNext]_anyVars

------------------------------------------------------------------------------
\* The types of the Kernel, and its invariants for a handler of two effects and
\* for processes.
InstancesSound ==
    /\ scenario = "thread" => TypeOK
    /\ scenario = "effects" => Pair!KernelSound
    /\ scenario = "process" => Isolated!KernelSound

==============================================================================
