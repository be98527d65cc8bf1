------------------------------ MODULE MCProgressCalls ------------------------------
(* Liveness for TLC: calls between handlers and the intents of a workflow.   *)
(* A behaviour is one of one of the instances below, whose fairness is taken  *)
(* as the hypothesis of its properties; they share no state.                  *)
EXTENDS Integers, Sequences, FiniteSets, TLC

CONSTANTS None, ab, ax, bc, cd, f1, ha, hb, hc, hd, s1

VARIABLES
    scenario,   \* which of the instances below this behaviour is one of
    row, parent, req, late, call, exe, stop, faults,
    nestedRow, nestedParent, nestedReq, nestedLate, nestedCall, nestedExe, nestedStop,
    nestedFaults,
    observedRow, observedParent, observedReq, observedLate, observedCall, observedExe,
    observedStop, observedFaults,
    run, cursor, receipts, outbox, draft, view, flusher, sent, refused

waitsVars == <<row, parent, req, late, call, exe, stop, faults>>
nestedVars == <<nestedRow, nestedParent, nestedReq, nestedLate, nestedCall, nestedExe,
    nestedStop, nestedFaults>>
observedVars == <<observedRow, observedParent, observedReq, observedLate, observedCall,
    observedExe, observedStop, observedFaults>>
workflowVars == <<run, cursor, receipts, outbox, draft, view, flusher, sent, refused>>

Add(t, deps)     == [kind |-> "add_task", task |-> t, deps |-> deps]
Dispatch(t)      == [kind |-> "dispatch", task |-> t]
CancelTask(t)    == [kind |-> "cancel", task |-> t]

\* Two independent tasks and the cancellation of one
Pair == {<<Add(ha, {}), Add(hb, {}), Dispatch(ha), Dispatch(hb)>>, <<CancelTask(hb)>>}

OneAttempts == ha :> 2 @@ hb :> 1
OnceEach == [exec \in {ha, hb, hc, hd} |-> 1]
RingCaller == ab :> ha @@ bc :> hb @@ cd :> hc
NestAction == ab :> "run" @@ bc :> "run" @@ cd :> "run"
NestTarget == ab :> hb @@ bc :> hc @@ cd :> hd
AttemptsObserved == [exec \in {ha, hb, hd} |-> 1]
CallerObserved == ab :> ha @@ ax :> hd
ActionObserved == ab :> "run" @@ ax :> "wait"
TargetObserved == ab :> hb @@ ax :> hb

Waiting == INSTANCE HandlerChildren WITH
    Execs <- {ha, hb}, Requests <- {ab}, Services <- {s1}, Attempts <- OneAttempts,
    Caller <- ab :> ha, Action <- ab :> "run", Target <- ab :> hb, Capacity <- 1,
    MaxDepth <- 1, Timed <- {ab}, Decided <- {}, MaxFaults <- 1

Nested == INSTANCE HandlerChildren WITH
    Execs <- {ha, hb, hc, hd}, Requests <- {ab, bc, cd}, Services <- {s1},
    Attempts <- OnceEach, Caller <- RingCaller, Action <- NestAction, Target <- NestTarget,
    Capacity <- 2, MaxDepth <- 3, Timed <- {}, Decided <- {}, MaxFaults <- 0,
    row <- nestedRow, parent <- nestedParent, req <- nestedReq, late <- nestedLate,
    call <- nestedCall, exe <- nestedExe, stop <- nestedStop, faults <- nestedFaults

Observed == INSTANCE HandlerChildren WITH
    Execs <- {ha, hb, hd}, Requests <- {ab, ax}, Services <- {s1},
    Attempts <- AttemptsObserved, Caller <- CallerObserved, Action <- ActionObserved,
    Target <- TargetObserved, Capacity <- 2, MaxDepth <- 2, Timed <- {}, Decided <- {},
    MaxFaults <- 0, row <- observedRow, parent <- observedParent, req <- observedReq,
    late <- observedLate, call <- observedCall, exe <- observedExe, stop <- observedStop,
    faults <- observedFaults

Intents == INSTANCE Workflow WITH
    Tasks <- {ha, hb}, Waits <- {}, Decisions <- Pair, Subscriptions <- {},
    ReusesIds <- FALSE, Flushers <- {f1}, Broken <- {<<ha, 1>>}, Limit <- 1,
    MaxRetries <- 2, MaxSent <- 2, MaxUnderway <- 1, MaxAttempts <- 1, MaxFailures <- 3,
    MaxTrouble <- 1, MaxRevision <- 2

ASSUME InstancesAssumption ==
    /\ Waiting!ChildrenAssumption /\ Nested!ChildrenAssumption /\ Observed!ChildrenAssumption
    /\ Intents!LimitAssumption /\ Intents!ReuseAssumption /\ Intents!BoundAssumption

Init ==
    /\ scenario \in {"waits", "nested", "observed", "workflow"}
    /\ Waiting!Init
    /\ Nested!Init
    /\ Observed!Init
    /\ Intents!Init

Next ==
    /\ UNCHANGED scenario
    /\ \/ scenario = "waits" /\ Waiting!Next
          /\ UNCHANGED <<nestedVars, observedVars, workflowVars>>
       \/ scenario = "nested" /\ Nested!Next
          /\ UNCHANGED <<waitsVars, observedVars, workflowVars>>
       \/ scenario = "observed" /\ Observed!Next
          /\ UNCHANGED <<waitsVars, nestedVars, workflowVars>>
       \/ scenario = "workflow" /\ Intents!Next
          /\ UNCHANGED <<waitsVars, nestedVars, observedVars>>

vars == <<scenario, waitsVars, nestedVars, observedVars, workflowVars>>

Spec == Init /\ [][Next]_vars

FairWaiting ==
    /\ scenario = "waits"
    /\ Waiting!Fairness
FairNested ==
    /\ scenario = "nested"
    /\ Nested!Fairness
FairObserved ==
    /\ scenario = "observed"
    /\ Observed!Fairness
FairIntents ==
    /\ scenario = "workflow"
    /\ Intents!Fairness

------------------------------------------------------------------------------
\* Every request closes, every call is answered, nested or observed, and the children of
\* a revoked parent end.
CallsEnd ==
    /\ (FairWaiting => Waiting!WaitsClose)
    /\ (FairWaiting => Waiting!RevokedChildrenEnd)
    /\ (FairNested => Nested!CallsReturn)
    /\ (FairObserved => Observed!CallsReturn)

\* Every intent is delivered in the end, but for dispatches the runtime refuses:
\* those do not keep the others from their turn.
IntentsDelivered == FairIntents => Intents!IntentsDelivered

==============================================================================
