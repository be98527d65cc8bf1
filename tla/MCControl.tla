--------------------------------- MODULE MCControl ---------------------------------
(* RunControl for TLC, with two pauses and resumes of an adopted Run and one   *)
(* cancellation; in a behaviour of another scenario other operations, the      *)
(* dispatches they meet (RunDispatch), or the recovery of a Run.               *)
EXTENDS RunControl, Sequences, TLC

CONSTANTS c1, c2, c3, client, e1, e2, e3, host, o1, o2, o3, r1

VARIABLES
    scenario,   \* which of the instances below this behaviour is one of
    otherKc, otherKa, otherKop, otherKfence, otherKtaken, otherOc, otherOp,
    otherOtaken, otherClaim, otherCf, otherSeen, otherLease,
    msg, mgen, permit, drain, ex, flush, csent,
    run, task, note, rec, order, turn, recoveryFlush

controlVars == <<kc, ka, kop, kfence, ktaken, oc, op, otaken, claim, cf, seen, lease>>
dispatchVars == <<otherKc, otherKa, otherKop, otherKfence, otherKtaken, otherOc, otherOp,
    otherOtaken, otherClaim, otherCf, otherSeen, otherLease,
    msg, mgen, permit, drain, ex, flush, csent>>
recoveryVars == <<run, task, note, rec, order, turn, recoveryFlush>>

OneRun == c1 :> r1 @@ c2 :> r1

Symmetry == Permutations({c1, c2}) \cup Permutations({o1, o2}) \cup Permutations({e1, e2})

\* A pause and a resume, two cancellations.
Cancelled == INSTANCE RunDispatch WITH
    Ops <- {o3}, Cancels <- {c1, c2}, MaxLease <- 2, Started <- "active", Execs <- {},
    kc <- otherKc, ka <- otherKa, kop <- otherKop, kfence <- otherKfence, ktaken <-
    otherKtaken, oc <- otherOc, op <- otherOp, otaken <- otherOtaken, claim <-
    otherClaim, cf <- otherCf, seen <- otherSeen, lease <- otherLease

\* A dispatch under a pause and a cancellation.
Dispatched == INSTANCE RunDispatch WITH
    Ops <- {o3}, Cancels <- {c3}, MaxLease <- 2, Started <- "active", Execs <- {e3},
    kc <- otherKc, ka <- otherKa, kop <- otherKop, kfence <- otherKfence, ktaken <-
    otherKtaken, oc <- otherOc, op <- otherOp, otaken <- otherOtaken, claim <-
    otherClaim, cf <- otherCf, seen <- otherSeen, lease <- otherLease

\* Two dispatches under two pauses.
Drained == INSTANCE RunDispatch WITH
    Ops <- {o1, o2}, Cancels <- {}, MaxLease <- 1, Started <- "active", Execs <- {e1, e2},
    kc <- otherKc, ka <- otherKa, kop <- otherKop, kfence <- otherKfence, ktaken <-
    otherKtaken, oc <- otherOc, op <- otherOp, otaken <- otherOtaken, claim <-
    otherClaim, cf <- otherCf, seen <- otherSeen, lease <- otherLease

\* Two recoveries of a Run, of two owners.
Recovery == INSTANCE RunRecovery WITH
    Runs <- {r1}, Commands <- {c1, c2}, Owners <- {client, host}, Host <- host,
    RunOf <- OneRun, Good <- {c1, c2}, Limit <- 1, Notified <- {r1}, MaxClaims <- 1,
    flush <- recoveryFlush

ASSUME InstancesAssumption ==
    /\ ControlAssumption /\ Cancelled!ControlAssumption
    /\ Dispatched!ControlAssumption /\ Drained!ControlAssumption
    /\ Recovery!RecoveryAssumption

AnyInit ==
    /\ scenario \in {"cycle", "cancels", "dispatch", "drain", "recovery"}
    /\ Init
    /\ \/ scenario \notin {"dispatch", "drain"} /\ Cancelled!DispatchInit
       \/ scenario = "dispatch" /\ Dispatched!DispatchInit
       \/ scenario = "drain" /\ Drained!DispatchInit
    /\ Recovery!Init

\* Without executions RunDispatch is RunControl.
AnyNext ==
    /\ UNCHANGED scenario
    /\ \/ scenario = "cycle" /\ Next /\ UNCHANGED <<dispatchVars, recoveryVars>>
       \/ /\ UNCHANGED <<controlVars, recoveryVars>>
          /\ \/ scenario = "cancels" /\ Cancelled!Next
                /\ UNCHANGED <<msg, mgen, permit, drain, ex, flush, csent>>
             \/ scenario = "dispatch" /\ Dispatched!DispatchNext
             \/ scenario = "drain" /\ Drained!DispatchNext
       \/ scenario = "recovery" /\ Recovery!Next /\ UNCHANGED <<controlVars, dispatchVars>>

anyVars == <<scenario, controlVars, dispatchVars, recoveryVars>>

AnySpec == AnyInit /\ [][AnyNext]_anyVars

------------------------------------------------------------------------------
\* The gates in the other scenarios, and the dispatches of a Run under them: the
\* permits, the drain set and the executions the Kernel has.  No step opens a gate
\* under a lease that was lost, nor after a cancellation.  Two recoveries of a Run that
\* compete leave it as RecoverySafe says.
InstancesAgree ==
    /\ [](scenario = "cancels" => Cancelled!GatesAgree)
    /\ [](scenario = "dispatch" => Dispatched!GatesAgree /\ Dispatched!DispatchesAgree)
    /\ [](scenario = "drain" => Drained!GatesAgree /\ Drained!DispatchesAgree)
    /\ [](scenario = "recovery" => Recovery!RecoverySafe)
    /\ [][scenario = "cycle" => GateSteps]_anyVars
    /\ [][scenario = "cancels" => Cancelled!GateSteps]_anyVars
    /\ [][scenario = "dispatch" => Dispatched!GateSteps /\ Dispatched!DispatchSteps]_anyVars
    /\ [][scenario = "drain" => Drained!GateSteps /\ Drained!DispatchSteps]_anyVars

==============================================================================
