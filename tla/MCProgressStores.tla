------------------------------ MODULE MCProgressStores ------------------------------
(* RunRecovery for TLC, with the recovery of a Run by its caller or by the    *)
(* host, and liveness of control, recovery, storage and the host.  A          *)
(* behaviour is one of RunRecovery or of one of the instances below, whose    *)
(* fairness is taken as the hypothesis of its properties; they share no state.*)
EXTENDS RunRecovery, TLC

CONSTANTS c1, c2, ca, client, d1, host, kst, n1, o1, r1, r2, u1, u2, w1, wst

VARIABLES
    scenario,   \* which of the instances below this behaviour is one of
    crowdRun, crowdTask, crowdNote, crowdRec, crowdOrder, crowdTurn, crowdFlush,
    kc, ka, kop, kfence, ktaken, oc, op, otaken, claim, cf, seen, lease,
    data, lock, retired, reserved, dir, snap, act, conn, handoffSeen, faults,
    disposalRun, ties, tombstone, mutation, looked, origin, deletion, references,
    closed, document, pc, disposalSeen, plan, crashes,
    state, stopping, coord, ready, futures, undelivered, runtime, revoked, revoker,
    closer, attempted, shutting, shutAt, error, report, calls, answers, told, stops,
    silent, notifier, hostFaults

controlVars == <<kc, ka, kop, kfence, ktaken, oc, op, otaken, claim, cf, seen, lease>>
OneRun == c1 :> r1
TwoRuns == c1 :> r1 @@ c2 :> r2

crowdVars == <<crowdRun, crowdTask, crowdNote, crowdRec, crowdOrder, crowdTurn, crowdFlush>>
handoffVars == <<data, lock, retired, reserved, dir, snap, act, conn, handoffSeen,
    faults>>
disposalVars == <<disposalRun, ties, tombstone, mutation, looked, origin, deletion,
    references, closed, document, pc, disposalSeen, plan, crashes>>
hostVars == <<state, stopping, coord, ready, futures, undelivered, runtime, revoked,
    revoker, closer, attempted, shutting, shutAt, error, report, calls, answers, told,
    stops, silent, notifier, hostFaults>>

Control == INSTANCE RunControl WITH
    Ops <- {o1}, Cancels <- {c1}, MaxLease <- 3, Started <- "active"

\* The host reads one recovery in a turn, and c2 cannot be committed.
Crowd == INSTANCE RunRecovery WITH
    Runs <- {r1, r2}, Commands <- {c1, c2}, RunOf <- TwoRuns, Good <- {c1}, Limit <- 1,
    Notified <- {}, MaxClaims <- 0, run <- crowdRun, task <- crowdTask, note <- crowdNote,
    rec <- crowdRec, order <- crowdOrder, turn <- crowdTurn, flush <- crowdFlush

\* Both Runs have failed, and the reopening of r2 by c2 is prepared.
CrowdInit ==
    /\ crowdRun = [r \in {r1, r2} |-> [st |-> "failed", gen |-> 0, linked |-> FALSE]]
    /\ crowdTask = [r \in {r1, r2} |-> [g \in Crowd!Generations |-> Crowd!NoTask]]
    /\ crowdNote = [r \in {r1, r2} |-> [flying |-> FALSE, claims |-> 0]]
    /\ crowdRec =
        c1 :> [st |-> "none", owner |-> Host, lease |-> FALSE, target |-> 0, moved |-> FALSE]
        @@ c2 :> [st |-> "prepared", owner |-> client, lease |-> TRUE, target |-> 1, moved |-> FALSE]
    /\ crowdOrder = <<c2>> /\ crowdTurn = {}
    /\ crowdFlush = Crowd!IdleFlush

\* An interrupted activation is retried.
Handoff == INSTANCE StorageHandoff WITH
    Order <- <<kst, wst>>, Named <- <<wst, kst>>, Snaps <- {n1}, Ops <- {o1}, Dests <- {d1}, Dest <- o1 :> d1,
    Users <- {u1}, Openable <- {<<"origin", kst>>, <<"origin", wst>>, <<d1, kst>>}, Prepared <- {d1},
    Losses <- {"successor"}, MaxVersion <- 2, MaxFaults <- 3, seen <- handoffSeen

\* A disposal that crashes is taken up again.
Disposal == INSTANCE RunDisposal WITH
    Runs <- {r1, r2}, Operators <- {1}, Edges <- {<<r2, r1>>}, MaxWrites <- 4, MaxRevision <- 5,
    MaxCrashes <- 2, run <- disposalRun, seen <- disposalSeen

Runtime == INSTANCE RuntimeHost WITH
    Workers <- {w1}, Callers <- {ca}, Bounded <- {ca}, Notifies <- TRUE,
    Faults <- {"bridge", "coordinator"}, MaxFaults <- 1, MaxStops <- 2, faults <- hostFaults

ASSUME InstancesAssumption ==
    /\ Control!ControlAssumption /\ RecoveryAssumption /\ Handoff!HandoffAssumption
    /\ Runtime!BoundedAssumption

AnyInit ==
    /\ scenario \in {"control", "recovery", "crowded", "handoff", "disposal", "host"}
    /\ Control!Init
    /\ Init
    /\ CrowdInit
    /\ Handoff!Init
    /\ Disposal!Init
    /\ Runtime!Init

AnyNext ==
    /\ UNCHANGED scenario
    /\ \/ scenario = "control" /\ Control!Next
          /\ UNCHANGED <<vars, crowdVars, handoffVars, disposalVars, hostVars>>
       \/ scenario = "recovery" /\ Next
          /\ UNCHANGED <<controlVars, crowdVars, handoffVars, disposalVars, hostVars>>
       \/ scenario = "crowded" /\ Crowd!Next
          /\ UNCHANGED <<controlVars, vars, handoffVars, disposalVars, hostVars>>
       \/ scenario = "handoff" /\ Handoff!Next
          /\ UNCHANGED <<controlVars, vars, crowdVars, disposalVars, hostVars>>
       \/ scenario = "disposal" /\ Disposal!Next
          /\ UNCHANGED <<controlVars, vars, crowdVars, handoffVars, hostVars>>
       \/ scenario = "host" /\ Runtime!Next
          /\ UNCHANGED <<controlVars, vars, crowdVars, handoffVars, disposalVars>>

anyVars == <<scenario, controlVars, vars, crowdVars, handoffVars, disposalVars, hostVars>>

AnySpec == AnyInit /\ [][AnyNext]_anyVars

FairControl ==
    /\ scenario = "control"
    /\ Control!Fairness
FairRecovery ==
    /\ scenario = "recovery"
    /\ HostFairness
    /\ DeliveryFairness
FairCrowded ==
    /\ scenario = "crowded"
    /\ Crowd!HostFairness
FairHandoff ==
    /\ scenario = "handoff"
    /\ Handoff!Fairness
FairDisposal ==
    /\ scenario = "disposal"
    /\ Disposal!Fairness
FairHost ==
    /\ scenario = "host"
    /\ Runtime!Fairness

------------------------------------------------------------------------------
\* What was begun comes to its end after crashes: pauses, resumes, recoveries and
\* their messages, activations, disposals, and the stop of a host.
OperationsEnd ==
    /\ (FairControl => Control!PauseCompletes)
    /\ (FairControl => Control!ResumeCompletes)
    /\ (FairRecovery => GoodAreFinished)
    /\ (FairRecovery => IntentsGoOut)
    /\ (FairCrowded => Crowd!GoodAreFinished)
    /\ (FairHandoff => Handoff!HandoffEnds)
    /\ (FairDisposal => Disposal!DisposalsEnd)
    /\ (FairHost => Runtime!StopCloses)
    /\ (FairHost => Runtime!CallersReturn)

==============================================================================
