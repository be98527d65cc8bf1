--------------------------------- MODULE MCStorage ---------------------------------
(* The storage components for TLC.  RunDisposal, StorageHandoff and          *)
(* HistoryRetention share no state: a behaviour is one of one of them, with  *)
(* constants of its own, and the others stay where they begin.               *)
EXTENDS RunDisposal, Sequences, TLC

CONSTANTS d1, d2, kst, n1, n2, o1, o2, r1, r2, state, u1, u2, va, vb, vc, wait, wst

VARIABLES
    scenario,   \* which of the instances below this behaviour is one of
    data, lock, retired, reserved, dir, snap, act, conn, handoffSeen, faults,
    revision, items, history, revisions, expired, receipts, events, sequence, highWater,
    expiredThrough, cursor, recoveries, objects, writes, place, retentionPlan, applied,
    was, emitted

handoffVars == <<data, lock, retired, reserved, dir, snap, act, conn, handoffSeen, faults>>
retentionVars == <<revision, items, history, revisions, expired, receipts, events,
    sequence, highWater, expiredThrough, cursor, recoveries, objects, writes, place,
    retentionPlan, applied, was, emitted>>

OwnTargets == o1 :> d1 @@ o2 :> d2
SameTarget == o1 :> d1 @@ o2 :> d1
KeepOne == {[revisions |-> 1, events |-> 0]}
KeepOneOrTwo == KeepOne \cup {[revisions |-> 2, events |-> 0]}
Plain == va :> {} @@ vb :> {} @@ vc :> {}
PoliciesEvents == {[revisions |-> 1, events |-> 0], [revisions |-> -1, events |-> 1]}
KeepNone == {[revisions |-> 0, events |-> 0]}
Shared == va :> {1} @@ vb :> {1, 2} @@ vc :> {2}

Symmetry == Permutations({u1, u2})

\* Two operations compete for a group of two stores.
Races == INSTANCE StorageHandoff WITH
    Order <- <<kst, wst>>, Named <- <<wst, kst>>, Snaps <- {n1}, Ops <- {o1, o2},
    Dests <- {d1, d2}, Dest <- OwnTargets, Users <- {u1, u2},
    Openable <- {"origin", d1} \X {kst, wst}, Prepared <- {d1, d2}, Losses <- {},
    MaxVersion <- 2, MaxFaults <- 2, seen <- handoffSeen

\* Two snapshots are taken while a user writes.
Snapshots == INSTANCE StorageHandoff WITH
    Order <- <<kst, wst>>, Named <- <<wst, kst>>, Snaps <- {n1, n2}, Ops <- {o1}, Dests <- {d1}, Dest <- o1 :> d1,
    Users <- {u1}, Openable <- {<<"origin", kst>>, <<"origin", wst>>}, Prepared <- {d1},
    Losses <- {}, MaxVersion <- 2, MaxFaults <- 1, seen <- handoffSeen

\* A successor or its reservation is lost.
Lost == INSTANCE StorageHandoff WITH
    Order <- <<kst>>, Named <- <<kst>>, Snaps <- {n1}, Ops <- {o1, o2}, Dests <- {d1}, Dest <- SameTarget,
    Users <- {u1, u2}, Openable <- {<<"origin", kst>>, <<d1, kst>>}, Prepared <- {},
    Losses <- {"successor", "reservation"}, MaxVersion <- 2, MaxFaults <- 3, seen <- handoffSeen

\* Two fields, each of which changes once, and two policies one after the other.
Kept == INSTANCE HistoryRetention WITH
    Runs <- {r1}, Fields <- {state, wait}, Values <- {vb}, Subs <- {}, Operators <- {1},
    Policies <- KeepOneOrTwo, Parts <- Plain, First <- va, MaxRevision <- 3, MaxWrites <- 5,
    plan <- retentionPlan

\* A field that changes and changes back.
Changing == INSTANCE HistoryRetention WITH
    Runs <- {r1}, Fields <- {state}, Values <- {va, vb}, Subs <- {}, Operators <- {1},
    Policies <- KeepOne, Parts <- Plain, First <- va, MaxRevision <- 3, MaxWrites <- 5,
    plan <- retentionPlan

\* A subscription, events are removed.
Events == INSTANCE HistoryRetention WITH
    Runs <- {r1}, Fields <- {state}, Values <- {va}, Subs <- {1}, Operators <- {1},
    Policies <- PoliciesEvents, Parts <- Plain, First <- va, MaxRevision <- 3,
    MaxWrites <- 5, plan <- retentionPlan

\* Two Runs whose values share content objects.
Content == INSTANCE HistoryRetention WITH
    Runs <- {r1, r2}, Fields <- {state}, Values <- {vb, vc}, Subs <- {}, Operators <- {1},
    Policies <- KeepNone, Parts <- Shared, First <- va, MaxRevision <- 2, MaxWrites <- 4, plan <- retentionPlan

\* One Run may refer to the other.
OneEdge == {<<r2, r1>>}

ASSUME InstancesAssumption ==
    /\ DisposalAssumption
    /\ Races!HandoffAssumption /\ Snapshots!HandoffAssumption /\ Lost!HandoffAssumption

AnyInit ==
    /\ scenario \in {"races", "snapshots", "losses", "history", "changes", "events", "content",
         "disposals"}
    /\ \/ scenario \notin {"snapshots", "losses"} /\ Races!Init
       \/ scenario = "snapshots" /\ Snapshots!Init
       \/ scenario = "losses" /\ Lost!Init
    /\ \/ scenario \notin {"changes", "events", "content"} /\ Kept!Init
       \/ scenario = "changes" /\ Changing!Init
       \/ scenario = "events" /\ Events!Init
       \/ scenario = "content" /\ Content!Init
    /\ Init

AnyNext ==
    /\ UNCHANGED scenario
    /\ \/ scenario = "races" /\ Races!Next /\ UNCHANGED <<retentionVars, vars>>
       \/ scenario = "snapshots" /\ Snapshots!Next
          /\ UNCHANGED <<retentionVars, vars>>
       \/ scenario = "losses" /\ Lost!Next /\ UNCHANGED <<retentionVars, vars>>
       \/ scenario = "history" /\ Kept!Next /\ UNCHANGED <<handoffVars, vars>>
       \/ scenario = "changes" /\ Changing!Next /\ UNCHANGED <<handoffVars, vars>>
       \/ scenario = "events" /\ Events!Next /\ UNCHANGED <<handoffVars, vars>>
       \/ scenario = "content" /\ Content!Next /\ UNCHANGED <<handoffVars, vars>>
       \/ scenario = "disposals" /\ Next
          /\ UNCHANGED <<handoffVars, retentionVars>>

anyVars == <<scenario, handoffVars, retentionVars, vars>>

AnySpec == AnyInit /\ [][AnyNext]_anyVars

------------------------------------------------------------------------------
\* One owner, one successor, nothing left behind, and snapshots that are cuts.
HandoffSafe ==
    /\ [](scenario = "races" => Races!HandoffSafe)
    /\ [](scenario = "snapshots" => Snapshots!HandoffSafe)
    /\ [](scenario = "losses" => Lost!HandoffSafe)
    /\ [](scenario = "races" => Races!GateHolds)
    /\ [][scenario = "races" => Races!HandoffSteps]_anyVars
    /\ [][scenario = "snapshots" => Snapshots!HandoffSteps]_anyVars
    /\ [][scenario = "losses" => Lost!HandoffSteps]_anyVars

\* What the removal of old rows leaves is whole: history, receipts, events, content.
RetentionSafe ==
    /\ [](scenario = "history" => Kept!RetentionSafe)
    /\ [](scenario = "changes" => Changing!RetentionSafe)
    /\ [](scenario = "events" => Events!RetentionSafe)
    /\ [](scenario = "content" => Content!RetentionSafe)
    /\ [][scenario = "history" => Kept!OnlyWhatWasPlannedStep]_anyVars
    /\ [][scenario = "changes" => Changing!OnlyWhatWasPlannedStep]_anyVars
    /\ [][scenario = "events" => Events!OnlyWhatWasPlannedStep]_anyVars
    /\ [][scenario = "content" => Content!OnlyWhatWasPlannedStep]_anyVars

==============================================================================
