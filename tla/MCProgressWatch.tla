------------------------------ MODULE MCProgressWatch ------------------------------
(* Liveness for TLC: notifications and stalls.                              *)
(* A behaviour is one of one of the instances below, whose fairness is taken  *)
(* as the hypothesis of its properties; they share no state.                  *)
EXTENDS Integers, Sequences, FiniteSets, TLC

CONSTANTS None, c1, d1, e1, e2, k1, n1, s1, v1, w1, w2

VARIABLES
    scenario,   \* which of the instances below this behaviour is one of
    log, attempt, watch, coll, queue, inbox, courier, consumer, applied, failures,
    orders,
    noticesLog, noticesAttempt, noticesWatch, noticesColl, noticesQueue, noticesInbox,
    noticesCourier, noticesConsumer, noticesApplied, noticesFailures, noticesOrders,
    stallInbox, exec, over, note, slot, native, proofs, held, phase, broken, started,
    faults, stallOrders,
    episodesExec, sup, output, pol, ep, out, ev, cour, told, quiet, verdict,
    episodesOrders, episodesFaults

watchesVars == <<log, attempt, watch, coll, queue, inbox, courier, consumer, applied,
    failures, orders>>
noticesVars == <<noticesLog, noticesAttempt, noticesWatch, noticesColl, noticesQueue,
    noticesInbox, noticesCourier, noticesConsumer, noticesApplied, noticesFailures,
    noticesOrders>>
stallVars == <<stallInbox, exec, over, note, slot, native, proofs, held, phase, broken,
    started, faults, stallOrders>>
episodesVars == <<episodesExec, sup, output, pol, ep, out, ev, cour, told, quiet,
    verdict, episodesOrders, episodesFaults>>

OneEach == w1 :> e1 @@ w2 :> e2

Watching == INSTANCE NotificationDelivery WITH
    MaxAttempts <- 2, LeaseTicks <- 1, Delays <- {1}, Execs <- {e1, e2},
    Watches <- {w1, w2}, ExecOf <- OneEach, Stalls <- {}, Collectors <- {c1},
    Couriers <- {}, Consumers <- {}, PageSize <- 1, MaxEvents <- 3, MaxFailures <- 1,
    MaxOrders <- 0

Telling == INSTANCE NotificationDelivery WITH
    MaxAttempts <- 2, LeaseTicks <- 1, Delays <- {1}, Execs <- {e1}, Watches <- {w1},
    ExecOf <- w1 :> e1, Stalls <- {}, Collectors <- {c1}, Couriers <- {d1},
    Consumers <- {k1}, PageSize <- 1, MaxEvents <- 3, MaxFailures <- 1, MaxOrders <- 0,
    log <- noticesLog, attempt <- noticesAttempt, watch <- noticesWatch,
    coll <- noticesColl, queue <- noticesQueue, inbox <- noticesInbox,
    courier <- noticesCourier, consumer <- noticesConsumer, applied <- noticesApplied,
    failures <- noticesFailures, orders <- noticesOrders

Stall == INSTANCE StallSupervisor WITH
    MaxAttempts <- 2, LeaseTicks <- 1, Delays <- {0}, Supervisors <- {s1}, Notices <- {n1},
    Capacity <- 1, MaxFaults <- 2, MaxOrders <- 0, inbox <- stallInbox,
    orders <- stallOrders

Silence == INSTANCE StallEpisodes WITH
    Services <- {s1}, Versions <- {v1}, Episodes <- {e1, e2}, Interval <- 1,
    Consecutive <- 1, Gap <- 9, Lag <- 0, MaxDeliveries <- 1, MaxProgress <- 1,
    MaxOutput <- 0, MaxFence <- 1, MaxOrders <- 0, MaxFaults <- 1, exec <- episodesExec,
    orders <- episodesOrders, faults <- episodesFaults

ASSUME InstancesAssumption ==
    /\ Watching!WatchAssumption /\ Telling!WatchAssumption /\ Stall!CapacityAssumption
    /\ Silence!WindowsAssumption

Init ==
    /\ scenario \in {"watches", "notices", "stall", "episodes"}
    /\ Watching!Init
    /\ Telling!Init
    /\ Stall!Init
    /\ Silence!Init

Next ==
    /\ UNCHANGED scenario
    /\ \/ scenario = "watches" /\ Watching!Next
          /\ UNCHANGED <<noticesVars, stallVars, episodesVars>>
       \/ scenario = "notices" /\ Telling!Next
          /\ UNCHANGED <<watchesVars, stallVars, episodesVars>>
       \/ scenario = "stall" /\ Stall!Next
          /\ UNCHANGED <<watchesVars, noticesVars, episodesVars>>
       \/ scenario = "episodes" /\ Silence!Next
          /\ UNCHANGED <<watchesVars, noticesVars, stallVars>>

vars == <<scenario, watchesVars, noticesVars, stallVars, episodesVars>>

Spec == Init /\ [][Next]_vars

FairWatching ==
    /\ scenario = "watches"
    /\ Watching!Fairness
FairTelling ==
    /\ scenario = "notices"
    /\ Telling!Fairness
FairStall ==
    /\ scenario = "stall"
    /\ Stall!Fairness
FairSilence ==
    /\ scenario = "episodes"
    /\ Silence!Fairness

------------------------------------------------------------------------------
\* Every end is noticed and told, every notice settles and gives its slot back, and a
\* silence is told.
EndsAreKnown ==
    /\ (FairWatching => Watching!EndsAreNoticed)
    /\ (FairTelling => Telling!EndsAreTold)
    /\ (FairStall => Stall!NoticesSettle)
    /\ (FairStall => Stall!SlotsReturn)
    /\ (FairSilence => Silence!SilenceIsTold)
    /\ (FairSilence => Silence!EpisodesRegister)

==============================================================================
