------------------------------- MODULE MCSupervision -------------------------------
(* The clock of the Kernel, and what watches over work, for TLC: process      *)
(* handlers, the host, notifications and the stall supervision.  They share   *)
(* no state: a behaviour is one of KernelClock or of an instance below.        *)
EXTENDS KernelClock, Sequences, FiniteSets, TLC

CONSTANTS
    None, b1, b2, ca, cb, e1, n3, s3, v3, w1, w2,
    p1, p2      \* the two services, versions, notices or supervisors of an instance
                \* that has two

VARIABLES
    scenario,   \* which of the instances below this behaviour is one of
    state, stopping, coord, ready, futures, undelivered, runtime, revoked, revoker,
    closer, attempted, shutting, shutAt, error, report, calls, answers, told, stops,
    silent, notifier, faults,
    inbox, exec, over, note, slot, native, proofs, held, phase, broken, started,
    stallFaults, orders,
    episodesExec, sup, output, pol, ep, out, ev, cour, episodesTold, quiet, verdict,
    episodesOrders, episodesFaults

clockVars == <<wall, watermark, expiry, tx, refused>>
hostVars == <<state, stopping, coord, ready, futures, undelivered, runtime, revoked,
    revoker, closer, attempted, shutting, shutAt, error, report, calls, answers, told,
    stops, silent, notifier, faults>>
stallVars == <<inbox, exec, over, note, slot, native, proofs, held, phase, broken,
    started, stallFaults, orders>>
episodesVars == <<episodesExec, sup, output, pol, ep, out, ev, cour, episodesTold,
    quiet, verdict, episodesOrders, episodesFaults>>
idleVars == <<hostVars, stallVars, episodesVars>>

FaultsFaulty == {"bridge", "start", "thread", "pool", "close", "coordinator"}

Symmetry == Permutations({p1, p2}) \cup Permutations({b1, b2})

\* Two callers stop a host of two workers.
Stops == INSTANCE RuntimeHost WITH
    Workers <- {w1, w2}, Callers <- {ca, cb}, Bounded <- {ca}, Notifies <- TRUE,
    Faults <- {"bridge", "coordinator", "close"}, MaxFaults <- 1, MaxStops <- 2

\* One worker, every fault.
Faulty == INSTANCE RuntimeHost WITH
    Workers <- {w1}, Callers <- {ca, cb}, Bounded <- {ca}, Notifies <- FALSE,
    Faults <- FaultsFaulty, MaxFaults <- 3, MaxStops <- 2

\* Two notices compete for the slot of a supervisor.
Slots == INSTANCE StallSupervisor WITH
    MaxAttempts <- 1, LeaseTicks <- 1, Delays <- {0}, Supervisors <- {s3},
    Notices <- {p1, p2}, Capacity <- 1, MaxFaults <- 1, MaxOrders <- 0,
    faults <- stallFaults

\* A notice is tried again, by itself or as an operator orders.
Retried == INSTANCE StallSupervisor WITH
    MaxAttempts <- 2, LeaseTicks <- 1, Delays <- {0}, Supervisors <- {s3}, Notices <- {n3},
    Capacity <- 1, MaxFaults <- 2, MaxOrders <- 1, faults <- stallFaults

\* Two supervisors share an inbox.
Shared == INSTANCE StallSupervisor WITH
    MaxAttempts <- 2, LeaseTicks <- 1, Delays <- {0}, Supervisors <- {p1, p2},
    Notices <- {n3}, Capacity <- 2, MaxFaults <- 1, MaxOrders <- 0, faults <- stallFaults

\* Two samples make a stall, a sample may be late.
Sampled == INSTANCE StallEpisodes WITH
    Services <- {s3}, Versions <- {v3}, Episodes <- {e1}, Interval <- 1, Consecutive <- 2,
    Gap <- 2, Lag <- 1, MaxDeliveries <- 1, MaxProgress <- 1, MaxOutput <- 0, MaxFence <- 1,
    MaxOrders <- 0, MaxFaults <- 0, exec <- episodesExec, told <- episodesTold,
    orders <- episodesOrders, faults <- episodesFaults

\* Two versions of the policy.
Policies == INSTANCE StallEpisodes WITH
    Services <- {s3}, Versions <- {p1, p2}, Episodes <- {e1}, Interval <- 1,
    Consecutive <- 1, Gap <- 2, Lag <- 0, MaxDeliveries <- 1, MaxProgress <- 0,
    MaxOutput <- 0, MaxFence <- 2, MaxOrders <- 0, MaxFaults <- 1, exec <- episodesExec,
    told <- episodesTold, orders <- episodesOrders, faults <- episodesFaults

\* Two services sample the same execution.
Competing == INSTANCE StallEpisodes WITH
    Services <- {p1, p2}, Versions <- {v3}, Episodes <- {b1, b2}, Interval <- 1,
    Consecutive <- 1, Gap <- 2, Lag <- 0, MaxDeliveries <- 1, MaxProgress <- 0,
    MaxOutput <- 1, MaxFence <- 1, MaxOrders <- 0, MaxFaults <- 0, exec <- episodesExec,
    told <- episodesTold, orders <- episodesOrders, faults <- episodesFaults

ASSUME InstancesAssumption ==
    /\ Stops!BoundedAssumption /\ Faulty!BoundedAssumption /\ Slots!CapacityAssumption
    /\ Retried!CapacityAssumption /\ Shared!CapacityAssumption /\ Sampled!WindowsAssumption
    /\ Policies!WindowsAssumption /\ Competing!WindowsAssumption

AnyInit ==
    /\ scenario \in {"clock", "stops", "faults", "slots", "retried", "shared", "sampler",
         "policies", "competing"}
    /\ Init
    /\ scenario # "clock" => wall = 0
    /\ \/ scenario \notin {"faults"} /\ Stops!Init
       \/ scenario = "faults" /\ Faulty!Init
    /\ \/ scenario \notin {"retried", "shared"} /\ Slots!Init
       \/ scenario = "retried" /\ Retried!Init
       \/ scenario = "shared" /\ Shared!Init
    /\ \/ scenario \notin {"policies", "competing"} /\ Sampled!Init
       \/ scenario = "policies" /\ Policies!Init
       \/ scenario = "competing" /\ Competing!Init

AnyNext ==
    /\ UNCHANGED scenario
    /\ \/ scenario = "clock" /\ Next /\ UNCHANGED idleVars
       \/ scenario = "stops" /\ Stops!Next
          /\ UNCHANGED <<clockVars, stallVars, episodesVars>>
       \/ scenario = "faults" /\ Faulty!Next
          /\ UNCHANGED <<clockVars, stallVars, episodesVars>>
       \/ scenario = "slots" /\ Slots!Next
          /\ UNCHANGED <<clockVars, hostVars, episodesVars>>
       \/ scenario = "retried" /\ Retried!Next
          /\ UNCHANGED <<clockVars, hostVars, episodesVars>>
       \/ scenario = "shared" /\ Shared!Next
          /\ UNCHANGED <<clockVars, hostVars, episodesVars>>
       \/ scenario = "sampler" /\ Sampled!Next
          /\ UNCHANGED <<clockVars, hostVars, stallVars>>
       \/ scenario = "policies" /\ Policies!Next
          /\ UNCHANGED <<clockVars, hostVars, stallVars>>
       \/ scenario = "competing" /\ Competing!Next
          /\ UNCHANGED <<clockVars, hostVars, stallVars>>

anyVars == <<scenario, clockVars, hostVars, stallVars, episodesVars>>

AnySpec == AnyInit /\ [][AnyNext]_anyVars

------------------------------------------------------------------------------
\* What a host that stops has done, and what it and its report say of it.
HostSafe ==
    /\ [](scenario = "stops" => Stops!HostSafe)
    /\ [](scenario = "faults" => Faulty!HostSafe)
    /\ [][scenario = "stops" => Stops!Stands]_anyVars
    /\ [][scenario = "faults" => Faulty!Stands]_anyVars

\* The notices, slots and handlers of the supervisors of stalled executions.
SupervisorsSafe ==
    /\ scenario = "slots" => Slots!SupervisorsSafe
    /\ scenario = "retried" => Retried!SupervisorsSafe
    /\ scenario = "shared" => Shared!SupervisorsSafe

\* The episodes of a silent execution and what is decided from them.
EpisodesSafe ==
    /\ scenario = "sampler" => Sampled!EpisodesSafe
    /\ scenario = "policies" => Policies!EpisodesSafe
    /\ scenario = "competing" => Competing!EpisodesSafe
    /\ scenario = "sampler" => Sampled!ClosedIsStale
    /\ scenario = "policies" => Policies!ClosedIsStale

==============================================================================
