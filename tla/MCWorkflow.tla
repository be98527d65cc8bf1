--------------------------------- MODULE MCWorkflow ---------------------------------
(* Workflow for TLC.  A scenario is the module with fewer decisions, flushers *)
(* or attempts than the constants of the configuration have.  The properties  *)
(* are the module's own: they quantify over the tasks, attempts and flushers  *)
(* of the configuration, those a scenario does not use included.              *)
EXTENDS Workflow, TLC

CONSTANTS f1, f2, s1, ta, tb, wt

VARIABLE scenario   \* which of the instances below this behaviour is one of

Add(t, deps)     == [kind |-> "add_task", task |-> t, deps |-> deps]
SetDeps(t, deps) == [kind |-> "set_dependencies", task |-> t, deps |-> deps]
Dispatch(t)      == [kind |-> "dispatch", task |-> t]
NewAttempt(t)    == [kind |-> "new_attempt", task |-> t]
CancelTask(t)    == [kind |-> "cancel", task |-> t]
OpenWait         == [kind |-> "wait", wait |-> wt]
ReleaseWait      == [kind |-> "release_wait", wait |-> wt]
FinishRun        == [kind |-> "finish"]

\* One task that is started, cancelled and tried again
Restart == {<<Add(ta, {}), Dispatch(ta)>>, <<CancelTask(ta)>>, <<NewAttempt(ta), Dispatch(ta)>>}

\* Two tasks of which the second comes to depend on the first, and a wait
Chain == {<<Add(ta, {}), Add(tb, {}), SetDeps(tb, {ta}), OpenWait, Dispatch(ta)>>,
          <<ReleaseWait>>, <<Dispatch(tb), ReleaseWait>>, <<CancelTask(tb), ReleaseWait>>,
          <<FinishRun>>}

\* A command that can be applied once: its repetition under another id fails
Simple == {<<Add(ta, {}), Dispatch(ta)>>}

AnyDecision == Restart \cup Chain \cup Simple

Symmetry == Permutations(Flushers)

\* One task that is started and cancelled, two flushers.
Cancelling == INSTANCE Workflow WITH
    Tasks <- {ta}, Waits <- {}, Decisions <- Restart, Subscriptions <- {}, ReusesIds <- FALSE,
    MaxSent <- 2, MaxUnderway <- 1, MaxAttempts <- 1, MaxFailures <- 0

\* Two attempts at a task, of which the first may be lost.
Retrying == INSTANCE Workflow WITH
    Tasks <- {ta}, Waits <- {}, Decisions <- Restart, Subscriptions <- {}, ReusesIds <- FALSE,
    Flushers <- {f1}, Limit <- 1, MaxRetries <- 1, MaxUnderway <- 1, MaxTrouble <- 0, MaxRevision <- 2

\* Two tasks of which the second comes to depend on the first, and a wait.
Chained == INSTANCE Workflow WITH
    Decisions <- Chain, Subscriptions <- {}, ReusesIds <- FALSE, Flushers <- {f1}, Limit <- 1,
    MaxRetries <- 1, MaxUnderway <- 1, MaxAttempts <- 1, MaxTrouble <- 0, MaxRevision <- 2

\* Commands that are repeated, under the same id and under others.
Repeated == INSTANCE Workflow WITH
    Tasks <- {ta}, Waits <- {}, Decisions <- Simple, Subscriptions <- {}, Flushers <- {f1},
    Limit <- 1, MaxRetries <- 1, MaxAttempts <- 1, MaxTrouble <- 0, MaxRevision <- 1

\* Two commands at once, and a consumer of their events.
Followed == INSTANCE Workflow WITH
    Tasks <- {ta}, Waits <- {}, Decisions <- Simple, Flushers <- {f1}, Limit <- 1, MaxRetries <- 1,
    MaxSent <- 2, MaxAttempts <- 1, MaxTrouble <- 0, MaxRevision <- 1

ASSUME InstancesAssumption ==
    /\ Cancelling!LimitAssumption /\ Retrying!LimitAssumption /\ Chained!LimitAssumption
    /\ Repeated!LimitAssumption /\ Followed!LimitAssumption /\ Followed!BoundAssumption
    /\ Followed!DecisionAssumption /\ Cancelling!BoundAssumption /\ Retrying!BoundAssumption
    /\ Chained!BoundAssumption /\ Repeated!BoundAssumption /\ Cancelling!DecisionAssumption
    /\ Retrying!DecisionAssumption /\ Chained!DecisionAssumption /\ Repeated!DecisionAssumption

AnyInit ==
    /\ scenario \in {"cancel", "attempts", "tasks", "commands", "consumer"}
    /\ Init

AnyNext ==
    /\ UNCHANGED scenario
    /\ \/ scenario = "cancel" /\ Cancelling!Next
       \/ scenario = "attempts" /\ Retrying!Next
       \/ scenario = "tasks" /\ Chained!Next
       \/ scenario = "commands" /\ Repeated!Next
       \/ scenario = "consumer" /\ Followed!Next

AnySpec == AnyInit /\ [][AnyNext]_<<scenario, vars>>

==============================================================================
