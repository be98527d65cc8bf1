--------------------------------- MODULE MCMessages ---------------------------------
(* What is handed on, for TLC: results, notices, and calls between handlers.   *)
(* The modules share no state: a behaviour is one of ResultDelivery or of an    *)
(* instance below.                                                              *)
EXTENDS ResultDelivery, Sequences, TLC

CONSTANTS ab, ax, bc, bx, cd, d1, d2, e1, e2, ha, hb, hc, hx, k1, k2, o1, o2, s1, s2, w1

VARIABLES
    scenario,   \* which of the instances below this behaviour is one of
    log, attempt, watch, coll, queue, inbox, courier, consumer, applied, failures,
    noticeOrders,
    row, parent, req, late, call, exe, stop, faults

resultVars == <<kernel, sdk, pump, claims, handled, orders>>
noticeVars == <<log, attempt, watch, coll, queue, inbox, courier, consumer, applied,
    failures, noticeOrders>>
childrenVars == <<row, parent, req, late, call, exe, stop, faults>>
idleVars == <<noticeVars, childrenVars>>

OneAttempts == ha :> 2 @@ hb :> 1
OnceEach == [exec \in {ha, hb, hx} |-> 1]
WaitCaller == ax :> ha @@ bx :> hb
WaitAction == ax :> "wait" @@ bx :> "wait"
WaitTarget == ax :> hx @@ bx :> hx
OnceEachRing == [exec \in {ha, hb, hc} |-> 1]
RingCaller == ab :> ha @@ bc :> hb @@ cd :> hc
RingAction == ab :> "wait" @@ bc :> "wait" @@ cd :> "wait"
RingTarget == ab :> hb @@ bc :> hc @@ cd :> ha

Symmetry == Permutations(Pumps) \cup Permutations(Consumers)

\* Two collectors read the events of two executions.
Collected == INSTANCE NotificationDelivery WITH
    MaxAttempts <- 1, LeaseTicks <- 1, Delays <- {0}, Execs <- {e1, e2}, Watches <- {w1},
    ExecOf <- w1 :> e1, Stalls <- {}, Collectors <- {o1, o2}, Couriers <- {},
    Consumers <- {}, PageSize <- 2, MaxEvents <- 4, MaxFailures <- 1, MaxOrders <- 0,
    orders <- noticeOrders

\* Two couriers and two consumers hand on one notice.
HandedOn == INSTANCE NotificationDelivery WITH
    MaxAttempts <- 2, LeaseTicks <- 1, Delays <- {0, 1}, Execs <- {e1}, Watches <- {},
    ExecOf <- <<>>, Stalls <- {s1}, Collectors <- {}, Couriers <- {d1, d2},
    Consumers <- {k1, k2}, PageSize <- 1, MaxEvents <- 0, MaxFailures <- 2, MaxOrders <- 1,
    orders <- noticeOrders

\* A call with a deadline, made by a handler that may run twice.
Answers == INSTANCE HandlerChildren WITH
    Execs <- {ha, hb}, Requests <- {ab}, Services <- {s1, s2}, Attempts <- OneAttempts,
    Caller <- ab :> ha, Action <- ab :> "run", Target <- ab :> hb, Capacity <- 1,
    MaxDepth <- 1, Timed <- {ab}, Decided <- {hb}, MaxFaults <- 1

\* Two handlers wait for the same queued execution.
Owners == INSTANCE HandlerChildren WITH
    Execs <- {ha, hb, hx}, Requests <- {ax, bx}, Services <- {s1}, Attempts <- OnceEach,
    Caller <- WaitCaller, Action <- WaitAction, Target <- WaitTarget, Capacity <- 2,
    MaxDepth <- 1, Timed <- {}, Decided <- {}, MaxFaults <- 1

\* Three executions, each of which waits for the next.
Ring == INSTANCE HandlerChildren WITH
    Execs <- {ha, hb, hc}, Requests <- {ab, bc, cd}, Services <- {s1},
    Attempts <- OnceEachRing, Caller <- RingCaller, Action <- RingAction,
    Target <- RingTarget, Capacity <- 3, MaxDepth <- 1, Timed <- {}, Decided <- {},
    MaxFaults <- 0

ASSUME InstancesAssumption ==
    /\ Collected!WatchAssumption /\ HandedOn!WatchAssumption /\ Answers!ChildrenAssumption
    /\ Owners!ChildrenAssumption /\ Ring!ChildrenAssumption

AnyInit ==
    /\ scenario \in {"results", "collect", "deliver", "answers", "owners", "ring"}
    /\ Init
    /\ \/ scenario \notin {"deliver"} /\ Collected!Init
       \/ scenario = "deliver" /\ HandedOn!Init
    /\ \/ scenario \notin {"owners", "ring"} /\ Answers!Init
       \/ scenario = "owners" /\ Owners!Init
       \/ scenario = "ring" /\ Ring!Init

AnyNext ==
    /\ UNCHANGED scenario
    /\ \/ scenario = "results" /\ Next /\ UNCHANGED idleVars
       \/ scenario = "collect" /\ Collected!Next /\ UNCHANGED <<resultVars, childrenVars>>
       \/ scenario = "deliver" /\ HandedOn!Next /\ UNCHANGED <<resultVars, childrenVars>>
       \/ scenario = "answers" /\ Answers!Next /\ UNCHANGED <<resultVars, noticeVars>>
       \/ scenario = "owners" /\ Owners!Next /\ UNCHANGED <<resultVars, noticeVars>>
       \/ scenario = "ring" /\ Ring!Next /\ UNCHANGED <<resultVars, noticeVars>>

anyVars == <<scenario, resultVars, noticeVars, childrenVars>>

AnySpec == AnyInit /\ [][AnyNext]_anyVars

------------------------------------------------------------------------------
\* A notice tells what is so, is not lost and is applied once.
NoticesSafe ==
    /\ scenario = "collect" => Collected!NoticesSafe
    /\ scenario = "deliver" => HandedOn!NoticesSafe

\* Calls between handlers: one answer, one owner, no cycle of waits.
CallsSafe ==
    /\ [](scenario = "answers" => Answers!CallsSafe)
    /\ [](scenario = "owners" => Owners!CallsSafe)
    /\ [](scenario = "ring" => Ring!CallsSafe)
    /\ [][scenario = "answers" => Answers!StartsUnderParentStep]_anyVars
    /\ [][scenario = "owners" => Owners!StartsUnderParentStep]_anyVars
    /\ [][scenario = "ring" => Ring!StartsUnderParentStep]_anyVars

==============================================================================
