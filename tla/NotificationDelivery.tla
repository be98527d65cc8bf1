------------------------- MODULE NotificationDelivery -------------------------
(***************************************************************************)
(* Wake-ups of the application: from the events of the Kernel to a         *)
(* mutation of the application's own database.                             *)
(*                                                                         *)
(*   kernel_events --(collector)--> sdk_notifications                      *)
(*        --(delivery thread)--> notification_inbox --(consumer)--> SQL    *)
(*                                                                         *)
(* A watch follows one attempt of a task with a cursor into the events of  *)
(* the whole Kernel.  Three databases take part and no transaction spans   *)
(* two of them; every thread may die between any two of its transactions.  *)
(***************************************************************************)
EXTENDS DeliveryQueue, Sequences, FiniteSetsExt

CONSTANTS
    Execs,       \* executions, each of one attempt
    Watches,
    ExecOf,      \* the execution of the attempt a watch is bound to
    Stalls,      \* stall episodes that the supervision reports
    Collectors,  \* callers of collect_notifications
    Couriers,    \* callers of deliver_notifications
    Consumers,   \* callers of the inbox
    PageSize,    \* limit of a page of events
    MaxEvents,   \* bound: events of the Kernel
    MaxFailures, \* bound: failures and deaths of couriers and consumers
    MaxOrders,   \* bound: manual retries of dead rows
    None

WatchAssumption ==
    /\ ExecOf \in [Watches -> Execs] /\ PageSize \in Nat \ {0}
    /\ {MaxEvents, MaxFailures, MaxOrders} \subseteq Nat

VARIABLES
    log,       \* kernel_events
    attempt,   \* the attempts as the workflow database projects them
    watch,     \* sdk_watches
    coll,      \* where each collector is
    queue,     \* sdk_notifications
    inbox,     \* notification_inbox_messages
    courier,   \* the delivery each courier is busy with
    consumer,  \* the processing lease each consumer holds
    applied,   \* history: how often the application's mutation was committed
    failures,  \* failures and deaths so far
    orders     \* manual retries so far

vars == <<log, attempt, watch, coll, queue, inbox, courier, consumer, applied, failures, orders>>

\* notification_id: the event a watch saw, 0 for a planned cancellation.
Notices == (Watches \X (0 .. MaxEvents)) \cup (Stalls \X {0})

Planned == [dispatched |-> FALSE, cancelled |-> FALSE, revision |-> 0]
NoWatch == [open |-> FALSE, cursor |-> 0, completed |-> FALSE]
IdleCollector == [pc |-> "idle", todo |-> {}, watch |-> None, from |-> 0, upto |-> 0, seen |-> 0]
Idle == [pc |-> "idle", notice |-> None, fence |-> 0]

Init ==
    /\ log = <<>> /\ attempt = [e \in Execs |-> Planned]
    /\ watch = [w \in Watches |-> NoWatch] /\ coll = [c \in Collectors |-> IdleCollector]
    /\ queue = [n \in Notices |-> NoRow] /\ inbox = [n \in Notices |-> NoRow]
    /\ courier = [d \in Couriers |-> Idle] /\ consumer = [k \in Consumers |-> Idle]
    /\ applied = [n \in Notices |-> 0] /\ failures = 0 /\ orders = 0

-----------------------------------------------------------------------------
(* The facts: attempts are dispatched or cancelled, executions move.       *)

EventsOf(e) == {i \in DOMAIN log : log[i].exec = e}
Revision(e) == Cardinality(EventsOf(e))
StateOf(e) == IF EventsOf(e) = {} THEN "absent" ELSE log[Max(EventsOf(e))].to

Dispatch(e) ==
    /\ attempt[e] = Planned
    /\ attempt' = [attempt EXCEPT ![e].dispatched = TRUE]
    /\ UNCHANGED <<log, watch, coll, queue, inbox, courier, consumer, applied, failures, orders>>

CancelPlanned(e) ==
    /\ attempt[e] = Planned
    /\ attempt' = [attempt EXCEPT ![e].cancelled = TRUE]
    /\ UNCHANGED <<log, watch, coll, queue, inbox, courier, consumer, applied, failures, orders>>

\* The states of the Kernel that a notice tells apart.
Moves == {<<"absent", "running">>, <<"running", "recovery_required">>, <<"running", "terminal">>,
          <<"recovery_required", "recovery_required">>, <<"recovery_required", "running">>,
          <<"recovery_required", "terminal">>}

KernelMoves(e, to) ==
    /\ attempt[e].dispatched /\ Len(log) < MaxEvents
    /\ <<StateOf(e), to>> \in Moves
    /\ log' = Append(log, [exec |-> e, from |-> StateOf(e), to |-> to])
    /\ UNCHANGED <<attempt, watch, coll, queue, inbox, courier, consumer, applied, failures, orders>>

\* _register_watch; the attempt may have ended long ago.
Register(w) ==
    /\ watch[w] = NoWatch
    /\ watch' = [watch EXCEPT ![w].open = TRUE]
    /\ UNCHANGED <<log, attempt, coll, queue, inbox, courier, consumer, applied, failures, orders>>

-----------------------------------------------------------------------------
(* Collecting: one read of the open watches, then for each one a page of   *)
(* events, the projection of its execution and one transaction.            *)

OpenWatches == {w \in Watches : watch[w].open /\ ~watch[w].completed}

DeliveryPending == \E n \in Notices : queue[n].state \in {"pending", "delivering"}

CollectionReady ==
    /\ OpenWatches # {}
    /\ \/ DeliveryPending
       \/ \E w \in OpenWatches : attempt[ExecOf[w]].cancelled
       \/ Len(log) > Min({watch[w].cursor : w \in OpenWatches})

Begin(c) ==
    /\ coll[c].pc = "idle" /\ CollectionReady
    /\ coll' = [coll EXCEPT ![c].pc = "next", ![c].todo = {<<w, watch[w].cursor>> : w \in OpenWatches}]
    /\ UNCHANGED <<log, attempt, watch, queue, inbox, courier, consumer, applied, failures, orders>>

\* only results are looked at
Concerns_Mutant(w, page) == \E i \in page : log[i].exec = ExecOf[w] /\ log[i].to = "terminal"

\* some event of the page belongs to the watched execution
Concerns(w, page) == \E i \in page : log[i].exec = ExecOf[w]

ReadPage(c) ==
    /\ coll[c].pc = "next"
    /\ \E item \in coll[c].todo :
          LET w == item[1]
              last == Min({item[2] + PageSize, Len(log)})
          IN  coll' = [coll EXCEPT ![c] =
                [@ EXCEPT !.pc = IF Concerns(w, item[2] + 1 .. last) THEN "sync" ELSE "commit",
                          !.todo = @ \ {item}, !.watch = w, !.from = item[2], !.upto = last]]
    /\ UNCHANGED <<log, attempt, watch, queue, inbox, courier, consumer, applied, failures, orders>>

\* sync_execution reads the Kernel ...
ReadKernel(c) ==
    /\ coll[c].pc = "sync"
    /\ coll' = [coll EXCEPT ![c].pc = "synced", ![c].seen = Revision(ExecOf[coll[c].watch])]
    /\ UNCHANGED <<log, attempt, watch, queue, inbox, courier, consumer, applied, failures, orders>>

\* ... and keeps what it read unless somebody kept more.
Project(c) ==
    /\ coll[c].pc = "synced"
    /\ attempt' = [attempt EXCEPT ![ExecOf[coll[c].watch]].revision = Max({@, coll[c].seen})]
    /\ coll' = [coll EXCEPT ![c].pc = "commit"]
    /\ UNCHANGED <<log, watch, queue, inbox, courier, consumer, applied, failures, orders>>

\* entering recovery, not staying in it, and every end
Notable(i) ==
    \/ log[i].to = "terminal"
    \/ log[i].to = "recovery_required" /\ log[i].from # "recovery_required"

\* What the page, and the attempt as it now stands, have to say to the watch.
Found(c) ==
    LET w == coll[c].watch
        a == attempt[ExecOf[w]]
    IN  {<<w, i>> : i \in {j \in coll[c].from + 1 .. coll[c].upto :
                              log[j].exec = ExecOf[w] /\ a.dispatched /\ Notable(j)}}
        \cup {<<w, 0>> : x \in {y \in {1} : a.cancelled /\ ~a.dispatched}}

Ends(n) == n[2] = 0 \/ (n[2] \in DOMAIN log /\ log[n[2]].to = "terminal")

\* Another collector was faster.
Moved(c) == watch[coll[c].watch].completed \/ watch[coll[c].watch].cursor # coll[c].from

Commit(c) ==
    LET w == coll[c].watch
    IN  /\ coll[c].pc = "commit"
        /\ IF Moved(c) THEN UNCHANGED <<watch, queue>>
           ELSE /\ queue' = [n \in Notices |-> IF n \in Found(c) /\ queue[n] = NoRow THEN FreshRow ELSE queue[n]]
                /\ watch' = [watch EXCEPT ![w] = [@ EXCEPT !.cursor = coll[c].upto,
                                                           !.completed = \E n \in Found(c) : Ends(n)]]
        /\ coll' = [coll EXCEPT ![c] = IF @.todo = {} THEN IdleCollector
                                       ELSE [IdleCollector EXCEPT !.pc = "next", !.todo = coll[c].todo]]
        /\ UNCHANGED <<log, attempt, inbox, courier, consumer, applied, failures, orders>>

CollectorDies(c) ==
    /\ coll[c].pc # "idle" /\ failures < MaxFailures
    /\ coll' = [coll EXCEPT ![c] = IdleCollector] /\ failures' = failures + 1
    /\ UNCHANGED <<log, attempt, watch, queue, inbox, courier, consumer, applied, orders>>

\* enqueue_stall_notification: the same episode again changes nothing.
EnqueueStall(s) ==
    /\ queue[<<s, 0>>] = NoRow
    /\ queue' = [queue EXCEPT ![<<s, 0>>] = FreshRow]
    /\ UNCHANGED <<log, attempt, watch, coll, inbox, courier, consumer, applied, failures, orders>>

-----------------------------------------------------------------------------
(* Delivering: claim, the callback that puts the notice into the inbox,    *)
(* acknowledgement.                                                        *)

SweptQueue == [n \in Notices |-> SweptRow(queue[n])]

ClaimNotice(d) ==
    /\ courier[d] = Idle /\ DeliveryPending
    /\ \/ \E n \in Notices :
             /\ Claimable(SweptQueue[n])
             /\ queue' = [SweptQueue EXCEPT ![n] = ClaimedRow(@)]
             /\ courier' = [courier EXCEPT ![d] = [pc |-> "claimed", notice |-> n, fence |-> queue'[n].fence]]
       \/ /\ \A n \in Notices : ~Claimable(SweptQueue[n])
          /\ SweptQueue # queue
          /\ queue' = SweptQueue /\ UNCHANGED courier
    /\ UNCHANGED <<log, attempt, watch, coll, inbox, consumer, applied, failures, orders>>

\* NotificationInbox.accept: a replay keeps the row as it is.
Accept(d) ==
    /\ courier[d].pc = "claimed"
    /\ inbox' = [inbox EXCEPT ![courier[d].notice] = IF @ = NoRow THEN FreshRow ELSE @]
    /\ courier' = [courier EXCEPT ![d].pc = "accepted"]
    /\ UNCHANGED <<log, attempt, watch, coll, queue, consumer, applied, failures, orders>>

\* The callback raises, or returns an awaitable.
CallbackFails(d) ==
    /\ courier[d].pc = "claimed" /\ failures < MaxFailures
    /\ courier' = [courier EXCEPT ![d].pc = "failed"] /\ failures' = failures + 1
    /\ UNCHANGED <<log, attempt, watch, coll, queue, inbox, consumer, applied, orders>>

\* _settle_notification; a stale lease is let go.
SettleNotice(d) ==
    LET n == courier[d].notice
    IN  /\ courier[d].pc \in {"accepted", "failed"}
        /\ IF ~Holds(queue[n], courier[d].fence) THEN UNCHANGED queue
           ELSE IF courier[d].pc = "accepted" THEN queue' = [queue EXCEPT ![n] = AckedRow(@)]
           ELSE \E delay \in Delays : queue' = [queue EXCEPT ![n] = ReleasedRow(@, TRUE, delay)]
        /\ courier' = [courier EXCEPT ![d] = Idle]
        /\ UNCHANGED <<log, attempt, watch, coll, inbox, consumer, applied, failures, orders>>

CourierDies(d) ==
    /\ courier[d] # Idle /\ failures < MaxFailures
    /\ courier' = [courier EXCEPT ![d] = Idle] /\ failures' = failures + 1
    /\ UNCHANGED <<log, attempt, watch, coll, queue, inbox, consumer, applied, orders>>

-----------------------------------------------------------------------------
(* Consuming: the mutation of the application and the consumed marker are  *)
(* one transaction.                                                        *)

SweptInbox == [n \in Notices |-> SweptRow(inbox[n])]

\* _delivery_ready of the consumer's loop, then claim
ClaimMessage(k) ==
    /\ consumer[k] = Idle
    /\ \E n \in Notices : inbox[n].state \in {"pending", "delivering"}
    /\ \/ \E n \in Notices :
             /\ Claimable(SweptInbox[n])
             /\ inbox' = [SweptInbox EXCEPT ![n] = ClaimedRow(@)]
             /\ consumer' = [consumer EXCEPT ![k] = [pc |-> "claimed", notice |-> n, fence |-> inbox'[n].fence]]
       \/ /\ \A n \in Notices : ~Claimable(SweptInbox[n])
          /\ SweptInbox # inbox
          /\ inbox' = SweptInbox /\ UNCHANGED consumer
    /\ UNCHANGED <<log, attempt, watch, coll, queue, courier, applied, failures, orders>>

\* consume: after the mutation the clock is read again.  The answer may be
\* lost; asking once more under the same lease skips the mutation.
Consume(k) ==
    LET n == consumer[k].notice
    IN  /\ consumer[k].pc = "claimed" /\ Holds(inbox[n], consumer[k].fence)
        /\ inbox' = [inbox EXCEPT ![n] = AckedRow(@)]
        /\ applied' = [applied EXCEPT ![n] = @ + 1]
        /\ consumer' \in {consumer, [consumer EXCEPT ![k] = Idle]}
        /\ UNCHANGED <<log, attempt, watch, coll, queue, courier, failures, orders>>

Replayed(k) ==
    LET row == inbox[consumer[k].notice]
    IN  row.state = "delivered" /\ row.lease = consumer[k].fence /\ row.fence = consumer[k].fence

ConsumeAgain(k) ==
    /\ consumer[k].pc = "claimed" /\ Replayed(k)
    /\ consumer' = [consumer EXCEPT ![k] = Idle]
    /\ UNCHANGED <<log, attempt, watch, coll, queue, inbox, courier, applied, failures, orders>>

\* The lease runs out under the mutation: it is rolled back, the time is kept.
ConsumeTooLate(k) ==
    LET n == consumer[k].notice
    IN  /\ consumer[k].pc = "claimed" /\ Holds(inbox[n], consumer[k].fence) /\ failures < MaxFailures
        /\ inbox' = [inbox EXCEPT ![n].ttl = 0]
        /\ consumer' = [consumer EXCEPT ![k].pc = "failed"] /\ failures' = failures + 1
        /\ UNCHANGED <<log, attempt, watch, coll, queue, courier, applied, orders>>

\* The mutation raises and is rolled back, or the lease is stale.
ConsumeFails(k) ==
    LET n == consumer[k].notice
    IN  /\ consumer[k].pc = "claimed" /\ ~Replayed(k)
        /\ \/ /\ Holds(inbox[n], consumer[k].fence) /\ failures < MaxFailures
              /\ failures' = failures + 1
           \/ ~Holds(inbox[n], consumer[k].fence) /\ UNCHANGED failures
        /\ consumer' = [consumer EXCEPT ![k].pc = "failed"]
        /\ UNCHANGED <<log, attempt, watch, coll, queue, inbox, courier, applied, orders>>

\* NotificationInbox.fail
FailMessage(k) ==
    LET n == consumer[k].notice
    IN  /\ consumer[k].pc = "failed"
        /\ IF ~Holds(inbox[n], consumer[k].fence) THEN UNCHANGED inbox
           ELSE \E delay \in Delays : inbox' = [inbox EXCEPT ![n] = ReleasedRow(@, TRUE, delay)]
        /\ consumer' = [consumer EXCEPT ![k] = Idle]
        /\ UNCHANGED <<log, attempt, watch, coll, queue, courier, applied, failures, orders>>

ConsumerDies(k) ==
    /\ consumer[k] # Idle /\ failures < MaxFailures
    /\ consumer' = [consumer EXCEPT ![k] = Idle] /\ failures' = failures + 1
    /\ UNCHANGED <<log, attempt, watch, coll, queue, inbox, courier, applied, orders>>

-----------------------------------------------------------------------------
(* Operators and time.  The two databases have clocks of their own.        *)

\* retry_notification
RetryNotice(n) ==
    /\ orders < MaxOrders /\ Reopens(queue[n], queue[n].revision)
    /\ queue' = [queue EXCEPT ![n] = ReopenedRow(@)] /\ orders' = orders + 1
    /\ UNCHANGED <<log, attempt, watch, coll, inbox, courier, consumer, applied, failures>>

\* retry_dead
RetryDead(n) ==
    /\ orders < MaxOrders /\ Reopens(inbox[n], inbox[n].revision)
    /\ inbox' = [inbox EXCEPT ![n] = ReopenedRow(@)] /\ orders' = orders + 1
    /\ UNCHANGED <<log, attempt, watch, coll, queue, courier, consumer, applied, failures>>

TickQueue ==
    /\ \E n \in Notices : Ages(queue[n])
    /\ queue' = [n \in Notices |-> AgedRow(queue[n])]
    /\ UNCHANGED <<log, attempt, watch, coll, inbox, courier, consumer, applied, failures, orders>>

TickInbox ==
    /\ \E n \in Notices : Ages(inbox[n])
    /\ inbox' = [n \in Notices |-> AgedRow(inbox[n])]
    /\ UNCHANGED <<log, attempt, watch, coll, queue, courier, consumer, applied, failures, orders>>

Collect(c) == Begin(c) \/ ReadPage(c) \/ ReadKernel(c) \/ Project(c) \/ Commit(c)
Deliver(d) == ClaimNotice(d) \/ Accept(d) \/ SettleNotice(d)
Process(k) == ClaimMessage(k) \/ Consume(k) \/ ConsumeAgain(k) \/ ConsumeFails(k) \/ FailMessage(k)

Next ==
    \/ \E e \in Execs : Dispatch(e) \/ CancelPlanned(e) \/ \E m \in Moves : KernelMoves(e, m[2])
    \/ \E w \in Watches : Register(w)
    \/ \E s \in Stalls : EnqueueStall(s)
    \/ \E c \in Collectors : Collect(c) \/ CollectorDies(c)
    \/ \E d \in Couriers : Deliver(d) \/ CallbackFails(d) \/ CourierDies(d)
    \/ \E k \in Consumers : Process(k) \/ ConsumeTooLate(k) \/ ConsumerDies(k)
    \/ \E n \in Notices : RetryNotice(n) \/ RetryDead(n)
    \/ TickQueue \/ TickInbox

Spec == Init /\ [][Next]_vars

\* The host's threads run as long as they are alive and a dead one is
\* replaced; both clocks advance.
Fairness ==
    /\ \A c \in Collectors : WF_vars(Collect(c))
    /\ \A d \in Couriers : WF_vars(Deliver(d))
    /\ \A k \in Consumers : WF_vars(Process(k))
    /\ WF_vars(TickQueue) /\ WF_vars(TickInbox)

FairSpec == Spec /\ Fairness

-----------------------------------------------------------------------------
(* Properties.                                                             *)

Leases == [pc : {"idle", "claimed", "accepted", "failed"}, notice : Notices \cup {None}, fence : Nat]

TypeOK ==
    /\ \A i \in DOMAIN log : log[i].exec \in Execs /\ <<log[i].from, log[i].to>> \in Moves
    /\ attempt \in [Execs -> [dispatched : BOOLEAN, cancelled : BOOLEAN, revision : 0 .. MaxEvents]]
    /\ watch \in [Watches -> [open : BOOLEAN, cursor : 0 .. Len(log), completed : BOOLEAN]]
    /\ \A c \in Collectors : coll[c].upto \in 0 .. Len(log) /\ coll[c].from <= coll[c].upto
    /\ queue \in [Notices -> QueueRows] /\ inbox \in [Notices -> QueueRows]
    /\ courier \in [Couriers -> Leases] /\ consumer \in [Consumers -> Leases]
    /\ applied \in [Notices -> Nat] /\ failures \in 0 .. MaxFailures /\ orders \in 0 .. MaxOrders

\* The notices of a watch are exactly what its cursor has passed: no entry into
\* recovery, no end and no planned cancellation is skipped, told twice under two
\* names or made up, whichever collectors run against each other or die, and the
\* watch is closed by the end and by nothing else.
NothingSkipped ==
    \A w \in Watches :
       LET told == {n \in Notices : n[1] = w /\ queue[n] # NoRow}
       IN  /\ {n[2] : n \in told} \ {0}
                 = {i \in EventsOf(ExecOf[w]) : i <= watch[w].cursor /\ Notable(i)}
           /\ watch[w].completed <=> \E n \in told : Ends(n)

\* "The notice must not outrun its attempt's durable projection": whoever gets a
\* notice finds the fact it tells, or a later one, in the workflow database.
NeverOutrun ==
    \A w \in Watches, i \in DOMAIN log :
       queue[<<w, i>>] # NoRow =>
          attempt[ExecOf[w]].revision >= Cardinality({j \in EventsOf(ExecOf[w]) : j <= i})

\* A notice is acknowledged to the workflow database only when the inbox has it.
AckedIsAccepted == \A n \in Notices : queue[n].state = "delivered" => inbox[n] # NoRow

\* Delivered at least once, applied at most once: the mutation of a notice is in
\* the application's database once if the notice is consumed and not at all
\* otherwise, whatever was delivered twice, replayed, expired or reopened.
AppliedOnce ==
    \A n \in Notices : applied[n] = IF inbox[n].state = "delivered" THEN 1 ELSE 0

\* A notice tells what is so, is not lost and is applied once.
NoticesSafe ==
    /\ TypeOK
    /\ NothingSkipped
    /\ NeverOutrun
    /\ AckedIsAccepted
    /\ AppliedOnce

\* A watch is closed once what it is there for is over, although the host collects
\* only when a look at the newest event and the delivery rows calls for it.
Over(w) == watch[w].open /\ (StateOf(ExecOf[w]) = "terminal" \/ attempt[ExecOf[w]].cancelled)

EndsAreNoticed == \A w \in Watches : Over(w) ~> watch[w].completed

\* An end that a watch is there for reaches the application's database, or a
\* row that says "dead" where an operator finds it.
Told(w) ==
    \E n \in Notices : n[1] = w /\ Ends(n)
       /\ ("dead" \in {queue[n].state, inbox[n].state} \/ applied[n] = 1)

EndsAreTold == \A w \in Watches : Over(w) ~> Told(w)
=============================================================================
