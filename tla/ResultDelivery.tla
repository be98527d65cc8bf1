---------------------------- MODULE ResultDelivery ----------------------------
(***************************************************************************)
(* The way of a terminal result from the Kernel to the application, over   *)
(* two databases that share no transaction:                                *)
(*                                                                         *)
(*   kernel_result_outbox --(pump_results)--> sdk_results --(application)  *)
(*                                                                         *)
(* A pump claims a kernel delivery, commits the result locally and only    *)
(* then acknowledges the kernel; an application claims local deliveries in *)
(* batches, handles them outside any transaction and acknowledges.  Any    *)
(* number of both run at once, and each may die or stall between any two   *)
(* of its transactions.                                                    *)
(***************************************************************************)
EXTENDS DeliveryQueue, FiniteSets

CONSTANTS
    Results,      \* result ids, one for each execution
    Pumps,        \* callers of pump_results
    Consumers,    \* application workers
    MaxOrders,    \* bound: manual retries operators write
    MaxRevision,  \* bound: revision beyond which no delivery is renewed
    None

ASSUME BoundAssumption == MaxOrders \in Nat /\ MaxRevision \in Nat

VARIABLES
    kernel,   \* kernel_result_outbox
    sdk,      \* sdk_results
    pump,     \* where each pump is in its loop
    claims,   \* the fence under which each consumer holds each result, or 0
    handled,  \* history: the fences under which the application handled a result
    orders    \* manual retries written by operators, delivered any number of times

vars == <<kernel, sdk, pump, claims, handled, orders>>

IdlePump == [pc |-> "idle", result |-> None, fence |-> 0]

Init ==
    /\ kernel  = [r \in Results |-> NoRow]
    /\ sdk     = [r \in Results |-> NoRow]
    /\ pump    = [p \in Pumps |-> IdlePump]
    /\ claims  = [c \in Consumers |-> [r \in Results |-> 0]]
    /\ handled = [r \in Results |-> {}]
    /\ orders  = {}

-----------------------------------------------------------------------------
(* The kernel's queue.                                                     *)

\* _insert_result_outbox; repeating it changes nothing
Publish(r) ==
    /\ kernel[r] = NoRow
    /\ kernel' = [kernel EXCEPT ![r] = FreshRow]
    /\ UNCHANGED <<sdk, pump, claims, handled, orders>>

\* reap_outbox, which pump_results and reap_results begin with
ReapKernel ==
    /\ \E r \in Results : SweptRow(kernel[r]) # kernel[r]
    /\ kernel' = [r \in Results |-> SweptRow(kernel[r])]
    /\ UNCHANGED <<sdk, pump, claims, handled, orders>>

\* claim_outbox: the oldest eligible row; which one that is does not matter.
ClaimKernel(p) ==
    LET swept == [r \in Results |-> RetiredRow(SweptRow(kernel[r]))]
    IN  /\ pump[p].pc = "idle"
        /\ \E r \in Results :
              /\ Claimable(swept[r])
              /\ kernel' = [swept EXCEPT ![r] = ClaimedRow(swept[r])]
              /\ pump' = [pump EXCEPT ![p] = [pc |-> "claimed", result |-> r, fence |-> kernel'[r].fence]]
        /\ UNCHANGED <<sdk, claims, handled, orders>>

\* the result replaces what is there
Store_Mutant(p) ==
    /\ pump[p].pc = "claimed"
    /\ sdk' = [sdk EXCEPT ![pump[p].result] = FreshRow]
    /\ pump' = [pump EXCEPT ![p].pc = "stored"]
    /\ UNCHANGED <<kernel, claims, handled, orders>>

\* The local commit: a result already there is the same immutable fact.
Store(p) ==
    /\ pump[p].pc = "claimed"
    /\ sdk' = [sdk EXCEPT ![pump[p].result] = IF @ = NoRow THEN FreshRow ELSE @]
    /\ pump' = [pump EXCEPT ![p].pc = "stored"]
    /\ UNCHANGED <<kernel, claims, handled, orders>>

\* the kernel is acknowledged before the result is stored
AckKernel_Mutant(p) ==
    /\ pump[p].pc = "claimed"
    /\ Holds(kernel[pump[p].result], pump[p].fence)
    /\ kernel' = [kernel EXCEPT ![pump[p].result] = AckedRow(@)]
    /\ pump' = [pump EXCEPT ![p] = IdlePump]
    /\ UNCHANGED <<sdk, claims, handled, orders>>

\* ack_outbox
AckKernel(p) ==
    /\ pump[p].pc = "stored"
    /\ Holds(kernel[pump[p].result], pump[p].fence)
    /\ kernel' = [kernel EXCEPT ![pump[p].result] = AckedRow(@)]
    /\ pump' = [pump EXCEPT ![p] = IdlePump]
    /\ UNCHANGED <<sdk, claims, handled, orders>>

\* renew_outbox and release_outbox, for a bridge that needs longer or fails
RenewKernel(p) ==
    /\ pump[p].pc # "idle"
    /\ Holds(kernel[pump[p].result], pump[p].fence)
    /\ kernel[pump[p].result].revision < MaxRevision
    /\ kernel' = [kernel EXCEPT ![pump[p].result] = RenewedRow(@)]
    /\ UNCHANGED <<sdk, pump, claims, handled, orders>>

ReleaseKernel(p) ==
    /\ pump[p].pc # "idle"
    /\ Holds(kernel[pump[p].result], pump[p].fence)
    /\ \E retryable \in BOOLEAN, delay \in Delays :
          kernel' = [kernel EXCEPT ![pump[p].result] = ReleasedRow(@, retryable, delay)]
    /\ pump' = [pump EXCEPT ![p] = IdlePump]
    /\ UNCHANGED <<sdk, claims, handled, orders>>

\* The pump dies, or its acknowledgement raises StaleFenceError.
StopPump(p) ==
    /\ pump[p].pc # "idle"
    /\ pump' = [pump EXCEPT ![p] = IdlePump]
    /\ UNCHANGED <<kernel, sdk, claims, handled, orders>>

-----------------------------------------------------------------------------
(* The application's queue.                                                *)

\* claim_results.  The limit is the caller's, so any batch is possible.
ClaimResults(c) ==
    LET swept == [r \in Results |-> SweptRow(sdk[r])]
    IN  \E batch \in SUBSET {r \in Results : Claimable(swept[r])} :
           /\ batch # {}
           /\ sdk' = [r \in Results |-> IF r \in batch THEN ClaimedRow(swept[r]) ELSE swept[r]]
           /\ claims' = [claims EXCEPT ![c] = [r \in Results |-> IF r \in batch THEN sdk'[r].fence ELSE @[r]]]
           /\ UNCHANGED <<kernel, pump, handled, orders>>

\* reap_results, second transaction
ReapResults ==
    /\ \E r \in Results : SweptRow(sdk[r]) # sdk[r]
    /\ sdk' = [r \in Results |-> SweptRow(sdk[r])]
    /\ UNCHANGED <<kernel, pump, claims, handled, orders>>

\* The application does what the result calls for; no lease protects this.
Handle(c, r) ==
    /\ claims[c][r] # 0
    /\ handled' = [handled EXCEPT ![r] = @ \cup {claims[c][r]}]
    /\ UNCHANGED <<kernel, sdk, pump, claims, orders>>

\* acknowledge_result, after handling; the answer may be lost, and a repeated
\* acknowledgement of the same delivery changes nothing.
Acknowledge(c, r) ==
    /\ claims[c][r] \in handled[r]
    /\ Holds(sdk[r], claims[c][r])
    /\ sdk' = [sdk EXCEPT ![r] = AckedRow(@)]
    /\ \/ claims' = [claims EXCEPT ![c][r] = 0]
       \/ UNCHANGED claims
    /\ UNCHANGED <<kernel, pump, handled, orders>>

\* The consumer dies, or gives a delivery up.
Forget(c, r) ==
    /\ claims[c][r] # 0
    /\ claims' = [claims EXCEPT ![c][r] = 0]
    /\ UNCHANGED <<kernel, sdk, pump, handled, orders>>

-----------------------------------------------------------------------------
(* Dead letters and time.                                                  *)

Queues == {"kernel", "sdk"}
RowOf(queue, r) == IF queue = "kernel" THEN kernel[r] ELSE sdk[r]

\* An operator sees a dead letter and orders its retry, quoting its revision.
WriteOrder(queue, r) ==
    /\ RowOf(queue, r).state = "dead"
    /\ Cardinality(orders) < MaxOrders
    /\ orders' = orders \cup {[queue |-> queue, result |-> r, revision |-> RowOf(queue, r).revision]}
    /\ UNCHANGED <<kernel, sdk, pump, claims, handled>>

\* retry_result_outbox and retry_kernel_result_outbox
Retry(o) ==
    /\ Reopens(RowOf(o.queue, o.result), o.revision)
    /\ kernel' = IF o.queue = "kernel" THEN [kernel EXCEPT ![o.result] = ReopenedRow(@)] ELSE kernel
    /\ sdk' = IF o.queue = "sdk" THEN [sdk EXCEPT ![o.result] = ReopenedRow(@)] ELSE sdk
    /\ UNCHANGED <<pump, claims, handled, orders>>

\* Each database has its own clock watermark.
TickKernel ==
    /\ \E r \in Results : Ages(kernel[r])
    /\ kernel' = [r \in Results |-> AgedRow(kernel[r])]
    /\ UNCHANGED <<sdk, pump, claims, handled, orders>>

TickResults ==
    /\ \E r \in Results : Ages(sdk[r])
    /\ sdk' = [r \in Results |-> AgedRow(sdk[r])]
    /\ UNCHANGED <<kernel, pump, claims, handled, orders>>

Next ==
    \/ \E r \in Results : Publish(r)
    \/ \E p \in Pumps : \/ ClaimKernel(p) \/ Store(p) \/ AckKernel(p)
                        \/ RenewKernel(p) \/ ReleaseKernel(p) \/ StopPump(p)
    \/ \E c \in Consumers : ClaimResults(c)
    \/ \E c \in Consumers, r \in Results : Handle(c, r) \/ Acknowledge(c, r) \/ Forget(c, r)
    \/ \E queue \in Queues, r \in Results : WriteOrder(queue, r)
    \/ \E o \in orders : Retry(o)
    \/ ReapKernel \/ ReapResults \/ TickKernel \/ TickResults

Spec == Init /\ [][Next]_vars

(* Fairness: both clocks advance; a pump that runs finishes its delivery   *)
(* or fails; somebody keeps pumping and somebody keeps claiming.  Nobody is *)
(* assumed to handle or acknowledge what is claimed.                       *)
Fairness ==
    /\ WF_vars(TickKernel) /\ WF_vars(TickResults)
    /\ \A p \in Pumps : WF_vars(Store(p)) /\ WF_vars(AckKernel(p) \/ StopPump(p))
    /\ WF_vars(\E p \in Pumps : ClaimKernel(p))
    /\ WF_vars(\E c \in Consumers : ClaimResults(c))
    /\ WF_vars(ReapKernel) /\ WF_vars(ReapResults)

FairSpec == Spec /\ Fairness

-----------------------------------------------------------------------------
(* Properties.                                                             *)

TypeOK ==
    /\ kernel \in [Results -> QueueRows]
    /\ sdk \in [Results -> QueueRows]
    /\ pump \in [Pumps -> [pc : {"idle", "claimed", "stored"}, result : Results \cup {None}, fence : Nat]]
    /\ claims \in [Consumers -> [Results -> Nat]]
    /\ handled \in [Results -> SUBSET Nat]
    /\ orders \in SUBSET [queue : Queues, result : Results, revision : Nat]

\* The kernel forgets a result only when the SDK has it: whatever pump dies
\* where, a result acknowledged to the kernel is in sdk_results.
StoredBeforeAcked ==
    \A r \in Results : kernel[r].state = "delivered" => sdk[r] # NoRow

\* The application's queue says delivered only of a result that the holder of
\* its last delivery handled: an acknowledgement that comes after the lease was
\* lost never settles the delivery of somebody else.
DeliveredWasHandled ==
    \A r \in Results : sdk[r].state = "delivered" => sdk[r].fence \in handled[r]

\* A result is handed out at most MaxAttempts times, and as often again for
\* each retry an operator ordered, however often the order arrives.
OrdersFor(queue, r) == {o \in orders : o.queue = queue /\ o.result = r}

DeliveryBudget ==
    \A queue \in Queues, r \in Results :
       RowOf(queue, r).fence <= MaxAttempts * (1 + Cardinality(OrdersFor(queue, r)))

\* What was delivered is never delivered again, by a pump that brings the same
\* result once more, by an expiry or by a retry.
DeliveredForever ==
    [][\A r \in Results :
          /\ kernel[r].state = "delivered" => kernel'[r] = kernel[r]
          /\ sdk[r].state = "delivered" => sdk'[r] = sdk[r]]_vars

\* Every published result reaches the application's hands or a dead-letter
\* queue where an operator finds it.
Delivered ==
    \A r \in Results :
       kernel[r].state = "pending" ~> \/ sdk[r].state \in {"delivered", "dead"}
                                      \/ kernel[r].state = "dead"
=============================================================================
