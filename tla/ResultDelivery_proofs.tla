------------------------ MODULE ResultDelivery_proofs ------------------------
(***************************************************************************)
(* Proofs about ResultDelivery.  What a row may become is settled once, by *)
(* a lemma for each operation of DeliveryQueue (Evolves); an action of     *)
(* either queue then only says which operation each row went through.      *)
(***************************************************************************)
EXTENDS ResultDelivery, TLAPS

\* What holds of every row of either queue
Sane(row) ==
    /\ row \in QueueRows
    /\ row.state = "absent" => row = NoRow
    /\ row.state = "delivering" => row.wait = 0
    /\ row.state = "delivered" => row.ttl = 0 /\ row.wait = 0

\* What an operation may turn a row into
Evolves(row, new) ==
    /\ Sane(new)
    /\ row.state # "absent" => new.state # "absent"
    /\ row.state = "delivered" => new = row

\* A pump past its local commit has a result that is stored.
PumpInv ==
    \A p \in Pumps :
       /\ pump[p].pc # "idle" => pump[p].result \in Results
       /\ pump[p].pc = "stored" => sdk[pump[p].result].state # "absent"

AckedIsKnown == \A r \in Results : kernel[r].state = "delivered" => sdk[r].state # "absent"

\* The inductive invariant
QueueInv ==
    /\ TypeOK
    /\ \A r \in Results : Sane(kernel[r]) /\ Sane(sdk[r])
    /\ PumpInv
    /\ AckedIsKnown
    /\ DeliveredWasHandled

-----------------------------------------------------------------------------
(* The operations on one row.                                              *)

\* A field of a row may take any value of its type.
LEMMA RowFields ==
    ASSUME NEW row \in QueueRows
    PROVE  /\ \A v \in States : [row EXCEPT !.state = v] \in QueueRows
           /\ \A v \in Nat : /\ [row EXCEPT !.lease = v] \in QueueRows
                             /\ [row EXCEPT !.fence = v] \in QueueRows
                             /\ [row EXCEPT !.wait = v] \in QueueRows
                             /\ [row EXCEPT !.revision = v] \in QueueRows
           /\ \A v \in 0 .. MaxAttempts : [row EXCEPT !.attempts = v] \in QueueRows
           /\ \A v \in 0 .. LeaseTicks : [row EXCEPT !.ttl = v] \in QueueRows
           /\ \A v \in Errors : [row EXCEPT !.error = v] \in QueueRows
<1>1. \A v \in States : [row EXCEPT !.state = v] \in QueueRows
  BY DEF QueueRows
<1>2. \A v \in Nat : [row EXCEPT !.lease = v] \in QueueRows
  BY DEF QueueRows
<1>3. \A v \in Nat : [row EXCEPT !.fence = v] \in QueueRows
  BY DEF QueueRows
<1>4. \A v \in Nat : [row EXCEPT !.wait = v] \in QueueRows
  BY DEF QueueRows
<1>5. \A v \in Nat : [row EXCEPT !.revision = v] \in QueueRows
  BY DEF QueueRows
<1>6. \A v \in 0 .. MaxAttempts : [row EXCEPT !.attempts = v] \in QueueRows
  BY DEF QueueRows
<1>7. \A v \in 0 .. LeaseTicks : [row EXCEPT !.ttl = v] \in QueueRows
  BY DEF QueueRows
<1>8. \A v \in Errors : [row EXCEPT !.error = v] \in QueueRows
  BY DEF QueueRows
<1> QED
  BY <1>1, <1>2, <1>3, <1>4, <1>5, <1>6, <1>7, <1>8

LEMMA RowValues ==
    /\ \A row \in QueueRows :
          /\ row.revision \in Nat /\ row.revision + 1 \in Nat /\ row.fence \in Nat /\ row.fence + 1 \in Nat
          /\ row.attempts \in 0 .. MaxAttempts
          /\ row.ttl \in 0 .. LeaseTicks /\ row.wait \in Nat /\ row.state \in States
    /\ 0 \in Nat /\ 0 \in 0 .. MaxAttempts /\ 0 \in 0 .. LeaseTicks /\ LeaseTicks \in 0 .. LeaseTicks
    /\ {"none", "expired", "released"} = Errors
    /\ {"absent", "pending", "delivering", "delivered", "dead"} = States
BY QueueAssumption DEF QueueRows, Errors, States

LEMMA FreshIsSane == Sane(NoRow) /\ Sane(FreshRow) /\ FreshRow.state = "pending"
<1>1. NoRow \in QueueRows
  BY RowValues DEF NoRow, QueueRows
<1>2. FreshRow \in QueueRows
  BY <1>1, RowFields, RowValues DEF FreshRow
<1>3. FreshRow.state = "pending"
  BY DEF FreshRow, NoRow
<1>4. NoRow.state = "absent"
  BY DEF NoRow
<1> QED
  BY <1>1, <1>2, <1>3, <1>4 DEF Sane

LEMMA SweptEvolves == ASSUME NEW row, Sane(row) PROVE Evolves(row, SweptRow(row))
<1>0. row \in QueueRows
  BY DEF Sane
<1>1. CASE row.state = "delivering" /\ row.ttl = 0
  <2> DEFINE status == IF row.attempts >= MaxAttempts THEN "dead" ELSE "pending"
             new == [row EXCEPT !.state = status, !.wait = 0, !.error = "expired", !.revision = @ + 1]
  <2>1. status \in {"dead", "pending"} /\ status \in States
    BY RowValues
  <2>2. SweptRow(row) = new
    BY <1>1 DEF SweptRow
  <2> HIDE DEF status
  <2>3. new \in QueueRows
    BY <1>0, <2>1, RowFields, RowValues
  <2>4. new.state = status
    BY <1>0 DEF QueueRows
  <2> HIDE DEF new
  <2> QED
    BY <1>1, <2>1, <2>2, <2>3, <2>4 DEF Evolves, Sane
<1>2. CASE ~(row.state = "delivering" /\ row.ttl = 0)
  BY <1>2 DEF SweptRow, Evolves
<1> QED
  BY <1>1, <1>2

LEMMA RetiredEvolves == ASSUME NEW row, Sane(row) PROVE Evolves(row, RetiredRow(row))
<1>0. row \in QueueRows
  BY DEF Sane
<1>1. CASE row.state = "pending" /\ row.attempts >= MaxAttempts
  <2> DEFINE new == [row EXCEPT !.state = "dead", !.revision = @ + 1]
  <2>1. new \in QueueRows
    BY <1>0, RowFields, RowValues
  <2>2. new.state = "dead"
    BY <1>0 DEF QueueRows
  <2>3. RetiredRow(row) = new
    BY <1>1 DEF RetiredRow
  <2> HIDE DEF new
  <2> QED
    BY <1>1, <2>1, <2>2, <2>3 DEF Evolves, Sane
<1>2. CASE ~(row.state = "pending" /\ row.attempts >= MaxAttempts)
  BY <1>2 DEF RetiredRow, Evolves
<1> QED
  BY <1>1, <1>2

LEMMA ClaimedEvolves == ASSUME NEW row, Sane(row), Claimable(row) PROVE Evolves(row, ClaimedRow(row))
<1>0. row \in QueueRows /\ row.state = "pending" /\ row.wait = 0
  BY DEF Sane, Claimable
<1>1. row.attempts + 1 \in 0 .. MaxAttempts
  BY <1>0, RowValues, QueueAssumption DEF Claimable
<1>2. ClaimedRow(row) \in QueueRows
  BY <1>0, <1>1, RowFields, RowValues DEF ClaimedRow
<1>3. ClaimedRow(row).state = "delivering" /\ ClaimedRow(row).wait = row.wait
  BY <1>0 DEF QueueRows, ClaimedRow
<1> QED
  BY <1>0, <1>2, <1>3 DEF Evolves, Sane

\* The operations under a delivery lease
LEMMA ReleasedEvolves ==
    ASSUME NEW row, Sane(row), NEW fence, Holds(row, fence),
           NEW retryable \in BOOLEAN, NEW delay \in Delays
    PROVE  Evolves(row, ReleasedRow(row, retryable, delay))
<1> DEFINE status == IF retryable /\ row.attempts < MaxAttempts THEN "pending" ELSE "dead"
           new == [row EXCEPT !.state = status, !.ttl = 0, !.wait = delay, !.error = "released", !.revision = @ + 1]
<1>0. row \in QueueRows /\ row.state = "delivering" /\ delay \in Nat
  BY QueueAssumption DEF Sane, Holds
<1>1. status \in {"dead", "pending"} /\ status \in States
  BY RowValues
<1>2. ReleasedRow(row, retryable, delay) = new
  BY DEF ReleasedRow
<1> HIDE DEF status
<1>3. new \in QueueRows
  BY <1>0, <1>1, RowFields, RowValues
<1>4. new.state = status
  BY <1>0 DEF QueueRows
<1> HIDE DEF new
<1> QED
  BY <1>0, <1>1, <1>2, <1>3, <1>4 DEF Evolves, Sane

LEMMA AckedEvolves ==
    ASSUME NEW row, Sane(row), NEW fence, Holds(row, fence)
    PROVE  /\ Evolves(row, AckedRow(row)) /\ Evolves(row, RenewedRow(row))
           /\ AckedRow(row).state = "delivered" /\ AckedRow(row).fence = fence
           /\ RenewedRow(row).state = "delivering"
           /\ row.state = "delivering"
<1>1. row \in QueueRows /\ row.state = "delivering" /\ row.wait = 0 /\ row.fence = fence
  BY DEF Sane, Holds
<1>2. AckedRow(row) \in QueueRows
  BY <1>1, RowFields, RowValues DEF AckedRow
<1>3. /\ AckedRow(row).state = "delivered" /\ AckedRow(row).fence = row.fence
      /\ AckedRow(row).ttl = 0 /\ AckedRow(row).wait = row.wait
  BY <1>1 DEF QueueRows, AckedRow
<1>4. RenewedRow(row) \in QueueRows
  BY <1>1, RowFields, RowValues DEF RenewedRow
<1>5. RenewedRow(row).state = row.state /\ RenewedRow(row).wait = row.wait
  BY <1>1 DEF QueueRows, RenewedRow
<1> QED
  BY <1>1, <1>2, <1>3, <1>4, <1>5 DEF Evolves, Sane

LEMMA ReopenedEvolves ==
    ASSUME NEW row, Sane(row), row.state = "dead"
    PROVE  Evolves(row, ReopenedRow(row))
<1>0. row \in QueueRows
  BY DEF Sane
<1>1. ReopenedRow(row) \in QueueRows
  BY <1>0, RowFields, RowValues DEF ReopenedRow
<1>2. ReopenedRow(row).state = "pending"
  BY <1>0 DEF QueueRows, ReopenedRow
<1> QED
  BY <1>1, <1>2 DEF Evolves, Sane

LEMMA AgedEvolves == ASSUME NEW row, Sane(row) PROVE Evolves(row, AgedRow(row))
<1> DEFINE left == IF row.ttl > 0 THEN row.ttl - 1 ELSE 0
           pause == IF row.wait > 0 THEN row.wait - 1 ELSE 0
           new == [row EXCEPT !.ttl = left, !.wait = pause]
<1>0. row \in QueueRows
  BY DEF Sane
<1>1. left \in 0 .. LeaseTicks /\ pause \in Nat
  BY <1>0, RowValues, QueueAssumption
<1>2. (row.ttl = 0 => left = row.ttl) /\ (row.wait = 0 => pause = row.wait)
  OBVIOUS
<1>3. AgedRow(row) = new
  BY DEF AgedRow
<1> HIDE DEF left, pause
<1>4. new \in QueueRows
  BY <1>0, <1>1, RowFields
<1>5. new.state = row.state /\ new.wait = pause
  BY <1>0 DEF QueueRows
<1>6. left = row.ttl /\ pause = row.wait => new = row
  BY <1>0 DEF QueueRows
<1> HIDE DEF new
<1>7. row.state = "absent" => row.ttl = 0 /\ row.wait = 0
  BY DEF Sane, NoRow
<1> QED
  BY <1>0, <1>2, <1>3, <1>4, <1>5, <1>6, <1>7 DEF Evolves, Sane

\* A row may stay as it is, and operations compose.
LEMMA StayEvolves == ASSUME NEW row, Sane(row) PROVE Evolves(row, row)
BY DEF Evolves

LEMMA ThenEvolves ==
    ASSUME NEW row, NEW middle, NEW new, Evolves(row, middle), Evolves(middle, new)
    PROVE  Evolves(row, new)
BY DEF Evolves

-----------------------------------------------------------------------------
(* The operations on a queue.                                              *)

\* From one state of a queue to the next
Moves(queue, next) ==
    /\ next \in [Results -> QueueRows]
    /\ \A r \in Results : Evolves(queue[r], next[r])

LEMMA StayMoves ==
    ASSUME NEW q \in [Results -> QueueRows], \A r \in Results : Sane(q[r])
    PROVE  Moves(q, q)
BY StayEvolves DEF Moves

LEMMA OneMoves ==
    ASSUME NEW q \in [Results -> QueueRows], \A r \in Results : Sane(q[r]),
           NEW r \in Results, NEW new, Evolves(q[r], new)
    PROVE  Moves(q, [q EXCEPT ![r] = new])
<1>1. new \in QueueRows
  BY DEF Evolves, Sane
<1>2. [q EXCEPT ![r] = new] \in [Results -> QueueRows]
  BY <1>1
<1>3. \A x \in Results : [q EXCEPT ![r] = new][x] = IF x = r THEN new ELSE q[x]
  OBVIOUS
<1> QED
  BY <1>2, <1>3, StayEvolves DEF Moves

\* Every action changes the kernel's queue by operations on its rows.
LEMMA KernelMoves == ASSUME QueueInv, [Next]_vars PROVE Moves(kernel, kernel')
<1> DEFINE swept == [r \in Results |-> RetiredRow(SweptRow(kernel[r]))]
<1>0. kernel \in [Results -> QueueRows] /\ \A r \in Results : Sane(kernel[r])
  BY DEF QueueInv, TypeOK
<1>00. PumpInv
  BY DEF QueueInv
<1>1. \A r \in Results : Evolves(kernel[r], SweptRow(kernel[r])) /\ Sane(SweptRow(kernel[r]))
  BY <1>0, SweptEvolves DEF Evolves
<1>2. \A r \in Results : Evolves(kernel[r], swept[r])
  BY <1>1, RetiredEvolves, ThenEvolves
<1>3. CASE UNCHANGED kernel
  BY <1>0, <1>3, StayMoves
<1>4. ASSUME NEW r \in Results, Publish(r) PROVE Moves(kernel, kernel')
  <2>1. kernel[r].state = "absent"
    BY <1>4 DEF Publish, NoRow
  <2>2. Evolves(kernel[r], FreshRow)
    BY <2>1, FreshIsSane DEF Evolves
  <2> QED
    BY <1>0, <1>4, <2>2, OneMoves DEF Publish
<1>5. CASE ReapKernel
  <2>1. kernel' = [r \in Results |-> SweptRow(kernel[r])]
    BY <1>5 DEF ReapKernel
  <2> QED
    BY <1>1, <2>1 DEF Moves, Evolves, Sane
<1>6. ASSUME NEW p \in Pumps, ClaimKernel(p) PROVE Moves(kernel, kernel')
  <2>1. PICK r \in Results : Claimable(swept[r]) /\ kernel' = [swept EXCEPT ![r] = ClaimedRow(swept[r])]
    BY <1>6 DEF ClaimKernel
  <2>2. swept \in [Results -> QueueRows] /\ \A x \in Results : Sane(swept[x])
    BY <1>2 DEF Evolves, Sane
  <2> HIDE DEF swept
  <2>3. Moves(swept, kernel')
    BY <2>1, <2>2, ClaimedEvolves, OneMoves
  <2> QED
    BY <1>2, <2>3, ThenEvolves DEF Moves
<1>7. ASSUME NEW p \in Pumps, AckKernel(p) \/ RenewKernel(p) \/ ReleaseKernel(p)
      PROVE  Moves(kernel, kernel')
  <2> DEFINE r == pump[p].result
             row == kernel[r]
  <2>1. r \in Results /\ Holds(row, pump[p].fence)
    BY <1>00, <1>7 DEF AckKernel, RenewKernel, ReleaseKernel, PumpInv
  <2>2. Sane(row)
    BY <1>0, <2>1
  <2>3. \/ kernel' = [kernel EXCEPT ![r] = AckedRow(row)]
        \/ kernel' = [kernel EXCEPT ![r] = RenewedRow(row)]
        \/ \E retryable \in BOOLEAN, delay \in Delays :
              kernel' = [kernel EXCEPT ![r] = ReleasedRow(row, retryable, delay)]
    BY <1>7 DEF AckKernel, RenewKernel, ReleaseKernel
  <2>4. /\ Evolves(row, AckedRow(row)) /\ Evolves(row, RenewedRow(row))
        /\ \A retryable \in BOOLEAN, delay \in Delays : Evolves(row, ReleasedRow(row, retryable, delay))
    BY <2>1, <2>2, AckedEvolves, ReleasedEvolves
  <2>5. \A new : Evolves(row, new) => Moves(kernel, [kernel EXCEPT ![r] = new])
    BY <1>0, <2>1, OneMoves
  <2> QED
    BY <2>3, <2>4, <2>5
<1>8. ASSUME NEW o \in orders, Retry(o) PROVE Moves(kernel, kernel')
  <2>1. o.result \in Results
    BY DEF QueueInv, TypeOK
  <2>2. CASE o.queue = "kernel"
    <3>1. kernel[o.result].state = "dead"
      BY <1>8, <2>2 DEF Retry, RowOf, Reopens
    <3> QED
      BY <1>0, <1>8, <2>1, <2>2, <3>1, ReopenedEvolves, OneMoves DEF Retry
  <2> QED
    BY <1>3, <1>8, <2>2 DEF Retry
<1>9. CASE TickKernel
  <2>1. kernel' = [r \in Results |-> AgedRow(kernel[r])]
    BY <1>9 DEF TickKernel
  <2> QED
    BY <1>0, <2>1, AgedEvolves DEF Moves, Evolves, Sane
<1> QED
  BY <1>3, <1>4, <1>5, <1>6, <1>7, <1>8, <1>9
     DEF Next, vars, Store, StopPump, ClaimResults, Handle, Acknowledge, Forget, WriteOrder, ReapResults, TickResults

\* So it does the application's.
LEMMA ResultsMove == ASSUME QueueInv, [Next]_vars PROVE Moves(sdk, sdk')
<1> DEFINE swept == [r \in Results |-> SweptRow(sdk[r])]
<1>0. sdk \in [Results -> QueueRows] /\ \A r \in Results : Sane(sdk[r])
  BY DEF QueueInv, TypeOK
<1>00. PumpInv
  BY DEF QueueInv
<1>1. \A r \in Results : Evolves(sdk[r], swept[r]) /\ Sane(swept[r])
  BY <1>0, SweptEvolves DEF Evolves
<1>2. swept \in [Results -> QueueRows]
  BY <1>1 DEF Sane
<1>3. CASE UNCHANGED sdk
  BY <1>0, <1>3, StayMoves
<1>4. ASSUME NEW p \in Pumps, Store(p) PROVE Moves(sdk, sdk')
  <2> DEFINE r == pump[p].result
  <2>1. r \in Results
    BY <1>00, <1>4 DEF Store, PumpInv
  <2>2. sdk' = [sdk EXCEPT ![r] = IF sdk[r] = NoRow THEN FreshRow ELSE sdk[r]]
    BY <1>4 DEF Store
  <2>3. CASE sdk[r] = NoRow
    <3>1. sdk[r].state = "absent"
      BY <2>3 DEF NoRow
    <3>2. Evolves(sdk[r], FreshRow)
      BY <3>1, FreshIsSane DEF Evolves
    <3> QED
      BY <1>0, <2>1, <2>2, <2>3, <3>2, OneMoves
  <2>4. CASE sdk[r] # NoRow
    BY <1>0, <1>3, <2>1, <2>2, <2>4
  <2> QED
    BY <2>3, <2>4
<1>5. CASE ReapResults
  BY <1>1, <1>2, <1>5 DEF ReapResults, Moves
<1>6. ASSUME NEW c \in Consumers, ClaimResults(c) PROVE Moves(sdk, sdk')
  <2>1. PICK batch \in SUBSET {r \in Results : Claimable(swept[r])} :
           sdk' = [r \in Results |-> IF r \in batch THEN ClaimedRow(swept[r]) ELSE swept[r]]
    BY <1>6 DEF ClaimResults
  <2> HIDE DEF swept
  <2>2. \A r \in Results : Claimable(swept[r]) => Evolves(sdk[r], ClaimedRow(swept[r]))
    BY <1>1, ClaimedEvolves, ThenEvolves
  <2>3. \A r \in Results : Evolves(sdk[r], sdk'[r])
    BY <1>1, <2>1, <2>2
  <2>4. sdk' \in [Results -> QueueRows]
    BY <2>1, <2>3 DEF Evolves, Sane
  <2> QED
    BY <2>3, <2>4 DEF Moves
<1>7. ASSUME NEW c \in Consumers, NEW r \in Results, Acknowledge(c, r) PROVE Moves(sdk, sdk')
  BY <1>0, <1>7, AckedEvolves, OneMoves DEF Acknowledge
<1>8. ASSUME NEW o \in orders, Retry(o) PROVE Moves(sdk, sdk')
  <2>1. o.result \in Results /\ o.queue \in Queues
    BY DEF QueueInv, TypeOK
  <2>2. CASE o.queue = "sdk"
    <3>1. sdk[o.result].state = "dead"
      BY <1>8, <2>2 DEF Retry, RowOf, Reopens
    <3> QED
      BY <1>0, <1>8, <2>1, <2>2, <3>1, ReopenedEvolves, OneMoves DEF Retry
  <2> QED
    BY <1>3, <1>8, <2>2 DEF Retry
<1>9. CASE TickResults
  <2>1. sdk' = [r \in Results |-> AgedRow(sdk[r])]
    BY <1>9 DEF TickResults
  <2> QED
    BY <1>0, <2>1, AgedEvolves DEF Moves, Evolves, Sane
<1> QED
  BY <1>3, <1>4, <1>5, <1>6, <1>7, <1>8, <1>9
     DEF Next, vars, Publish, ReapKernel, ClaimKernel, AckKernel, RenewKernel, ReleaseKernel, StopPump,
         Handle, Forget, WriteOrder, TickKernel

-----------------------------------------------------------------------------
(* The inductive invariant.                                                *)

LEMMA InitQueues == Init => QueueInv
<1> SUFFICES ASSUME Init PROVE QueueInv
  OBVIOUS
<1>1. Sane(NoRow) /\ NoRow \in QueueRows /\ NoRow.state = "absent"
  BY FreshIsSane DEF Sane, NoRow
<1>2. TypeOK
  BY <1>1 DEF Init, TypeOK, IdlePump
<1>3. PumpInv
  BY DEF Init, PumpInv, IdlePump
<1> QED
  BY <1>1, <1>2, <1>3 DEF Init, QueueInv, AckedIsKnown, DeliveredWasHandled

\* What is not a queue keeps its type.
LEMMA RestTyped ==
    ASSUME QueueInv, [Next]_vars
    PROVE  /\ pump' \in [Pumps -> [pc : {"idle", "claimed", "stored"}, result : Results \cup {None}, fence : Nat]]
           /\ claims' \in [Consumers -> [Results -> Nat]]
           /\ handled' \in [Results -> SUBSET Nat]
           /\ orders' \in SUBSET [queue : Queues, result : Results, revision : Nat]
<1> DEFINE Pumping == [pc : {"idle", "claimed", "stored"}, result : Results \cup {None}, fence : Nat]
<1>0. TypeOK /\ \A r \in Results : Sane(kernel[r]) /\ Sane(sdk[r])
  BY DEF QueueInv
<1>1. Moves(kernel, kernel') /\ Moves(sdk, sdk')
  BY KernelMoves, ResultsMove
<1>2. \A r \in Results : kernel'[r].fence \in Nat /\ sdk'[r].fence \in Nat
  BY <1>1, RowValues DEF Moves
<1>3. pump' \in [Pumps -> Pumping]
  <2>1. ASSUME NEW p \in Pumps, ClaimKernel(p) PROVE pump' \in [Pumps -> Pumping]
    <3>1. PICK r \in Results :
             pump' = [pump EXCEPT ![p] = [pc |-> "claimed", result |-> r, fence |-> kernel'[r].fence]]
      BY <2>1 DEF ClaimKernel
    <3> QED
      BY <1>0, <1>2, <3>1 DEF TypeOK
  <2>2. ASSUME NEW p \in Pumps, Store(p) PROVE pump' \in [Pumps -> Pumping]
    <3>1. [pump[p] EXCEPT !.pc = "stored"] \in Pumping
      BY <1>0 DEF TypeOK
    <3>2. pump' = [pump EXCEPT ![p] = [pump[p] EXCEPT !.pc = "stored"]]
      BY <2>2 DEF Store
    <3> HIDE DEF Pumping
    <3>3. pump \in [Pumps -> Pumping]
      BY <1>0 DEF TypeOK, Pumping
    <3> QED
      BY <3>1, <3>2, <3>3
  <2>3. ASSUME NEW p \in Pumps, AckKernel(p) \/ ReleaseKernel(p) \/ StopPump(p)
        PROVE  pump' \in [Pumps -> Pumping]
    <3>1. IdlePump \in Pumping
      BY DEF IdlePump
    <3>2. pump' = [pump EXCEPT ![p] = IdlePump]
      BY <2>3 DEF AckKernel, ReleaseKernel, StopPump
    <3> HIDE DEF Pumping
    <3>3. pump \in [Pumps -> Pumping]
      BY <1>0 DEF TypeOK, Pumping
    <3> QED
      BY <3>1, <3>2, <3>3
  <2>4. CASE UNCHANGED pump
    BY <1>0, <2>4 DEF TypeOK
  <2> QED
    BY <2>1, <2>2, <2>3, <2>4
       DEF Next, vars, Publish, ReapKernel, RenewKernel, ClaimResults, Handle, Acknowledge, Forget,
           WriteOrder, Retry, ReapResults, TickKernel, TickResults
<1>4. claims' \in [Consumers -> [Results -> Nat]]
  <2>0. claims \in [Consumers -> [Results -> Nat]]
    BY <1>0 DEF TypeOK
  <2>1. ASSUME NEW c \in Consumers, ClaimResults(c) PROVE claims' \in [Consumers -> [Results -> Nat]]
    <3>1. PICK batch : claims' =
             [claims EXCEPT ![c] = [r \in Results |-> IF r \in batch THEN sdk'[r].fence ELSE claims[c][r]]]
      BY <2>1 DEF ClaimResults
    <3>2. [r \in Results |-> IF r \in batch THEN sdk'[r].fence ELSE claims[c][r]] \in [Results -> Nat]
      BY <1>2, <2>0
    <3> QED
      BY <2>0, <3>1, <3>2
  <2>2. ASSUME NEW c \in Consumers, NEW r \in Results, Acknowledge(c, r) \/ Forget(c, r)
        PROVE  claims' \in [Consumers -> [Results -> Nat]]
    <3>1. claims' = [claims EXCEPT ![c][r] = 0] \/ claims' = claims
      BY <2>2 DEF Acknowledge, Forget
    <3> QED
      BY <2>0, <3>1
  <2>3. CASE UNCHANGED claims
    BY <2>0, <2>3
  <2> QED
    BY <2>1, <2>2, <2>3
       DEF Next, vars, Publish, ReapKernel, ClaimKernel, Store, AckKernel, RenewKernel, ReleaseKernel, StopPump,
           Handle, WriteOrder, Retry, ReapResults, TickKernel, TickResults
<1>5. handled' \in [Results -> SUBSET Nat]
  <2>1. ASSUME NEW c \in Consumers, NEW r \in Results, Handle(c, r) PROVE handled' \in [Results -> SUBSET Nat]
    BY <1>0, <2>1 DEF Handle, TypeOK
  <2>2. CASE UNCHANGED handled
    BY <1>0, <2>2 DEF TypeOK
  <2> QED
    BY <2>1, <2>2
       DEF Next, vars, Publish, ReapKernel, ClaimKernel, Store, AckKernel, RenewKernel, ReleaseKernel, StopPump,
           ClaimResults, Acknowledge, Forget, WriteOrder, Retry, ReapResults, TickKernel, TickResults
<1>6. orders' \in SUBSET [queue : Queues, result : Results, revision : Nat]
  <2>1. ASSUME NEW queue \in Queues, NEW r \in Results, WriteOrder(queue, r)
        PROVE  orders' \in SUBSET [queue : Queues, result : Results, revision : Nat]
    <3>1. RowOf(queue, r).revision \in Nat
      BY <1>0, RowValues DEF RowOf, TypeOK
    <3> QED
      BY <1>0, <2>1, <3>1 DEF WriteOrder, TypeOK
  <2>2. CASE UNCHANGED orders
    BY <1>0, <2>2 DEF TypeOK
  <2> QED
    BY <2>1, <2>2
       DEF Next, vars, Publish, ReapKernel, ClaimKernel, Store, AckKernel, RenewKernel, ReleaseKernel, StopPump,
           ClaimResults, Handle, Acknowledge, Forget, Retry, ReapResults, TickKernel, TickResults
<1> QED
  BY <1>3, <1>4, <1>5, <1>6

\* A pump past its local commit has stored what it carries.
LEMMA PumpStep == ASSUME QueueInv, [Next]_vars PROVE PumpInv'
<1>0. PumpInv /\ pump \in [Pumps -> [pc : {"idle", "claimed", "stored"}, result : Results \cup {None}, fence : Nat]]
  BY DEF QueueInv, TypeOK
<1>1. \A r \in Results : sdk[r].state # "absent" => sdk'[r].state # "absent"
  BY ResultsMove DEF Moves, Evolves
<1>2. CASE UNCHANGED pump
  BY <1>0, <1>1, <1>2 DEF PumpInv
<1>3. ASSUME NEW p \in Pumps, ClaimKernel(p) PROVE PumpInv'
  <2>1. PICK r \in Results :
           pump' = [pump EXCEPT ![p] = [pc |-> "claimed", result |-> r, fence |-> kernel'[r].fence]]
    BY <1>3 DEF ClaimKernel
  <2> QED
    BY <1>0, <1>1, <2>1 DEF PumpInv
<1>4. ASSUME NEW p \in Pumps, Store(p) PROVE PumpInv'
  <2> DEFINE r == pump[p].result
  <2>1. r \in Results
    BY <1>0, <1>4 DEF Store, PumpInv
  <2>2. sdk'[r].state # "absent"
    <3>1. sdk'[r] = IF sdk[r] = NoRow THEN FreshRow ELSE sdk[r]
      BY <1>4, <2>1 DEF Store, QueueInv, TypeOK
    <3>2. sdk[r].state = "absent" => sdk[r] = NoRow
      BY <2>1 DEF QueueInv, Sane
    <3> QED
      BY <3>1, <3>2, FreshIsSane
  <2>3. pump' = [pump EXCEPT ![p] = [pump[p] EXCEPT !.pc = "stored"]]
    BY <1>4 DEF Store
  <2>4. pump'[p].result = r /\ \A q \in Pumps : q # p => pump'[q] = pump[q]
    BY <1>0, <2>3
  <2> QED
    BY <1>0, <1>1, <2>1, <2>2, <2>4 DEF PumpInv
<1>5. ASSUME NEW p \in Pumps, AckKernel(p) \/ ReleaseKernel(p) \/ StopPump(p) PROVE PumpInv'
  <2>1. pump' = [pump EXCEPT ![p] = IdlePump]
    BY <1>5 DEF AckKernel, ReleaseKernel, StopPump
  <2> QED
    BY <1>0, <1>1, <2>1 DEF PumpInv, IdlePump
<1> QED
  BY <1>2, <1>3, <1>4, <1>5
     DEF Next, vars, Publish, ReapKernel, RenewKernel, ClaimResults, Handle, Acknowledge, Forget,
         WriteOrder, Retry, ReapResults, TickKernel, TickResults

-----------------------------------------------------------------------------
(* Only an acknowledgement delivers.                                       *)

LEMMA OthersDoNotDeliver ==
    ASSUME NEW row \in QueueRows
    PROVE  /\ SweptRow(row).state = "delivered" => row.state = "delivered"
           /\ RetiredRow(row).state = "delivered" => row.state = "delivered"
           /\ ClaimedRow(row).state = "delivering"
           /\ RenewedRow(row).state = row.state
           /\ \A retryable \in BOOLEAN, delay \in Delays :
                 ReleasedRow(row, retryable, delay).state \in {"pending", "dead"}
           /\ ReopenedRow(row).state = "pending"
           /\ AgedRow(row).state = row.state
<1>1. SweptRow(row).state = "delivered" => row.state = "delivered"
  BY DEF SweptRow, QueueRows
<1>2. RetiredRow(row).state = "delivered" => row.state = "delivered"
  BY DEF RetiredRow, QueueRows
<1>3. ClaimedRow(row).state = "delivering"
  BY DEF ClaimedRow, QueueRows
<1>4. RenewedRow(row).state = row.state
  BY DEF RenewedRow, QueueRows
<1>5. \A retryable \in BOOLEAN, delay \in Delays :
         ReleasedRow(row, retryable, delay).state \in {"pending", "dead"}
  BY DEF ReleasedRow, QueueRows
<1>6. ReopenedRow(row).state = "pending"
  BY DEF ReopenedRow, QueueRows
<1>7. AgedRow(row).state = row.state
  BY DEF AgedRow, QueueRows
<1> QED
  BY <1>1, <1>2, <1>3, <1>4, <1>5, <1>6, <1>7

LEMMA KernelDelivers ==
    ASSUME QueueInv, [Next]_vars, NEW r \in Results,
           kernel[r].state # "delivered", kernel'[r].state = "delivered"
    PROVE  \E p \in Pumps : AckKernel(p) /\ pump[p].result = r
<1>0. kernel \in [Results -> QueueRows] /\ kernel[r] \in QueueRows /\ Sane(kernel[r]) /\ PumpInv
  BY DEF QueueInv, TypeOK
<1>1. SweptRow(kernel[r]) \in QueueRows /\ RetiredRow(SweptRow(kernel[r])) \in QueueRows
  BY <1>0, SweptEvolves, RetiredEvolves DEF Evolves, Sane
<1>2. ~(UNCHANGED kernel)
  OBVIOUS
<1>3. ASSUME NEW x \in Results, Publish(x) PROVE FALSE
  BY <1>0, <1>3, FreshIsSane DEF Publish
<1>4. ~ReapKernel
  BY <1>0, OthersDoNotDeliver DEF ReapKernel
<1>5. ASSUME NEW p \in Pumps, ClaimKernel(p) PROVE FALSE
  <2> DEFINE swept == [x \in Results |-> RetiredRow(SweptRow(kernel[x]))]
  <2>1. PICK x \in Results : kernel' = [swept EXCEPT ![x] = ClaimedRow(swept[x])]
    BY <1>5 DEF ClaimKernel
  <2>2. swept[r] \in QueueRows /\ (swept[r].state = "delivered" => kernel[r].state = "delivered")
    BY <1>0, <1>1, OthersDoNotDeliver
  <2>3. kernel'[r] = IF r = x THEN ClaimedRow(swept[r]) ELSE swept[r]
    BY <2>1
  <2> HIDE DEF swept
  <2> QED
    BY <2>2, <2>3, OthersDoNotDeliver
<1>6. ASSUME NEW p \in Pumps, RenewKernel(p) PROVE FALSE
  BY <1>0, <1>6, OthersDoNotDeliver DEF RenewKernel
<1>7. ASSUME NEW p \in Pumps, ReleaseKernel(p) PROVE FALSE
  <2>1. PICK retryable \in BOOLEAN, delay \in Delays :
           kernel' = [kernel EXCEPT ![pump[p].result] = ReleasedRow(kernel[pump[p].result], retryable, delay)]
    BY <1>7 DEF ReleaseKernel
  <2> QED
    BY <1>0, <2>1, OthersDoNotDeliver
<1>8. ASSUME NEW o \in orders, Retry(o) PROVE FALSE
  BY <1>0, <1>8, OthersDoNotDeliver DEF Retry
<1>9. ~TickKernel
  BY <1>0, OthersDoNotDeliver DEF TickKernel
<1>10. PICK p \in Pumps : AckKernel(p)
  BY <1>2, <1>3, <1>4, <1>5, <1>6, <1>7, <1>8, <1>9
     DEF Next, vars, Store, StopPump, ClaimResults, Handle, Acknowledge, Forget, WriteOrder, ReapResults, TickResults
<1> QED
  BY <1>0, <1>10 DEF AckKernel

LEMMA ResultsDeliver ==
    ASSUME QueueInv, [Next]_vars, NEW r \in Results,
           sdk[r].state # "delivered", sdk'[r].state = "delivered"
    PROVE  \E c \in Consumers : Acknowledge(c, r)
<1>0. sdk \in [Results -> QueueRows] /\ sdk[r] \in QueueRows /\ Sane(sdk[r])
  BY DEF QueueInv, TypeOK
<1>1. SweptRow(sdk[r]) \in QueueRows
  BY <1>0, SweptEvolves DEF Evolves, Sane
<1>2. ~(UNCHANGED sdk)
  OBVIOUS
<1>3. ASSUME NEW p \in Pumps, Store(p) PROVE FALSE
  BY <1>0, <1>3, FreshIsSane DEF Store
<1>4. ~ReapResults
  BY <1>0, OthersDoNotDeliver DEF ReapResults
<1>5. ASSUME NEW c \in Consumers, ClaimResults(c) PROVE FALSE
  <2> DEFINE swept == [x \in Results |-> SweptRow(sdk[x])]
  <2>1. PICK batch : sdk' = [x \in Results |-> IF x \in batch THEN ClaimedRow(swept[x]) ELSE swept[x]]
    BY <1>5 DEF ClaimResults
  <2>2. sdk'[r] = IF r \in batch THEN ClaimedRow(SweptRow(sdk[r])) ELSE SweptRow(sdk[r])
    BY <2>1
  <2> QED
    BY <1>0, <1>1, <2>2, OthersDoNotDeliver
<1>6. ASSUME NEW o \in orders, Retry(o) PROVE FALSE
  BY <1>0, <1>6, OthersDoNotDeliver DEF Retry
<1>7. ~TickResults
  BY <1>0, OthersDoNotDeliver DEF TickResults
<1>8. PICK c \in Consumers, x \in Results : Acknowledge(c, x)
  BY <1>2, <1>3, <1>4, <1>5, <1>6, <1>7
     DEF Next, vars, Publish, ReapKernel, ClaimKernel, AckKernel, RenewKernel, ReleaseKernel, StopPump,
         Handle, Forget, WriteOrder, TickKernel
<1>9. x = r
  BY <1>0, <1>8 DEF Acknowledge
<1> QED
  BY <1>8, <1>9

-----------------------------------------------------------------------------
(* The theorems.                                                           *)

LEMMA StepQueues == ASSUME QueueInv, [Next]_vars PROVE QueueInv'
<1>1. Moves(kernel, kernel') /\ Moves(sdk, sdk')
  BY KernelMoves, ResultsMove
<1>2. \A r \in Results : Sane(kernel'[r]) /\ Sane(sdk'[r])
  BY <1>1 DEF Moves, Evolves
<1>3. TypeOK'
  BY <1>1, RestTyped DEF TypeOK, Moves
<1>4. AckedIsKnown'
  <2> SUFFICES ASSUME NEW r \in Results, kernel'[r].state = "delivered"
               PROVE  sdk'[r].state # "absent"
    BY DEF AckedIsKnown
  <2>1. sdk[r].state # "absent"
    <3>1. CASE kernel[r].state = "delivered"
      BY <3>1 DEF QueueInv, AckedIsKnown
    <3>2. CASE kernel[r].state # "delivered"
      <4>1. PICK p \in Pumps : AckKernel(p) /\ pump[p].result = r
        BY <3>2, KernelDelivers
      <4> QED
        BY <4>1 DEF AckKernel, QueueInv, PumpInv
    <3> QED
      BY <3>1, <3>2
  <2> QED
    BY <1>1, <2>1 DEF Moves, Evolves
<1>5. DeliveredWasHandled'
  <2> SUFFICES ASSUME NEW r \in Results, sdk'[r].state = "delivered"
               PROVE  sdk'[r].fence \in handled'[r]
    BY DEF DeliveredWasHandled
  <2>0. handled \in [Results -> SUBSET Nat] /\ sdk \in [Results -> QueueRows] /\ Sane(sdk[r])
    BY DEF QueueInv, TypeOK
  <2>1. handled[r] \subseteq handled'[r]
    BY <2>0 DEF Next, vars, Publish, ReapKernel, ClaimKernel, Store, AckKernel, RenewKernel, ReleaseKernel,
                StopPump, ClaimResults, Handle, Acknowledge, Forget, WriteOrder, Retry, ReapResults,
                TickKernel, TickResults
  <2>2. CASE sdk[r].state = "delivered"
    BY <1>1, <2>1, <2>2 DEF Moves, Evolves, QueueInv, DeliveredWasHandled
  <2>3. CASE sdk[r].state # "delivered"
    <3>1. PICK c \in Consumers : Acknowledge(c, r)
      BY <2>3, ResultsDeliver
    <3>2. claims[c][r] \in handled[r] /\ Holds(sdk[r], claims[c][r]) /\ sdk'[r] = AckedRow(sdk[r])
      BY <2>0, <3>1 DEF Acknowledge
    <3>3. sdk'[r].fence = claims[c][r]
      BY <2>0, <3>2, AckedEvolves
    <3> QED
      BY <2>1, <3>2, <3>3
  <2> QED
    BY <2>2, <2>3
<1> QED
  BY <1>2, <1>3, <1>4, <1>5, PumpStep DEF QueueInv

LEMMA AlwaysQueues == Spec => []QueueInv
BY InitQueues, StepQueues, PTL DEF Spec

\* Both queues, the pumps and the consumers keep their types.
THEOREM QueuesTyped == Spec => []TypeOK
<1>1. QueueInv => TypeOK
  BY DEF QueueInv
<1> QED
  BY <1>1, AlwaysQueues, PTL

\* pump_results acknowledges to the kernel only after its local commit: a result
\* the kernel counts as delivered is in sdk_results.
THEOREM AckedIsStored == Spec => []StoredBeforeAcked
<1>1. QueueInv => StoredBeforeAcked
  BY DEF QueueInv, AckedIsKnown, StoredBeforeAcked, NoRow
<1> QED
  BY <1>1, AlwaysQueues, PTL

\* acknowledge_result under a lost lease settles nothing: what is delivered was
\* handled by the holder of the last delivery.
THEOREM DeliveredIsHandled == Spec => []DeliveredWasHandled
<1>1. QueueInv => DeliveredWasHandled
  BY DEF QueueInv
<1> QED
  BY <1>1, AlwaysQueues, PTL

\* No pump, expiry, release or retry touches a delivered row of either queue.
THEOREM DeliveredIsFinal == Spec => DeliveredForever
<1>1. QueueInv /\ [Next]_vars =>
         [\A r \in Results :
             /\ kernel[r].state = "delivered" => kernel'[r] = kernel[r]
             /\ sdk[r].state = "delivered" => sdk'[r] = sdk[r]]_vars
  BY KernelMoves, ResultsMove DEF Moves, Evolves
<1> QED
  BY <1>1, AlwaysQueues, PTL DEF Spec, DeliveredForever
=============================================================================
