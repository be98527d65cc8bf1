-------------------------- MODULE KernelClock_proofs --------------------------
(* Theorems about KernelClock, for every set of leases and every bound.    *)
EXTENDS KernelClock, TLAPS

\* The transaction's view of the store: its time and its watermark are not
\* behind the committed ones, and it changes only leases that still run.
View ==
    /\ watermark <= tx.time
    /\ tx.time <= tx.mark
    /\ tx.phase = "open" => tx.expiry = expiry
    /\ \A l \in Leases : expiry[l] # 0 => tx.expiry[l] = expiry[l] \/ expiry[l] > tx.time
    /\ \A l \in Leases : expiry[l] # 0 => tx.expiry[l] # 0
    /\ \A l \in tx.stale : expiry[l] # 0 /\ expiry[l] <= tx.time

\* The inductive invariant
ClockInv == TypeOK /\ NeverRevived /\ (tx.phase # "none" => View)

\* Advancing never goes back and never leaves the range of the host's clock.
LEMMA ObservedType ==
    ASSUME wall \in Wall, NEW m \in Wall
    PROVE  Observed(m) \in Wall /\ m <= Observed(m)
  BY DEF Observed, Later, Wall

\* The initial state satisfies the invariant.
LEMMA InitInv == Init => ClockInv
  BY ClockAssumption DEF Init, ClockInv, TypeOK, NeverRevived, Wall, Transactions, NoTx

\* Every step keeps the invariant, counts down and admits in time.
LEMMA StepInv ==
    ASSUME ClockInv, [Next]_vars
    PROVE  /\ ClockInv'
           /\ \A l \in Leases : expiry[l] # 0 =>
                IF expiry'[l] = expiry[l] THEN expiry'[l] - watermark' <= expiry[l] - watermark
                                          ELSE expiry[l] > watermark
           /\ \A l \in Leases : (expiry[l] = 0 /\ expiry'[l] # 0) => (tx.deadline = 0 \/ tx.deadline > watermark')
<1> USE ClockAssumption DEF ClockInv, TypeOK, NeverRevived, Wall
<1>0. /\ tx.time \in Wall /\ tx.mark \in Wall /\ tx.expiry \in [Leases -> Nat]
      /\ tx.deadline \in Wall /\ tx.stale \in SUBSET Leases
  BY DEF Transactions
<1>1. CASE UNCHANGED vars
  BY <1>1 DEF vars, View
<1>2. CASE WallMoves
  BY <1>2 DEF WallMoves, View
<1>3. CASE Begin
  <2>1. Observed(watermark) \in Wall /\ watermark <= Observed(watermark)
    BY ObservedType
  <2>2. /\ tx'.time = Observed(watermark) /\ tx'.mark = Observed(watermark)
        /\ tx'.expiry = expiry /\ tx'.stale = {}
    BY <1>3 DEF Begin, NoTx
  <2>3. tx' \in Transactions
    <3> HIDE DEF Wall
    <3>1. 0 \in Wall
      BY DEF Wall
    <3> QED
      BY <1>3, <2>1, <3>1 DEF Begin, NoTx, Transactions
  <2>4. UNCHANGED <<wall, watermark, expiry, refused>>
    BY <1>3 DEF Begin
  <2>5. View'
    BY <2>1, <2>2, <2>4 DEF View
  <2> QED
    BY <2>3, <2>4, <2>5
<1>4. ASSUME NEW l \in Leases, NEW deadline \in Wall, Grant(l, deadline)
      PROVE  ClockInv' /\ UNCHANGED <<expiry, watermark>>
  <2>1. /\ tx' = [tx EXCEPT !.phase = "done", !.expiry = [@ EXCEPT ![l] = tx.time + Duration], !.deadline = deadline]
        /\ View /\ tx.phase = "open" /\ tx.expiry[l] = 0
        /\ UNCHANGED <<wall, watermark, expiry, refused>>
    BY <1>4 DEF Grant
  <2>2. /\ tx'.time = tx.time /\ tx'.mark = tx.mark /\ tx'.stale = tx.stale
        /\ tx'.expiry = [tx.expiry EXCEPT ![l] = tx.time + Duration]
        /\ tx'.phase = "done"
    BY <2>1 DEF Transactions
  <2>3. tx'.expiry \in [Leases -> Nat]
    BY <1>0, <2>2
  <2>4. tx' \in Transactions
    <3> HIDE DEF Wall
    <3> QED
      BY <2>1, <2>2, <2>3 DEF Transactions
  <2>5. View'
    BY <1>0, <2>1, <2>2 DEF View
  <2> QED
    BY <2>1, <2>4, <2>5
<1>5. ASSUME NEW l \in Leases, NEW renew \in BOOLEAN, Use(l, renew)
      PROVE  ClockInv' /\ UNCHANGED <<expiry, watermark>>
  <2>1. /\ View /\ tx.phase = "open" /\ tx.expiry[l] # 0
        /\ UNCHANGED <<wall, watermark, expiry, refused>>
    BY <1>5 DEF Use
  <2>2. CASE tx.expiry[l] <= tx.time
    <3>1. tx' = [tx EXCEPT !.phase = "failed", !.stale = {l}]
      BY <1>5, <2>2 DEF Use
    <3>2. /\ tx'.time = tx.time /\ tx'.mark = tx.mark /\ tx'.stale = {l}
          /\ tx'.expiry = tx.expiry /\ tx'.phase = "failed"
      BY <3>1 DEF Transactions
    <3>3. tx' \in Transactions
      <4> HIDE DEF Wall
      <4> QED
        BY <3>1 DEF Transactions
    <3>4. View'
      BY <1>0, <2>1, <2>2, <3>2 DEF View
    <3> QED
      BY <2>1, <3>3, <3>4
  <2>3. CASE ~(tx.expiry[l] <= tx.time)
    <3> DEFINE until == IF renew THEN tx.time + Duration ELSE tx.expiry[l]
    <3>1. tx' = [tx EXCEPT !.phase = "done", !.expiry = [@ EXCEPT ![l] = until]]
      BY <1>5, <2>3 DEF Use
    <3>2. until \in Nat /\ until # 0
      BY <1>0, <2>1
    <3> HIDE DEF until
    <3>3. /\ tx'.time = tx.time /\ tx'.mark = tx.mark /\ tx'.stale = tx.stale
          /\ tx'.expiry = [tx.expiry EXCEPT ![l] = until] /\ tx'.phase = "done"
      BY <3>1 DEF Transactions
    <3>4. tx'.expiry \in [Leases -> Nat]
      BY <1>0, <3>2, <3>3
    <3>5. tx' \in Transactions
      <4> HIDE DEF Wall
      <4> QED
        BY <3>1, <3>3, <3>4 DEF Transactions
    <3>6. View'
      BY <1>0, <2>1, <2>3, <3>2, <3>3 DEF View
    <3> QED
      BY <2>1, <3>5, <3>6
  <2> QED
    BY <2>2, <2>3
<1>6. CASE Raise
  <2>1. /\ tx' = [tx EXCEPT !.phase = "failed"] /\ View
        /\ UNCHANGED <<wall, watermark, expiry, refused>>
    BY <1>6 DEF Raise
  <2>2. /\ tx'.time = tx.time /\ tx'.mark = tx.mark /\ tx'.stale = tx.stale
        /\ tx'.expiry = tx.expiry /\ tx'.phase = "failed"
    BY <2>1 DEF Transactions
  <2>3. tx' \in Transactions
    <3> HIDE DEF Wall
    <3> QED
      BY <2>1 DEF Transactions
  <2>4. View'
    BY <1>0, <2>1, <2>2 DEF View
  <2> QED
    BY <2>1, <2>3, <2>4
<1>7. CASE Commit
  <2>1. Observed(tx.mark) \in Wall /\ tx.mark <= Observed(tx.mark)
    BY ObservedType, <1>0
  <2>2. CASE InTime
    <3>1. NoTx \in Transactions /\ NoTx.phase = "none"
      BY DEF NoTx, Transactions
    <3>2. /\ View /\ tx' = NoTx /\ expiry' = tx.expiry /\ UNCHANGED <<wall, refused>>
          /\ watermark' = IF tx.deadline = 0 THEN tx.mark ELSE Observed(tx.mark)
      BY <1>7, <2>2 DEF Commit
    <3> QED
      BY <1>0, <2>1, <2>2, <3>1, <3>2 DEF InTime, View
  <2>3. CASE ~InTime
    <3>1. /\ tx' = [tx EXCEPT !.phase = "failed", !.mark = Observed(tx.mark)] /\ View
          /\ UNCHANGED <<wall, watermark, expiry, refused>>
      BY <1>7, <2>3 DEF Commit
    <3>2. /\ tx'.time = tx.time /\ tx'.mark = Observed(tx.mark) /\ tx'.stale = tx.stale
          /\ tx'.expiry = tx.expiry /\ tx'.phase = "failed"
      BY <3>1 DEF Transactions
    <3>3. tx' \in Transactions
      <4> HIDE DEF Wall
      <4> QED
        BY <2>1, <3>1 DEF Transactions
    <3>4. View'
      BY <1>0, <2>1, <3>1, <3>2 DEF View
    <3> QED
      BY <3>1, <3>3, <3>4
  <2> QED
    BY <2>2, <2>3
<1>8. CASE Fail
  <2>1. NoTx \in Transactions /\ NoTx.phase = "none"
    BY DEF NoTx, Transactions
  <2> QED
    BY <1>0, <1>8, <2>1 DEF Fail, Salvaged, Later, View
<1>9. CASE Lose
  <2>1. NoTx \in Transactions /\ NoTx.phase = "none"
    BY DEF NoTx, Transactions
  <2> QED
    BY <1>9, <2>1 DEF Lose
<1> QED
  BY <1>1, <1>2, <1>3, <1>4, <1>5, <1>6, <1>7, <1>8, <1>9 DEF Next

\* The clock's invariant holds throughout.
LEMMA AlwaysClock == Spec => []ClockInv
  BY InitInv, StepInv, PTL DEF Spec

\* The store and the transaction keep their shape: whatever fails, the
\* committed watermark is a time the host's clock may have shown.
THEOREM ClockType == Spec => []TypeOK
<1>1. ClockInv => TypeOK
  BY DEF ClockInv
<1> QED
  BY <1>1, AlwaysClock, PTL

\* A lease that was refused as expired stays expired, however the host's clock
\* is set back and whichever operations fail.
THEOREM RefusalIsFinal == Spec => []NeverRevived
<1>1. ClockInv => NeverRevived
  BY DEF ClockInv
<1> QED
  BY <1>1, AlwaysClock, PTL

\* What is left of a lease only shrinks until it is renewed while it runs: the
\* countdown on which ExecutionKernel is built.
THEOREM LeasesCountDown == Spec => CountsDown
<1>1. ClockInv /\ [Next]_vars =>
         [\A l \in Leases : expiry[l] # 0 =>
             IF expiry'[l] = expiry[l] THEN expiry'[l] - watermark' <= expiry[l] - watermark
                                       ELSE expiry[l] > watermark]_vars
  BY StepInv
<1> QED
  BY <1>1, AlwaysClock, PTL DEF Spec, CountsDown

\* No claim is committed after the budget that admitted it ran out.
THEOREM AdmissionsInTime == Spec => AdmittedInTime
<1>1. ClockInv /\ [Next]_vars =>
         [\A l \in Leases : (expiry[l] = 0 /\ expiry'[l] # 0) =>
             (tx.deadline = 0 \/ tx.deadline > watermark')]_vars
  BY StepInv
<1> QED
  BY <1>1, AlwaysClock, PTL DEF Spec, AdmittedInTime
=============================================================================
