------------------------ MODULE SettlementJournal_proofs ------------------------
(***************************************************************************)
(* What SettlementJournal promises of outcomes, for any executions,        *)
(* processes, drivers and bounds.  SettlementAssumption is about the       *)
(* constants only; it is a hypothesis of each theorem.                     *)
(***************************************************************************)
EXTENDS SettlementJournal, FiniteSetTheorems, TLAPS

-----------------------------------------------------------------------------
(* The inductive invariant                                                 *)

Claimed(k) == k[2] <= row[k[1]].fence
Busy(d) == drv[d].pc \notin {"idle", "admitted"}
Recorded(k) == j[k].st # "none"
Accepted(k) == accepted[k] = ResultOf(k) /\ accepted[k] # "none"

\* What is on record of a generation, wherever it is: nothing before its
\* claim, one result once it runs no more, and an outcome of a live process in
\* the memory of one process only.
KeySound(k) ==
    /\ out[k] # "none" => Claimed(k)
    /\ accepted[k] # "none" => Claimed(k) /\ ~Running(k)
    /\ Recorded(k) => out[k] \in Outcomes
    /\ ~Recorded(k) => j[k] = Unrecorded
    /\ \A r \in Runtimes : k \in pend[r] => out[k] \in Outcomes
    /\ \A r, q \in Runtimes : k \in pend[r] /\ k \in pend[q] => r = q
    /\ out[k] \in Outcomes => Recorded(k) \/ accepted[k] # "none" \/ \E r \in Runtimes : k \in pend[r]
    /\ j[k].st = "recorded" => Accepted(k)
    /\ j[k].st \in {"superseded", "recovery_required"} => ~Running(k)
    /\ accepted[k] \in Runtimes => j[k].res = accepted[k]

\* What a driver has done it may rely on, whatever the maintenance does since.
DriverSound(d) == Busy(d) =>
    /\ drv[d].key \in Keys /\ Claimed(drv[d].key)
    /\ drv[d].pc = "running" => out[drv[d].key] = "none"
    /\ drv[d].pc # "running" => out[drv[d].key] \in Outcomes
    /\ drv[d].pc \in {"receipt", "recorded", "accepted", "parked"} => Recorded(drv[d].key)
    /\ drv[d].pc = "accepted" => Accepted(drv[d].key)
    /\ drv[d].pc = "parked" => ~Running(drv[d].key)
    /\ \A r \in Runtimes : drv[d].key \in pend[r] => r = Home[d]

\* One claim, one driver.
DriversApart == \A d, b \in Drivers :
    Busy(d) /\ Busy(b) /\ drv[d].key = drv[b].key => d = b

\* What a maintenance is about to write is true still; the record may have
\* been written since it was read, though never one resolved time over another.
MaintenanceSound(r) == mnt[r].pc # "idle" =>
    /\ mnt[r].key \in Keys /\ Recorded(mnt[r].key)
    /\ mnt[r].rev <= j[mnt[r].key].rev
    /\ mnt[r].rev = j[mnt[r].key].rev => mnt[r].res = j[mnt[r].key].res
    /\ mnt[r].res # "none" => j[mnt[r].key].res = mnt[r].res
    /\ mnt[r].pc = "settle" => mnt[r].to # "none"
    /\ mnt[r].pc = "settle" /\ mnt[r].to = "recorded" => Accepted(mnt[r].key)
    /\ mnt[r].pc = "settle" /\ mnt[r].to \in {"superseded", "recovery_required"} => ~Running(mnt[r].key)

Holding(r) == {d \in Drivers : Home[d] = r /\ drv[d].pc \in {"admitted", "running"}}

SlotsSound == \A r \in Runtimes :
    /\ IsFiniteSet(pend[r]) /\ IsFiniteSet(Holding(r))
    /\ inuse[r] = Cardinality(pend[r]) + Cardinality(Holding(r))

KeysSound == \A k \in Keys : KeySound(k)
DriversSound == \A d \in Drivers : DriverSound(d)
MaintenancesSound == \A r \in Runtimes : MaintenanceSound(r)

SettlementInv ==
    /\ TypeOK
    /\ KeysSound /\ DriversSound /\ DriversApart /\ MaintenancesSound
    /\ SlotsSound

LEMMA KeyType == ASSUME SettlementAssumption, NEW k \in Keys
  PROVE k[1] \in Execs /\ k[2] \in 1 .. MaxFence /\ k = <<k[1], k[2]>>
  BY DEF Keys

LEMMA InitInv == ASSUME SettlementAssumption, Init PROVE SettlementInv
<1>1. TypeOK
  BY DEF Init, TypeOK, SettlementAssumption, Idle, Unrecorded, AtRest, Results
<1>2. KeysSound
  BY DEF Init, KeysSound, KeySound, Recorded, Unrecorded, Outcomes, SettlementAssumption
<1>3. DriversSound /\ DriversApart /\ MaintenancesSound
  BY DEF Init, DriversSound, DriverSound, DriversApart, Busy, MaintenancesSound, MaintenanceSound, Idle, AtRest
<1>4. \A r \in Runtimes : pend[r] = {} /\ Holding(r) = {} /\ inuse[r] = 0
  BY DEF Init, Holding, Idle
<1>5. SlotsSound
  BY <1>4, FS_EmptySet DEF SlotsSound
<1> QED  BY <1>1, <1>2, <1>3, <1>5 DEF SettlementInv

-----------------------------------------------------------------------------
(* What a step keeps of a generation                                       *)

Keeps(k) ==
    /\ Claimed(k) => Claimed(k)'
    /\ Claimed(k) /\ ~Running(k) => ~Running(k)'
    /\ Recorded(k) => Recorded(k)'
    /\ Recorded(k) /\ Accepted(k) => Accepted(k)'
    /\ j'[k] # j[k] => j'[k].rev = j[k].rev + 1 /\ (j[k].res # "none" => j'[k].res = j[k].res)

Untouched(k) ==
    /\ out'[k] = out[k] /\ accepted'[k] = accepted[k] /\ j'[k] = j[k]
    /\ \A r \in Runtimes : k \in pend'[r] <=> k \in pend[r]

LEMMA KeyKept == ASSUME SettlementInv, NEW k \in Keys, Keeps(k), Untouched(k)
  PROVE KeySound(k)'
<1>1. KeySound(k)
  BY DEF SettlementInv, KeysSound
<1> QED  BY <1>1 DEF KeySound, Keeps, Untouched, Recorded, Accepted, ResultOf, Outcomes

LEMMA DriverKept == ASSUME SettlementInv, \A k \in Keys : Keeps(k), NEW d \in Drivers, drv'[d] = drv[d],
    Busy(d) => /\ out'[drv[d].key] = out[drv[d].key]
               /\ \A r \in Runtimes : drv[d].key \in pend'[r] => r = Home[d]
  PROVE DriverSound(d)'
<1>1. DriverSound(d)
  BY DEF SettlementInv, DriversSound
<1>2. CASE ~Busy(d)
  BY <1>2 DEF Busy, DriverSound
<1>3. CASE Busy(d)
  <2>1. drv[d].key \in Keys /\ Claimed(drv[d].key)
    BY <1>1, <1>3 DEF DriverSound
  <2>2. Keeps(drv[d].key)
    BY <2>1
  <2> QED  BY <1>1, <1>3, <2>1, <2>2 DEF DriverSound, Keeps, Busy, Claimed, Running, Current, Recorded, Accepted, ResultOf
<1> QED  BY <1>2, <1>3

LEMMA MaintenanceKept == ASSUME SettlementInv, \A k \in Keys : Keeps(k), NEW r \in Runtimes, mnt'[r] = mnt[r]
  PROVE MaintenanceSound(r)'
<1>1. MaintenanceSound(r) /\ KeysSound
  BY DEF SettlementInv, MaintenancesSound
<1>2. CASE mnt[r].pc = "idle"
  BY <1>2 DEF MaintenanceSound
<1>3. CASE mnt[r].pc # "idle"
  <2>1. mnt[r].key \in Keys /\ Recorded(mnt[r].key)
    BY <1>1, <1>3 DEF MaintenanceSound
  <2>2. Claimed(mnt[r].key)
    BY <1>1, <2>1 DEF KeysSound, KeySound, Outcomes
  <2>3. mnt[r].rev \in Nat /\ j[mnt[r].key].rev \in Nat
    BY <2>1 DEF SettlementInv, TypeOK
  <2>4. /\ mnt[r].rev <= j'[mnt[r].key].rev
        /\ mnt[r].rev = j'[mnt[r].key].rev => mnt[r].res = j'[mnt[r].key].res
        /\ mnt[r].res # "none" => j'[mnt[r].key].res = mnt[r].res
    BY <1>1, <1>3, <2>1, <2>3 DEF MaintenanceSound, Keeps
  <2> QED  BY <1>1, <1>3, <2>1, <2>2, <2>4 DEF MaintenanceSound, Keeps, Claimed, Running, Current, Recorded, Accepted, ResultOf
<1> QED  BY <1>2, <1>3

LEMMA SlotsKept == ASSUME SettlementInv, UNCHANGED <<pend, inuse>>,
    \A d \in Drivers : drv'[d].pc \in {"admitted", "running"} <=> drv[d].pc \in {"admitted", "running"}
  PROVE SlotsSound'
<1>1. \A r \in Runtimes : Holding(r)' = Holding(r)
  BY DEF Holding
<1> QED  BY <1>1 DEF SettlementInv, SlotsSound

-----------------------------------------------------------------------------
(* Steps of the Kernel and of the maintenance leave the drivers alone      *)

LEMMA QuietStep == ASSUME SettlementInv, TypeOK', \A k \in Keys : Keeps(k), KeysSound',
    UNCHANGED <<out, pend, inuse, drv>>,
    \A r \in Runtimes : mnt'[r] = mnt[r] \/ MaintenanceSound(r)'
  PROVE SettlementInv'
<1>1. DriversSound'
  <2> SUFFICES ASSUME NEW d \in Drivers PROVE DriverSound(d)'
    BY DEF DriversSound
  <2>1. Busy(d) => \A r \in Runtimes : drv[d].key \in pend[r] => r = Home[d]
    BY DEF SettlementInv, DriversSound, DriverSound
  <2> QED  BY <2>1, DriverKept
<1>2. DriversApart'
  BY DEF SettlementInv, DriversApart, Busy
<1>3. MaintenancesSound'
  BY MaintenanceKept DEF MaintenancesSound
<1>4. SlotsSound'
  BY SlotsKept
<1> QED  BY <1>1, <1>2, <1>3, <1>4 DEF SettlementInv

Rows == [st : {"queued", "running", "parked", "ended"}, fence : 0 .. MaxFence, lease : BOOLEAN]

\* Rows move and no generation runs again.
RowsMove ==
    /\ row' \in [Execs -> Rows]
    /\ \A e \in Execs : row'[e].fence = row[e].fence /\ (row'[e].st = "running" => row[e].st = "running")

LEMMA RowsKeep == ASSUME SettlementAssumption, RowsMove
  PROVE \A k \in Keys : (Claimed(k)' <=> Claimed(k)) /\ (Running(k)' => Running(k))
  BY KeyType DEF RowsMove, Claimed, Running, Current

LEMMA KernelStep == ASSUME SettlementAssumption, SettlementInv, NEW e \in Execs, LeaseRunsOut(e) \/ KMoves(e)
  PROVE SettlementInv'
<1>1. UNCHANGED <<accepted, out, pend, inuse, drv, j, rows, cursor, mnt>>
  BY DEF LeaseRunsOut, KMoves
<1>a. RowsMove
  <2> row \in [Execs -> Rows]
    BY DEF SettlementInv, TypeOK, Rows
  <2>1. CASE LeaseRunsOut(e)
    BY <2>1 DEF LeaseRunsOut, RowsMove, Rows
  <2>2. CASE KMoves(e)
    <3>1. \/ \E st \in {"queued", "ended"} : row' = [row EXCEPT ![e].st = st]
          \/ row' = [row EXCEPT ![e] = [@ EXCEPT !.st = "ended", !.lease = FALSE]]
      BY <2>2 DEF KMoves
    <3>2. CASE \E st \in {"queued", "ended"} : row' = [row EXCEPT ![e].st = st]
      BY <3>2 DEF RowsMove, Rows
    <3>3. CASE row' = [row EXCEPT ![e] = [@ EXCEPT !.st = "ended", !.lease = FALSE]]
      BY <3>3 DEF RowsMove, Rows
    <3> QED  BY <3>1, <3>2, <3>3
  <2> QED  BY <2>1, <2>2
<1>2. TypeOK'
  BY <1>1, <1>a DEF SettlementInv, TypeOK, RowsMove, Rows
<1>3. \A k \in Keys : Keeps(k) /\ Untouched(k)
  BY <1>1, <1>a, RowsKeep DEF Keeps, Untouched, Recorded, Accepted, ResultOf
<1>4. KeysSound'
  BY <1>3, KeyKept DEF KeysSound
<1> QED  BY <1>1, <1>2, <1>3, <1>4, QuietStep

-----------------------------------------------------------------------------
(* The completion of an execution, by whomever                             *)

LEMMA AcceptMoves == ASSUME SettlementAssumption, SettlementInv, NEW k \in Keys, Running(k),
    NEW id \in Results \ {"none"}, KAccept(k, id)
  PROVE /\ RowsMove /\ ~Running(k)'
        /\ accepted[k] = "none" /\ accepted' \in [Keys -> Results]
        /\ \A h \in Keys : h # k => accepted'[h] = accepted[h]
        /\ row'[k[1]].st \in {"ended", "queued", "parked"}
        /\ IF row'[k[1]].st = "parked" THEN accepted' = accepted ELSE accepted'[k] = id
<1> k[1] \in Execs
  BY KeyType
<1>1. row \in [Execs -> Rows] /\ accepted \in [Keys -> Results]
  BY DEF SettlementInv, TypeOK, Rows
<1>2. PICK st \in {"ended", "queued", "parked"} :
        /\ row' = [row EXCEPT ![k[1]] = [@ EXCEPT !.st = st, !.lease = FALSE]]
        /\ accepted' = IF st = "parked" THEN accepted ELSE [accepted EXCEPT ![k] = id]
  BY DEF KAccept
<1>3. RowsMove /\ row'[k[1]].st = st
  BY <1>1, <1>2 DEF RowsMove, Rows
<1>4. accepted[k] = "none"
  BY DEF SettlementInv, KeysSound, KeySound
<1>5. accepted' \in [Keys -> Results] /\ \A h \in Keys : h # k => accepted'[h] = accepted[h]
  BY <1>1, <1>2
<1>6. IF st = "parked" THEN accepted' = accepted ELSE accepted'[k] = id
  BY <1>1, <1>2
<1> QED  BY <1>3, <1>4, <1>5, <1>6 DEF Running, Current

\* An execution is parked by hand: its effects have to be looked at.
LEMMA ParkMoves == ASSUME SettlementInv, SettlementAssumption, NEW k \in Keys,
    row' = [row EXCEPT ![k[1]] = [@ EXCEPT !.st = "parked", !.lease = FALSE]]
  PROVE RowsMove /\ ~Running(k)'
<1> k[1] \in Execs
  BY KeyType
<1>1. row \in [Execs -> Rows]
  BY DEF SettlementInv, TypeOK, Rows
<1>2. RowsMove /\ row'[k[1]].st = "parked"
  BY <1>1 DEF RowsMove, Rows
<1> QED  BY <1>2 DEF Running, Current

-----------------------------------------------------------------------------
(* The maintenance                                                         *)

Records == [st : {"none", "pending", "error"} \cup Final, rev : 0 .. MaxRev, res : Results]
Passes == [pc : {"idle", "read", "settle"}, key : Keys \cup {NoKey}, rev : 0 .. MaxRev, res : Results,
           to : {"none", "error"} \cup Final]

\* A step of one maintenance that settles nothing.
LEMMA PassStep == ASSUME SettlementAssumption, SettlementInv, NEW r \in Runtimes, NEW x \in Passes,
    mnt' = [mnt EXCEPT ![r] = x], RowsMove,
    UNCHANGED <<accepted, out, pend, inuse, drv, j, rows>>, cursor' \in 0 .. Len(rows),
    MaintenanceSound(r)'
  PROVE SettlementInv'
<1>1. TypeOK'
  BY DEF SettlementInv, TypeOK, RowsMove, Rows, Passes
<1>2. \A k \in Keys : Keeps(k) /\ Untouched(k)
  BY RowsKeep DEF Keeps, Untouched, Recorded, Accepted, ResultOf
<1>3. KeysSound'
  BY <1>2, KeyKept DEF KeysSound
<1>4. \A q \in Runtimes : q # r => mnt'[q] = mnt[q]
  BY DEF SettlementInv, TypeOK
<1> QED  BY <1>1, <1>2, <1>3, <1>4, QuietStep

LEMMA ScanInv == ASSUME SettlementAssumption, SettlementInv, NEW r \in Runtimes, Scan(r) \/ GiveUp(r)
  PROVE SettlementInv'
<1>1. row' = row /\ RowsMove
  BY DEF Scan, GiveUp, RowsMove, SettlementInv, TypeOK, Rows
<1>t. mnt \in [Runtimes -> Passes] /\ rows \in Seq(Keys) /\ j \in [Keys -> Records]
  BY DEF SettlementInv, TypeOK, Passes, Records
<1>2. AtRest \in Passes
  BY DEF AtRest, Passes, Results, SettlementAssumption
<1>3. CASE GiveUp(r)
  <2>1. MaintenanceSound(r)'
    BY <1>3, <1>t DEF GiveUp, MaintenanceSound, AtRest
  <2>2. cursor' \in 0 .. Len(rows)
    BY <1>3 DEF GiveUp, SettlementInv, TypeOK
  <2> QED  BY <1>1, <1>2, <1>3, <2>1, <2>2, PassStep DEF GiveUp
<1>4. CASE Scan(r)
  <2>1. PICK i \in NextPending :
          /\ cursor' = i
          /\ mnt' = IF rows[i][1] \in Oversized \/ rows[i] \in InFlight(r) THEN mnt
                    ELSE [mnt EXCEPT ![r] = [pc |-> "read", key |-> rows[i], rev |-> j[rows[i]].rev, res |-> j[rows[i]].res, to |-> "none"]]
    BY <1>4 DEF Scan
  <2>2. i \in DOMAIN rows /\ j[rows[i]].st \in {"pending", "error"}
    BY <2>1 DEF NextPending, PendingRows
  <2>3. cursor' \in 0 .. Len(rows) /\ rows[i] \in Keys /\ Recorded(rows[i])
    BY <1>t, <2>1, <2>2 DEF Recorded
  <2>4. [pc |-> "read", key |-> rows[i], rev |-> j[rows[i]].rev, res |-> j[rows[i]].res, to |-> "none"] \in Passes
    BY <1>t, <2>3 DEF Passes, Records
  <2>5. CASE mnt' = mnt
    <3>1. mnt' = [mnt EXCEPT ![r] = mnt[r]] /\ mnt[r] \in Passes
      BY <1>t, <2>5
    <3>2. MaintenanceSound(r)'
      BY <1>4, <2>5 DEF Scan, MaintenanceSound, AtRest
    <3> QED  BY <1>1, <1>4, <2>3, <3>1, <3>2, PassStep DEF Scan
  <2>6. CASE mnt' = [mnt EXCEPT ![r] = [pc |-> "read", key |-> rows[i], rev |-> j[rows[i]].rev, res |-> j[rows[i]].res, to |-> "none"]]
    <3>1. j' = j /\ mnt'[r] = [pc |-> "read", key |-> rows[i], rev |-> j[rows[i]].rev, res |-> j[rows[i]].res, to |-> "none"]
      BY <1>t, <1>4, <2>6 DEF Scan
    <3>2. MaintenanceSound(r)'
      BY <1>t, <2>3, <3>1 DEF MaintenanceSound, Recorded, Records
    <3> QED  BY <1>1, <1>4, <2>3, <2>4, <2>6, <3>2, PassStep DEF Scan
  <2> QED  BY <2>1, <2>5, <2>6
<1> QED  BY <1>3, <1>4

LEMMA PassKey == ASSUME SettlementInv, NEW r \in Runtimes, mnt[r].pc # "idle"
  PROVE \E k \in Keys : k = mnt[r].key /\ Recorded(k) /\ Claimed(k) /\ out[k] \in Outcomes
<1>1. mnt[r].key \in Keys /\ Recorded(mnt[r].key)
  BY DEF SettlementInv, MaintenancesSound, MaintenanceSound
<1> QED  BY <1>1 DEF SettlementInv, KeysSound, KeySound, Outcomes

\* What is to be written follows from what was found.
LEMMA Deciding == ASSUME SettlementInv, NEW r \in Runtimes, NEW k \in Keys, k = mnt[r].key,
    mnt[r].pc = "read", j' = j, NEW st \in {"error"} \cup Final, Decided(r, st), Recorded(k)',
    st = "recorded" => Accepted(k)', st \in {"superseded", "recovery_required"} => ~Running(k)'
  PROVE /\ mnt' \in [Runtimes -> Passes] /\ MaintenanceSound(r)'
        /\ \A q \in Runtimes : q # r => mnt'[q] = mnt[q]
<1>1. mnt \in [Runtimes -> Passes]
  BY DEF SettlementInv, TypeOK, Passes
<1>2. mnt' = [mnt EXCEPT ![r] = [@ EXCEPT !.pc = "settle", !.to = st]]
  BY DEF Decided
<1>3. /\ mnt'[r].key = k /\ mnt'[r].pc = "settle" /\ mnt'[r].to = st
      /\ mnt'[r].rev = mnt[r].rev /\ mnt'[r].res = mnt[r].res
      /\ mnt' \in [Runtimes -> Passes]
  BY <1>1, <1>2 DEF Passes
<1>4. MaintenanceSound(r)
  BY DEF SettlementInv, MaintenancesSound
<1>5. MaintenanceSound(r)'
  BY <1>3, <1>4 DEF MaintenanceSound, Recorded, Accepted, ResultOf, Running, Current, Final
<1> QED  BY <1>1, <1>2, <1>3, <1>5

\* A receipt is written, or an execution completed, by a maintenance.
LEMMA WriteStep == ASSUME SettlementAssumption, SettlementInv, NEW r \in Runtimes, NEW k \in Keys,
    RowsMove, UNCHANGED <<out, pend, inuse, drv, rows, cursor>>,
    mnt' \in [Runtimes -> Passes], MaintenanceSound(r)', \A q \in Runtimes : q # r => mnt'[q] = mnt[q],
    j' \in [Keys -> Records], accepted' \in [Keys -> Results],
    \A h \in Keys : h # k => accepted'[h] = accepted[h] /\ j'[h] = j[h],
    Keeps(k), KeySound(k)'
  PROVE SettlementInv'
<1>1. TypeOK'
  BY DEF SettlementInv, TypeOK, RowsMove, Rows, Passes, Records
<1>2. \A h \in Keys : h # k => Keeps(h) /\ Untouched(h)
  BY RowsKeep DEF Keeps, Untouched, Recorded, Accepted, ResultOf
<1>3. KeysSound' /\ \A h \in Keys : Keeps(h)
  BY <1>2, KeyKept DEF KeysSound
<1> QED  BY <1>1, <1>3, QuietStep

LEMMA PassEnds == ASSUME SettlementInv, NEW r \in Runtimes, mnt' = [mnt EXCEPT ![r] = AtRest], SettlementAssumption
  PROVE /\ mnt' \in [Runtimes -> Passes] /\ MaintenanceSound(r)'
        /\ \A q \in Runtimes : q # r => mnt'[q] = mnt[q]
<1>1. mnt \in [Runtimes -> Passes] /\ AtRest \in Passes
  BY DEF SettlementInv, TypeOK, Passes, AtRest, Results, SettlementAssumption
<1> QED  BY <1>1 DEF AtRest, MaintenanceSound

LEMMA ResolveTimeInv == ASSUME SettlementAssumption, SettlementInv, NEW r \in Runtimes, ResolveTime(r)
  PROVE SettlementInv'
<1>1. PICK k \in Keys : k = mnt[r].key /\ Recorded(k) /\ Claimed(k) /\ out[k] \in Outcomes
  BY PassKey DEF ResolveTime, Reading
<1>2. /\ UNCHANGED <<row, accepted, out, pend, inuse, drv, rows, cursor>>
      /\ mnt[r].pc = "read" /\ mnt[r].res = "none"
  BY <1>1 DEF ResolveTime, Reading, Unresolved
<1>t. /\ j \in [Keys -> Records] /\ accepted \in [Keys -> Results] /\ mnt \in [Runtimes -> Passes]
      /\ row \in [Execs -> Rows] /\ RowsMove
  BY <1>2 DEF SettlementInv, TypeOK, Records, Passes, Rows, RowsMove
<1>s. KeySound(k)
  BY DEF SettlementInv, KeysSound
<1>3. CASE j' = j /\ mnt' = [mnt EXCEPT ![r] = AtRest]
  <2>1. Keeps(k) /\ Untouched(k)
    BY <1>2, <1>3 DEF Keeps, Untouched, Claimed, Running, Current, Recorded, Accepted, ResultOf
  <2>2. KeySound(k)'
    BY <2>1, KeyKept
  <2> QED  BY <1>2, <1>3, <1>t, <2>1, <2>2, PassEnds, WriteStep
<1>4. ASSUME j' = j, NEW st \in {"superseded", "error"}, Decided(r, st), st = "superseded" => ~Running(k)
      PROVE SettlementInv'
  <2>1. Keeps(k) /\ Untouched(k)
    BY <1>2, <1>4 DEF Keeps, Untouched, Claimed, Running, Current, Recorded, Accepted, ResultOf
  <2>2. KeySound(k)'
    BY <2>1, KeyKept
  <2>3. Recorded(k)' /\ (st = "superseded" => ~Running(k)')
    BY <1>1, <2>1, <1>4 DEF Keeps
  <2>4. /\ mnt' \in [Runtimes -> Passes] /\ MaintenanceSound(r)'
        /\ \A q \in Runtimes : q # r => mnt'[q] = mnt[q]
    BY <1>1, <1>2, <1>4, <2>3, Deciding DEF Final
  <2> QED  BY <1>2, <1>4, <1>t, <2>1, <2>2, <2>4, WriteStep
<1>5. ASSUME Running(k), out[k] = "time unknown", Fresh(r), j[k].rev < MaxRev,
        j' = [j EXCEPT ![k] = [st |-> "pending", rev |-> @.rev + 1, res |-> r]],
        mnt' = [mnt EXCEPT ![r] = [@ EXCEPT !.rev = j[k].rev + 1, !.res = r]]
      PROVE SettlementInv'
  <2>r. j[k].rev + 1 \in 0 .. MaxRev
    <3>1. j[k].rev \in 0 .. MaxRev /\ j[k].rev < MaxRev
      BY <1>5, <1>t DEF Records
    <3> QED  BY <3>1 DEF SettlementAssumption
  <2>1. /\ j'[k] = [st |-> "pending", rev |-> j[k].rev + 1, res |-> r] /\ j' \in [Keys -> Records]
        /\ \A h \in Keys : h # k => j'[h] = j[h]
    BY <1>5, <1>t, <2>r DEF Records, Results
  <2>2. /\ mnt' \in [Runtimes -> Passes] /\ mnt'[r].key = k /\ mnt'[r].pc = "read"
        /\ mnt'[r].rev = j[k].rev + 1 /\ mnt'[r].res = r
        /\ \A q \in Runtimes : q # r => mnt'[q] = mnt[q]
    BY <1>1, <1>2, <1>5, <1>t, <2>r DEF Passes, Results
  <2>3. MaintenanceSound(r)'
    BY <2>1, <2>2, <2>r DEF MaintenanceSound, Recorded
  <2>4. accepted[k] = "none"
    BY <1>s, <1>5 DEF KeySound
  <2>n. j[k].res = "none"
    BY <1>1, <1>2, <1>5 DEF Fresh, SettlementInv, MaintenancesSound, MaintenanceSound
  <2>5. Keeps(k)
    BY <1>2, <2>1, <2>4, <2>n DEF Keeps, Claimed, Running, Current, Recorded, Accepted
  <2>6. KeySound(k)'
    BY <1>1, <1>2, <1>s, <2>1, <2>4 DEF KeySound, Claimed, Running, Current, Recorded, Accepted, SettlementAssumption
  <2> QED  BY <1>2, <1>t, <2>1, <2>2, <2>3, <2>5, <2>6, WriteStep
<1> QED  BY <1>1, <1>2, <1>3, <1>4, <1>5 DEF ResolveTime

\* What may be published is a result, and the one on record.
LEMMA Publishable == ASSUME SettlementAssumption, SettlementInv, NEW r \in Runtimes, NEW k \in Keys, k = mnt[r].key,
    mnt[r].pc = "read", out[k] \in Outcomes, ~Unresolved(r), out[k] # "recovery"
  PROVE /\ ReadResult(r) = ResultOf(k) /\ ResultOf(k) \in Results \ {"none"}
        /\ ResultOf(k) \in Runtimes => j[k].res = ResultOf(k)
<1>1. j \in [Keys -> Records]
  BY DEF SettlementInv, TypeOK, Records
<1>2. mnt[r].res # "none" => j[k].res = mnt[r].res
  BY DEF SettlementInv, MaintenancesSound, MaintenanceSound
<1> QED  BY <1>1, <1>2 DEF ReadResult, ResultOf, Unresolved, Outcomes, Records, Results, SettlementAssumption

LEMMA PublishInv == ASSUME SettlementAssumption, SettlementInv, NEW r \in Runtimes, Publish(r)
  PROVE SettlementInv'
<1>1. PICK k \in Keys : k = mnt[r].key /\ Recorded(k) /\ Claimed(k) /\ out[k] \in Outcomes
  BY PassKey DEF Publish, Reading
<1>2. /\ UNCHANGED <<out, pend, inuse, drv, j, rows, cursor>>
      /\ mnt[r].pc = "read" /\ ~Unresolved(r) /\ out[k] # "recovery"
  BY <1>1 DEF Publish, Reading
<1>t. /\ j' \in [Keys -> Records] /\ accepted \in [Keys -> Results] /\ row \in [Execs -> Rows]
  BY <1>2 DEF SettlementInv, TypeOK, Records, Rows
<1>s. KeySound(k)
  BY DEF SettlementInv, KeysSound
<1>p. /\ ReadResult(r) = ResultOf(k) /\ ResultOf(k) \in Results \ {"none"}
      /\ ResultOf(k) \in Runtimes => j[k].res = ResultOf(k)
  BY <1>1, <1>2, Publishable
<1>r. Recorded(k)' /\ ResultOf(k)' = ResultOf(k)
  BY <1>1, <1>2 DEF Recorded, ResultOf
<1>3. ASSUME row' = row, accepted' = accepted, NEW st \in {"superseded", "recorded"}, Decided(r, st),
        st = "superseded" => ~Running(k), st = "recorded" => accepted[k] = ResultOf(k)
      PROVE SettlementInv'
  <2>1. RowsMove /\ Keeps(k) /\ Untouched(k)
    BY <1>2, <1>3, <1>t DEF RowsMove, Keeps, Untouched, Claimed, Running, Current, Recorded, Accepted, ResultOf
  <2>2. KeySound(k)'
    BY <2>1, KeyKept
  <2>3. (st = "recorded" => Accepted(k)') /\ (st = "superseded" => ~Running(k)')
    BY <1>1, <1>2, <1>3, <1>p, <1>r, <2>1 DEF Keeps, Accepted
  <2>4. /\ mnt' \in [Runtimes -> Passes] /\ MaintenanceSound(r)'
        /\ \A q \in Runtimes : q # r => mnt'[q] = mnt[q]
    BY <1>1, <1>2, <1>3, <1>r, <2>3, Deciding DEF Final
  <2> QED  BY <1>2, <1>3, <1>t, <2>1, <2>2, <2>4, WriteStep
<1>4. ASSUME Running(k), KAccept(k, ResultOf(k)),
        Decided(r, IF row'[k[1]].st = "parked" THEN "recovery_required" ELSE "recorded")
      PROVE SettlementInv'
  <2>1. ResultOf(k) \in Results \ {"none"} /\ (ResultOf(k) \in Runtimes => j[k].res = ResultOf(k))
    BY <1>p
  <2>2. /\ RowsMove /\ ~Running(k)'
        /\ accepted[k] = "none" /\ accepted' \in [Keys -> Results]
        /\ \A h \in Keys : h # k => accepted'[h] = accepted[h]
        /\ IF row'[k[1]].st = "parked" THEN accepted' = accepted ELSE accepted'[k] = ResultOf(k)
    BY <1>4, <2>1, AcceptMoves
  <2>3. Claimed(k)' /\ (row'[k[1]].st # "parked" => Accepted(k)')
    BY <1>1, <1>r, <2>1, <2>2, RowsKeep DEF Accepted
  <2>4. /\ mnt' \in [Runtimes -> Passes] /\ MaintenanceSound(r)'
        /\ \A q \in Runtimes : q # r => mnt'[q] = mnt[q]
    BY <1>1, <1>2, <1>4, <1>r, <2>2, <2>3, Deciding DEF Final
  <2>5. Keeps(k)
    BY <1>2, <1>r, <2>2, <2>3 DEF Keeps, Accepted
  <2>6. KeySound(k)'
    BY <1>1, <1>2, <1>s, <1>r, <2>1, <2>2, <2>3 DEF KeySound, Recorded, Accepted, SettlementAssumption
  <2> QED  BY <1>2, <1>t, <2>2, <2>4, <2>5, <2>6, WriteStep
<1> QED  BY <1>1, <1>2, <1>3, <1>4, <1>p DEF Publish, Replayed

LEMMA RequireRecoveryInv == ASSUME SettlementAssumption, SettlementInv, NEW r \in Runtimes, RequireRecovery(r)
  PROVE SettlementInv'
<1>1. PICK k \in Keys : k = mnt[r].key /\ Recorded(k) /\ Claimed(k) /\ out[k] \in Outcomes
  BY PassKey DEF RequireRecovery, Reading
<1>2. UNCHANGED <<accepted, out, pend, inuse, drv, j, rows, cursor>> /\ mnt[r].pc = "read"
  BY DEF RequireRecovery, Reading
<1>t. /\ j' \in [Keys -> Records] /\ accepted' \in [Keys -> Results] /\ row \in [Execs -> Rows]
  BY <1>2 DEF SettlementInv, TypeOK, Records, Rows
<1>3. PICK st \in {"superseded", "recovery_required"} : Decided(r, st)
  BY DEF RequireRecovery
<1>4. RowsMove /\ ~Running(k)'
  <2>1. CASE row' = row /\ ~Running(k)
    BY <1>t, <2>1 DEF RowsMove, Running, Current
  <2>2. CASE row' = [row EXCEPT ![k[1]] = [@ EXCEPT !.st = "parked", !.lease = FALSE]]
    BY <2>2, ParkMoves
  <2> QED  BY <1>1, <2>1, <2>2 DEF RequireRecovery, Running, Current
<1>5. Keeps(k) /\ Untouched(k)
  BY <1>2, <1>4, RowsKeep DEF Keeps, Untouched, Recorded, Accepted, ResultOf
<1>6. KeySound(k)'
  BY <1>5, KeyKept
<1>7. /\ mnt' \in [Runtimes -> Passes] /\ MaintenanceSound(r)'
      /\ \A q \in Runtimes : q # r => mnt'[q] = mnt[q]
  BY <1>1, <1>2, <1>3, <1>4, <1>5, Deciding DEF Final, Keeps
<1> QED  BY <1>2, <1>t, <1>4, <1>5, <1>6, <1>7, WriteStep

\* A receipt is settled as what is true of it; one that is settled stays so.
LEMMA SettledKey == ASSUME SettlementAssumption, SettlementInv, NEW k \in Keys, NEW rev, NEW st \in {"none", "error"} \cup Final,
    SettledAs(k, rev, st), UNCHANGED <<row, accepted, out, pend>>, Recorded(k), st # "none",
    st = "recorded" => Accepted(k), st \in {"superseded", "recovery_required"} => ~Running(k)
  PROVE /\ j' \in [Keys -> Records] /\ \A h \in Keys : h # k => j'[h] = j[h]
        /\ Keeps(k) /\ KeySound(k)'
<1>1. KeySound(k) /\ j \in [Keys -> Records]
  BY DEF SettlementInv, KeysSound, TypeOK, Records
<1>2. CASE j' = j
  <2>1. Keeps(k) /\ Untouched(k)
    BY <1>2 DEF Keeps, Untouched, Claimed, Running, Current, Recorded, Accepted, ResultOf
  <2> QED  BY <1>1, <1>2, <2>1, KeyKept
<1>3. CASE j[k].rev = rev /\ rev < MaxRev /\ j' = [j EXCEPT ![k] = [st |-> st, rev |-> @.rev + 1, res |-> @.res]]
  <2>1. j[k].rev + 1 \in 0 .. MaxRev
    BY <1>1, <1>3 DEF Records, SettlementAssumption
  <2>2. /\ j' \in [Keys -> Records] /\ j'[k].st = st /\ j'[k].res = j[k].res /\ j'[k].rev = j[k].rev + 1
        /\ \A h \in Keys : h # k => j'[h] = j[h]
    <3>1. \A h \in Keys : h # k => j'[h] = j[h]
      BY <1>1, <1>3
    <3>2. j'[k] = [st |-> st, rev |-> j[k].rev + 1, res |-> j[k].res] /\ j[k].res \in Results
      BY <1>1, <1>3 DEF Records
    <3>3. j'[k] \in Records
      BY <2>1, <3>2 DEF Records
    <3>4. j' \in [Keys -> Records]
      BY <1>1, <1>3, <3>3
    <3> QED  BY <3>1, <3>2, <3>4
  <2>3. Keeps(k)
    BY <2>2 DEF Keeps, Claimed, Running, Current, Recorded, Accepted, ResultOf
  <2>4. KeySound(k)'
    BY <1>1, <2>2 DEF KeySound, Claimed, Running, Current, Recorded, Accepted, ResultOf, Final
  <2> QED  BY <2>2, <2>3, <2>4
<1> QED  BY <1>2, <1>3 DEF SettledAs

LEMMA SettleReceiptInv == ASSUME SettlementAssumption, SettlementInv, NEW r \in Runtimes, SettleReceipt(r)
  PROVE SettlementInv'
<1>1. PICK k \in Keys : k = mnt[r].key /\ Recorded(k) /\ Claimed(k) /\ out[k] \in Outcomes
  BY PassKey DEF SettleReceipt
<1>2. /\ UNCHANGED <<row, accepted, out, pend, inuse, drv, rows, cursor>> /\ mnt[r].pc = "settle"
      /\ SettledAs(k, mnt[r].rev, mnt[r].to) /\ mnt' = [mnt EXCEPT ![r] = AtRest]
  BY <1>1 DEF SettleReceipt
<1>t. accepted' \in [Keys -> Results] /\ RowsMove /\ mnt[r].to \in {"none", "error"} \cup Final
  BY <1>2 DEF SettlementInv, TypeOK, RowsMove, Rows
<1>3. /\ mnt[r].to = "recorded" => Accepted(k)
      /\ mnt[r].to \in {"superseded", "recovery_required"} => ~Running(k)
  BY <1>1, <1>2 DEF SettlementInv, MaintenancesSound, MaintenanceSound
<1>4. mnt[r].to # "none"
  BY <1>2 DEF SettlementInv, MaintenancesSound, MaintenanceSound
<1>5. /\ j' \in [Keys -> Records] /\ \A h \in Keys : h # k => j'[h] = j[h]
      /\ Keeps(k) /\ KeySound(k)'
  BY <1>1, <1>2, <1>3, <1>4, <1>t, SettledKey
<1> QED  BY <1>2, <1>t, <1>5, PassEnds, WriteStep

-----------------------------------------------------------------------------
(* Slots and receipts                                                      *)

\* An entry goes and its slot with it, or neither is there.
LEMMA PersistedSlots == ASSUME SettlementAssumption, SettlementInv, NEW r \in Runtimes, NEW k \in Keys, Persisted(r, k),
    \A d \in Drivers : drv'[d].pc \in {"admitted", "running"} <=> drv[d].pc \in {"admitted", "running"}
  PROVE /\ SlotsSound'
        /\ pend' \in [Runtimes -> SUBSET Keys] /\ inuse' \in [Runtimes -> 0 .. Capacity]
        /\ pend'[r] = pend[r] \ {k} /\ \A q \in Runtimes : q # r => pend'[q] = pend[q]
<1>1. pend \in [Runtimes -> SUBSET Keys] /\ inuse \in [Runtimes -> 0 .. Capacity] /\ SlotsSound
  BY DEF SettlementInv, TypeOK
<1>2. /\ pend' \in [Runtimes -> SUBSET Keys]
      /\ pend'[r] = pend[r] \ {k} /\ \A q \in Runtimes : q # r => pend'[q] = pend[q]
  BY <1>1 DEF Persisted
<1>3. \A q \in Runtimes : Holding(q)' = Holding(q)
  BY DEF Holding
<1>4. /\ IsFiniteSet(pend[r]) /\ IsFiniteSet(Holding(r))
      /\ inuse[r] = Cardinality(pend[r]) + Cardinality(Holding(r))
  BY <1>1 DEF SlotsSound
<1>5. Cardinality(pend[r]) \in Nat /\ Cardinality(Holding(r)) \in Nat
  BY <1>4, FS_CardinalityType
<1>6. /\ IsFiniteSet(pend[r] \ {k})
      /\ Cardinality(pend[r] \ {k}) = IF k \in pend[r] THEN Cardinality(pend[r]) - 1 ELSE Cardinality(pend[r])
  BY <1>4, FS_RemoveElement
<1>7. Cardinality(pend[r] \ {k}) \in Nat
  BY <1>6, FS_CardinalityType
<1>8. /\ inuse'[r] = Cardinality(pend[r] \ {k}) + Cardinality(Holding(r))
      /\ \A q \in Runtimes : q # r => inuse'[q] = inuse[q]
      /\ inuse' \in [Runtimes -> 0 .. Capacity]
  <2>1. CASE k \in pend[r]
    <3>1. inuse' = [inuse EXCEPT ![r] = inuse[r] - 1]
      BY <2>1 DEF Persisted
    <3>2. inuse[r] - 1 \in 0 .. Capacity /\ inuse[r] - 1 = Cardinality(pend[r] \ {k}) + Cardinality(Holding(r))
      BY <1>1, <1>4, <1>5, <1>6, <1>7, <2>1 DEF SettlementAssumption
    <3> QED  BY <1>1, <3>1, <3>2
  <2>2. CASE k \notin pend[r]
    <3>1. inuse' = [inuse EXCEPT ![r] = inuse[r]]
      BY <2>2 DEF Persisted
    <3> QED  BY <1>1, <1>4, <1>6, <2>2, <3>1
  <2> QED  BY <2>1, <2>2
<1>9. SlotsSound'
  BY <1>1, <1>2, <1>3, <1>6, <1>8 DEF SlotsSound
<1> QED  BY <1>2, <1>8, <1>9

LEMMA JournaledKey == ASSUME SettlementAssumption, SettlementInv, NEW k \in Keys, Journaled(k), out[k] \in Outcomes,
    UNCHANGED <<row, accepted, out>>
  PROVE /\ j' \in [Keys -> Records] /\ rows' \in Seq(Keys) /\ Len(rows) <= Len(rows')
        /\ Recorded(k)' /\ \A h \in Keys : h # k => j'[h] = j[h]
        /\ Keeps(k)
        /\ (\A r \in Runtimes : k \in pend'[r] => k \in pend[r]) => KeySound(k)'
<1>1. j \in [Keys -> Records] /\ rows \in Seq(Keys) /\ KeySound(k)
  BY DEF SettlementInv, KeysSound, TypeOK, Records
<1>2. CASE j[k] = Unrecorded
  <2>1. /\ j' = [j EXCEPT ![k] = [st |-> "pending", rev |-> 1, res |-> "none"]] /\ rows' = Append(rows, k)
        /\ [st |-> "pending", rev |-> 1, res |-> "none"] \in Records
    BY <1>2 DEF Journaled, Records, Results, SettlementAssumption
  <2>2. /\ j' \in [Keys -> Records] /\ j'[k] = [st |-> "pending", rev |-> 1, res |-> "none"]
        /\ \A h \in Keys : h # k => j'[h] = j[h]
    BY <1>1, <2>1
  <2>3. rows' \in Seq(Keys) /\ Len(rows) <= Len(rows')
    BY <1>1, <2>1
  <2>4. /\ j[k].st = "none" /\ j[k].res = "none" /\ j'[k].res = "none" /\ j'[k].st = "pending"
        /\ j'[k].rev = j[k].rev + 1
    BY <1>2, <2>2 DEF Unrecorded
  <2>5. Keeps(k)
    BY <2>4 DEF Keeps, Claimed, Running, Current, Recorded, Accepted, ResultOf
  <2>6. (\A r \in Runtimes : k \in pend'[r] => k \in pend[r]) => KeySound(k)'
    BY <1>1, <2>4, <2>5 DEF KeySound, Claimed, Running, Current, Recorded, Accepted, ResultOf, SettlementAssumption
  <2> QED  BY <2>2, <2>3, <2>4, <2>5, <2>6 DEF Recorded
<1>3. CASE j[k] # Unrecorded
  <2>1. j' = j /\ rows' = rows /\ Recorded(k)
    BY <1>1, <1>3 DEF Journaled, KeySound
  <2>2. Keeps(k) /\ Recorded(k)'
    BY <2>1 DEF Keeps, Claimed, Running, Current, Recorded, Accepted, ResultOf
  <2>3. (\A r \in Runtimes : k \in pend'[r] => k \in pend[r]) => KeySound(k)'
    BY <1>1, <2>1 DEF KeySound, Claimed, Running, Current, Recorded, Accepted, ResultOf
  <2>4. Len(rows) <= Len(rows')
    BY <1>1, <2>1
  <2> QED  BY <1>1, <2>1, <2>2, <2>3, <2>4
<1> QED  BY <1>2, <1>3

LEMMA PersistPendingInv == ASSUME SettlementAssumption, SettlementInv, NEW r \in Runtimes, NEW k \in Keys, PersistPending(r, k)
  PROVE SettlementInv'
<1>1. /\ k \in pend[r] /\ Journaled(k) /\ Persisted(r, k) /\ UNCHANGED <<row, accepted, out, drv, cursor, mnt>>
      /\ out[k] \in Outcomes
  BY DEF PersistPending, SettlementInv, KeysSound, KeySound
<1>2. /\ SlotsSound'
      /\ pend' \in [Runtimes -> SUBSET Keys] /\ inuse' \in [Runtimes -> 0 .. Capacity]
      /\ pend'[r] = pend[r] \ {k} /\ \A q \in Runtimes : q # r => pend'[q] = pend[q]
  BY <1>1, PersistedSlots
<1>3. \A q \in Runtimes, h \in Keys : (h \in pend'[q] => h \in pend[q]) /\ (h # k => (h \in pend'[q] <=> h \in pend[q]))
  BY <1>2
<1>4. /\ j' \in [Keys -> Records] /\ rows' \in Seq(Keys) /\ Len(rows) <= Len(rows')
      /\ \A h \in Keys : h # k => j'[h] = j[h]
      /\ Keeps(k) /\ KeySound(k)'
  BY <1>1, <1>3, JournaledKey
<1>5. TypeOK'
  BY <1>1, <1>2, <1>4 DEF SettlementInv, TypeOK, Records
<1>6. \A h \in Keys : h # k => Keeps(h) /\ Untouched(h)
  BY <1>1, <1>3, <1>4 DEF Keeps, Untouched, Claimed, Running, Current, Recorded, Accepted, ResultOf
<1>7. KeysSound' /\ \A h \in Keys : Keeps(h)
  BY <1>4, <1>6, KeyKept DEF KeysSound
<1>8. DriversSound'
  <2> SUFFICES ASSUME NEW d \in Drivers PROVE DriverSound(d)'
    BY DEF DriversSound
  <2>1. Busy(d) => drv[d].key \in Keys /\ \A q \in Runtimes : drv[d].key \in pend[q] => q = Home[d]
    BY DEF SettlementInv, DriversSound, DriverSound
  <2>2. Busy(d) => out'[drv[d].key] = out[drv[d].key] /\ \A q \in Runtimes : drv[d].key \in pend'[q] => q = Home[d]
    BY <1>1, <1>3, <2>1
  <2> QED  BY <1>1, <1>7, <2>2, DriverKept
<1>9. DriversApart' /\ MaintenancesSound'
  BY <1>1, <1>7, MaintenanceKept DEF SettlementInv, DriversApart, Busy, MaintenancesSound
<1> QED  BY <1>2, <1>5, <1>7, <1>8, <1>9 DEF SettlementInv

-----------------------------------------------------------------------------
(* The drivers                                                             *)

Drvs == [pc : {"idle", "admitted", "running", "retained", "receipt", "recorded", "unrecorded", "accepted", "parked"},
         key : Keys \cup {NoKey}]

\* A driver holds a claim nobody else has, and keeps only its own outcome.
LEMMA DriverStep == ASSUME SettlementAssumption, SettlementInv, TypeOK', NEW d \in Drivers,
    \A b \in Drivers : b # d => drv'[b] = drv[b], mnt' = mnt,
    \A k \in Keys : Keeps(k), KeysSound', SlotsSound', DriverSound(d)',
    Busy(d)' => \A b \in Drivers : b # d /\ Busy(b) => drv[b].key # drv'[d].key,
    \A b \in Drivers : b # d /\ Busy(b) => out'[drv[b].key] = out[drv[b].key],
    \A k \in Keys, r \in Runtimes : k \in pend'[r] => k \in pend[r] \/ (r = Home[d] /\ Busy(d) /\ k = drv[d].key)
  PROVE SettlementInv'
<1>1. DriversSound'
  <2> SUFFICES ASSUME NEW b \in Drivers, b # d PROVE DriverSound(b)'
    BY DEF DriversSound
  <2>1. Busy(b) => drv[b].key \in Keys /\ \A r \in Runtimes : drv[b].key \in pend[r] => r = Home[b]
    BY DEF SettlementInv, DriversSound, DriverSound
  <2>2. Busy(b) /\ Busy(d) => drv[b].key # drv[d].key
    BY DEF SettlementInv, DriversApart
  <2>3. Busy(b) => \A r \in Runtimes : drv[b].key \in pend'[r] => r = Home[b]
    BY <2>1, <2>2
  <2> QED  BY <2>3, DriverKept
<1>2. DriversApart'
  <2>1. \A b \in Drivers : b # d => (Busy(b)' <=> Busy(b))
    BY DEF Busy
  <2> QED  BY <2>1 DEF SettlementInv, DriversApart
<1>3. MaintenancesSound'
  BY MaintenanceKept DEF MaintenancesSound
<1> QED  BY <1>1, <1>2, <1>3 DEF SettlementInv

\* The slots in use while a driver comes or goes.
LEMMA HoldingOne == ASSUME SettlementAssumption, NEW d \in Drivers, drv \in [Drivers -> Drvs], NEW x \in Drvs,
    drv' = [drv EXCEPT ![d] = x]
  PROVE /\ \A r \in Runtimes : r # Home[d] => Holding(r)' = Holding(r)
        /\ x.pc \in {"admitted", "running"} => Holding(Home[d])' = Holding(Home[d]) \cup {d}
        /\ x.pc \notin {"admitted", "running"} => Holding(Home[d])' = Holding(Home[d]) \ {d}
        /\ d \in Holding(Home[d]) <=> drv[d].pc \in {"admitted", "running"}
        /\ drv' \in [Drivers -> Drvs] /\ drv'[d] = x /\ \A b \in Drivers : b # d => drv'[b] = drv[b]
<1>1. drv' \in [Drivers -> Drvs] /\ drv'[d] = x /\ \A b \in Drivers : b # d => drv'[b] = drv[b]
  OBVIOUS
<1>2. \A r \in Runtimes : r # Home[d] => Holding(r)' = Holding(r)
  BY <1>1 DEF Holding
<1>3. /\ x.pc \in {"admitted", "running"} => Holding(Home[d])' = Holding(Home[d]) \cup {d}
      /\ x.pc \notin {"admitted", "running"} => Holding(Home[d])' = Holding(Home[d]) \ {d}
      /\ d \in Holding(Home[d]) <=> drv[d].pc \in {"admitted", "running"}
  BY <1>1 DEF Holding
<1> QED  BY <1>1, <1>2, <1>3

LEMMA AcquireInv == ASSUME SettlementAssumption, SettlementInv, NEW d \in Drivers, Acquire(d)
  PROVE SettlementInv'
<1>1. UNCHANGED <<row, accepted, out, pend, j, rows, cursor, mnt>>
  BY DEF Acquire
<1>t. /\ drv \in [Drivers -> Drvs] /\ inuse \in [Runtimes -> 0 .. Capacity] /\ Home[d] \in Runtimes
      /\ SlotsSound
  BY DEF SettlementInv, TypeOK, Drvs, SettlementAssumption
<1>2. PICK x \in Drvs : x.pc = "admitted" /\ drv' = [drv EXCEPT ![d] = x]
  <2>1. drv[d].pc = "idle" /\ [drv[d] EXCEPT !.pc = "admitted"] \in Drvs
    BY <1>t DEF Acquire, Idle, Drvs
  <2>2. [drv[d] EXCEPT !.pc = "admitted"].pc = "admitted"
    BY <1>t DEF Drvs
  <2>3. drv' = [drv EXCEPT ![d] = [drv[d] EXCEPT !.pc = "admitted"]]
    BY DEF Acquire
  <2> QED  BY <2>1, <2>2, <2>3
<1>d. drv[d].pc = "idle"
  BY DEF Acquire, Idle
<1>3. /\ \A r \in Runtimes : r # Home[d] => Holding(r)' = Holding(r)
      /\ Holding(Home[d])' = Holding(Home[d]) \cup {d} /\ d \notin Holding(Home[d])
      /\ drv' \in [Drivers -> Drvs] /\ drv'[d] = x /\ \A b \in Drivers : b # d => drv'[b] = drv[b]
  BY <1>t, <1>2, <1>d, HoldingOne
<1>4. /\ inuse' \in [Runtimes -> 0 .. Capacity] /\ inuse'[Home[d]] = inuse[Home[d]] + 1
      /\ \A r \in Runtimes : r # Home[d] => inuse'[r] = inuse[r]
  BY <1>t DEF Acquire, SettlementAssumption
<1>5. SlotsSound'
  <2>1. /\ IsFiniteSet(Holding(Home[d]) \cup {d})
        /\ Cardinality(Holding(Home[d]) \cup {d}) = Cardinality(Holding(Home[d])) + 1
    BY <1>t, <1>3, FS_AddElement DEF SlotsSound
  <2> DEFINE Sound(q) == /\ IsFiniteSet(pend[q]) /\ IsFiniteSet(Holding(q))
                         /\ inuse[q] = Cardinality(pend[q]) + Cardinality(Holding(q))
  <2>2. Cardinality(pend[Home[d]]) \in Nat /\ Cardinality(Holding(Home[d])) \in Nat
    BY <1>t, FS_CardinalityType DEF SlotsSound
  <2>3. Sound(Home[d])'
    BY <1>1, <1>t, <1>3, <1>4, <2>1, <2>2 DEF SlotsSound
  <2>4. \A r \in Runtimes : r # Home[d] => Sound(r)'
    BY <1>1, <1>t, <1>3, <1>4 DEF SlotsSound
  <2> QED  BY <2>3, <2>4 DEF SlotsSound
<1>6. TypeOK'
  BY <1>1, <1>3, <1>4 DEF SettlementInv, TypeOK, Drvs
<1>7. \A k \in Keys : Keeps(k) /\ Untouched(k)
  BY <1>1 DEF Keeps, Untouched, Claimed, Running, Current, Recorded, Accepted, ResultOf
<1>8. KeysSound' /\ DriverSound(d)' /\ ~Busy(d)'
  BY <1>2, <1>3, <1>7, KeyKept DEF KeysSound, DriverSound, Busy
<1> QED  BY <1>1, <1>3, <1>5, <1>6, <1>7, <1>8, DriverStep

\* A driver that gives its slot back has left nothing behind.
LEMMA FinishInv == ASSUME SettlementAssumption, SettlementInv, NEW d \in Drivers, NothingToClaim(d) \/ NoOutcome(d)
  PROVE SettlementInv'
<1>1. /\ UNCHANGED <<row, accepted, out, pend, j, rows, cursor, mnt>>
      /\ drv[d].pc \in {"admitted", "running"} /\ Finish(d)
  BY DEF NothingToClaim, NoOutcome, At
<1>t. /\ drv \in [Drivers -> Drvs] /\ inuse \in [Runtimes -> 0 .. Capacity] /\ Home[d] \in Runtimes
      /\ SlotsSound
  BY DEF SettlementInv, TypeOK, Drvs, SettlementAssumption
<1>2. drv' = [drv EXCEPT ![d] = Idle] /\ Idle \in Drvs
  BY <1>1 DEF Finish, Idle, Drvs
<1>3. /\ \A r \in Runtimes : r # Home[d] => Holding(r)' = Holding(r)
      /\ Holding(Home[d])' = Holding(Home[d]) \ {d} /\ d \in Holding(Home[d])
      /\ drv' \in [Drivers -> Drvs] /\ drv'[d] = Idle /\ \A b \in Drivers : b # d => drv'[b] = drv[b]
  BY <1>1, <1>t, <1>2, HoldingOne DEF Idle
<1>5. /\ IsFiniteSet(Holding(Home[d]) \ {d})
      /\ Cardinality(Holding(Home[d]) \ {d}) = Cardinality(Holding(Home[d])) - 1
  BY <1>t, <1>3, FS_RemoveElement DEF SlotsSound
<1>6. /\ Cardinality(pend[Home[d]]) \in Nat /\ Cardinality(Holding(Home[d])) \in Nat
      /\ Cardinality(Holding(Home[d]) \ {d}) \in Nat
  BY <1>t, <1>5, FS_CardinalityType DEF SlotsSound
<1>7. inuse[Home[d]] - 1 \in 0 .. Capacity
  BY <1>t, <1>5, <1>6 DEF SlotsSound, SettlementAssumption
<1>8. /\ inuse' \in [Runtimes -> 0 .. Capacity] /\ inuse'[Home[d]] = inuse[Home[d]] - 1
      /\ \A r \in Runtimes : r # Home[d] => inuse'[r] = inuse[r]
  BY <1>1, <1>t, <1>7 DEF Finish
<1>9. SlotsSound'
  <2> DEFINE Sound(q) == /\ IsFiniteSet(pend[q]) /\ IsFiniteSet(Holding(q))
                         /\ inuse[q] = Cardinality(pend[q]) + Cardinality(Holding(q))
  <2>3. Sound(Home[d])'
    BY <1>1, <1>t, <1>3, <1>5, <1>6, <1>8 DEF SlotsSound
  <2>4. \A r \in Runtimes : r # Home[d] => Sound(r)'
    BY <1>1, <1>t, <1>3, <1>8 DEF SlotsSound
  <2> QED  BY <2>3, <2>4 DEF SlotsSound
<1>10. TypeOK'
  BY <1>1, <1>3, <1>8 DEF SettlementInv, TypeOK, Drvs
<1>11. \A k \in Keys : Keeps(k) /\ Untouched(k)
  BY <1>1 DEF Keeps, Untouched, Claimed, Running, Current, Recorded, Accepted, ResultOf
<1>12. KeysSound' /\ DriverSound(d)' /\ ~Busy(d)'
  BY <1>3, <1>11, KeyKept DEF KeysSound, DriverSound, Busy, Idle
<1> QED  BY <1>1, <1>3, <1>9, <1>10, <1>11, <1>12, DriverStep

\* The claim of a generation is new to everybody.
LEMMA ClaimInv == ASSUME SettlementAssumption, SettlementInv, NEW d \in Drivers, NEW e \in Execs, ClaimAndStart(d, e)
  PROVE SettlementInv'
<1>1. /\ UNCHANGED <<accepted, out, pend, inuse, j, rows, cursor, mnt>>
      /\ drv[d].pc = "admitted" /\ row[e].fence < MaxFence
      /\ row' = [row EXCEPT ![e] = [st |-> "running", fence |-> @.fence + 1, lease |-> TRUE]]
      /\ drv' = [drv EXCEPT ![d] = [pc |-> "running", key |-> <<e, row[e].fence + 1>>]]
  BY DEF ClaimAndStart, At
<1>t. drv \in [Drivers -> Drvs] /\ row \in [Execs -> Rows] /\ KeysSound
  BY DEF SettlementInv, TypeOK, Drvs, Rows
<1>2. row[e].fence \in 0 .. MaxFence /\ row[e].fence + 1 \in 1 .. MaxFence
  BY <1>1, <1>t DEF Rows, SettlementAssumption
<1>3. PICK k \in Keys : k = <<e, row[e].fence + 1>> /\ k[1] = e /\ k[2] = row[e].fence + 1
  <2>1. <<e, row[e].fence + 1>> \in Keys
    BY <1>2 DEF Keys
  <2> QED  BY <2>1
<1>x. PICK x \in Drvs : x = [pc |-> "running", key |-> k]
  BY DEF Drvs
<1>4. /\ row' \in [Execs -> Rows] /\ row'[e].fence = row[e].fence + 1
      /\ \A f \in Execs : f # e => row'[f] = row[f]
  BY <1>1, <1>t, <1>2 DEF Rows
<1>5. /\ drv' \in [Drivers -> Drvs] /\ drv'[d] = x /\ \A b \in Drivers : b # d => drv'[b] = drv[b]
      /\ drv'[d].pc = "running" /\ drv'[d].key = k
  BY <1>1, <1>t, <1>3, <1>x
<1>6. \A h \in Keys : (Claimed(h) => Claimed(h)') /\ (Claimed(h) /\ ~Running(h) => ~Running(h)')
  <2> SUFFICES ASSUME NEW h \in Keys
               PROVE (Claimed(h) => Claimed(h)') /\ (Claimed(h) /\ ~Running(h) => ~Running(h)')
    OBVIOUS
  <2>1. h[1] \in Execs /\ h[2] \in Int
    BY KeyType
  <2>2. CASE h[1] = e
    BY <1>2, <1>4, <2>1, <2>2 DEF Claimed, Running, Current
  <2>3. CASE h[1] # e
    BY <1>4, <2>1, <2>3 DEF Claimed, Running, Current
  <2> QED  BY <2>2, <2>3
<1>7. ~Claimed(k) /\ Claimed(k)'
  BY <1>2, <1>3, <1>4 DEF Claimed
<1>8. out[k] = "none" /\ \A r \in Runtimes : k \notin pend[r]
  BY <1>t, <1>3, <1>7 DEF KeysSound, KeySound, Outcomes
<1>9. \A b \in Drivers : Busy(b) => drv[b].key # k
  BY <1>7 DEF SettlementInv, DriversSound, DriverSound
<1>10. TypeOK'
  BY <1>1, <1>4, <1>5 DEF SettlementInv, TypeOK, Drvs, Rows
<1>11. \A h \in Keys : Keeps(h) /\ Untouched(h)
  BY <1>1, <1>6 DEF Keeps, Untouched, Recorded, Accepted, ResultOf
<1>12. KeysSound'
  BY <1>11, KeyKept DEF KeysSound
<1>13. SlotsSound'
  BY <1>1, <1>5, SlotsKept
<1>14. DriverSound(d)'
  <2>1. out'[k] = "none" /\ \A r \in Runtimes : k \notin pend'[r]
    BY <1>1, <1>8
  <2> QED  BY <1>5, <1>7, <2>1 DEF DriverSound, Claimed
<1>15. \A b \in Drivers : b # d /\ Busy(b) => drv[b].key # drv'[d].key
  BY <1>5, <1>9
<1> QED  BY <1>1, <1>5, <1>10, <1>11, <1>12, <1>13, <1>14, <1>15, DriverStep

\* The slot passes from the driver to the outcome.
LEMMA RetainInv == ASSUME SettlementAssumption, SettlementInv, NEW d \in Drivers, Retain(d)
  PROVE SettlementInv'
<1>k. PICK k \in Keys : k = drv[d].key
  BY DEF Retain, At, SettlementInv, DriversSound, DriverSound, Busy
<1>1. /\ UNCHANGED <<row, accepted, inuse, j, rows, cursor, mnt>> /\ drv[d].pc = "running"
      /\ pend' = [pend EXCEPT ![Home[d]] = @ \cup {k}]
  BY <1>k DEF Retain, At
<1>t. /\ drv \in [Drivers -> Drvs] /\ inuse \in [Runtimes -> 0 .. Capacity] /\ Home[d] \in Runtimes
      /\ pend \in [Runtimes -> SUBSET Keys] /\ out \in [Keys -> Outcomes \cup {"none", "lost"}]
      /\ j \in [Keys -> Records] /\ SlotsSound /\ KeysSound
  BY DEF SettlementInv, TypeOK, Drvs, Records, SettlementAssumption
<1>2. /\ k \in Keys /\ Claimed(k) /\ out[k] = "none"
      /\ \A b \in Drivers : b # d /\ Busy(b) => drv[b].key # k
  BY <1>1, <1>k DEF SettlementInv, DriversSound, DriverSound, DriversApart, Busy
<1>3. KeySound(k) /\ ~Recorded(k) /\ j[k] = Unrecorded /\ ~Accepted(k) /\ \A r \in Runtimes : k \notin pend[r]
  <2>1. KeySound(k)
    BY <1>t DEF KeysSound
  <2>2. ~Recorded(k) /\ j[k] = Unrecorded /\ \A r \in Runtimes : k \notin pend[r]
    BY <1>2, <2>1 DEF KeySound, Outcomes
  <2>3. j[k].res = "none" /\ ResultOf(k) = j[k].res
    BY <1>2, <2>2 DEF Unrecorded, ResultOf
  <2> QED  BY <2>1, <2>2, <2>3 DEF Accepted
<1>4. PICK kind \in Outcomes : out' = [out EXCEPT ![k] = kind]
  BY <1>k DEF Retain
<1>5. /\ out' \in [Keys -> Outcomes \cup {"none", "lost"}] /\ out'[k] \in Outcomes
      /\ \A h \in Keys : h # k => out'[h] = out[h]
  BY <1>2, <1>4, <1>t
<1>6. /\ pend' \in [Runtimes -> SUBSET Keys] /\ pend'[Home[d]] = pend[Home[d]] \cup {k}
      /\ \A r \in Runtimes : r # Home[d] => pend'[r] = pend[r]
  BY <1>1, <1>2, <1>t
<1>x. PICK x \in Drvs : x.pc = "retained" /\ x.key = k /\ drv' = [drv EXCEPT ![d] = x]
  <2>1. drv' = [drv EXCEPT ![d] = [drv[d] EXCEPT !.pc = "retained"]]
    BY DEF Retain, Go
  <2>2. [drv[d] EXCEPT !.pc = "retained"] \in Drvs
    BY <1>t DEF Drvs
  <2>3. [drv[d] EXCEPT !.pc = "retained"].pc = "retained" /\ [drv[d] EXCEPT !.pc = "retained"].key = k
    BY <1>k, <1>t DEF Drvs
  <2> QED  BY <2>1, <2>2, <2>3
<1>7. /\ \A r \in Runtimes : r # Home[d] => Holding(r)' = Holding(r)
      /\ Holding(Home[d])' = Holding(Home[d]) \ {d} /\ d \in Holding(Home[d])
      /\ drv' \in [Drivers -> Drvs] /\ drv'[d] = x /\ \A b \in Drivers : b # d => drv'[b] = drv[b]
  BY <1>1, <1>t, <1>x, HoldingOne
<1>8. SlotsSound'
  <2> DEFINE Sound(q) == /\ IsFiniteSet(pend[q]) /\ IsFiniteSet(Holding(q))
                         /\ inuse[q] = Cardinality(pend[q]) + Cardinality(Holding(q))
  <2>1. IsFiniteSet(Holding(Home[d]) \ {d}) /\ Cardinality(Holding(Home[d]) \ {d}) = Cardinality(Holding(Home[d])) - 1
    BY <1>t, <1>7, FS_RemoveElement DEF SlotsSound
  <2>2. IsFiniteSet(pend[Home[d]] \cup {k}) /\ Cardinality(pend[Home[d]] \cup {k}) = Cardinality(pend[Home[d]]) + 1
    BY <1>t, <1>3, FS_AddElement DEF SlotsSound
  <2>3. Cardinality(pend[Home[d]]) \in Nat /\ Cardinality(Holding(Home[d])) \in Nat
    BY <1>t, FS_CardinalityType DEF SlotsSound
  <2>4. inuse[Home[d]] = Cardinality(pend[Home[d]] \cup {k}) + Cardinality(Holding(Home[d]) \ {d})
    BY <1>t, <2>1, <2>2, <2>3 DEF SlotsSound
  <2>5. Sound(Home[d])'
    BY <1>1, <1>6, <1>7, <2>1, <2>2, <2>4
  <2>6. \A r \in Runtimes : r # Home[d] => Sound(r)'
    BY <1>1, <1>t, <1>6, <1>7 DEF SlotsSound
  <2> QED  BY <2>5, <2>6 DEF SlotsSound
<1>9. TypeOK'
  BY <1>1, <1>5, <1>6, <1>7 DEF SettlementInv, TypeOK, Drvs
<1>10. \A h \in Keys : h # k => Keeps(h) /\ Untouched(h)
  BY <1>1, <1>5, <1>6 DEF Keeps, Untouched, Claimed, Running, Current, Recorded, Accepted, ResultOf
<1>11. Keeps(k) /\ Claimed(k)' /\ ~Recorded(k)'
  BY <1>1, <1>2, <1>3 DEF Keeps, Claimed, Running, Current, Recorded
<1>12. KeySound(k)'
  <2>1. /\ \A r, q \in Runtimes : k \in pend'[r] /\ k \in pend'[q] => r = q
        /\ k \in pend'[Home[d]]
    BY <1>3, <1>6
  <2> QED  BY <1>1, <1>3, <1>5, <1>11, <1>t, <2>1 DEF KeySound, Claimed, Running, Current, Recorded, Unrecorded
<1>13. KeysSound' /\ \A h \in Keys : Keeps(h)
  BY <1>10, <1>11, <1>12, KeyKept DEF KeysSound
<1>14. DriverSound(d)' /\ Busy(d)
  <2>1. \A r \in Runtimes : k \in pend'[r] => r = Home[d]
    BY <1>3, <1>6
  <2> QED  BY <1>1, <1>2, <1>5, <1>7, <1>11, <1>x, <2>1 DEF DriverSound, Busy, Claimed
<1>15. \A b \in Drivers : b # d /\ Busy(b) => drv[b].key # drv'[d].key /\ out'[drv[b].key] = out[drv[b].key]
  <2>1. \A b \in Drivers : Busy(b) => drv[b].key \in Keys
    BY DEF SettlementInv, DriversSound, DriverSound
  <2> QED  BY <1>2, <1>5, <1>7, <1>x, <2>1
<1>16. \A h \in Keys, r \in Runtimes : h \in pend'[r] => h \in pend[r] \/ (r = Home[d] /\ h = drv[d].key)
  BY <1>6, <1>k
<1> QED  BY <1>1, <1>7, <1>8, <1>9, <1>13, <1>14, <1>15, <1>16, DriverStep

\* From then on a driver is about the one key it has.
LEMMA DriverWrites == ASSUME SettlementAssumption, SettlementInv, NEW d \in Drivers, Busy(d), drv[d].pc # "running",
    NEW k \in Keys, k = drv[d].key,
    NEW x \in Drvs, drv' = [drv EXCEPT ![d] = x], x.pc \notin {"admitted", "running"}, x.pc # "idle" => x.key = k,
    RowsMove, UNCHANGED <<out, cursor, mnt>>,
    j' \in [Keys -> Records], accepted' \in [Keys -> Results], rows' \in Seq(Keys), Len(rows) <= Len(rows'),
    pend' \in [Runtimes -> SUBSET Keys], inuse' \in [Runtimes -> 0 .. Capacity], SlotsSound',
    \A h \in Keys : h # k => accepted'[h] = accepted[h] /\ j'[h] = j[h] /\ \A r \in Runtimes : h \in pend'[r] <=> h \in pend[r],
    \A r \in Runtimes : k \in pend'[r] => k \in pend[r],
    Keeps(k), KeySound(k)',
    x.pc \in {"receipt", "recorded", "accepted", "parked"} => Recorded(k)',
    x.pc = "accepted" => Accepted(k)', x.pc = "parked" => ~Running(k)'
  PROVE SettlementInv'
<1>t. drv \in [Drivers -> Drvs] /\ DriverSound(d)
  BY DEF SettlementInv, TypeOK, Drvs, DriversSound
<1>1. drv' \in [Drivers -> Drvs] /\ drv'[d] = x /\ \A b \in Drivers : b # d => drv'[b] = drv[b]
  BY <1>t
<1>2. TypeOK'
  <2>1. cursor' \in 0 .. Len(rows')
    BY DEF SettlementInv, TypeOK
  <2> QED  BY <1>1, <2>1 DEF SettlementInv, TypeOK, Drvs, RowsMove, Rows, Records
<1>3. \A h \in Keys : h # k => Keeps(h) /\ Untouched(h)
  BY RowsKeep DEF Keeps, Untouched, Recorded, Accepted, ResultOf
<1>4. KeysSound' /\ \A h \in Keys : Keeps(h)
  BY <1>3, KeyKept DEF KeysSound
<1>5. /\ Claimed(k) /\ out[k] \in Outcomes /\ \A r \in Runtimes : k \in pend[r] => r = Home[d]
      /\ \A b \in Drivers : b # d /\ Busy(b) => drv[b].key # k
  BY <1>t DEF DriverSound, SettlementInv, DriversApart
<1>6. DriverSound(d)'
  <2>1. Claimed(k)' /\ out'[k] \in Outcomes /\ \A r \in Runtimes : k \in pend'[r] => r = Home[d]
    BY <1>5 DEF Keeps
  <2> QED  BY <1>1, <2>1 DEF DriverSound, Busy, Claimed, Recorded, Accepted, ResultOf, Running, Current
<1>7. Busy(d)' => \A b \in Drivers : b # d /\ Busy(b) => drv[b].key # drv'[d].key
  BY <1>1, <1>5 DEF Busy
<1>8. \A h \in Keys, r \in Runtimes : h \in pend'[r] => h \in pend[r]
  OBVIOUS
<1> QED  BY <1>1, <1>2, <1>4, <1>6, <1>7, <1>8, DriverStep

\* A driver that writes nothing, or what concerns nobody's record.
LEMMA DriverGoes == ASSUME SettlementAssumption, SettlementInv, NEW d \in Drivers, Busy(d), drv[d].pc # "running",
    NEW k \in Keys, k = drv[d].key,
    NEW x \in Drvs, drv' = [drv EXCEPT ![d] = x], x.pc \notin {"admitted", "running"}, x.pc # "idle" => x.key = k,
    RowsMove, UNCHANGED <<accepted, out, pend, inuse, j, rows, cursor, mnt>>,
    x.pc \in {"receipt", "recorded", "accepted", "parked"} => Recorded(k),
    x.pc = "accepted" => Accepted(k), x.pc = "parked" => ~Running(k)'
  PROVE SettlementInv'
<1>1. Keeps(k) /\ Untouched(k)
  BY RowsKeep DEF Keeps, Untouched, Recorded, Accepted, ResultOf
<1>2. KeySound(k)' /\ (Recorded(k)' <=> Recorded(k)) /\ (Accepted(k)' <=> Accepted(k))
  BY <1>1, KeyKept DEF Recorded, Accepted, ResultOf
<1>3. \A b \in Drivers : drv'[b].pc \in {"admitted", "running"} <=> drv[b].pc \in {"admitted", "running"}
  BY DEF SettlementInv, TypeOK, Busy
<1>4. SlotsSound'
  BY <1>3, SlotsKept
<1>5. /\ j' \in [Keys -> Records] /\ accepted' \in [Keys -> Results] /\ rows' \in Seq(Keys) /\ Len(rows) <= Len(rows')
      /\ pend' \in [Runtimes -> SUBSET Keys] /\ inuse' \in [Runtimes -> 0 .. Capacity]
  BY DEF SettlementInv, TypeOK, Records
<1>6. /\ \A h \in Keys : h # k => accepted'[h] = accepted[h] /\ j'[h] = j[h] /\ \A r \in Runtimes : h \in pend'[r] <=> h \in pend[r]
      /\ \A r \in Runtimes : k \in pend'[r] => k \in pend[r]
  OBVIOUS
<1>7. UNCHANGED <<out, cursor, mnt>>
  OBVIOUS
<1>8. /\ x.pc \in {"receipt", "recorded", "accepted", "parked"} => Recorded(k)'
      /\ x.pc = "accepted" => Accepted(k)'
  BY <1>2
<1> QED  BY <1>1, <1>2, <1>4, <1>5, <1>6, <1>7, <1>8, DriverWrites

\* A driver with an outcome: its next state, if it goes on or returns.
LEMMA DriverNext == ASSUME SettlementInv, NEW d \in Drivers, Busy(d)
  PROVE /\ drv[d].key \in Keys
        /\ drv[d].pc # "running" => out[drv[d].key] \in Outcomes
        /\ \A pc \in {"receipt", "recorded", "unrecorded", "accepted", "parked"} : Go(d, pc) =>
             \E x \in Drvs : x.pc = pc /\ x.key = drv[d].key /\ drv' = [drv EXCEPT ![d] = x]
        /\ Return(d) => \E x \in Drvs : x.pc = "idle" /\ drv' = [drv EXCEPT ![d] = x]
<1>1. drv \in [Drivers -> Drvs] /\ DriverSound(d)
  BY DEF SettlementInv, TypeOK, Drvs, DriversSound
<1>2. ASSUME NEW pc \in {"receipt", "recorded", "unrecorded", "accepted", "parked"}, Go(d, pc)
      PROVE \E x \in Drvs : x.pc = pc /\ x.key = drv[d].key /\ drv' = [drv EXCEPT ![d] = x]
  <2>1. /\ [drv[d] EXCEPT !.pc = pc] \in Drvs /\ [drv[d] EXCEPT !.pc = pc].pc = pc
        /\ [drv[d] EXCEPT !.pc = pc].key = drv[d].key
    BY <1>1 DEF Drvs
  <2>2. drv' = [drv EXCEPT ![d] = [drv[d] EXCEPT !.pc = pc]]
    BY <1>2 DEF Go
  <2> QED  BY <2>1, <2>2
<1>3. Return(d) => \E x \in Drvs : x.pc = "idle" /\ drv' = [drv EXCEPT ![d] = x]
  <2>1. Idle \in Drvs /\ Idle.pc = "idle"
    BY DEF Idle, Drvs
  <2> QED  BY <2>1 DEF Return
<1> QED  BY <1>1, <1>2, <1>3 DEF DriverSound

LEMMA RecordInv == ASSUME SettlementAssumption, SettlementInv, NEW d \in Drivers, Record(d) \/ RecordFails(d)
  PROVE SettlementInv'
<1>1. drv[d].pc = "retained" /\ Busy(d)
  BY DEF Record, RecordFails, At, Busy
<1>t. drv \in [Drivers -> Drvs] /\ DriverSound(d) /\ row \in [Execs -> Rows]
  BY DEF SettlementInv, TypeOK, Drvs, DriversSound, Rows
<1>k. PICK k \in Keys : k = drv[d].key /\ out[k] \in Outcomes
  BY <1>1, DriverNext
<1>3. CASE RecordFails(d)
  <2>1. PICK x \in Drvs : x.pc = "unrecorded" /\ x.key = k /\ drv' = [drv EXCEPT ![d] = x]
    BY <1>1, <1>k, <1>3, DriverNext DEF RecordFails
  <2>2. RowsMove /\ UNCHANGED <<accepted, out, pend, inuse, j, rows, cursor, mnt>>
    BY <1>3, <1>t DEF RecordFails, RowsMove
  <2> QED  BY <1>1, <1>k, <2>1, <2>2, DriverGoes
<1>4. CASE Record(d)
  <2>1. PICK x \in Drvs : x.pc = "receipt" /\ x.key = k /\ drv' = [drv EXCEPT ![d] = x]
    BY <1>1, <1>k, <1>4, DriverNext DEF Record
  <2>2. RowsMove /\ UNCHANGED <<row, accepted, out, pend, inuse, cursor, mnt>> /\ Journaled(k)
    BY <1>k, <1>4, <1>t DEF Record, RowsMove
  <2>3. /\ j' \in [Keys -> Records] /\ rows' \in Seq(Keys) /\ Len(rows) <= Len(rows')
        /\ Recorded(k)' /\ \A h \in Keys : h # k => j'[h] = j[h]
        /\ Keeps(k) /\ KeySound(k)'
    BY <1>k, <2>2, JournaledKey
  <2>4. /\ accepted' \in [Keys -> Results] /\ pend' \in [Runtimes -> SUBSET Keys]
        /\ inuse' \in [Runtimes -> 0 .. Capacity]
    BY <2>2 DEF SettlementInv, TypeOK
  <2>5. \A b \in Drivers : drv'[b].pc \in {"admitted", "running"} <=> drv[b].pc \in {"admitted", "running"}
    BY <1>1, <1>t, <2>1
  <2>6. SlotsSound'
    BY <2>2, <2>5, SlotsKept
  <2> QED  BY <1>1, <1>k, <2>1, <2>2, <2>3, <2>4, <2>6, DriverWrites
<1> QED  BY <1>3, <1>4

LEMMA ReleaseInv == ASSUME SettlementAssumption, SettlementInv, NEW d \in Drivers, Release(d)
  PROVE SettlementInv'
<1>1. drv[d].pc = "receipt" /\ Busy(d) /\ Home[d] \in Runtimes
  BY DEF Release, At, Busy, SettlementAssumption
<1>k. PICK k \in Keys : k = drv[d].key
  BY <1>1, DriverNext
<1>2. UNCHANGED <<row, accepted, out, j, rows, cursor, mnt>> /\ Persisted(Home[d], k)
  BY <1>k DEF Release
<1>x. PICK x \in Drvs : x.pc = "recorded" /\ x.key = k /\ drv' = [drv EXCEPT ![d] = x]
  BY <1>1, <1>k, DriverNext DEF Release
<1>t. /\ drv \in [Drivers -> Drvs] /\ RowsMove /\ KeySound(k) /\ Recorded(k)
      /\ j' \in [Keys -> Records] /\ accepted' \in [Keys -> Results] /\ rows' \in Seq(Keys) /\ Len(rows) <= Len(rows')
  BY <1>1, <1>2, <1>k DEF SettlementInv, TypeOK, Drvs, RowsMove, Rows, Records, KeysSound, DriversSound, DriverSound
<1>3. \A b \in Drivers : drv'[b].pc \in {"admitted", "running"} <=> drv[b].pc \in {"admitted", "running"}
  BY <1>1, <1>t, <1>x
<1>4. /\ SlotsSound'
      /\ pend' \in [Runtimes -> SUBSET Keys] /\ inuse' \in [Runtimes -> 0 .. Capacity]
      /\ pend'[Home[d]] = pend[Home[d]] \ {k} /\ \A q \in Runtimes : q # Home[d] => pend'[q] = pend[q]
  BY <1>1, <1>2, <1>3, PersistedSlots
<1>5. /\ \A h \in Keys : h # k => \A r \in Runtimes : h \in pend'[r] <=> h \in pend[r]
      /\ \A r \in Runtimes : k \in pend'[r] => k \in pend[r]
  BY <1>4
<1>6. Keeps(k) /\ Recorded(k)'
  BY <1>2, <1>t DEF Keeps, Claimed, Running, Current, Recorded, Accepted, ResultOf
<1>7. KeySound(k)'
  BY <1>2, <1>5, <1>6, <1>t DEF KeySound, Claimed, Running, Current, Recorded, Accepted, ResultOf
<1> QED  BY <1>1, <1>2, <1>4, <1>5, <1>6, <1>7, <1>k, <1>t, <1>x, DriverWrites

LEMMA ParkInv == ASSUME SettlementAssumption, SettlementInv, NEW d \in Drivers, Park(d) \/ LeaveIt(d)
  PROVE SettlementInv'
<1>1. drv[d].pc \in {"recorded", "unrecorded", "accepted", "parked"} /\ Busy(d)
  BY DEF Park, LeaveIt, Ready, At, Busy
<1>k. PICK k \in Keys : k = drv[d].key
  BY <1>1, DriverNext
<1>t. UNCHANGED <<accepted, out, pend, inuse, j, rows, cursor, mnt>>
  BY DEF Park, LeaveIt
<1>2. CASE LeaveIt(d)
  <2>1. RowsMove
    BY <1>2 DEF LeaveIt, SettlementInv, TypeOK, RowsMove, Rows
  <2>2. PICK x \in Drvs : x.pc = "idle" /\ drv' = [drv EXCEPT ![d] = x]
    BY <1>1, <1>2, DriverNext DEF LeaveIt
  <2> QED  BY <1>1, <1>k, <1>t, <2>1, <2>2, DriverGoes
<1>3. CASE Park(d)
  <2>1. RowsMove /\ ~Running(k)'
    BY <1>3, <1>k, ParkMoves DEF Park
  <2>2. PICK x \in Drvs : /\ drv' = [drv EXCEPT ![d] = x] /\ x.pc \in {"parked", "idle"}
                          /\ x.pc = "parked" => x.key = k /\ drv[d].pc = "recorded"
    BY <1>1, <1>3, <1>k, DriverNext DEF Park, At
  <2>3. x.pc = "parked" => Recorded(k)
    BY <1>1, <1>k, <2>2 DEF SettlementInv, DriversSound, DriverSound
  <2> QED  BY <1>1, <1>k, <1>t, <2>1, <2>2, <2>3, DriverGoes
<1> QED  BY <1>2, <1>3

LEMMA SettleOwnInv == ASSUME SettlementAssumption, SettlementInv, NEW d \in Drivers, SettleOwn(d)
  PROVE SettlementInv'
<1>1. drv[d].pc \in {"accepted", "parked"} /\ Busy(d)
  BY DEF SettleOwn, At, Busy
<1>k. PICK k \in Keys : k = drv[d].key
  BY <1>1, DriverNext
<1>2. /\ UNCHANGED <<row, accepted, out, pend, inuse, rows, cursor, mnt>>
      /\ SettledAs(k, 1, IF drv[d].pc = "accepted" THEN "recorded" ELSE "recovery_required")
  BY <1>1, <1>k DEF SettleOwn, At
<1>x. PICK x \in Drvs : x.pc = "idle" /\ drv' = [drv EXCEPT ![d] = x]
  BY <1>1, DriverNext DEF SettleOwn
<1>t. /\ drv \in [Drivers -> Drvs] /\ RowsMove /\ Recorded(k)
      /\ accepted' \in [Keys -> Results] /\ rows' \in Seq(Keys) /\ Len(rows) <= Len(rows')
      /\ pend' \in [Runtimes -> SUBSET Keys] /\ inuse' \in [Runtimes -> 0 .. Capacity]
      /\ drv[d].pc = "accepted" => Accepted(k)
      /\ drv[d].pc = "parked" => ~Running(k)
  BY <1>1, <1>2, <1>k DEF SettlementInv, TypeOK, Drvs, RowsMove, Rows, DriversSound, DriverSound
<1>3. PICK st \in {"recorded", "recovery_required"} :
        /\ SettledAs(k, 1, st)
        /\ st = "recorded" => Accepted(k)
        /\ st = "recovery_required" => ~Running(k)
  BY <1>1, <1>2, <1>t
<1>4. /\ j' \in [Keys -> Records] /\ \A h \in Keys : h # k => j'[h] = j[h]
      /\ Keeps(k) /\ KeySound(k)'
  BY <1>2, <1>3, <1>t, SettledKey DEF Final
<1>5. \A b \in Drivers : drv'[b].pc \in {"admitted", "running"} <=> drv[b].pc \in {"admitted", "running"}
  BY <1>1, <1>t, <1>x
<1>6. SlotsSound'
  BY <1>2, <1>5, SlotsKept
<1> QED  BY <1>1, <1>2, <1>4, <1>6, <1>k, <1>t, <1>x, DriverWrites

\* The completion by the driver, or the answer that it is complete already.
LEMMA CompleteInv == ASSUME SettlementAssumption, SettlementInv, NEW d \in Drivers, Complete(d)
  PROVE SettlementInv'
<1>1. drv[d].pc \in {"recorded", "unrecorded"} /\ Busy(d) /\ Home[d] \in Runtimes
  BY DEF Complete, Ready, At, Busy, SettlementAssumption
<1>k. PICK k \in Keys : k = drv[d].key
  BY <1>1, DriverNext
<1>2. /\ UNCHANGED <<out, j, rows, cursor, mnt>> /\ out[k] = "result" /\ ResultOf(k) = "driver"
      /\ \/ Running(k) /\ KAccept(k, "driver")
         \/ Replayed(k, "driver") /\ UNCHANGED <<row, accepted>>
  BY <1>k DEF Complete, ResultOf
<1>t. /\ drv \in [Drivers -> Drvs] /\ KeySound(k) /\ Claimed(k) /\ (drv[d].pc = "recorded" => Recorded(k))
      /\ j' \in [Keys -> Records] /\ rows' \in Seq(Keys) /\ Len(rows) <= Len(rows')
      /\ pend \in [Runtimes -> SUBSET Keys] /\ inuse \in [Runtimes -> 0 .. Capacity]
      /\ accepted \in [Keys -> Results] /\ row \in [Execs -> Rows]
  BY <1>1, <1>2, <1>k DEF SettlementInv, TypeOK, Drvs, Rows, Records, KeysSound, DriversSound, DriverSound
<1>3. /\ RowsMove /\ ~Running(k)' /\ accepted' \in [Keys -> Results]
      /\ \A h \in Keys : h # k => accepted'[h] = accepted[h]
      /\ row'[k[1]].st \in {"ended", "queued", "parked"}
      /\ IF row'[k[1]].st = "parked" THEN accepted' = accepted ELSE accepted'[k] = "driver"
  <2>1. CASE Running(k) /\ KAccept(k, "driver")
    <3>1. "driver" \in Results \ {"none"}
      BY DEF Results
    <3> QED  BY <2>1, <3>1, AcceptMoves
  <2>2. CASE Replayed(k, "driver") /\ UNCHANGED <<row, accepted>>
    BY <1>t, <2>2 DEF Replayed, RowsMove, Running, Current
  <2> QED  BY <1>2, <2>1, <2>2
<1>4. /\ Claimed(k)' /\ (Recorded(k)' <=> Recorded(k)) /\ ResultOf(k)' = "driver"
      /\ row'[k[1]].st # "parked" => Accepted(k)'
  BY <1>2, <1>3, <1>t, RowsKeep DEF Recorded, ResultOf, Accepted
<1>5. Keeps(k)
  BY <1>2, <1>3, <1>4 DEF Keeps, Accepted
<1>6. PICK x \in Drvs :
        /\ drv' = [drv EXCEPT ![d] = x] /\ x.pc \in {"accepted", "parked", "idle"}
        /\ x.pc # "idle" => x.key = k /\ drv[d].pc = "recorded"
        /\ x.pc = "accepted" => row'[k[1]].st # "parked"
  BY <1>1, <1>k, DriverNext DEF Complete, At
<1>7. \A b \in Drivers : drv'[b].pc \in {"admitted", "running"} <=> drv[b].pc \in {"admitted", "running"}
  <2>1. drv'[d].pc = x.pc /\ \A b \in Drivers : b # d => drv'[b] = drv[b]
    BY <1>t, <1>6
  <2>2. drv[d].pc \notin {"admitted", "running"} /\ x.pc \notin {"admitted", "running"}
    BY <1>1, <1>6
  <2> QED  BY <2>1, <2>2
<1>8. Kept \/ (row'[k[1]].st = "ended" /\ Persisted(Home[d], k))
  BY <1>k DEF Complete
<1>9. /\ SlotsSound'
      /\ pend' \in [Runtimes -> SUBSET Keys] /\ inuse' \in [Runtimes -> 0 .. Capacity]
      /\ \A h \in Keys : h # k => \A r \in Runtimes : h \in pend'[r] <=> h \in pend[r]
      /\ \A r \in Runtimes : k \in pend'[r] => k \in pend[r]
      /\ row'[k[1]].st = "parked" => pend' = pend
  <2>1. CASE Kept
    BY <1>7, <1>t, <2>1, SlotsKept DEF Kept
  <2>2. CASE row'[k[1]].st = "ended" /\ Persisted(Home[d], k)
    BY <1>1, <1>7, <2>2, PersistedSlots
  <2> QED  BY <1>8, <2>1, <2>2
<1>10. KeySound(k)'
  <2>1. CASE row'[k[1]].st = "parked"
    <3>1. accepted' = accepted /\ pend' = pend
      BY <1>3, <1>9, <2>1
    <3> QED  BY <1>2, <1>3, <1>4, <1>5, <1>t, <3>1 DEF KeySound, Keeps, Recorded, Accepted, ResultOf
  <2>2. CASE row'[k[1]].st # "parked"
    <3>1. accepted'[k] = "driver" /\ "driver" \notin Runtimes /\ Accepted(k)'
      BY <1>3, <1>4, <2>2 DEF SettlementAssumption
    <3> QED  BY <1>2, <1>3, <1>4, <1>9, <1>t, <3>1 DEF KeySound, Recorded
  <2> QED  BY <2>1, <2>2
<1>11. /\ x.pc \in {"receipt", "recorded", "accepted", "parked"} => Recorded(k)'
       /\ x.pc = "accepted" => Accepted(k)'
  <2>1. x.pc = "accepted" => Accepted(k)'
    BY <1>4, <1>6
  <2>2. x.pc \in {"receipt", "recorded", "accepted", "parked"} => drv[d].pc = "recorded"
    BY <1>6
  <2>3. drv[d].pc = "recorded" => Recorded(k)'
    BY <1>4, <1>t
  <2> QED  BY <2>1, <2>2, <2>3
<1>12. \A h \in Keys : h # k => accepted'[h] = accepted[h] /\ j'[h] = j[h] /\ \A r \in Runtimes : h \in pend'[r] <=> h \in pend[r]
  BY <1>2, <1>3, <1>9
<1>13. drv[d].pc # "running" /\ x.pc \notin {"admitted", "running"} /\ (x.pc # "idle" => x.key = k)
  BY <1>1, <1>6
<1> QED  BY <1>1, <1>2, <1>3, <1>5, <1>6, <1>9, <1>10, <1>11, <1>12, <1>13, <1>k, <1>t, DriverWrites

\* With a process goes what only its memory held.
LEMMA CrashInv == ASSUME SettlementAssumption, SettlementInv, NEW r \in Runtimes, Crash(r)
  PROVE SettlementInv'
<1>t. /\ drv \in [Drivers -> Drvs] /\ pend \in [Runtimes -> SUBSET Keys] /\ inuse \in [Runtimes -> 0 .. Capacity]
      /\ out \in [Keys -> Outcomes \cup {"none", "lost"}] /\ mnt \in [Runtimes -> Passes]
      /\ KeysSound /\ SlotsSound /\ AtRest \in Passes /\ Idle \in Drvs
  BY DEF SettlementInv, TypeOK, Drvs, Passes, AtRest, Idle, Results, SettlementAssumption
<1>1. UNCHANGED <<row, accepted, j, rows, cursor>>
  BY DEF Crash
<1>2. /\ drv' \in [Drivers -> Drvs]
      /\ \A d \in Drivers : drv'[d] = IF Home[d] = r THEN Idle ELSE drv[d]
  BY <1>t DEF Crash
<1>3. /\ out' \in [Keys -> Outcomes \cup {"none", "lost"}]
      /\ \A k \in Keys : out'[k] = IF k \in pend[r] /\ j[k] = Unrecorded THEN "lost" ELSE out[k]
  BY <1>t DEF Crash
<1>4. /\ pend' \in [Runtimes -> SUBSET Keys] /\ inuse' \in [Runtimes -> 0 .. Capacity]
      /\ pend'[r] = {} /\ inuse'[r] = 0
      /\ \A q \in Runtimes : q # r => pend'[q] = pend[q] /\ inuse'[q] = inuse[q]
  BY <1>t DEF Crash, SettlementAssumption
<1>5. /\ mnt' \in [Runtimes -> Passes] /\ mnt'[r] = AtRest
      /\ \A q \in Runtimes : q # r => mnt'[q] = mnt[q]
  BY <1>t DEF Crash
<1>6. TypeOK'
  BY <1>1, <1>2, <1>3, <1>4, <1>5 DEF SettlementInv, TypeOK, Drvs, Passes
<1>7. \A k \in Keys : /\ (Claimed(k)' <=> Claimed(k)) /\ (Running(k)' <=> Running(k)) /\ (Recorded(k)' <=> Recorded(k))
                     /\ Recorded(k) => out'[k] = out[k] /\ ResultOf(k)' = ResultOf(k) /\ (Accepted(k)' <=> Accepted(k))
  <2> SUFFICES ASSUME NEW k \in Keys
               PROVE /\ (Claimed(k)' <=> Claimed(k)) /\ (Running(k)' <=> Running(k)) /\ (Recorded(k)' <=> Recorded(k))
                     /\ Recorded(k) => out'[k] = out[k] /\ ResultOf(k)' = ResultOf(k) /\ (Accepted(k)' <=> Accepted(k))
    OBVIOUS
  <2>1. Recorded(k) => out'[k] = out[k]
    BY <1>3 DEF Recorded, Unrecorded
  <2> QED  BY <1>1, <2>1 DEF Claimed, Running, Current, Recorded, Accepted, ResultOf
<1>8. \A k \in Keys : Keeps(k)
  BY <1>1, <1>7 DEF Keeps, Claimed, Running, Current, Recorded, Accepted
<1>9. KeysSound'
  <2> SUFFICES ASSUME NEW k \in Keys PROVE KeySound(k)'
    BY DEF KeysSound
  <2>1. KeySound(k)
    BY <1>t DEF KeysSound
  <2>2. CASE k \in pend[r] /\ j[k] = Unrecorded
    <3>1. out'[k] = "lost" /\ ~Recorded(k) /\ \A q \in Runtimes : k \notin pend'[q]
      BY <1>3, <1>4, <2>1, <2>2 DEF KeySound, Recorded, Unrecorded
    <3>2. Claimed(k)
      BY <2>1, <2>2 DEF KeySound, Outcomes
    <3>3. j'[k] = Unrecorded /\ j'[k].st = "none" /\ accepted'[k] = accepted[k] /\ j[k].res = j'[k].res
      BY <1>1, <2>2 DEF Unrecorded
    <3>4. "lost" \notin Outcomes
      BY DEF Outcomes
    <3> QED  BY <1>1, <1>7, <2>1, <3>1, <3>2, <3>3, <3>4 DEF KeySound, Claimed, Running, Current, Recorded
  <2>3. CASE ~(k \in pend[r] /\ j[k] = Unrecorded)
    <3>1. out'[k] = out[k] /\ accepted'[k] = accepted[k] /\ j'[k] = j[k]
      BY <1>1, <1>3, <2>3
    <3>2. \A q \in Runtimes : k \in pend'[q] => k \in pend[q]
      BY <1>4
    <3>3. (\E q \in Runtimes : k \in pend[q]) => Recorded(k) \/ \E q \in Runtimes : k \in pend'[q]
      BY <1>4, <2>1, <2>3 DEF KeySound
    <3>4. j[k].st = "recorded" => Recorded(k)
      BY DEF Recorded
    <3> QED  BY <1>1, <1>7, <2>1, <3>1, <3>2, <3>3, <3>4 DEF KeySound, Claimed, Running, Current, Recorded
  <2> QED  BY <2>2, <2>3
<1>10. DriversSound'
  <2> SUFFICES ASSUME NEW d \in Drivers PROVE DriverSound(d)'
    BY DEF DriversSound
  <2>1. CASE Home[d] = r
    BY <1>2, <2>1 DEF DriverSound, Busy, Idle
  <2>2. CASE Home[d] # r
    <3>1. Busy(d) => drv[d].key \in Keys /\ \A q \in Runtimes : drv[d].key \in pend[q] => q = Home[d]
      BY DEF SettlementInv, DriversSound, DriverSound
    <3>2. Busy(d) => out'[drv[d].key] = out[drv[d].key] /\ \A q \in Runtimes : drv[d].key \in pend'[q] => q = Home[d]
      BY <1>3, <1>4, <2>2, <3>1
    <3> QED  BY <1>2, <1>8, <2>2, <3>2, DriverKept
  <2> QED  BY <2>1, <2>2
<1>11. DriversApart'
  BY <1>2 DEF SettlementInv, DriversApart, Busy, Idle
<1>12. MaintenancesSound'
  <2>1. MaintenanceSound(r)'
    BY <1>5 DEF MaintenanceSound, AtRest
  <2> QED  BY <1>5, <1>8, <2>1, MaintenanceKept DEF MaintenancesSound
<1>13. SlotsSound'
  <2>1. Holding(r)' = {} /\ \A q \in Runtimes : q # r => Holding(q)' = Holding(q)
    BY <1>2 DEF Holding, Idle
  <2> DEFINE Sound(q) == /\ IsFiniteSet(pend[q]) /\ IsFiniteSet(Holding(q))
                         /\ inuse[q] = Cardinality(pend[q]) + Cardinality(Holding(q))
  <2>2. Sound(r)'
    BY <1>4, <2>1, FS_EmptySet
  <2>3. \A q \in Runtimes : q # r => Sound(q)'
    BY <1>4, <1>t, <2>1 DEF SlotsSound
  <2> QED  BY <2>2, <2>3 DEF SlotsSound
<1> QED  BY <1>6, <1>9, <1>10, <1>11, <1>12, <1>13 DEF SettlementInv

-----------------------------------------------------------------------------
LEMMA NextInv == ASSUME SettlementAssumption, SettlementInv, [Next]_vars PROVE SettlementInv'
<1>1. CASE UNCHANGED vars
  <2>1. UNCHANGED <<row, accepted, out, pend, inuse, drv, j, rows, cursor, mnt>>
    BY <1>1 DEF vars
  <2>2. \A k \in Keys : Keeps(k) /\ Untouched(k)
    BY <2>1 DEF Keeps, Untouched, Claimed, Running, Current, Recorded, Accepted, ResultOf
  <2>3. TypeOK' /\ KeysSound'
    BY <2>1, <2>2, KeyKept DEF SettlementInv, TypeOK, KeysSound
  <2> QED  BY <2>1, <2>2, <2>3, QuietStep
<1>2. ASSUME NEW e \in Execs, LeaseRunsOut(e) \/ KMoves(e) PROVE SettlementInv'
  BY <1>2, KernelStep
<1>3. ASSUME NEW d \in Drivers, Drive(d) PROVE SettlementInv'
  BY <1>3, AcquireInv, FinishInv, ClaimInv, RetainInv, RecordInv, ReleaseInv, CompleteInv, ParkInv, SettleOwnInv DEF Drive
<1>4. ASSUME NEW r \in Runtimes, Maintain(r) \/ GiveUp(r) \/ Crash(r) PROVE SettlementInv'
  BY <1>4, PersistPendingInv, ScanInv, ResolveTimeInv, PublishInv, RequireRecoveryInv, SettleReceiptInv, CrashInv DEF Maintain
<1> QED  BY <1>1, <1>2, <1>3, <1>4 DEF Next

-----------------------------------------------------------------------------
(* What it means                                                           *)

LEMMA InvSafe == ASSUME SettlementInv PROVE SettlementSafe
<1>1. SlotsExact
  BY DEF SettlementInv, SlotsSound, SlotsExact, Holding
<1>2. OutcomeIsKept
  <2> SUFFICES ASSUME NEW k \in Keys, out[k] \in Outcomes
               PROVE j[k] # Unrecorded \/ (\E r \in Runtimes : k \in pend[r]) \/ accepted[k] # "none"
    BY DEF OutcomeIsKept
  <2>1. Recorded(k) \/ accepted[k] # "none" \/ \E r \in Runtimes : k \in pend[r]
    BY DEF SettlementInv, KeysSound, KeySound
  <2> QED  BY <2>1 DEF Recorded, Unrecorded
<1>3. ReceiptsTellTheTruth
  BY DEF SettlementInv, KeysSound, KeySound, Accepted, ReceiptsTellTheTruth
<1>4. PublishedIsPersisted
  BY DEF SettlementInv, KeysSound, KeySound, PublishedIsPersisted
<1> QED  BY <1>1, <1>2, <1>3, <1>4 DEF SettlementInv, SettlementSafe

LEMMA AlwaysInv == ASSUME SettlementAssumption PROVE Spec => []SettlementInv
<1>1. Init => SettlementInv
  BY InitInv
<1>2. SettlementInv /\ [Next]_vars => SettlementInv'
  BY NextInv
<1> QED  BY <1>1, <1>2, PTL DEF Spec

\* Whatever drivers, maintenances and crashes do: an outcome of a live process
\* is in its memory, in the journal or in the Kernel; a slot is given back
\* once; a receipt says what the Kernel did; and of two maintenances that
\* resolve one time only the persisted result is published.
THEOREM OutcomesAreSafe == ASSUME SettlementAssumption PROVE Spec => []SettlementSafe
  BY InvSafe, AlwaysInv, PTL

\* An acceptance is of a generation that runs, and those have none yet.
LEMMA OneAcceptance == ASSUME SettlementAssumption, SettlementInv, NEW k \in Keys, NEW h \in Keys, NEW id,
    Running(k), KAccept(k, id), accepted[h] # "none"
  PROVE accepted'[h] = accepted[h]
<1>1. accepted[k] = "none" /\ accepted \in [Keys -> Results]
  BY DEF SettlementInv, TypeOK, KeysSound, KeySound
<1> QED  BY <1>1 DEF KAccept

\* A settled receipt is written by none of those that write receipts.
LEMMA OneReceipt == ASSUME SettlementAssumption, SettlementInv, NEW k \in Keys, NEW h \in Keys,
    j[h].st \in {"recorded", "superseded"}, NEW rev, NEW st,
    \/ Journaled(k)
    \/ SettledAs(k, rev, st)
    \/ Running(k) /\ \E x : j' = [j EXCEPT ![k] = x]
  PROVE j'[h] = j[h]
<1>1. j \in [Keys -> Records] /\ j[h] # Unrecorded
  BY DEF SettlementInv, TypeOK, Records, Unrecorded
<1>2. Running(k) => k # h
  BY DEF SettlementInv, KeysSound, KeySound, Accepted
<1>3. CASE Journaled(k)
  BY <1>1, <1>3 DEF Journaled
<1>4. CASE SettledAs(k, rev, st)
  BY <1>1, <1>4 DEF SettledAs
<1>5. CASE Running(k) /\ \E x : j' = [j EXCEPT ![k] = x]
  BY <1>1, <1>2, <1>5
<1> QED  BY <1>3, <1>4, <1>5

LEMMA OneResultNext == ASSUME SettlementAssumption, SettlementInv, [Next]_vars PROVE OneResultEachStep
<1> SUFFICES ASSUME NEW h \in Keys
             PROVE /\ accepted[h] # "none" => accepted'[h] = accepted[h]
                   /\ j[h].st \in {"recorded", "superseded"} => j'[h] = j[h]
  BY DEF OneResultEachStep
<1> DEFINE Same == UNCHANGED <<accepted, j>>
           Settles == (accepted[h] # "none" => accepted'[h] = accepted[h])
                      /\ (j[h].st \in {"recorded", "superseded"} => j'[h] = j[h])
<1>1. CASE UNCHANGED vars
  BY <1>1 DEF vars
<1>2. ASSUME NEW e \in Execs, LeaseRunsOut(e) \/ KMoves(e) PROVE Settles
  BY <1>2 DEF LeaseRunsOut, KMoves
<1>3. ASSUME NEW d \in Drivers, Drive(d) PROVE Settles
  <2>1. CASE Record(d)
    <3>1. drv[d].key \in Keys
      BY <2>1, DriverNext DEF Record, At, Busy
    <3> QED  BY <2>1, <3>1, OneReceipt DEF Record
  <2>2. CASE SettleOwn(d)
    <3>1. drv[d].key \in Keys
      BY <2>2, DriverNext DEF SettleOwn, At, Busy
    <3> QED  BY <2>2, <3>1, OneReceipt DEF SettleOwn
  <2>3. CASE Complete(d)
    <3>1. drv[d].key \in Keys
      BY <2>3, DriverNext DEF Complete, Ready, At, Busy
    <3> QED  BY <2>3, <3>1, OneAcceptance DEF Complete
  <2>4. CASE \E e \in Execs : ClaimAndStart(d, e)
    BY <2>4 DEF ClaimAndStart
  <2>5. CASE ~(Record(d) \/ SettleOwn(d) \/ Complete(d) \/ \E e \in Execs : ClaimAndStart(d, e))
    <3>1. Same
      BY <1>3, <2>5 DEF Drive, Acquire, NothingToClaim, NoOutcome, Retain, RecordFails, Release, Park, LeaveIt
    <3> QED  BY <3>1
  <2> QED  BY <2>1, <2>2, <2>3, <2>4, <2>5
<1>4. ASSUME NEW r \in Runtimes, Maintain(r) \/ GiveUp(r) \/ Crash(r) PROVE Settles
  <2>1. CASE \E k \in Keys : PersistPending(r, k)
    BY <2>1, OneReceipt DEF PersistPending
  <2>2. CASE ResolveTime(r)
    <3>1. PICK k \in Keys : k = mnt[r].key
      BY <2>2, PassKey DEF ResolveTime, Reading
    <3>2. accepted' = accepted
      BY <2>2 DEF ResolveTime
    <3>3. \/ j' = j
          \/ Running(k) /\ j' = [j EXCEPT ![k] = [st |-> "pending", rev |-> j[k].rev + 1, res |-> r]]
      BY <2>2, <3>1 DEF ResolveTime
    <3> QED  BY <3>2, <3>3, OneReceipt
  <2>3. CASE SettleReceipt(r)
    <3>1. PICK k \in Keys : k = mnt[r].key
      BY <2>3, PassKey DEF SettleReceipt
    <3> QED  BY <2>3, <3>1, OneReceipt DEF SettleReceipt
  <2>4. CASE Publish(r)
    <3>1. PICK k \in Keys : k = mnt[r].key
      BY <2>4, PassKey DEF Publish, Reading
    <3> QED  BY <2>4, <3>1, OneAcceptance DEF Publish
  <2>5. CASE Scan(r) \/ RequireRecovery(r) \/ GiveUp(r) \/ Crash(r)
    BY <2>5 DEF Scan, RequireRecovery, GiveUp, Crash
  <2> QED  BY <1>4, <2>1, <2>2, <2>3, <2>4, <2>5 DEF Maintain
<1> QED  BY <1>1, <1>2, <1>3, <1>4 DEF Next

\* The Kernel keeps the first result that was accepted of a generation, and a
\* receipt recorded or superseded is not written again, by no late driver and
\* no second maintenance.
THEOREM OneResultForGood == ASSUME SettlementAssumption PROVE Spec => OneResultEach
<1>1. SettlementInv /\ [Next]_vars => [OneResultEachStep]_vars
  BY OneResultNext
<1> QED  BY <1>1, AlwaysInv, PTL DEF Spec, OneResultEach
=============================================================================
