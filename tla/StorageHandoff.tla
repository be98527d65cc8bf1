---------------------------- MODULE StorageHandoff ----------------------------
(***************************************************************************)
(* Handing a group of stores over to a restored successor.  Processes open *)
(* the stores under shared locks (storage_connection.py, maintenance.py);  *)
(* storage_snapshots.py copies the group under maintenance leases, and     *)
(* storage_activation.py retires the originals, copies the snapshot to a   *)
(* new directory and only then opens that to writers.  A process may die   *)
(* between any two of these steps; a lock dies with its holder, a file     *)
(* does not.                                                               *)
(*                                                                         *)
(* The data of a store is a version, which a write moves on; a digest of a *)
(* store is its version.  The signatures, paths and deployments the code   *)
(* verifies are valid here, and no new name is taken twice: a snapshot     *)
(* that was published is never taken again under its name.                 *)
(***************************************************************************)
EXTENDS Integers, Sequences, FiniteSets, SequencesExt

CONSTANTS
    Order,      \* the stores of the group by their paths, as their leases are taken
    Named,      \* the same by their names, as they are copied and retired
    Snaps,      \* snapshots that may be taken
    Ops,        \* operation ids of activations
    Dests,      \* directories of successors
    Dest,       \* the directory an operation is given
    Users,      \* processes that open stores
    Openable,   \* what they open: <<"origin", s>> or <<d, s>>
    Prepared,   \* environment: directories nobody opens before they are gated
    Losses,     \* what may be lost: "successor", "reservation"
    MaxVersion, MaxFaults

Stores == ToSet(Order)
Size == Len(Order)

HandoffAssumption ==
    /\ IsInjective(Order) /\ Size > 0
    /\ IsInjective(Named) /\ ToSet(Named) = Stores
    /\ Dest \in [Ops -> Dests] /\ Prepared \subseteq Dests
    /\ Openable \subseteq ({"origin"} \cup Dests) \X Stores
    /\ Losses \subseteq {"successor", "reservation"}
    /\ MaxVersion \in Nat \ {0} /\ MaxFaults \in Nat

VARIABLES
    data,       \* the originals
    lock,       \* who holds the exclusive lock of an original
    retired,    \* the retirement marker beside an original: operation and snapshot
    reserved,   \* the reservation beside a successor's directory
    dir,        \* the directory of a successor
    snap,       \* snapshots being taken or published
    act,        \* activations under way
    conn,       \* connections of the users
    seen,       \* history: the originals as they were together at some time
    faults      \* history: interruptions so far

vars == <<data, lock, retired, reserved, dir, snap, act, conn, seen, faults>>

Absent == 0
Blank == -1     \* a file made by a connection to a missing store
Versions == {Absent, Blank} \cup 1 .. MaxVersion
NoClaim == [op |-> "none", snap |-> "none"]
NoDir == [made |-> FALSE, marker |-> FALSE, pending |-> NoClaim, receipt |-> NoClaim,
          comp |-> [s \in Stores |-> Absent]]
NoSnap == [pc |-> "leasing", step |-> 0, image |-> [s \in Stores |-> Absent], restored |-> FALSE]
NoAct == [pc |-> "idle", step |-> 0, snap |-> "none"]

TypeOK ==
    LET claims == [op : Ops, snap : Snaps] \cup {NoClaim} IN
    /\ data \in [Stores -> 1 .. MaxVersion]
    /\ lock \in [Stores -> Snaps \cup Ops \cup {"none"}]
    /\ retired \in [Stores -> claims]
    /\ reserved \in [Dests -> [claim : claims, done : BOOLEAN]]
    /\ dir \in [Dests -> [made : BOOLEAN, marker : BOOLEAN, pending : claims, receipt : claims,
                          comp : [Stores -> Versions]]]
    /\ snap \in [Snaps -> [pc : {"leasing", "copying", "verifying", "published", "removed", "abandoned"},
                           step : 0 .. Size, image : [Stores -> Versions], restored : BOOLEAN]]
    /\ act \in [Ops -> [pc : {"idle", "lease", "check", "retire", "open", "marker", "pending",
                              "copy", "receipt", "commit", "ungate", "enable"},
                        step : 0 .. Size, snap : Snaps \cup {"none"}]]
    /\ conn \in [Users -> [pc : {"closed", "checked", "open", "reading"},
                           at : Openable \cup {<<>>}]]
    /\ seen \subseteq [Stores -> 1 .. MaxVersion]
    /\ faults \in 0 .. MaxFaults

Init ==
    /\ data = [s \in Stores |-> 1]
    /\ lock = [s \in Stores |-> "none"]
    /\ retired = [s \in Stores |-> NoClaim]
    /\ reserved = [d \in Dests |-> [claim |-> NoClaim, done |-> FALSE]]
    /\ dir = [d \in Dests |-> NoDir]
    /\ snap = [n \in Snaps |-> NoSnap]
    /\ act = [a \in Ops |-> NoAct]
    /\ conn = [u \in Users |-> [pc |-> "closed", at |-> <<>>]]
    /\ seen = {data}
    /\ faults = 0

-----------------------------------------------------------------------------
(* Connections (storage_connection.connect, maintenance.storage_participant) *)

Live(u) == conn[u].pc \in {"open", "reading"}

IsRetired(p) == p[1] = "origin" /\ retired[p[2]] # NoClaim

\* The lock of a successor's store is never held exclusively here.
Shareable(p) == p[1] = "origin" => lock[p[2]] = "none"

\* The read-only marker beside the store, and its retirement, are looked at ...
CheckGate(u, p) ==
    /\ conn[u].pc = "closed"
    /\ p[1] \in Prepared => dir[p[1]].made /\ (dir[p[1]].marker \/ dir[p[1]].receipt # NoClaim)
    /\ p[1] \in Dests => ~dir[p[1]].marker
    /\ ~IsRetired(p)
    /\ conn' = [conn EXCEPT ![u] = [pc |-> "checked", at |-> p]]
    /\ UNCHANGED <<data, lock, retired, reserved, dir, snap, act, seen, faults>>

\* ... and, once the shared lock is held, the retirement again.
Joinable(p) == Shareable(p) /\ ~IsRetired(p)

\* sqlite3.connect makes a file that is missing; what is in it stays foreign to
\* the group.
Connect(u) ==
    LET p == conn[u].at IN
    /\ conn[u].pc = "checked" /\ Joinable(p)
    /\ p[1] \in Dests => dir[p[1]].made
    /\ conn' = [conn EXCEPT ![u].pc = "open"]
    /\ dir' = IF p[1] \in Dests /\ dir[p[1]].comp[p[2]] = Absent
              THEN [dir EXCEPT ![p[1]].comp[p[2]] = Blank] ELSE dir
    /\ UNCHANGED <<data, lock, retired, reserved, snap, act, seen, faults>>

ConnectRefused(u) ==
    /\ conn[u].pc = "checked"
    /\ ~Joinable(conn[u].at) \/ (conn[u].at[1] \in Dests /\ ~dir[conn[u].at[1]].made)
    /\ conn' = [conn EXCEPT ![u] = [pc |-> "closed", at |-> <<>>]]
    /\ UNCHANGED <<data, lock, retired, reserved, dir, snap, act, seen, faults>>

\* _connect_readonly: no look at the read-only marker, and no file made
ConnectReader(u, p) ==
    /\ conn[u].pc = "closed" /\ Shareable(p) /\ ~IsRetired(p)
    /\ p[1] \in Dests => dir[p[1]].comp[p[2]] # Absent
    /\ conn' = [conn EXCEPT ![u] = [pc |-> "reading", at |-> p]]
    /\ UNCHANGED <<data, lock, retired, reserved, dir, snap, act, seen, faults>>

Write(u) ==
    LET p == conn[u].at IN
    /\ conn[u].pc = "open"
    /\ IF p[1] = "origin"
       THEN /\ data[p[2]] < MaxVersion
            /\ data' = [data EXCEPT ![p[2]] = @ + 1]
            /\ seen' = seen \cup {data'}
            /\ UNCHANGED dir
       ELSE /\ dir[p[1]].comp[p[2]] \in 1 .. MaxVersion - 1
            /\ dir' = [dir EXCEPT ![p[1]].comp[p[2]] = @ + 1]
            /\ UNCHANGED <<data, seen>>
    /\ UNCHANGED <<lock, retired, reserved, snap, act, conn, faults>>

\* _ParticipatingConnection.close, or the end of the process
Close(u) ==
    /\ Live(u)
    /\ conn' = [conn EXCEPT ![u] = [pc |-> "closed", at |-> <<>>]]
    /\ UNCHANGED <<data, lock, retired, reserved, dir, snap, act, seen, faults>>

-----------------------------------------------------------------------------
(* Snapshots (snapshot_store_group, restore_snapshot)                      *)

\* maintenance_lease: nobody is connected, nobody maintains, and the store is
\* not retired but by the same operation (activations only).
Leasable_Mutant(s, op) ==
    /\ lock[s] = "none"
    /\ retired[s].op \in {"none", op}

Leasable(s, op) ==
    /\ lock[s] = "none"
    /\ \A u \in Users : Live(u) => conn[u].at # <<"origin", s>>
    /\ retired[s].op \in {"none", op}

Released(holder) == [s \in Stores |-> IF lock[s] = holder THEN "none" ELSE lock[s]]

SnapshotLease(n) ==
    LET s == Order[snap[n].step + 1] IN
    /\ snap[n].pc = "leasing" /\ Leasable(s, "none")
    /\ lock' = [lock EXCEPT ![s] = n]
    /\ snap' = [snap EXCEPT ![n] = IF @.step + 1 < Size THEN [@ EXCEPT !.step = @ + 1]
                                   ELSE [@ EXCEPT !.pc = "copying", !.step = 0]]
    /\ UNCHANGED <<data, retired, reserved, dir, act, conn, seen, faults>>

\* Each copy is made after the leases have been checked.
SnapshotCopy(n) ==
    LET s == Named[snap[n].step + 1] IN
    /\ snap[n].pc = "copying" /\ snap[n].step < Size
    /\ snap' = [snap EXCEPT ![n].image[s] = data[s], ![n].step = @ + 1]
    /\ UNCHANGED <<data, lock, retired, reserved, dir, act, conn, seen, faults>>

\* The marker, the check of all the leases, and the manifest, published by a
\* link: from now on others may verify the snapshot ...
SnapshotPublish(n) ==
    /\ snap[n].pc = "copying" /\ snap[n].step = Size
    /\ snap' = [snap EXCEPT ![n].pc = "verifying"]
    /\ UNCHANGED <<data, lock, retired, reserved, dir, act, conn, seen, faults>>

\* ... which is done here once more, under the leases.
SnapshotEnds(n) ==
    /\ snap[n].pc = "verifying"
    /\ snap' = [snap EXCEPT ![n].pc = "published"]
    /\ lock' = Released(n)
    /\ UNCHANGED <<data, retired, reserved, dir, act, conn, seen, faults>>

\* A lock that is busy, a lease that has lapsed or a copy that fails: the
\* directory made for the snapshot is removed.
SnapshotFails(n) ==
    /\ snap[n].pc \in {"leasing", "copying"} /\ snap[n] # NoSnap
    /\ snap' = [snap EXCEPT ![n] = NoSnap]
    /\ lock' = Released(n)
    /\ UNCHANGED <<data, retired, reserved, dir, act, conn, seen, faults>>

\* The last check fails and removes what others may have seen.
SnapshotRemoved(n) ==
    /\ snap[n].pc = "verifying" /\ faults < MaxFaults
    /\ snap' = [snap EXCEPT ![n].pc = "removed"]
    /\ lock' = Released(n)
    /\ faults' = faults + 1
    /\ UNCHANGED <<data, retired, reserved, dir, act, conn, seen>>

\* A crash leaves the directory: it is a snapshot if it has its manifest, and
\* never used again if not.
SnapshotCrash(n) ==
    /\ snap[n].pc \in {"copying", "verifying"} /\ faults < MaxFaults
    /\ snap' = [snap EXCEPT ![n] = IF @.pc = "verifying" THEN [@ EXCEPT !.pc = "published"]
                                   ELSE [NoSnap EXCEPT !.pc = "abandoned"]]
    /\ lock' = Released(n)
    /\ faults' = faults + 1
    /\ UNCHANGED <<data, retired, reserved, dir, act, conn, seen>>

\* verify_snapshot: a directory with its manifest, which came last, is complete,
\* be it the snapshot or a restored copy of it.
Verified(n) == snap[n].pc \in {"verifying", "published"} \/ snap[n].restored

\* The members, which do not change any more, are copied to a new directory and
\* compared, the manifest comes last; a restore that fails leaves no manifest.
Restore(n) ==
    /\ Verified(n) /\ ~snap[n].restored
    /\ snap' = [snap EXCEPT ![n].restored = TRUE]
    /\ UNCHANGED <<data, lock, retired, reserved, dir, act, conn, seen, faults>>

-----------------------------------------------------------------------------
(* Activations (activate_restored_snapshot)                                *)

Claim(a) == [op |-> a, snap |-> act[a].snap]

Goto(a, pc) == [act EXCEPT ![a].pc = pc, ![a].step = 0]

\* On to the next store, or from the last one to phase pc.
Next1(a, pc) == IF act[a].step + 1 < Size THEN [act EXCEPT ![a].step = @ + 1] ELSE Goto(a, pc)

Store(a) == IF act[a].pc = "lease" THEN Order[act[a].step + 1] ELSE Named[act[a].step + 1]

\* _reservation: free, or this activation's; a committed one has its receipt
ReservationFits(d, claim) ==
    /\ reserved[d].claim \in {NoClaim, claim}
    /\ reserved[d].done => dir[d].receipt = claim

\* _initializing_directory: made by the holder of the reservation, and still empty
Initializing(d, claim) ==
    /\ dir[d].pending = NoClaim
    /\ reserved[d] = [claim |-> claim, done |-> FALSE]
    /\ \A s \in Stores : dir[d].comp[s] = Absent

\* _preflight_destination and _open_or_create_destination ask this of a directory
DirectoryFits(d, claim) ==
    \/ ~dir[d].made
    \/ dir[d].receipt # NoClaim /\ dir[d].receipt = claim
    \/ dir[d].receipt = NoClaim /\ (Initializing(d, claim) \/ dir[d].pending = claim)

\* _preflight_destination, before any lease is asked for
Begin(a, n) ==
    LET d == Dest[a]
        claim == [op |-> a, snap |-> n] IN
    /\ act[a].pc = "idle" /\ Verified(n)
    /\ ReservationFits(d, claim) /\ DirectoryFits(d, claim)
    /\ act' = [act EXCEPT ![a] = [pc |-> "lease", step |-> 0, snap |-> n]]
    /\ UNCHANGED <<data, lock, retired, reserved, dir, snap, conn, seen, faults>>

LeaseSource(a) ==
    /\ act[a].pc = "lease" /\ Leasable(Store(a), a)
    /\ lock' = [lock EXCEPT ![Store(a)] = a]
    /\ act' = Next1(a, "check")
    /\ UNCHANGED <<data, retired, reserved, dir, snap, conn, seen, faults>>

\* _source_matches_snapshot, for every original
SourcesMatch(a) == \A s \in Stores : data[s] = snap[act[a].snap].image[s]

\* A reservation precedes every retirement: one that is gone has been lost.
ReservationLost(a) ==
    reserved[Dest[a]].claim = NoClaim /\ \E s \in Stores : retired[s] # NoClaim

Reserve(a) ==
    LET d == Dest[a] IN
    /\ act[a].pc = "check" /\ SourcesMatch(a) /\ ~ReservationLost(a)
    /\ ReservationFits(d, Claim(a))
    /\ reserved' = IF reserved[d].claim = NoClaim
                   THEN [reserved EXCEPT ![d].claim = Claim(a)] ELSE reserved
    /\ act' = Goto(a, "retire")
    /\ UNCHANGED <<data, lock, retired, dir, snap, conn, seen, faults>>

\* _publish_retirement; Leasable has refused a source retired by another operation
Retirable(a) == retired[Store(a)] \in {NoClaim, Claim(a)}

Retire(a) ==
    /\ act[a].pc = "retire" /\ Retirable(a)
    /\ retired' = [retired EXCEPT ![Store(a)] = Claim(a)]
    /\ act' = Next1(a, "open")
    /\ UNCHANGED <<data, lock, reserved, dir, snap, conn, seen, faults>>

\* _open_or_create_destination: the directory is made, or found as an earlier
\* attempt has left it: being initialised, being copied to, or with its receipt.
MakeDirectory(a) ==
    /\ act[a].pc = "open" /\ ~dir[Dest[a]].made
    /\ dir' = [dir EXCEPT ![Dest[a]].made = TRUE]
    /\ act' = Goto(a, "marker")
    /\ UNCHANGED <<data, lock, retired, reserved, snap, conn, seen, faults>>

ResumeDirectory(a) ==
    LET d == Dest[a] IN
    /\ act[a].pc = "open" /\ dir[d].made /\ dir[d].receipt = NoClaim
    /\ \/ Initializing(d, Claim(a)) /\ act' = Goto(a, "marker")
       \/ dir[d].pending = Claim(a) /\ act' = Goto(a, "copy")
    /\ UNCHANGED <<data, lock, retired, reserved, dir, snap, conn, seen, faults>>

\* With its receipt, it is complete; its gate may still have to be removed,
\* which is for bytes that are still the snapshot's.
Complete(a) ==
    LET d == Dest[a] IN
    /\ dir[d].made /\ dir[d].receipt = Claim(a)
    /\ \A s \in Stores : dir[d].comp[s] # Absent
    /\ IF dir[d].marker THEN dir[d].comp = snap[act[a].snap].image ELSE reserved[d].done

ResumeReceipt(a) ==
    /\ act[a].pc = "open" /\ Complete(a)
    /\ IF dir[Dest[a]].marker
       THEN act' = Goto(a, "commit") /\ UNCHANGED lock
       ELSE act' = [act EXCEPT ![a] = NoAct] /\ lock' = Released(a)
    /\ UNCHANGED <<data, retired, reserved, dir, snap, conn, seen, faults>>

\* _initialize_directory
WriteMarker(a) ==
    /\ act[a].pc = "marker"
    /\ dir' = [dir EXCEPT ![Dest[a]].marker = TRUE]
    /\ act' = Goto(a, "pending")
    /\ UNCHANGED <<data, lock, retired, reserved, snap, conn, seen, faults>>

WritePending(a) ==
    /\ act[a].pc = "pending"
    /\ dir' = [dir EXCEPT ![Dest[a]].pending = Claim(a)]
    /\ act' = Goto(a, "copy")
    /\ UNCHANGED <<data, lock, retired, reserved, snap, conn, seen, faults>>

\* _copy_component: published by a link, or found as an earlier attempt left it
Copyable(a) ==
    LET image == snap[act[a].snap].image[Store(a)] IN
    \/ dir[Dest[a]].comp[Store(a)] = image
    \/ dir[Dest[a]].comp[Store(a)] = Absent /\ Verified(act[a].snap)

CopyComponent(a) ==
    /\ act[a].pc = "copy" /\ Copyable(a)
    /\ dir' = [dir EXCEPT ![Dest[a]].comp[Store(a)] = snap[act[a].snap].image[Store(a)]]
    /\ act' = Next1(a, "receipt")
    /\ UNCHANGED <<data, lock, retired, reserved, snap, conn, seen, faults>>

WriteReceipt(a) ==
    /\ act[a].pc = "receipt"
    /\ dir' = [dir EXCEPT ![Dest[a]].receipt = Claim(a)]
    /\ act' = Goto(a, "commit")
    /\ UNCHANGED <<data, lock, retired, reserved, snap, conn, seen, faults>>

\* The reservation is replaced by the receipt: this is the commit.
Commit(a) ==
    /\ act[a].pc = "commit"
    /\ reserved' = [reserved EXCEPT ![Dest[a]] = [claim |-> Claim(a), done |-> TRUE]]
    /\ act' = Goto(a, "ungate")
    /\ UNCHANGED <<data, lock, retired, dir, snap, conn, seen, faults>>

RemovePending(a) ==
    /\ act[a].pc = "ungate"
    /\ dir' = [dir EXCEPT ![Dest[a]].pending = NoClaim]
    /\ act' = Goto(a, "enable")
    /\ UNCHANGED <<data, lock, retired, reserved, snap, conn, seen, faults>>

RemoveMarker(a) ==
    /\ act[a].pc = "enable"
    /\ dir' = [dir EXCEPT ![Dest[a]].marker = FALSE]
    /\ act' = [act EXCEPT ![a] = NoAct]
    /\ lock' = Released(a)
    /\ UNCHANGED <<data, retired, reserved, snap, conn, seen, faults>>

\* What an activation finds on its way may not be its own, or not as it was.
Refused(a) ==
    LET d == Dest[a] IN
    \/ act[a].pc = "lease" /\ ~Leasable(Store(a), a)
    \/ act[a].pc = "check" /\ (~SourcesMatch(a) \/ ReservationLost(a) \/ ~ReservationFits(d, Claim(a)))
    \/ act[a].pc = "retire" /\ ~Retirable(a)
    \/ act[a].pc = "copy" /\ ~Copyable(a)
    \/ /\ act[a].pc = "open" /\ dir[d].made
       /\ IF dir[d].receipt # NoClaim THEN ~Complete(a)
          ELSE ~Initializing(d, Claim(a)) /\ dir[d].pending # Claim(a)

Stop(a) ==
    /\ act' = [act EXCEPT ![a] = NoAct]
    /\ lock' = Released(a)

Refuse(a) ==
    /\ Refused(a) /\ Stop(a)
    /\ UNCHANGED <<data, retired, reserved, dir, snap, conn, seen, faults>>

\* The process dies, a lease lapses before it is renewed, or a copy fails.
Interrupt(a) ==
    /\ act[a].pc # "idle" /\ faults < MaxFaults /\ Stop(a)
    /\ faults' = faults + 1
    /\ UNCHANGED <<data, retired, reserved, dir, snap, conn, seen>>

-----------------------------------------------------------------------------
(* What the file system may lose while nobody uses it                      *)

Quiet(d) ==
    /\ \A a \in Ops : Dest[a] = d => act[a].pc = "idle"
    /\ \A u \in Users : conn[u].at # <<>> => conn[u].at[1] # d

LoseSuccessor(d) ==
    /\ "successor" \in Losses /\ Quiet(d) /\ dir[d].made /\ faults < MaxFaults
    /\ dir' = [dir EXCEPT ![d] = NoDir]
    /\ faults' = faults + 1
    /\ UNCHANGED <<data, lock, retired, reserved, snap, act, conn, seen>>

LoseReservation(d) ==
    /\ "reservation" \in Losses /\ Quiet(d) /\ reserved[d].claim # NoClaim /\ faults < MaxFaults
    /\ reserved' = [reserved EXCEPT ![d] = [claim |-> NoClaim, done |-> FALSE]]
    /\ faults' = faults + 1
    /\ UNCHANGED <<data, lock, retired, dir, snap, act, conn, seen>>

-----------------------------------------------------------------------------

Step(a) ==
    \/ LeaseSource(a) \/ Reserve(a) \/ Retire(a)
    \/ MakeDirectory(a) \/ ResumeDirectory(a) \/ ResumeReceipt(a)
    \/ WriteMarker(a) \/ WritePending(a) \/ CopyComponent(a) \/ WriteReceipt(a)
    \/ Commit(a) \/ RemovePending(a) \/ RemoveMarker(a) \/ Refuse(a)

Next ==
    \/ \E u \in Users : Connect(u) \/ ConnectRefused(u) \/ Write(u) \/ Close(u)
    \/ \E u \in Users, p \in Openable : CheckGate(u, p) \/ ConnectReader(u, p)
    \/ \E n \in Snaps : \/ SnapshotLease(n) \/ SnapshotCopy(n) \/ SnapshotPublish(n)
                        \/ SnapshotEnds(n) \/ SnapshotFails(n) \/ SnapshotRemoved(n)
                        \/ SnapshotCrash(n) \/ Restore(n)
    \/ \E a \in Ops, n \in Snaps : Begin(a, n)
    \/ \E a \in Ops : Step(a) \/ Interrupt(a)
    \/ \E d \in Dests : LoseSuccessor(d) \/ LoseReservation(d)

Spec == Init /\ [][Next]_vars

\* The operator retries an activation that has been interrupted, and a call
\* that has begun goes on.  Nobody needs to take a snapshot or to connect.
Fairness == \A a \in Ops : WF_vars(Step(a)) /\ \A n \in Snaps : WF_vars(Begin(a, n))

LiveSpec == Spec /\ Fairness

-----------------------------------------------------------------------------
(* Properties                                                              *)

\* A published snapshot is a cut: the originals have been, all at one time, as
\* it has them, although they are copied one after the other.
ConsistentCut == \A n \in Snaps : Verified(n) => snap[n].image \in seen

\* Of an original and its successors, one at most is open to writers, whatever
\* operations compete and wherever they are interrupted: a process that looked
\* at an original before it was retired is turned away once it has its lock.
OneOwner ==
    \A s \in Stores : Cardinality({conn[u].at[1] : u \in
        {v \in Users : conn[v].pc = "open" /\ conn[v].at[2] = s}}) <= 1

\* An original that has been retired never changes again.
RetiredIsFrozenStep ==
    \A s \in Stores : retired[s] # NoClaim => data'[s] = data[s]

RetiredIsFrozen == [][RetiredIsFrozenStep]_vars

\* A successor that has its receipt has all that was ever written to the
\* originals: they have been retired for it, in the state it was copied from,
\* which it keeps until its gate is opened unless somebody had passed the gate
\* before it was there.
NothingLeftBehind ==
    \A d \in Dests : dir[d].receipt # NoClaim => \A s \in Stores :
        /\ retired[s] = dir[d].receipt
        /\ dir[d].comp[s] >= data[s]
        /\ d \in Prepared /\ dir[d].marker => dir[d].comp[s] = data[s]

\* Until the activation is committed nobody has a successor open for writing.
GateHolds ==
    \A u \in Users : conn[u].pc = "open" /\ conn[u].at[1] \in Prepared => reserved[conn[u].at[1]].done

\* One successor is ever made of a group of stores: no second directory comes
\* to be committed, also after the first one or its reservation was lost.
OneSuccessor ==
    \A d, e \in Dests : dir[d].receipt # NoClaim /\ (reserved[e].done \/ dir[e].receipt # NoClaim) => d = e

\* One owner, one successor, nothing left behind, and snapshots that are cuts.
HandoffSafe ==
    /\ TypeOK
    /\ ConsistentCut
    /\ OneOwner
    /\ NothingLeftBehind
    /\ OneSuccessor

\* A committed successor that was lost is never made again from the snapshot,
\* and one that is there is never set back: it may have done work since.
NeverReplayedStep ==
    \A d \in Dests : reserved[d].done =>
    /\ dir'[d].made => dir[d].made
    /\ dir'[d].made => \A s \in Stores : dir'[d].comp[s] >= dir[d].comp[s]

NeverReplayed == [][NeverReplayedStep]_vars

\* What no step may do to an original that is retired or to a successor.
HandoffSteps ==
    /\ RetiredIsFrozenStep
    /\ NeverReplayedStep

Used(s) == \E u \in Users : Live(u) /\ conn[u].at = <<"origin", s>>
Free(s) == retired[s] = NoClaim => ~Used(s)
Unchanged(s, n) == retired[s] = NoClaim => data[s] = snap[n].image[s]
Handed(d) == reserved[d].done /\ ~dir[d].marker

\* An activation that has retired some of the originals comes to its end when it
\* is retried, wherever it was interrupted and whatever of the successor was lost
\* before the commit, provided that the originals it has yet to retire are in the
\* end left alone, as the snapshot has them, and that the snapshot is not withdrawn.
HandoffEnds == \A a \in Ops, n \in Snaps :
    <>[](Verified(n) /\ \A s \in Stores : Free(s) /\ Unchanged(s, n)) =>
        ((\E s \in Stores : retired[s] = [op |-> a, snap |-> n]) ~> Handed(Dest[a]))

\* "Retrying the exact operation_id resumes a fail-closed partial activation"
\* (activate_restored_snapshot): it does so once the originals are not in use.
RetryResumes == \A a \in Ops, n \in Snaps :
    <>[](Verified(n) /\ \A s \in Stores : Free(s)) =>
        ((\E s \in Stores : retired[s] = [op |-> a, snap |-> n]) ~> Handed(Dest[a]))
================================================================================
