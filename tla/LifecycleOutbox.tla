--------------------------- MODULE LifecycleOutbox ---------------------------
(***************************************************************************)
(* How the evidence of an execution's life - claimed, entered, cleaned up, *)
(* cancelled - gets from the memory of a runtime to the settlement journal *)
(* (_sqlite_execution.py, the lifecycle outbox; runtime.py,                *)
(* _diagnostic_note and _retry_diagnostic_notes; settlement.py,            *)
(* lifecycle_note).  A claim or a cancellation opens a producer with       *)
(* reserved slots in the Kernel; its notes wait in memory, are appended to *)
(* the Kernel's outbox and are delivered by any runtime: peek, note it in  *)
(* the journal, acknowledge.  Until a producer is closed and its events    *)
(* are delivered its execution is not claimed again.  The host closes the  *)
(* producers of dead processes, and retires and prunes old generations.    *)
(*                                                                         *)
(* A generation is an execution and a fence; attempt and fence move        *)
(* together here.  Bounds: MaxFence claims of an execution, MaxNotes notes,*)
(* MaxFaults faults.                                                       *)
(***************************************************************************)
EXTENDS Integers, Sequences, FiniteSets, SequencesExt

CONSTANTS
    Execs, Runtimes,
    MaxFence, MaxNotes,
    Capacity,     \* slots of the outbox (8192)
    ClaimSlots,   \* reserved with a claim (128)
    CancelSlots,  \* reserved before a cancellation (16)
    PendingMax,   \* _diagnostic_pending_capacity
    Limit,        \* rows a retirement or a pruning removes at once
    Refused,      \* executions whose events the journal refuses
    Cancels,      \* executions somebody cancels
    Old,          \* executions whose generations the host retires
    MaxFaults     \* crashes, lost answers and lost notes

LifecycleAssumption ==
    /\ {MaxFence, MaxNotes, Capacity, ClaimSlots, CancelSlots, PendingMax, Limit} \subseteq Nat \ {0}
    /\ Refused \cup Cancels \cup Old \subseteq Execs /\ MaxFaults \in Nat

\* A producer's token: of a claim, of a cancellation, or of one note alone.
Tokens == {"claim", "cancel"} \X Execs \X (0 .. MaxFence) \X {0} \cup {"note"} \X Execs \X (0 .. MaxFence) \X (1 .. MaxNotes)
Exec(t) == t[2]
Fence(t) == t[3]
Slots(t) == CASE t[1] = "claim" -> ClaimSlots [] t[1] = "cancel" -> CancelSlots [] OTHER -> 1

Marker == 0  \* producer_recovered_evidence_may_be_missing
Nothing == [seq |-> 0, noted |-> FALSE]
Fresh == [pend |-> {}, enq |-> {}, fin |-> {}, active |-> {}, failed |-> {}, overflow |-> FALSE, cursor |-> 0]

VARIABLES
    row,            \* kernel_executions
    open, closed,   \* kernel_lifecycle_producers
    outbox,         \* kernel_lifecycle_outbox, by sequence
    retired,        \* kernel_lifecycle_retired: fence, -1 for none
    receipts,       \* settlement_lifecycle_receipts, by sequence
    log,            \* sequences in the order the journal took them
    note,           \* every note: its runtime and its token
    mem,            \* memory of each runtime
    work,           \* drivers and cancellations under way: <<runtime, token>>
    dl,             \* delivery a runtime has under way
    owner,          \* producers a living process has reserved: <<runtime, token>>
    lost,           \* producers some evidence of which was not retained
    faults

jvars == <<receipts, log>>
vars == <<row, open, closed, outbox, retired, receipts, log, note, mem, work, dl, owner, lost, faults>>

Fault == faults < MaxFaults /\ faults' = faults + 1

TypeOK ==
    /\ row \in [Execs -> [st : {"queued", "running", "done"}, fence : 0 .. MaxFence]]
    /\ open \subseteq Tokens /\ closed \subseteq Tokens /\ open \cap closed = {}
    /\ outbox \in Seq([tok : Tokens, id : 0 .. MaxNotes, st : {"pending", "delivered", "pruned", "deleted"}])
    /\ retired \in [Execs -> -1 .. MaxFence]
    /\ receipts \subseteq ToSet(log) /\ ToSet(log) \subseteq DOMAIN outbox
    /\ note \in Seq([r : Runtimes, tok : Tokens]) /\ Len(note) <= MaxNotes
    /\ mem \in [Runtimes -> [pend : SUBSET (1 .. MaxNotes), enq : SUBSET (1 .. MaxNotes), fin : SUBSET Tokens,
                             active : SUBSET Tokens, failed : SUBSET Execs, overflow : BOOLEAN, cursor : 0 .. Len(outbox)]]
    /\ work \subseteq Runtimes \X Tokens
    /\ dl \in [Runtimes -> [seq : 0 .. Len(outbox), noted : BOOLEAN]]
    /\ owner \subseteq Runtimes \X Tokens /\ lost \subseteq Tokens /\ faults \in 0 .. MaxFaults

Init ==
    /\ row = [e \in Execs |-> [st |-> "queued", fence |-> 0]]
    /\ open = {} /\ closed = {} /\ outbox = <<>> /\ retired = [e \in Execs |-> -1]
    /\ receipts = {} /\ log = <<>> /\ note = <<>>
    /\ mem = [r \in Runtimes |-> Fresh] /\ work = {}
    /\ dl = [r \in Runtimes |-> Nothing] /\ owner = {} /\ lost = {} /\ faults = 0

-----------------------------------------------------------------------------
(* The Kernel's side                                                       *)

Pending(t) == {s \in DOMAIN outbox : outbox[s].tok = t /\ outbox[s].st = "pending"}
PendingOf(e) == {s \in DOMAIN outbox : Exec(outbox[s].tok) = e /\ outbox[s].st = "pending"}
Appended(i) == \E s \in DOMAIN outbox : outbox[s].id = i
Holds(e) == (\E t \in open : Exec(t) = e) \/ PendingOf(e) # {}

Usage == MapThenSumSet(Slots, open) + MapThenSumSet(LAMBDA t : Cardinality(Pending(t)), closed)

\* _lifecycle_reserve_in_transaction
Room(t) ==
    /\ Fence(t) > retired[Exec(t)] /\ t \notin closed
    /\ t \in open \/ Usage + Slots(t) <= Capacity

Reserve(r, t) == Room(t) /\ open' = open \cup {t} /\ owner' = owner \cup {<<r, t>>}

\* Reaped, retried, completed or cancelled.
KMoves(e) ==
    /\ \/ row[e].st = "running" /\ row' = [row EXCEPT ![e].st = "queued"]
       \/ row[e].st # "done" /\ row' = [row EXCEPT ![e].st = "done"]
    /\ UNCHANGED <<open, closed, outbox, retired, receipts, log, note, mem, work, dl, owner, lost, faults>>

-----------------------------------------------------------------------------
(* Drivers and cancellations                                               *)

NotesOf(r, e) == {i \in mem[r].pend : Exec(note[i].tok) = e}

\* _diagnostic_claim_exclusions
Excluded(r, e) ==
    mem[r].overflow \/ Cardinality(mem[r].pend) >= PendingMax \/ e \in mem[r].failed \/ NotesOf(r, e) # {}

\* claim_and_start reserves with the claim; the answer may be lost.
Claim(r, e) ==
    LET t == <<"claim", e, row[e].fence + 1, 0>> IN
    /\ row[e].st = "queued" /\ row[e].fence < MaxFence /\ ~Holds(e) /\ ~Excluded(r, e)
    /\ Reserve(r, t)
    /\ row' = [row EXCEPT ![e] = [st |-> "running", fence |-> @.fence + 1]]
    /\ \/ work' = work \cup {<<r, t>>} /\ mem' = [mem EXCEPT ![r].active = @ \cup {t}] /\ UNCHANGED faults
       \/ Fault /\ UNCHANGED <<work, mem>>
    /\ UNCHANGED <<closed, outbox, retired, receipts, log, note, dl, lost>>

\* _cancel_active: the reservation is best effort.  No cancellation comes for
\* a generation the host has retired.
Cancel(r, e) ==
    LET t == <<"cancel", e, row[e].fence, 0>> IN
    /\ e \in Cancels /\ t \notin open \cup closed /\ retired[e] < row[e].fence
    /\ work' = work \cup {<<r, t>>} /\ work' # work
    /\ \/ Reserve(r, t) /\ mem' = [mem EXCEPT ![r].active = @ \cup {t}] /\ UNCHANGED faults
       \/ Reserve(r, t) /\ Fault /\ mem' = mem
       \/ UNCHANGED <<open, owner, mem, faults>>
    /\ UNCHANGED <<row, closed, outbox, retired, receipts, log, note, dl, lost>>

\* _diagnostic_note: with the producer of its driver or cancellation, or its own.
DiagnosticNote(r, t) ==
    LET i == Len(note) + 1
        own == IF t \in mem[r].active THEN t ELSE <<"note", Exec(t), Fence(t), i>>
    IN
    /\ <<r, t>> \in work /\ ~mem[r].overflow /\ Cardinality(mem[r].pend) < PendingMax /\ Len(note) < MaxNotes
    /\ note' = Append(note, [r |-> r, tok |-> own])
    /\ mem' = [mem EXCEPT ![r].pend = @ \cup {i}]
    /\ UNCHANGED <<row, open, closed, outbox, retired, receipts, log, work, dl, owner, lost, faults>>

\* ... that cannot be retained: the memory is full, or the evidence too large.
NoteLost(r, t) ==
    /\ Fault
    /\ <<r, t>> \in work /\ lost' = lost \cup {t}
    /\ \/ (mem[r].overflow \/ Cardinality(mem[r].pend) >= PendingMax) /\ mem' = [mem EXCEPT ![r].overflow = TRUE]
       \/ ~mem[r].overflow /\ mem' = [mem EXCEPT ![r].failed = @ \cup {Exec(t)}]
    /\ UNCHANGED <<row, open, closed, outbox, retired, receipts, log, note, work, dl, owner>>

\* The driver, or the cancellation, returns: its producer may be closed unless
\* a fact was not retained.
Leave(r, t) ==
    LET whole == IF t[1] = "claim" THEN ~mem[r].overflow /\ Exec(t) \notin mem[r].failed ELSE t \notin lost IN
    /\ <<r, t>> \in work /\ work' = work \ {<<r, t>>}
    /\ mem' = [mem EXCEPT ![r].fin = IF whole /\ t \in mem[r].active THEN @ \cup {t} ELSE @]
    /\ UNCHANGED <<row, open, closed, outbox, retired, receipts, log, note, dl, owner, lost, faults>>

\* A cancellation whose outcome is uncertain leaves its producer open.
Uncertain(r, t) ==
    /\ Fault
    /\ t[1] = "cancel" /\ <<r, t>> \in work /\ work' = work \ {<<r, t>>}
    /\ lost' = lost \cup {t}
    /\ UNCHANGED <<row, open, closed, outbox, retired, receipts, log, note, mem, dl, owner>>

-----------------------------------------------------------------------------
(* _retry_diagnostic_notes of a runtime, under its retry lock              *)

Free(r) == dl[r] = Nothing

\* Earlier notes of the same execution go first.
Due(r, i) == i \in mem[r].pend \ mem[r].enq /\ \A n \in NotesOf(r, Exec(note[i].tok)) \ mem[r].enq : i <= n

\* A note without a producer reserves one slot for itself.
ReserveOne(r, i) ==
    /\ Free(r) /\ Due(r, i) /\ note[i].tok \notin mem[r].active \cup open
    /\ Reserve(r, note[i].tok)
    /\ UNCHANGED <<row, closed, outbox, retired, receipts, log, note, mem, work, dl, lost, faults>>

Answered(r, i) ==
    mem' = [mem EXCEPT ![r].enq = @ \cup {i},
                       ![r].fin = IF note[i].tok \in mem[r].active THEN @ ELSE @ \cup {note[i].tok}]

\* lifecycle_append: the answer may be lost.
AppendNote(r, i) ==
    LET t == note[i].tok IN
    /\ Free(r) /\ Due(r, i) /\ ~Appended(i) /\ t \in open /\ Cardinality(Pending(t)) < Slots(t)
    /\ outbox' = Append(outbox, [tok |-> t, id |-> i, st |-> "pending"])
    /\ (Answered(r, i) /\ UNCHANGED faults) \/ (Fault /\ mem' = mem)
    /\ UNCHANGED <<row, open, closed, retired, receipts, log, note, work, dl, owner, lost>>

\* ... of an event the outbox has: its status, while its payload is kept.
AppendAgain(r, i) ==
    /\ Free(r) /\ Due(r, i)
    /\ \E s \in DOMAIN outbox : outbox[s].id = i /\ outbox[s].st \in {"pending", "delivered"}
    /\ Answered(r, i)
    /\ UNCHANGED <<row, open, closed, outbox, retired, receipts, log, note, work, dl, owner, lost, faults>>

Oldest == {s \in DOMAIN outbox : outbox[s].st = "pending" /\ \A n \in PendingOf(Exec(outbox[s].tok)) : s <= n}

First(S) == CHOOSE s \in S : \A n \in S : s <= n

Take(r, s) == dl' = [dl EXCEPT ![r] = [seq |-> s, noted |-> FALSE]]

\* lifecycle_peek after the cursor, which moves on whatever becomes of the
\* event; it starts again at the end.
Peek(r) ==
    LET after == {s \in Oldest : s > mem[r].cursor}
        s == First(IF after = {} THEN Oldest ELSE after)
    IN
    /\ Free(r) /\ Oldest # {} /\ Take(r, s)
    /\ mem' = [mem EXCEPT ![r].cursor = s]
    /\ UNCHANGED <<row, open, closed, outbox, retired, receipts, log, note, work, owner, lost, faults>>

\* ... of the execution a driver has just noted something about.
PeekFor(r, e) ==
    /\ Free(r) /\ NotesOf(r, e) # {} /\ PendingOf(e) # {} /\ Take(r, First(PendingOf(e)))
    /\ UNCHANGED <<row, open, closed, outbox, retired, receipts, log, note, mem, work, owner, lost, faults>>

\* SettlementJournal.lifecycle_note, while the Kernel's writer is held: the
\* event must be in the outbox with its payload, its generation not retired.
LifecycleNote(r) ==
    LET s == dl[r].seq IN
    /\ ~Free(r) /\ ~dl[r].noted /\ Exec(outbox[s].tok) \notin Refused /\ outbox[s].st \in {"pending", "delivered"}
    /\ Fence(outbox[s].tok) > retired[Exec(outbox[s].tok)]
    /\ IF s \in receipts THEN UNCHANGED jvars
       ELSE receipts' = receipts \cup {s} /\ log' = Append(log, s)
    /\ dl' = [dl EXCEPT ![r].noted = TRUE]
    /\ UNCHANGED <<row, open, closed, outbox, retired, note, mem, work, owner, lost, faults>>

Drop(r, i) == mem' = [mem EXCEPT ![r].pend = @ \ {i}, ![r].enq = @ \ {i}]

\* ... before the journal has it
Ack_Mutant(r) ==
    /\ ~Free(r) /\ dl[r].seq \in Oldest
    /\ outbox' = [outbox EXCEPT ![dl[r].seq].st = "delivered"]
    /\ Drop(r, outbox[dl[r].seq].id)
    /\ dl' = [dl EXCEPT ![r] = Nothing]
    /\ UNCHANGED <<row, open, closed, retired, receipts, log, note, work, owner, lost, faults>>

\* lifecycle_ack of the oldest undelivered event, or again.
Ack(r) ==
    LET s == dl[r].seq IN
    /\ ~Free(r) /\ dl[r].noted
    /\ \/ s \in Oldest /\ outbox' = [outbox EXCEPT ![s].st = "delivered"] /\ Drop(r, outbox[s].id)
       \/ outbox[s].st = "delivered" /\ Drop(r, outbox[s].id) /\ outbox' = outbox
       \/ s \notin Oldest /\ outbox[s].st # "delivered" /\ UNCHANGED <<mem, outbox>>
    /\ dl' = [dl EXCEPT ![r] = Nothing]
    /\ UNCHANGED <<row, open, closed, retired, receipts, log, note, work, owner, lost, faults>>

\* Refused, busy, out of time, or an answer that was lost.
Fails(r) ==
    /\ ~Free(r) /\ dl' = [dl EXCEPT ![r] = Nothing]
    /\ UNCHANGED <<row, open, closed, outbox, retired, receipts, log, note, mem, work, owner, lost, faults>>

\* Another runtime has delivered the event.
Reconcile(r, i) ==
    /\ Free(r) /\ i \in mem[r].enq
    /\ \E s \in DOMAIN outbox : outbox[s].id = i /\ outbox[s].st \in {"delivered", "pruned"}
    /\ Drop(r, i)
    /\ UNCHANGED <<row, open, closed, outbox, retired, receipts, log, note, work, dl, owner, lost, faults>>

\* lifecycle_finish, when no note of the producer is left in memory.
Finish(r, t) ==
    /\ Free(r) /\ t \in mem[r].fin /\ \A i \in mem[r].pend : note[i].tok # t
    /\ open' = open \ {t} /\ closed' = closed \cup {t} /\ owner' = owner \ {<<r, t>>}
    /\ mem' = [mem EXCEPT ![r].fin = @ \ {t}, ![r].active = @ \ {t}]
    /\ UNCHANGED <<row, outbox, retired, receipts, log, note, work, dl, lost, faults>>

\* The process dies, with what only its memory had.
Crash(r) ==
    /\ Fault
    /\ mem[r] # Fresh \/ ~Free(r) \/ \E w \in work \cup owner : w[1] = r
    /\ lost' = lost \cup {t \in open : <<r, t>> \in work}
                    \cup {note[i].tok : i \in {i \in mem[r].pend : ~Appended(i)}}
    /\ work' = {w \in work : w[1] # r} /\ owner' = {w \in owner : w[1] # r}
    /\ mem' = [mem EXCEPT ![r] = Fresh] /\ dl' = [dl EXCEPT ![r] = Nothing]
    /\ UNCHANGED <<row, open, closed, outbox, retired, receipts, log, note>>

-----------------------------------------------------------------------------
(* The host                                                                *)

\* lifecycle_recover_producer, once the owner is known to be dead.
RecoverProducer(t) ==
    /\ t \in open /\ \A w \in owner : w[2] # t
    /\ open' = open \ {t} /\ closed' = closed \cup {t}
    /\ outbox' = Append(outbox, [tok |-> t, id |-> Marker, st |-> "pending"])
    /\ UNCHANGED <<row, retired, receipts, log, note, mem, work, dl, owner, lost, faults>>

\* The first n of a set of sequences.
FirstN(S, n) == {s \in S : Cardinality({x \in S : x < s}) < n}

Quiescent(e, f) ==
    /\ f < row[e].fence \/ (f = row[e].fence /\ row[e].st = "done")
    /\ \A w \in work : ~(Exec(w[2]) = e /\ Fence(w[2]) <= f)
    /\ \A r \in Runtimes : \A i \in NotesOf(r, e) : Fence(note[i].tok) > f

\* lifecycle_retire_generation: of a prefix that is quiescent, with rows
\* collected by Limit.
Retire(e, f) ==
    LET prefix(t) == Exec(t) = e /\ Fence(t) <= f
        rows == FirstN({s \in DOMAIN outbox : prefix(outbox[s].tok) /\ outbox[s].st # "deleted"}, Limit)
        kept == {s \in DOMAIN outbox : outbox[s].st # "deleted"} \ rows
        empty == {t \in closed : prefix(t) /\ \A s \in kept : outbox[s].tok # t}
    IN
    /\ e \in Old /\ Quiescent(e, f) /\ f >= retired[e]
    /\ \A t \in open : ~prefix(t)
    /\ \A s \in PendingOf(e) : ~prefix(outbox[s].tok)
    /\ retired' = [retired EXCEPT ![e] = f]
    /\ outbox' = [s \in DOMAIN outbox |-> IF s \in rows THEN [outbox[s] EXCEPT !.st = "deleted"] ELSE outbox[s]]
    /\ \E gone \in SUBSET empty :
        /\ Cardinality(gone) <= Limit - Cardinality(rows)
        /\ gone = empty \/ Cardinality(gone) = Limit - Cardinality(rows)
        /\ closed' = closed \ gone
    /\ UNCHANGED <<row, open, receipts, log, note, mem, work, dl, owner, lost, faults>>

\* lifecycle_prune_delivered: what the host agrees to discard.
PruneDelivered(s) ==
    /\ Exec(outbox[s].tok) \in Old /\ outbox[s].st = "delivered"
    /\ outbox' = [outbox EXCEPT ![s].st = "pruned"]
    /\ UNCHANGED <<row, open, closed, retired, receipts, log, note, mem, work, dl, owner, lost, faults>>

\* SettlementJournal.prune_lifecycle_notes of what the Kernel has retired.
PruneNotes(e) ==
    LET old == {s \in receipts : Exec(outbox[s].tok) = e /\ Fence(outbox[s].tok) <= retired[e]} IN
    /\ old # {} /\ receipts' = receipts \ FirstN(old, Limit)
    /\ UNCHANGED <<row, open, closed, outbox, retired, log, note, mem, work, dl, owner, lost, faults>>

-----------------------------------------------------------------------------
Retry(r) ==
    \/ \E i \in mem[r].pend : ReserveOne(r, i) \/ AppendNote(r, i) \/ AppendAgain(r, i) \/ Reconcile(r, i)
    \/ Peek(r) \/ LifecycleNote(r) \/ Ack(r)
    \/ \E t \in mem[r].fin : Finish(r, t)

Act(r) ==
    \/ \E e \in Execs : Claim(r, e) \/ Cancel(r, e) \/ PeekFor(r, e)
    \/ \E w \in work : w[1] = r /\ (DiagnosticNote(r, w[2]) \/ NoteLost(r, w[2]) \/ Leave(r, w[2]) \/ Uncertain(r, w[2]))
    \/ Fails(r) \/ Crash(r)

Host ==
    \/ \E t \in open : RecoverProducer(t)
    \/ \E e \in Execs : PruneNotes(e) \/ \E f \in 0 .. row[e].fence : Retire(e, f)
    \/ \E s \in DOMAIN outbox : PruneDelivered(s)

Next ==
    \/ \E e \in Execs : KMoves(e)
    \/ \E r \in Runtimes : Retry(r) \/ Act(r)
    \/ Host

Spec == Init /\ [][Next]_vars

-----------------------------------------------------------------------------
Journaled(s) == s \in ToSet(log)
MarkerOf(t, s) == outbox[s].tok = t /\ outbox[s].id = Marker

\* What the producers hold never exceeds the outbox, but for the markers that
\* recovery writes beyond every reservation: appending, closing and recovering
\* producers all keep the promise a reservation was given.
CapacityKept ==
    Usage <= Capacity + Cardinality({s \in DOMAIN outbox : outbox[s].id = Marker /\ outbox[s].st = "pending"})

\* When an execution has been claimed again, everything its earlier driver
\* noted is in the journal, and where something was not retained - it did not
\* fit, or its process died - the journal says that evidence may be missing.
EvidenceBeforeReclaim ==
    \A t \in open \cup closed : t[1] = "claim" /\ Fence(t) < row[Exec(t)].fence =>
        /\ \A i \in DOMAIN note : note[i].tok = t =>
            \/ \E s \in DOMAIN outbox : outbox[s].id = i /\ Journaled(s)
            \/ ~Appended(i) /\ \E s \in DOMAIN outbox : MarkerOf(t, s) /\ Journaled(s)
        /\ t \in lost => \E s \in DOMAIN outbox : MarkerOf(t, s) /\ Journaled(s)

\* The journal takes each event once, those of an execution in the order of the
\* outbox, and what one runtime noted about it in the order it was noted,
\* however many runtimes deliver, retry and lose answers.
JournalInOrder ==
    \A a, b \in DOMAIN log : a < b =>
        LET x == outbox[log[a]] y == outbox[log[b]] IN
        Exec(x.tok) = Exec(y.tok) =>
            /\ log[a] < log[b]
            /\ x.id # Marker /\ y.id # Marker /\ note[x.id].r = note[y.id].r => x.id < y.id

\* An event the Kernel calls delivered has reached the journal, and stays there
\* until its generation is retired.
AckedIsJournaled ==
    \A s \in DOMAIN outbox : outbox[s].st \in {"delivered", "pruned"} =>
        s \in receipts \/ (Journaled(s) /\ Fence(outbox[s].tok) <= retired[Exec(outbox[s].tok)])

\* Lifecycle events are in order, kept until the journal has them, and kept before the
\* lease of what they are about is taken over.
LifecycleSafe ==
    /\ TypeOK
    /\ EvidenceBeforeReclaim
    /\ JournalInOrder
    /\ AckedIsJournaled

\* A note that was pruned does not come back with a delivery that was under way
\* when its generation was retired.
PrunedStaysPrunedStep ==
    \A s \in ToSet(log) \ receipts : s \notin receipts'

PrunedStaysPruned == [][PrunedStaysPrunedStep]_vars

-----------------------------------------------------------------------------
\* Every pass of a runtime's retry appends what is due, delivers what the peek
\* finds, then looks at what others delivered and closes its producers; passes
\* are repeated.  Crashes stop, and so do failures the journal has no reason for.
Fairness ==
    /\ \A r \in Runtimes :
        /\ SF_vars(\E i \in mem[r].pend : ReserveOne(r, i) \/ AppendNote(r, i) \/ AppendAgain(r, i))
        /\ SF_vars(\E i \in mem[r].pend : Reconcile(r, i))
        /\ SF_vars(\E t \in mem[r].fin : Finish(r, t))
        /\ SF_vars(Peek(r)) /\ WF_vars(LifecycleNote(r)) /\ WF_vars(Ack(r)) /\ WF_vars(Fails(r))
    /\ <>[][\A r \in Runtimes : ~Crash(r) /\ (Fails(r) => Exec(outbox[dl[r].seq].tok) \in Refused)]_vars

LiveSpec == Spec /\ Fairness

\* An event in the outbox is delivered, although the journal refuses the events
\* of another execution and every scan meets them first.
EventsDelivered ==
    \A s \in 1 .. MaxNotes :
        (s \in DOMAIN outbox /\ outbox[s].st = "pending" /\ Exec(outbox[s].tok) \notin Refused)
            ~> (s \in DOMAIN outbox /\ outbox[s].st # "pending")

\* A producer that is finished gives its slots back: what its runtime still
\* has in memory is appended, delivered and found delivered.
ProducersClose ==
    \A r \in Runtimes : \A t \in {t \in Tokens : Exec(t) \notin Refused} : t \in mem[r].fin ~> t \notin mem[r].fin
=============================================================================
