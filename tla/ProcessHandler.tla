----------------------------- MODULE ProcessHandler -----------------------------
(* One call of a handler in a process of its own (POSIX). Three processes and   *)
(* two threads: the parent waits for packets with deadlines of its own, the     *)
(* supervisor keeps the timer, contains the tree and hands the outcome to the   *)
(* settlement journal, the worker runs the handler, whose descendants may       *)
(* detach, and a thread of the runtime may revoke the call at any time. What is *)
(* checked is what may be claimed of the tree and of the outcome afterwards.    *)
EXTENDS Naturals, SequencesExt

CONSTANTS
  Kids,       \* processes the handler may leave behind
  Subreaper,  \* TRUE: orphans are adopted by the supervisor (Linux)
  Revocable,  \* TRUE: the call may be revoked
  Killable,   \* TRUE: something else may kill the supervisor
  Clockless   \* TRUE: the parent's clock of the budget may fail

VARIABLES
  clock,     \* since the entry was granted: 0, 1 (past the work deadline), 2 (past the hard one)
  startOver, \* the startup deadline has passed
  worker,    \* "none", "boot", "waiting", "running", "closing", "dead"
  kids,      \* descendants of the worker that are alive
  toSup,     \* packets of the worker
  invoked,   \* the supervisor's packet "invoke" is in the worker's channel
  doneAt,    \* clock at which the handler returned, in its packet; 3: it did not
  sup,       \* where the supervisor is; "left": it ended by itself
  ending,    \* which of its final packets it will send
  entered,   \* handler_entered
  held,      \* original_worker_outcome_json: it has the worker's outcome
  sure,      \* the tree was contained
  sureAt,    \* contained_monotonic of the accepted outcome, 3: none
  handed,    \* outcome_handoff: "none", "recorded", "unknown"
  phase,     \* timeout_phase is outcome_handoff
  toPar,     \* packets of the supervisor
  par,       \* where the parent is
  started,   \* it has seen the entry
  overdue,   \* observed_at is past the deadline it waited for
  lateWork,  \* work_wait_expired
  lateStart, \* startup_wait_expired
  term,      \* the terminal packet
  kept,      \* contained_result
  clean,     \* a packet confirmed the cleanup
  observed,  \* an outcome that could not be saved was noted by the parent
  unclocked, \* the parent's own budget clock failed
  revoked,   \* revocation_reason
  killer,    \* who holds the handle's lock: "none", "parent", "revoker"
  passed,    \* the holder has killed what it saw at least once
  crashed,   \* the supervisor was killed by something else
  saved,     \* the outcome is in the settlement journal
  treeSaved, \* and so is the receipt of the cleanup
  receipt,   \* on_cleanup_confirmed was called
  noted,     \* what on_phase was told at the end: of the tree, of the result
  answer     \* what the call came to
timeVars == <<clock, startOver>>
treeVars == <<worker, kids, toSup, invoked, doneAt>>
supVars == <<sup, ending, entered, held, sure, sureAt, handed, phase>>
parVars == <<par, started, overdue, lateWork, lateStart, term, kept, clean, observed, unclocked>>
killVars == <<revoked, killer, passed, crashed>>
doneVars == <<saved, treeSaved, receipt, noted, answer>>
vars == <<timeVars, treeVars, supVars, toPar, parVars, killVars, doneVars>>

Never == 3
NoPacket == [kind |-> "none", cleanup |-> FALSE, handoff |-> "none", aside |-> FALSE]
Gone == worker \in {"none", "dead"} /\ kids = {}
SupAlive == sup \notin {"none", "left", "dead"}

Init ==
  /\ clock = 0
  /\ startOver = FALSE
  /\ worker = "none"
  /\ kids = {}
  /\ toSup = <<>>
  /\ invoked = FALSE
  /\ doneAt = Never
  /\ sup = "none"
  /\ ending = "none"
  /\ entered = FALSE
  /\ held = FALSE
  /\ sure = FALSE
  /\ sureAt = Never
  /\ handed = "none"
  /\ phase = FALSE
  /\ toPar = <<>>
  /\ par = "spawn"
  /\ started = FALSE
  /\ overdue = FALSE
  /\ lateWork = FALSE
  /\ lateStart = FALSE
  /\ term = NoPacket
  /\ kept = NoPacket
  /\ clean = FALSE
  /\ observed = FALSE
  /\ unclocked = FALSE
  /\ revoked = FALSE
  /\ killer = "none"
  /\ passed = FALSE
  /\ crashed = FALSE
  /\ saved = FALSE
  /\ treeSaved = FALSE
  /\ receipt = FALSE
  /\ noted = {}
  /\ answer = "none"

--------------------------------------------------------------------------------
(* Time: the startup window, and the two bounds of a granted entry.            *)

StartupElapses ==
  /\ ~startOver
  /\ startOver' = TRUE
  /\ UNCHANGED <<clock, treeVars, supVars, toPar, parVars, killVars, doneVars>>

Granted == worker \in {"running", "closing"} \/ doneAt # Never \/ entered
Tick ==
  /\ Granted
  /\ clock < 2
  /\ clock' = clock + 1
  /\ UNCHANGED <<startOver, treeVars, supVars, toPar, parVars, killVars, doneVars>>

--------------------------------------------------------------------------------
(* The worker and its descendants.                                             *)

Tell(packet) == toSup' = Append(toSup, packet)

WorkerBoots ==
  /\ worker = "boot"
  /\ \/ worker' = "waiting" /\ Tell("ready")
     \/ worker' = "dead" /\ Tell("failed")
  /\ UNCHANGED <<timeVars, kids, invoked, doneAt, supVars, toPar, parVars, killVars, doneVars>>

\* The durable entry is confirmed, or refused: then the handler is not called.
WorkerEnters ==
  /\ worker = "waiting"
  /\ invoked
  /\ \/ SupAlive /\ worker' = "running" /\ Tell("entered")
     \/ worker' = "dead" /\ Tell("completed")
  /\ UNCHANGED <<timeVars, kids, invoked, doneAt, supVars, toPar, parVars, killVars, doneVars>>

Spawn ==
  /\ worker \in {"running", "closing"} \/ kids # {}
  /\ \E k \in Kids \ kids : kids' = kids \union {k}
  /\ UNCHANGED <<timeVars, worker, toSup, invoked, doneAt, supVars, toPar, parVars, killVars, doneVars>>

HandlerReturns ==
  /\ worker = "running"
  /\ worker' = "closing"
  /\ doneAt' = clock
  /\ Tell("returned")
  /\ UNCHANGED <<timeVars, kids, invoked, supVars, toPar, parVars, killVars, doneVars>>

WorkerEnds ==
  /\ \/ worker = "closing" /\ Tell("completed")
     \/ worker \in {"boot", "waiting", "running", "closing"} /\ UNCHANGED toSup
  /\ worker' = "dead"
  /\ UNCHANGED <<timeVars, kids, invoked, doneAt, supVars, toPar, parVars, killVars, doneVars>>

--------------------------------------------------------------------------------
(* The supervisor.                                                             *)

Proven_Mutant(contained) == contained
Proven(contained) == contained /\ Subreaper
Packet(kind, cleanup) ==
  [kind |-> kind, cleanup |-> Proven(cleanup), handoff |-> handed, aside |-> phase]
SendParent(packet) == toPar' = Append(toPar, packet)
Hears(packet) == toSup # <<>> /\ Head(toSup) = packet /\ toSup' = Tail(toSup)
\* Nothing more comes from the worker: its end of the channel is closed.
HearsNothing == toSup = <<>> /\ worker = "dead" /\ UNCHANGED toSup

Fork ==
  /\ sup = "boot"
  /\ \/ /\ worker' = "boot"
        /\ sup' = "ready"
        /\ UNCHANGED ending
     \/ /\ sup' = "contain"
        /\ ending' = "broken"
        /\ UNCHANGED worker
  /\ UNCHANGED <<timeVars, kids, toSup, invoked, doneAt, entered, held, sure, sureAt, handed, phase,
                 toPar, parVars, killVars, doneVars>>

Contain(end) == sup' = "contain" /\ ending' = end

ReceiveReady ==
  /\ sup = "ready"
  /\ \/ /\ Hears("ready")
        /\ SendParent(Packet("ready", FALSE))
        /\ invoked' = TRUE
        /\ sup' = "entry"
        /\ UNCHANGED ending
     \/ /\ Hears("failed") \/ HearsNothing
        /\ Contain("refused")
        /\ UNCHANGED <<invoked, toPar>>
  /\ UNCHANGED <<timeVars, worker, kids, doneAt, entered, held, sure, sureAt, handed, phase, parVars,
                 killVars, doneVars>>

ReceiveEntry ==
  /\ sup = "entry"
  /\ \/ /\ Hears("entered")
        /\ entered' = TRUE
        /\ SendParent(Packet("started", FALSE))
        /\ sup' = "exec"
        /\ UNCHANGED <<ending, held>>
     \/ /\ Hears("completed")
        /\ held' = TRUE
        /\ Contain("unentered")
        /\ UNCHANGED <<entered, toPar>>
     \/ /\ HearsNothing
        /\ Contain("exited")
        /\ UNCHANGED <<entered, held, toPar>>
  /\ UNCHANGED <<timeVars, worker, kids, invoked, doneAt, sure, sureAt, handed, phase, parVars,
                 killVars, doneVars>>

InTime == clock = 0 /\ doneAt = 0

\* The outcome is kept before its time is looked at.
ReceiveReturn ==
  /\ sup = "exec"
  /\ \/ /\ Hears("returned")
        /\ held' = TRUE
        /\ IF InTime
             THEN /\ SendParent(Packet("returned", FALSE))
                  /\ sup' = "flush"
                  /\ UNCHANGED ending
             ELSE Contain("expired") /\ UNCHANGED toPar
     \/ /\ HearsNothing
        /\ Contain("exited")
        /\ UNCHANGED <<held, toPar>>
  /\ UNCHANGED <<timeVars, worker, kids, invoked, doneAt, entered, sure, sureAt, handed, phase, parVars,
                 killVars, doneVars>>

\* The worker may go on to flush; its descendants may not.
Flush ==
  /\ sup = "flush"
  /\ \E K \in SUBSET kids : kids' = kids \ K
  /\ \/ Hears("completed") \/ HearsNothing \/ UNCHANGED toSup        \* no handles of processes
  /\ Contain("finished")
  /\ UNCHANGED <<timeVars, worker, invoked, doneAt, entered, held, sure, sureAt, handed, phase, toPar,
                 parVars, killVars, doneVars>>

\* One pass of _contain_tree; a descendant that is just being made is missed.
KillPass ==
  /\ worker' = IF worker = "none" THEN "none" ELSE "dead"
  /\ \E K \in SUBSET kids : kids' = kids \ K

ContainPass ==
  /\ sup = "contain"
  /\ ~Gone
  /\ KillPass
  /\ worker' # worker \/ kids' # kids
  /\ UNCHANGED <<timeVars, toSup, invoked, doneAt, supVars, toPar, parVars, killVars, doneVars>>

\* ECHILD proves that all are gone; without adoption only the visible ones are.
Empty == worker \in {"none", "dead"} /\ (Subreaper => kids = {})
Bounded == ending \in {"unentered", "finished"}

Contained ==
  /\ sup = "contain"
  /\ Empty
  /\ sure' = TRUE
  /\ IF ending = "finished"
       THEN /\ clock < 2
            /\ sureAt' = clock
            /\ SendParent([Packet("contained", TRUE) EXCEPT !.handoff = "unknown"])
       ELSE UNCHANGED <<sureAt, toPar>>
  /\ sup' = "handoff"
  /\ UNCHANGED <<timeVars, treeVars, ending, entered, held, handed, phase, parVars, killVars, doneVars>>

\* The grace of a second is over: the report says that it is not known.
ContainFails ==
  /\ sup = "contain"
  /\ worker \in {"none", "dead"}
  /\ kids # {}
  /\ ~Bounded
  /\ sure' = FALSE
  /\ sup' = "handoff"
  /\ UNCHANGED <<timeVars, treeVars, ending, entered, held, sureAt, handed, phase, toPar, parVars,
                 killVars, doneVars>>

\* retain_outcome: the journal has it, or the packet says that it may not.
Retains == held /\ handed = "none"

HandOff ==
  /\ sup = "handoff"
  /\ IF Retains
       THEN \/ sure /\ saved' = TRUE /\ handed' = "recorded"
            \/ sure /\ saved' \in {saved, TRUE} /\ handed' = "unknown"
            \/ ~sure /\ handed' = "unknown" /\ UNCHANGED saved
       ELSE UNCHANGED <<saved, handed>>
  /\ sup' = "report"
  /\ UNCHANGED <<timeVars, treeVars, ending, entered, held, sure, sureAt, phase, toPar, parVars,
                 killVars, treeSaved, receipt, noted, answer>>

\* The timer of the supervisor: startup, then work, then the hard deadline.
DeadlineOver == IF ~entered THEN startOver
                ELSE IF sup = "exec" THEN clock >= 1 ELSE clock = 2

Final ==
  CASE ending = "refused" -> "start_failed"
    [] ending = "unentered" -> "entry_failed"
    [] ending = "finished" -> "completed"
    [] ending = "expired" -> "timed_out"
    [] ending = "broken" -> IF entered THEN "failed" ELSE "start_failed"
    [] OTHER -> "failed"

Report ==
  /\ sup = "report"
  /\ SendParent(Packet(Final, sure))
  /\ IF Proven(sure) /\ worker # "none" THEN treeSaved' \in {treeSaved, TRUE} ELSE UNCHANGED treeSaved
  /\ \/ sup' = "left" /\ UNCHANGED <<ending, phase>>
     \/ /\ Bounded                             \* the alarm just after it
        /\ DeadlineOver
        /\ phase' = (ending = "finished")
        /\ Contain("expired")
  /\ UNCHANGED <<timeVars, treeVars, entered, held, sure, sureAt, handed, parVars, killVars, saved,
                 receipt, noted, answer>>

\* The alarm: it interrupts the work and every bounded cleanup.
Alarm ==
  /\ \/ sup \in {"ready", "entry", "exec", "flush"}
     \/ sup = "contain" /\ (Bounded \/ ending = "refused")
     \/ sup \in {"handoff", "report"} /\ Bounded
  /\ DeadlineOver
  /\ phase' = (phase \/ (ending = "finished" /\ sup \in {"handoff", "report"}))
  /\ held' = (held \/ \E i \in 1..Len(toSup) : toSup[i] \in {"returned", "completed"})
  /\ toSup' = <<>>
  /\ Contain("expired")
  /\ UNCHANGED <<timeVars, worker, kids, invoked, doneAt, entered, sure, sureAt, handed, toPar, parVars,
                 killVars, doneVars>>

\* Anything else that raises: the tree is contained and the failure reported.
Raises ==
  /\ sup \in {"ready", "entry", "exec", "flush"}
  /\ Contain("broken")
  /\ UNCHANGED <<timeVars, treeVars, entered, held, sure, sureAt, handed, phase, toPar, parVars,
                 killVars, doneVars>>

\* The kernel's killer, an operator: nothing is reported and nobody adopts the rest.
SupervisorKilled ==
  /\ Killable
  /\ SupAlive
  /\ sup' = "dead"
  /\ crashed' = TRUE
  /\ UNCHANGED <<timeVars, treeVars, ending, entered, held, sure, sureAt, handed, phase, toPar, parVars,
                 revoked, killer, passed, doneVars>>

Supervise == Fork \/ ReceiveReady \/ ReceiveEntry \/ ReceiveReturn \/ Flush \/ ContainPass \/ Contained
             \/ ContainFails \/ HandOff \/ Report

--------------------------------------------------------------------------------
(* The handle: whoever has its lock kills the tree below the living supervisor *)
(* first, and the supervisor when that is quiet or a second is over.           *)

KillTree ==
  /\ killer # "none"
  /\ SupAlive
  /\ KillPass
  /\ passed' = TRUE
  /\ UNCHANGED <<timeVars, toSup, invoked, doneAt, supVars, toPar, parVars, revoked, killer, crashed,
                 doneVars>>

Released == killer' = "none" /\ passed' = FALSE
Onward == par' = IF killer = "parent" THEN "read" ELSE par

KillSupervisor ==
  /\ killer # "none"
  /\ SupAlive
  /\ passed
  /\ worker \in {"none", "boot", "dead"}       \* one that is just being made is missed
  /\ sup' = "dead"
  /\ Released
  /\ Onward
  /\ UNCHANGED <<timeVars, treeVars, ending, entered, held, sure, sureAt, handed, phase, toPar, started,
                 overdue, lateWork, lateStart, term, kept, clean, observed, unclocked, revoked, crashed, doneVars>>

SupervisorEnded ==
  /\ killer # "none"
  /\ ~SupAlive
  /\ Released
  /\ Onward
  /\ UNCHANGED <<timeVars, treeVars, supVars, toPar, started, overdue, lateWork, lateStart, term, kept,
                 clean, observed, unclocked, revoked, crashed, doneVars>>

Revoke ==
  /\ Revocable
  /\ par \notin {"spawn", "done"}
  /\ killer = "none"
  /\ ~revoked
  /\ revoked' = TRUE
  /\ killer' = "revoker"
  /\ UNCHANGED <<timeVars, treeVars, supVars, toPar, parVars, passed, crashed, doneVars>>

--------------------------------------------------------------------------------
(* The parent.                                                                 *)

\* The budget may be spent or its clock unknown before anything is spawned, or the
\* spawn fails.  A runtime that has closed meanwhile revokes the call at once.
Start ==
  /\ par = "spawn"
  /\ \/ par' = "first" /\ sup' = "boot" /\ UNCHANGED <<revoked, killer, answer>>
     \/ /\ Revocable
        /\ par' = "first" /\ sup' = "boot" /\ revoked' = TRUE /\ killer' = "revoker"
        /\ UNCHANGED answer
     \/ /\ par' = "done" /\ answer' \in {"admission", "unclocked", "raised"}
        /\ UNCHANGED <<sup, revoked, killer>>
  /\ UNCHANGED <<timeVars, treeVars, ending, entered, held, sure, sureAt, handed, phase, toPar, started,
                 overdue, lateWork, lateStart, term, kept, clean, observed, unclocked, passed, crashed,
                 saved, treeSaved, receipt, noted>>

Coming == IF toPar = <<>> THEN {} ELSE {Head(toPar)}
Takes == toPar' = Tail(toPar)
Closed == toPar = <<>> /\ ~SupAlive

\* report_handoff
Notes(packet) == observed' = (observed \/ packet.handoff = "unknown")
Terminal(packet) == term' = packet /\ Notes(packet) /\ par' = "terminate"

WaitFirst ==
  /\ par = "first"
  /\ \/ \E p \in Coming :
          /\ Takes
          /\ \/ /\ p.kind = "ready"
                /\ UNCHANGED <<par, started, term, observed>>
             \/ /\ p.kind = "started"
                /\ started' = TRUE
                /\ par' = "work"
                /\ UNCHANGED <<term, observed>>
             \/ /\ p.kind \notin {"ready", "started"}
                /\ Terminal(p)
                /\ UNCHANGED started
          /\ UNCHANGED lateStart
     \/ /\ Closed
        /\ Terminal(NoPacket)
        /\ UNCHANGED <<started, lateStart, toPar>>
     \/ /\ startOver
        /\ lateStart' = TRUE
        /\ par' = "grace"
        /\ UNCHANGED <<started, term, observed, toPar>>
  /\ UNCHANGED <<timeVars, treeVars, supVars, overdue, lateWork, kept, clean, unclocked, killVars, doneVars>>

WaitWork ==
  /\ par = "work"
  /\ \/ \E p \in Coming :
          /\ Takes
          /\ IF p.kind = "returned" THEN par' = "hard" /\ Notes(p) /\ UNCHANGED term ELSE Terminal(p)
          /\ overdue' = (p.kind # "returned" /\ clock >= 1)
          /\ UNCHANGED lateWork
     \/ /\ Closed
        /\ Terminal(NoPacket)
        /\ overdue' = (clock >= 1)
        /\ lateWork' = (clock >= 1)
        /\ UNCHANGED toPar
     \/ /\ clock >= 1
        /\ overdue' = TRUE
        /\ lateWork' = TRUE
        /\ par' = "grace"
        /\ UNCHANGED <<term, observed, toPar>>
  /\ UNCHANGED <<timeVars, treeVars, supVars, started, lateStart, kept, clean, unclocked, killVars, doneVars>>

WaitHard ==
  /\ par = "hard"
  /\ overdue' = (clock = 2)
  /\ \/ \E p \in Coming :
          /\ Takes
          /\ IF p.kind = "contained"
               THEN kept' = p /\ par' = "last" /\ UNCHANGED <<term, observed>>
               ELSE Terminal(p) /\ UNCHANGED kept
     \/ Closed /\ Terminal(NoPacket) /\ UNCHANGED <<kept, toPar>>
     \/ /\ clock = 2
        /\ par' = "grace"
        /\ UNCHANGED <<kept, term, observed, toPar>>
  /\ UNCHANGED <<timeVars, treeVars, supVars, started, lateStart, lateWork, clean, unclocked, killVars, doneVars>>

\* A contained outcome stands even if the journal used up the rest of the time.
WaitLast ==
  /\ par = "last"
  /\ overdue' = (clock = 2)
  /\ \/ \E p \in Coming :
          /\ Takes
          /\ Terminal(IF p.kind = "timed_out" /\ p.aside THEN [kept EXCEPT !.kind = "completed"] ELSE p)
     \/ /\ Closed \/ clock = 2
        /\ Terminal([kept EXCEPT !.kind = "completed"])
        /\ UNCHANGED toPar
  /\ UNCHANGED <<timeVars, treeVars, supVars, started, lateStart, lateWork, kept, clean, unclocked, killVars,
                 doneVars>>

\* The deadline is over; containment gets a second, the outcome nothing.
Grace_Mutant ==
  /\ par = "grace"
  /\ \E p \in Coming : Takes /\ Terminal(p)
  /\ UNCHANGED <<timeVars, treeVars, supVars, started, overdue, lateWork, lateStart, kept, clean, unclocked,
                 killVars, doneVars>>
Grace ==
  /\ par = "grace"
  /\ \/ \E p \in Coming : Takes /\ Terminal(p)
     \/ UNCHANGED toPar /\ Terminal(NoPacket)
  /\ UNCHANGED <<timeVars, treeVars, supVars, started, overdue, lateWork, lateStart, kept, clean, unclocked,
                 killVars, doneVars>>

\* The clock of the budget fails where the parent waits: the call is torn down.
\* The deadline it then compares with is the one its last finished wait was for.
ClockFails ==
  /\ Clockless
  /\ par \in {"first", "work", "hard", "last"}
  /\ unclocked' = TRUE
  /\ overdue' = IF par = "last" THEN clock = 2 ELSE clock >= 1
  /\ term' = [NoPacket EXCEPT !.kind = "failed"]
  /\ Notes(kept)
  /\ par' = "terminate"
  /\ UNCHANGED <<timeVars, treeVars, supVars, toPar, started, lateWork, lateStart, kept, clean,
                 killVars, doneVars>>

Terminate ==
  /\ par = "terminate"
  /\ killer = "none"
  /\ killer' = "parent"
  /\ par' = "killing"
  /\ UNCHANGED <<timeVars, treeVars, supVars, toPar, started, overdue, lateWork, lateStart, term, kept,
                 clean, observed, unclocked, revoked, passed, crashed, doneVars>>

Finals == {"contained", "completed", "entry_failed", "timed_out", "failed", "start_failed"}
Rest == SubSeq(toPar, 1, IF Len(toPar) < 4 THEN Len(toPar) ELSE 4)
Ended(p) == p.kind \in Finals \ {"contained"}

\* Packets that came while the tree was killed are read once.  After a failure of
\* the clock that is held to be passing they may still make the outcome.
ReadRest ==
  /\ par = "read"
  /\ clean' = \E p \in ToSet(Rest) : p.kind \in Finals /\ p.cleanup
  /\ observed' = (observed \/ \E p \in ToSet(Rest) : p.handoff = "unknown")
  /\ \E recovers \in {FALSE, unclocked} :
       /\ started' = (started \/ (recovers /\ \E p \in ToSet(Rest) : p.kind = "started"))
       /\ term' = IF recovers /\ \E p \in ToSet(Rest) : Ended(p)
                  THEN Rest[SelectLastInSeq(Rest, Ended)] ELSE term
  /\ toPar' = <<>>
  /\ \/ par' = "decide" /\ UNCHANGED answer
     \/ par' = "done" /\ answer' = "raised"         \* the supervisor was not reaped in time
  /\ UNCHANGED <<timeVars, treeVars, supVars, overdue, lateWork, lateStart, kept, unclocked, killVars,
                 saved, treeSaved, receipt, noted>>

CleanupAllowed == term.cleanup \/ clean \/ kept.cleanup
Accepted == started /\ ~lateWork /\ term.kind = "completed" /\ sureAt < 2
Overdue == term.kind = "timed_out" \/ (started /\ overdue) \/ lateStart

\* What the call may come to: what is left of the budget, which the outcome, the
\* entry and the parent tell together, decides among them.
Outcome ==
  CASE revoked -> {"revoked"}
    [] ~revoked /\ Accepted -> {"completed", "timeout", "unclocked"}
    [] ~revoked /\ ~Accepted /\ Overdue -> IF started THEN {"timeout"} ELSE {"admission", "startup"}
    [] OTHER -> IF term.kind = "entry_failed" THEN {"entry_failed"}
                ELSE IF started \/ term.kind = "failed" THEN {"exit"}
                ELSE IF term.kind = "start_failed" THEN {"exit", "startup"} ELSE {"startup"}

\* A result that may be told as the supervisor's own, if nothing of its budget is
\* in doubt.
Vouched(outcome) ==
  \/ outcome = "completed"
  \/ outcome = "timeout" /\ ~Accepted /\ term.kind = "timed_out" /\ CleanupAllowed /\ ~unclocked
  \/ outcome = "startup" /\ ~Overdue /\ term.kind = "start_failed" /\ CleanupAllowed /\ ~unclocked

Decide ==
  /\ par = "decide"
  /\ receipt' = CleanupAllowed
  /\ answer' \in Outcome
  /\ \E vouched \in BOOLEAN :
       /\ vouched => Vouched(answer')
       /\ noted' = {note \in {"tree", "result"} :
                      IF note = "tree" THEN CleanupAllowed /\ worker # "none" ELSE vouched}
  /\ par' = "done"
  /\ UNCHANGED <<timeVars, treeVars, supVars, toPar, started, overdue, lateWork, lateStart, term, kept,
                 clean, observed, unclocked, killVars, saved, treeSaved>>

Wait == WaitFirst \/ WaitWork \/ WaitHard \/ WaitLast \/ Grace
Kill == KillTree \/ KillSupervisor \/ SupervisorEnded

Next ==
  \/ StartupElapses \/ Tick
  \/ WorkerBoots \/ WorkerEnters \/ Spawn \/ HandlerReturns \/ WorkerEnds
  \/ Supervise \/ Alarm \/ Raises \/ SupervisorKilled
  \/ Kill \/ Revoke
  \/ Start \/ Wait \/ ClockFails \/ Terminate \/ ReadRest \/ Decide

Spec == Init /\ [][Next]_vars

\* Time passes, the kernel schedules the parent, and a kill loop ends after a second.
\* Nothing is asked of the handler, of its descendants or of the supervisor.
Fairness ==
  /\ WF_vars(StartupElapses) /\ WF_vars(Tick)
  /\ WF_vars(KillTree) /\ WF_vars(KillSupervisor) /\ WF_vars(SupervisorEnded)
  /\ WF_vars(Start) /\ WF_vars(Wait) /\ WF_vars(Terminate) /\ WF_vars(ReadRest) /\ WF_vars(Decide)
FairSpec == Spec /\ Fairness

--------------------------------------------------------------------------------
(* Properties.                                                                 *)

Packets == {"ready", "started", "returned"} \union Finals
TypeOK ==
  /\ clock \in 0..2
  /\ worker \in {"none", "boot", "waiting", "running", "closing", "dead"}
  /\ kids \subseteq Kids
  /\ \A i \in 1..Len(toPar) : toPar[i].kind \in Packets
  /\ term.kind \in Packets \union {"none"}
  /\ handed # "none" => held
  /\ (killer = "parent") = (par = "killing")

\* CANCELLATION_EVIDENCE.md, cleanup_confirmed: a receipt, in the kernel or in the
\* journal, means that no process of the tree is left, whoever died or was killed.
ReceiptIsProof == receipt \/ treeSaved \/ "tree" \in noted => Gone

\* invoke_process_handler: an outcome is accepted only of a handler that returned before
\* the work deadline and whose tree was contained before the hard one; with adoption
\* nothing of it is left.
AcceptedInTime == answer = "completed" => doneAt = 0 /\ sureAt < 2 /\ (Subreaper => Gone)

\* _sdk_supervisor_completion_confirmed: what the runtime takes for a completed
\* supervision is a result that was vouched for, of a tree that is gone.
CompletionIsProven ==
  receipt /\ "result" \in noted => Gone /\ ~revoked /\ (answer = "completed" => doneAt = 0)

\* retain_outcome, report_handoff: when the supervisor ended by itself, an outcome the
\* worker handed to it is in the journal or was noted by the parent.
EvidenceKept ==
  answer # "none" /\ sup = "left" /\ held => saved \/ observed

\* _kill_supervisor: when the call is over its handler does not run, unless something
\* else killed the supervisor.
AnsweredIsOver == answer # "none" /\ ~crashed => worker \notin {"running", "closing"}

\* What the answer and the receipt of a process handler say of its processes.
ProcessSafe ==
    /\ TypeOK
    /\ ReceiptIsProof
    /\ AcceptedInTime
    /\ CompletionIsProven
    /\ EvidenceKept
    /\ AnsweredIsOver

\* The call returns, whatever the handler does and whoever dies.
CallReturns == <>(answer # "none")
================================================================================
