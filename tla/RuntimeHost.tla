------------------------------ MODULE RuntimeHost ------------------------------
(* The background host: one coordinator thread that owns every call of the     *)
(* bridge, a pool that owns the run_once calls, a thread that delivers         *)
(* notifications, and whoever calls stop - several threads at once, with and   *)
(* without a deadline. What is checked is the shutdown: who closes what, after *)
(* whom, and what the callers and the report are told about it.                *)
EXTENDS Integers, FiniteSets

CONSTANTS
  Workers,    \* the slots of the pool
  Callers,    \* threads that call stop
  Bounded,    \* those of them that call it with a timeout
  Notifies,   \* TRUE: a callback for notifications was supplied
  Faults,     \* the kinds of failure that may happen
  MaxFaults,  \* bound: how many of them do
  MaxStops    \* bound: calls of stop of one caller

BoundedAssumption == Bounded \subseteq Callers

VARIABLES
  state,      \* _state of the host
  stopping,   \* _stop_event
  coord,      \* where the coordinator is, "none" before start, "dead" when its thread ended
  ready,      \* startup_ready of the coordinator
  futures,    \* futures[w]: "none", "queued", "running", "done"
  undelivered,\* workers have produced results since the bridge was last pumped
  runtime,    \* "open", "closed", or "failed": its close raised
  revoked,    \* request_stop: the authority of active handlers was taken away
  revoker,    \* the thread that calls request_stop: "none", "running", "done", "lost"
  closer,     \* the thread that closes a host that never started, "lost": none could be had
  attempted,  \* _shutdown_attempted
  shutting,   \* who is inside _shutdown_resources
  shutAt,     \* and where
  error,      \* _shutdown_error is set
  report,     \* _stop_status
  calls,      \* calls[c]: where a caller of stop is
  answers,    \* answers[c]: what its last call of RuntimeHost.stop came to
  told,       \* told[c]: what its last call of stop came to
  stops,      \* stops[c]: its calls so far
  silent,     \* the notification thread was told to stop
  notifier,   \* the notification thread: "off", "idle", "calling", "dead"
  faults
hostVars == <<state, stopping, coord, ready>>
workVars == <<futures, undelivered, revoked, revoker>>
shutVars == <<runtime, attempted, shutting, shutAt, error>>
callVars == <<calls, answers, told, stops>>
noteVars == <<silent, notifier>>
vars == <<hostVars, workVars, shutVars, callVars, noteVars, closer, report, faults>>

Nobody == "nobody"
Quiet == \A w \in Workers : futures[w] = "none"
NoneRunning == \A w \in Workers : futures[w] # "running"

Fault(kind) == kind \in Faults /\ faults < MaxFaults /\ faults' = faults + 1

Init ==
  /\ state = "new"
  /\ stopping = FALSE
  /\ coord = "none"
  /\ ready = FALSE
  /\ futures = [w \in Workers |-> "none"]
  /\ undelivered = FALSE
  /\ runtime = "open"
  /\ revoked = FALSE
  /\ revoker = "none"
  /\ closer = "none"
  /\ attempted = FALSE
  /\ shutting = Nobody
  /\ shutAt = "out"
  /\ error = FALSE
  /\ report = "not_started"
  /\ calls = [c \in Callers |-> "out"]
  /\ answers = [c \in Callers |-> "none"]
  /\ told = [c \in Callers |-> "none"]
  /\ stops = [c \in Callers |-> 0]
  /\ silent = FALSE
  /\ notifier = "off"
  /\ faults = 0

\* _begin_stop and _finish_stop: a verdict is final, an expired deadline is not one.
Begun_Mutant == "in_progress"
Begun == IF report \in {"completed", "failed"} /\ closer # "lost" THEN report ELSE "in_progress"
Verdict(status) ==
  IF report = "failed" THEN "failed"
  ELSE IF status = "timed_out" /\ report = "completed" THEN report
  ELSE status

--------------------------------------------------------------------------------
(* Starting.                                                                   *)

Start ==
  /\ state = "new"
  /\ state' = "starting"
  /\ coord' = "startup"
  /\ notifier' = IF Notifies THEN "idle" ELSE "off"
  /\ UNCHANGED <<stopping, ready, workVars, shutVars, callVars, silent, closer, report, faults>>

\* The pool or the thread cannot be made: start itself closes the runtime.
StartFails ==
  /\ state = "new"
  /\ Fault("start")
  /\ state' = "failed"
  /\ stopping' = TRUE
  /\ attempted' = TRUE
  /\ \/ runtime' = "closed" /\ error' = error
     \/ runtime' = "failed" /\ error' = TRUE
  /\ UNCHANGED <<coord, ready, workVars, shutting, shutAt, callVars, noteVars, closer, report>>

--------------------------------------------------------------------------------
(* The coordinator.                                                            *)

GoTo(place) == coord' = place

\* reap and sweep: stop may be called while they are under way
BeginStartup ==
  /\ coord = "startup"
  /\ ~stopping
  /\ GoTo("starting")
  /\ UNCHANGED <<state, stopping, ready, workVars, shutVars, callVars, noteVars, closer, report,
                 faults>>

EndStartup ==
  /\ coord = "starting"
  /\ \/ /\ state' = "running"
        /\ ready' = TRUE
        /\ undelivered' = FALSE
        /\ GoTo(IF stopping THEN "work" ELSE "fill")
        /\ UNCHANGED faults
     \/ /\ Fault("bridge")
        /\ GoTo("startup")
        /\ UNCHANGED <<state, ready, undelivered>>
  /\ UNCHANGED <<stopping, futures, revoked, revoker, shutVars, callVars, noteVars, closer, report>>

\* A stop before the startup succeeded: nothing was submitted.
StopUnready ==
  /\ coord = "startup"
  /\ stopping
  /\ GoTo("final")
  /\ UNCHANGED <<state, stopping, ready, workVars, shutVars, callVars, noteVars, closer, report,
                 faults>>

Collected == [w \in Workers |-> IF futures[w] = "done" THEN "none" ELSE futures[w]]

\* One turn: collect, then sweep, pump and the hook when due, unless told to stop.
Turn ==
  /\ coord = "work"
  /\ futures' = Collected
  /\ \/ /\ stopping
        /\ GoTo("drain")
        /\ UNCHANGED <<undelivered, faults>>
     \/ /\ ~stopping
        /\ GoTo("fill")
        /\ \/ undelivered' = FALSE /\ UNCHANGED faults
           \/ UNCHANGED <<undelivered, faults>>               \* not due, or backing off
           \/ Fault("bridge") /\ UNCHANGED undelivered
  /\ UNCHANGED <<state, stopping, ready, revoked, revoker, shutVars, callVars, noteVars, closer,
                 report>>

\* Free slots get a run_once each, without another look at the stop event.
FillWorkers ==
  /\ coord = "fill"
  /\ futures' = [w \in Workers |-> IF futures[w] = "none" THEN "queued" ELSE futures[w]]
  /\ GoTo("work")
  /\ UNCHANGED <<state, stopping, ready, undelivered, revoked, revoker, shutVars, callVars, noteVars,
                 closer, report, faults>>

DrainWorkers ==
  /\ coord = "drain"
  /\ futures' = Collected
  /\ GoTo(IF \A w \in Workers : futures'[w] = "none" THEN "final" ELSE "drain")
  /\ UNCHANGED <<state, stopping, ready, undelivered, revoked, revoker, shutVars, callVars, noteVars,
                 closer, report, faults>>

CoordinatorFails ==
  /\ coord \in {"work", "fill", "drain"}
  /\ Fault("coordinator")
  /\ state' = "failed"
  /\ GoTo("final")
  /\ UNCHANGED <<stopping, ready, workVars, shutVars, callVars, noteVars, closer, report>>

\* finally: revoke, or give up when no thread can be had for it
Finalize ==
  /\ coord = "final"
  /\ stopping' = TRUE
  /\ \/ /\ GoTo("revoking")
        /\ revoker' = IF revoker = "none" THEN "running" ELSE revoker
        /\ report' = Begun
        /\ UNCHANGED <<state, error, faults>>
     \/ /\ revoker = "none"
        /\ Fault("thread")
        /\ revoker' = "lost"
        /\ error' = TRUE
        /\ state' = "failed"
        /\ report' = "failed"
        /\ GoTo("dead")
  /\ UNCHANGED <<ready, futures, undelivered, revoked, runtime, attempted, shutting, shutAt, callVars,
                 noteVars, closer>>

Revoked ==
  /\ coord = "revoking"
  /\ revoker = "done"
  /\ GoTo("shut")
  /\ UNCHANGED <<state, stopping, ready, workVars, shutVars, callVars, noteVars, closer, report,
                 faults>>

RequestStop ==
  /\ revoker = "running"
  /\ revoker' = "done"
  /\ revoked' = TRUE
  /\ UNCHANGED <<hostVars, futures, undelivered, shutVars, callVars, noteVars, closer, report, faults>>

--------------------------------------------------------------------------------
(* The pool.                                                                   *)

RunOnce(w) ==
  /\ futures[w] = "queued"
  /\ futures' = [futures EXCEPT ![w] = "running"]
  /\ UNCHANGED <<hostVars, undelivered, revoked, revoker, shutVars, callVars, noteVars, closer, report,
                 faults>>

\* It may have settled an execution, whose result the bridge has yet to carry over.
ReturnOnce(w) ==
  /\ futures[w] = "running"
  /\ futures' = [futures EXCEPT ![w] = "done"]
  /\ undelivered' \in {undelivered, TRUE}
  /\ UNCHANGED <<hostVars, revoked, revoker, shutVars, callVars, noteVars, closer, report, faults>>

--------------------------------------------------------------------------------
(* _shutdown_resources, under _shutdown_lock, by whoever gets there.           *)

AtShutdown(a) ==
  \/ a = "coordinator" /\ coord = "shut"
  \/ a = "closer" /\ closer = "shut"
  \/ a \in Callers /\ calls[a] = "shut"

\* After it: the coordinator's thread ends with its verdict, a caller looks at the error.
Leave(a) ==
  /\ coord' = IF a = "coordinator" THEN "dead" ELSE coord
  /\ closer' = IF a = "closer" THEN "dead" ELSE closer
  /\ calls' = IF a \in Callers THEN [calls EXCEPT ![a] = "verdict"] ELSE calls
  /\ report' = IF a \in Callers THEN report
               ELSE Verdict(IF error' \/ (a = "coordinator" /\ state' = "failed") THEN "failed"
                                                                                  ELSE "completed")

Flushes(a) == a \in Callers \/ (a = "coordinator" /\ ready)

EnterShutdown(a) ==
  /\ AtShutdown(a)
  /\ shutting = Nobody
  /\ \/ /\ attempted
        /\ UNCHANGED <<state, error, futures, shutting, shutAt>>
        /\ Leave(a)
     \/ /\ ~attempted
        /\ shutting' = a
        /\ shutAt' = "pool"
        /\ futures' = [w \in Workers |-> IF futures[w] = "queued" THEN "done" ELSE futures[w]]
        /\ UNCHANGED <<state, coord, closer, calls, report, error>>
  /\ UNCHANGED <<stopping, ready, undelivered, revoked, revoker, runtime, attempted, answers, told,
                 stops, noteVars, faults>>

PoolMayClose == NoneRunning

\* executor.shutdown(wait=True)
ShutPool(a) ==
  /\ shutting = a
  /\ shutAt = "pool"
  /\ PoolMayClose
  /\ futures' = Collected
  /\ attempted' = TRUE
  /\ shutAt' = IF Flushes(a) THEN "flush" ELSE "close"
  /\ UNCHANGED <<hostVars, undelivered, revoked, revoker, runtime, shutting, error, callVars, noteVars,
                 closer, report, faults>>

\* It raises: a later stop may try again, with the runtime left open.
ShutPoolFails(a) ==
  /\ shutting = a
  /\ shutAt = "pool"
  /\ coord # "none"
  /\ Fault("pool")
  /\ error' = TRUE
  /\ state' = "failed"
  /\ shutting' = Nobody
  /\ shutAt' = "out"
  /\ Leave(a)
  /\ UNCHANGED <<stopping, ready, workVars, runtime, attempted, answers, told, stops, noteVars>>

FinalPump(a) ==
  /\ shutting = a
  /\ shutAt = "flush"
  /\ shutAt' = "close"
  /\ \/ undelivered' = FALSE /\ UNCHANGED <<state, error, faults>>
     \/ /\ Fault("bridge")
        /\ error' = TRUE
        /\ state' = "failed"
        /\ UNCHANGED undelivered
  /\ UNCHANGED <<stopping, coord, ready, futures, revoked, revoker, runtime, attempted, shutting,
                 callVars, noteVars, closer, report>>

CloseRuntime(a) ==
  /\ shutting = a
  /\ shutAt = "close"
  /\ \/ /\ runtime' = "closed"
        /\ state' = IF state = "failed" THEN state ELSE "stopped"
        /\ UNCHANGED <<error, faults>>
     \/ /\ Fault("close")
        /\ runtime' = "failed"
        /\ state' = "failed"
        /\ error' = TRUE
  /\ shutting' = Nobody
  /\ shutAt' = "out"
  /\ Leave(a)
  /\ UNCHANGED <<stopping, ready, workVars, attempted, answers, told, stops, noteVars>>

Closing == \E a \in Callers \union {"coordinator", "closer"} :
             EnterShutdown(a) \/ ShutPool(a) \/ ShutPoolFails(a) \/ FinalPump(a) \/ CloseRuntime(a)

--------------------------------------------------------------------------------
(* Callers of stop.                                                            *)

Awaits(c, place) == calls' = [calls EXCEPT ![c] = place]
Answer(c, what) == answers' = [answers EXCEPT ![c] = what] /\ Awaits(c, "join")

\* What stop finds decides whom it waits for.
StopBegins(c) ==
  /\ calls[c] = "out"
  /\ stops[c] < MaxStops
  /\ stops' = [stops EXCEPT ![c] = @ + 1]
  /\ told' = [told EXCEPT ![c] = "none"]
  /\ silent' = TRUE
  /\ IF state = "stopped" /\ closer = "none"
       THEN /\ report' = Verdict("completed")
            /\ Answer(c, "true")
            /\ UNCHANGED <<state, stopping>>
       ELSE /\ report' = Begun
            /\ stopping' = TRUE
            /\ state' = IF state = "failed" THEN state ELSE "stopping"
            /\ Awaits(c, IF coord = "none" THEN "alone" ELSE "graceful")
            /\ UNCHANGED answers
  /\ UNCHANGED <<coord, ready, workVars, shutVars, notifier, closer, faults>>

\* A host without a coordinator is closed by one thread for all callers.
StopAlone(c) ==
  /\ calls[c] = "alone"
  /\ \/ /\ closer' = IF closer \in {"none", "lost"} THEN "shut" ELSE closer
        /\ report' = IF closer = "lost" THEN "in_progress" ELSE report
        /\ Awaits(c, "joining")
        /\ UNCHANGED <<answers, faults>>
     \/ /\ closer \in {"none", "lost"}
        /\ Fault("thread")
        /\ closer' = "lost"
        /\ report' = "failed"
        /\ Answer(c, "raised")
  /\ UNCHANGED <<hostVars, workVars, shutVars, told, stops, noteVars>>

JoinCloser(c) ==
  /\ calls[c] = "joining"
  /\ closer = "dead"
  /\ Awaits(c, "verdict")
  /\ UNCHANGED <<hostVars, workVars, shutVars, answers, told, stops, noteVars, closer, report, faults>>

\* Half of a timeout is for the workers; then their authority is revoked.
Revoke(c) ==
  /\ calls[c] = "graceful"
  /\ c \in Bounded
  /\ coord # "dead"
  /\ \/ /\ revoker' = IF revoker = "none" THEN "running" ELSE revoker
        /\ Awaits(c, "forced")
        /\ UNCHANGED <<answers, faults>>
     \/ /\ revoker = "none"
        /\ Fault("thread")
        /\ Answer(c, "raised")
        /\ UNCHANGED revoker
  /\ UNCHANGED <<hostVars, futures, undelivered, revoked, shutVars, told, stops, noteVars, closer,
                 report>>

Expire(c) ==
  /\ \/ calls[c] = "joining" /\ closer # "dead"
     \/ calls[c] = "forced" /\ coord # "dead"
  /\ c \in Bounded
  /\ report' = Verdict("timed_out")
  /\ Answer(c, "false")
  /\ UNCHANGED <<hostVars, workVars, shutVars, told, stops, noteVars, closer, faults>>

JoinCoordinator(c) ==
  /\ calls[c] \in {"graceful", "forced"}
  /\ coord = "dead"
  /\ IF revoker = "lost" THEN Answer(c, "raised") ELSE Awaits(c, "shut") /\ UNCHANGED answers
  /\ UNCHANGED <<hostVars, workVars, shutVars, told, stops, noteVars, closer, report, faults>>

Looks(c) == IF error THEN "raised" ELSE "true"

StopEnds(c) ==
  /\ calls[c] = "verdict"
  /\ Answer(c, Looks(c))
  /\ report' = Verdict(IF Looks(c) = "raised" THEN "failed" ELSE "completed")
  /\ UNCHANGED <<hostVars, workVars, shutVars, told, stops, noteVars, closer, faults>>

Silenced == notifier \in {"off", "dead"}

\* OrchestratorHost.stop joins the notification thread as well.
JoinNotifier(c) ==
  /\ calls[c] = "join"
  /\ \/ Silenced /\ told' = [told EXCEPT ![c] = answers[c]]
     \/ /\ ~Silenced
        /\ c \in Bounded
        /\ told' = [told EXCEPT ![c] = IF answers[c] = "raised" THEN "raised" ELSE "false"]
  /\ Awaits(c, "out")
  /\ UNCHANGED <<hostVars, workVars, shutVars, answers, stops, noteVars, closer, report, faults>>

--------------------------------------------------------------------------------
(* The notification thread.                                                    *)

Deliver ==
  /\ notifier = "idle"
  /\ ~silent
  /\ notifier' = "calling"
  /\ UNCHANGED <<hostVars, workVars, shutVars, callVars, silent, closer, report, faults>>

CallbackReturns ==
  /\ notifier = "calling"
  /\ notifier' = "idle"
  /\ UNCHANGED <<hostVars, workVars, shutVars, callVars, silent, closer, report, faults>>

NotifierEnds ==
  /\ notifier = "idle"
  /\ silent
  /\ notifier' = "dead"
  /\ UNCHANGED <<hostVars, workVars, shutVars, callVars, silent, closer, report, faults>>

--------------------------------------------------------------------------------
Coordinate ==
  \/ BeginStartup \/ EndStartup \/ StopUnready \/ Turn \/ FillWorkers \/ DrainWorkers
  \/ CoordinatorFails \/ Finalize \/ Revoked
Stop(c) ==
  \/ StopBegins(c) \/ StopAlone(c) \/ JoinCloser(c) \/ Revoke(c) \/ Expire(c) \/ JoinCoordinator(c)
  \/ StopEnds(c) \/ JoinNotifier(c)

Next ==
  \/ Start \/ StartFails
  \/ Coordinate
  \/ RequestStop
  \/ Closing
  \/ \E w \in Workers : RunOnce(w) \/ ReturnOnce(w)
  \/ \E c \in Callers : Stop(c)
  \/ Deliver \/ CallbackReturns \/ NotifierEnds

Spec == Init /\ [][Next]_vars

\* Every thread of the host runs on. A run_once returns once its authority is
\* revoked, and may take forever before; a callback may take forever.
Fairness ==
  /\ WF_vars(Coordinate) /\ WF_vars(RequestStop) /\ WF_vars(Closing)
  /\ \A w \in Workers : WF_vars(RunOnce(w)) /\ WF_vars(revoked /\ ReturnOnce(w))
  /\ \A c \in Callers : WF_vars(StopAlone(c) \/ JoinCloser(c) \/ Revoke(c) \/ Expire(c)
                                \/ JoinCoordinator(c) \/ StopEnds(c) \/ JoinNotifier(c))
FairSpec == Spec /\ Fairness

--------------------------------------------------------------------------------
(* Properties.                                                                 *)

TypeOK ==
  /\ state \in {"new", "starting", "running", "stopping", "stopped", "failed"}
  /\ futures \in [Workers -> {"none", "queued", "running", "done"}]
  /\ runtime \in {"open", "closed", "failed"}
  /\ runtime # "open" => attempted
  /\ (shutting = Nobody) = (shutAt = "out")
  /\ report \in {"not_started", "in_progress", "timed_out", "completed", "failed"}
  /\ \A c \in Callers : told[c] \in {"none", "true", "false", "raised"}

\* _shutdown_resources, _run: the runtime and its database are closed only when no
\* run_once is under way and none will begin, whoever closes and whatever failed.
ClosedIsQuiet ==
  runtime # "open" => Quiet /\ coord \notin {"startup", "starting", "work", "fill", "drain"}

\* _shutdown_resources: what the workers produced was offered to the bridge once
\* more after the last of them returned - or the stop is reported as failed.
ResultsLeaveFirst == runtime # "open" /\ ready => ~undelivered \/ error

\* stop: "true" means that everything is closed and nothing failed; a failure is
\* told to every later caller; no caller is told both.
AnswersAreTrue ==
  /\ \A c \in Callers : told[c] = "true" =>
       runtime = "closed" /\ ~error /\ Quiet /\ notifier \in {"off", "dead"}
  /\ error => \A c \in Callers : told[c] # "true"

\* _finish_stop: the report says "completed" only of a host whose resources are closed.
ReportIsTrue == report = "completed" => runtime = "closed" /\ ~error

\* What a host that stops has done, and what it and its report say of it.
HostSafe ==
    /\ TypeOK
    /\ ClosedIsQuiet
    /\ ResultsLeaveFirst
    /\ AnswersAreTrue
    /\ ReportIsTrue

\* _begin_stop, _finish_stop: neither a later stop nor an expired deadline replaces a
\* verdict; "completed" may still turn into "failed", and "failed" is taken back only
\* when no thread could be had for the shutdown and a later call finds one.
Stands ==
  /\ report = "failed" /\ closer # "lost" => report' = "failed"
  /\ report = "completed" => report' \in {"completed", "failed"}
VerdictIsFinal == [][Stands]_vars

\* start: a host that was told to stop is not shown as running, so that a second
\* start of it is refused.
StopIsShown == stopping => state \notin {"starting", "running"}

\* stop(timeout): once a bounded stop has spent half of its time, the resources are
\* closed, or were given up, even if the handlers would never have returned.
StopCloses ==
  \A c \in Callers : calls[c] = "forced" ~> runtime # "open" \/ error

\* Every call of stop of a bounded caller returns.
CallersReturn == \A c \in Bounded : calls[c] # "out" ~> calls[c] = "out"
================================================================================
