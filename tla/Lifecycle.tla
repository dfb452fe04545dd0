----------------------------- MODULE Lifecycle ------------------------------
(***************************************************************************)
(* The life of one process: fxapp's hooks, started in order and stopped in *)
(* reverse, the work of the components they start and stop, and the        *)
(* connection pool that all of that work uses.                             *)
(*                                                                         *)
(* job is what a component has in hand: nothing, work without a            *)
(* connection, or work inside an SQL transaction ("sql").  One job stands  *)
(* for all requests, batches or passes of the component.                   *)
(*                                                                         *)
(* Time only matters while a stop hook waits.  Nothing in hand is sure to  *)
(* end: requests and messages are not cancelled (context.WithoutCancel in  *)
(* the consumer's loop), and although the outbox publisher and the pending *)
(* worker run under the context that their Stop cancels, UnitOfWork rolls  *)
(* back under context.WithoutCancel, without a deadline of its own.        *)
(***************************************************************************)
EXTENDS Integers, Sequences, FiniteSets

CONSTANTS
  WorkerShutdownTimeout,
  HTTPShutdownTimeout,
  StopSlack,              \* the 5 seconds New adds to the two
  StartTimeout            \* fx.StartTimeout, also the time a rollback has

ASSUME TimeoutsAssumption ==
  /\ WorkerShutdownTimeout \in Nat \ {0} /\ HTTPShutdownTimeout \in Nat \ {0}
  /\ StopSlack \in Nat \ {0} /\ StartTimeout \in Nat \ {0}

VARIABLES
  phase,      \* "new", "starting", "running", "stopping", "exited"
  enabled,    \* the components the configuration turns on
  hook,       \* hooks started and not yet stopped (fx: numStarted)
  calling,    \* the OnStop of hook is running
  left,       \* time left of the context of Start or Stop
  timer,      \* time left of the hook's own context
  loopTime,   \* history: the time that stopping the loops has taken
  rollback,   \* the stop follows a failed start
  comp,       \* "off", "on", "asked" (to stop), "ended"
  job,        \* "none", "cpu", "sql"
  pool,       \* "open", "closing", "closed"
  errs,       \* components whose stop timed out
  refused,    \* components whose work met a closed pool
  code        \* exit status

lifecycle == << phase, enabled, hook, calling, left, timer, loopTime, rollback, errs, code >>
vars      == << lifecycle, comp, job, pool, refused >>

\* Mutant of Hooks: the pool is first asked for by the HTTP module.
HooksPoolLate == << "consumer", "pool", "http", "outbox", "pending" >>

\* The order of the appended hooks.
Hooks == << "pool", "consumer", "http", "outbox", "pending" >>

Components == {"consumer", "http", "outbox", "pending"}
Loops      == {"outbox", "pending"}      \* workers.loop

\* Mutant of StopTimeout: no time for the loops.
StopTimeoutExact == WorkerShutdownTimeout + HTTPShutdownTimeout

StopTimeout == WorkerShutdownTimeout + HTTPShutdownTimeout + StopSlack

Deadline(c) == IF c = "http" THEN HTTPShutdownTimeout ELSE WorkerShutdownTimeout

-----------------------------------------------------------------------------
(* New and Run *)

Exit(status) ==
  /\ phase' = "exited"
  /\ code' = status
  /\ UNCHANGED << enabled, hook, calling, left, timer, loopTime, rollback, errs, comp, job, pool, refused >>

\* The providers run: pool, migrations, verifier, queue URLs.
Construct ==
  /\ phase = "new"
  /\ phase' = "starting"
  /\ left' = StartTimeout
  /\ UNCHANGED << enabled, hook, calling, timer, loopTime, rollback, errs, code, comp, job, pool, refused >>

ConstructFails == phase = "new" /\ Exit(1)

\* The next hook that was appended.  The queue URLs are cached by then: only
\* listening can fail.
StartHook ==
  LET c == Hooks[hook + 1]
  IN /\ phase = "starting" /\ hook < Len(Hooks)
     /\ hook' = hook + 1
     /\ comp' = IF c \in enabled THEN [comp EXCEPT ![c] = "on"] ELSE comp
     /\ UNCHANGED << phase, enabled, calling, left, timer, loopTime, rollback, errs, code, job, pool, refused >>

\* net.Listen fails: fx stops what has started, under the context of Start.
ListenFails ==
  /\ phase = "starting" /\ hook < Len(Hooks) /\ Hooks[hook + 1] = "http"
  /\ phase' = "stopping"
  /\ rollback' = TRUE
  /\ UNCHANGED << enabled, hook, calling, left, timer, loopTime, errs, code, comp, job, pool, refused >>

Started ==
  /\ phase = "starting" /\ hook = Len(Hooks)
  /\ phase' = "running"
  /\ UNCHANGED << enabled, hook, calling, left, timer, loopTime, rollback, errs, code, comp, job, pool, refused >>

\* SIGTERM.
Signal ==
  /\ phase = "running"
  /\ phase' = "stopping"
  /\ left' = StopTimeout
  /\ UNCHANGED << enabled, hook, calling, timer, loopTime, rollback, errs, code, comp, job, pool, refused >>

-----------------------------------------------------------------------------
(* Stop *)

Stopping(c) == phase = "stopping" /\ hook > 0 /\ Hooks[hook] = c

\* fx calls the next OnStop unless its own context is done.
CallStop(c) ==
  /\ Stopping(c) /\ ~calling /\ left > 0
  /\ c \in enabled
  /\ comp' = [comp EXCEPT ![c] = "asked"]
  /\ calling' = TRUE
  /\ timer' = Deadline(c)
  /\ UNCHANGED << phase, enabled, hook, left, loopTime, rollback, errs, code, job, pool, refused >>

\* A disabled component has no hook.
NoHook(c) ==
  /\ Stopping(c) /\ c \notin enabled
  /\ hook' = hook - 1
  /\ UNCHANGED << phase, enabled, calling, left, timer, loopTime, rollback, errs, code, comp, job, pool, refused >>

\* The goroutines are done: loop.stop, Consumer.Stop or Shutdown returns.
StopReturns(c) ==
  /\ Stopping(c) /\ calling /\ comp[c] = "ended"
  /\ hook' = hook - 1
  /\ calling' = FALSE
  /\ UNCHANGED << phase, enabled, left, timer, loopTime, rollback, errs, code, comp, job, pool, refused >>

\* Mutant of StopTimesOut: the hook is given another deadline.
StopTimesOutAgain(c) ==
  /\ Stopping(c) /\ calling /\ timer = 0
  /\ errs' = errs \cup {c}
  /\ timer' = Deadline(c)
  /\ UNCHANGED << phase, enabled, hook, calling, left, loopTime, rollback, code, comp, job, pool, refused >>

\* The hook's context is done first.  fx notes the error and goes on.
StopTimesOut(c) ==
  /\ Stopping(c) /\ calling /\ timer = 0
  /\ errs' = errs \cup {c}
  /\ hook' = hook - 1
  /\ calling' = FALSE
  /\ UNCHANGED << phase, enabled, left, timer, loopTime, rollback, code, comp, job, pool, refused >>

\* pool.Close turns new acquisitions away and waits for the connections in use.
ClosePool ==
  /\ Stopping("pool") /\ ~calling /\ left > 0
  /\ calling' = TRUE
  /\ pool' = "closing"
  /\ UNCHANGED << phase, enabled, hook, left, timer, loopTime, rollback, errs, code, comp, job, refused >>

PoolClosed ==
  /\ Stopping("pool") /\ calling
  /\ \A c \in Components : job[c] # "sql"
  /\ pool' = "closed"
  /\ hook' = hook - 1
  /\ calling' = FALSE
  /\ UNCHANGED << phase, enabled, left, timer, loopTime, rollback, errs, code, comp, job, refused >>

\* Mutant of Stopped: a hook's error is only logged.
StoppedAnyway ==
  /\ phase = "stopping" /\ hook = 0 /\ left > 0
  /\ Exit(IF ~rollback THEN 0 ELSE 1)

\* Every hook has returned.
Stopped ==
  /\ phase = "stopping" /\ hook = 0 /\ left > 0
  /\ Exit(IF errs = {} /\ ~rollback THEN 0 ELSE 1)

\* Mutant of StopDeadline: seen only between two hooks.
StopDeadlineBetween == phase = "stopping" /\ left = 0 /\ ~calling /\ Exit(1)

\* The context of Stop is done: Run returns, whatever hook is still running.
StopDeadline == phase = "stopping" /\ left = 0 /\ Exit(1)

\* A waiting hook cannot return yet and nothing is due: a connection is in use,
\* or the component has work in hand (an idle goroutine ends at once).
Waiting ==
  \/ Stopping("pool") /\ \E c \in Components : job[c] = "sql"
  \/ \E c \in Components : Stopping(c) /\ timer > 0 /\ job[c] # "none"

Pass ==
  /\ left' = left - 1
  /\ timer' = IF Stopping("pool") THEN timer ELSE timer - 1
  /\ loopTime' = IF \E c \in Loops : Stopping(c) THEN loopTime + 1 ELSE loopTime
  /\ UNCHANGED << phase, enabled, hook, calling, rollback, errs, code, comp, job, pool, refused >>

\* Time passes while a hook waits, and never past what must happen by now.
Tick == calling /\ left > 0 /\ Waiting /\ Pass

-----------------------------------------------------------------------------
(* The work of the components *)

Alive == phase \in {"starting", "running", "stopping"}

\* A request, a batch or a tick.  The last one may begin after the stop was
\* asked for: it was on its way, or select took the timer's case.
Begin(c) ==
  /\ Alive /\ comp[c] \in {"on", "asked"} /\ job[c] = "none"
  /\ job' = [job EXCEPT ![c] = "cpu"]
  /\ UNCHANGED << lifecycle, comp, pool, refused >>

Cancelled(c) == c \in Loops /\ comp[c] = "asked"

\* pgxpool.Acquire, at the head of UnitOfWork.Do.
Acquire(c) ==
  /\ Alive /\ job[c] = "cpu" /\ pool = "open" /\ ~Cancelled(c)
  /\ job' = [job EXCEPT ![c] = "sql"]
  /\ UNCHANGED << lifecycle, comp, pool, refused >>

\* The pool is closed: an error like any other to the caller.
AcquireRefused(c) ==
  /\ Alive /\ job[c] = "cpu" /\ pool # "open" /\ ~Cancelled(c)
  /\ refused' = refused \cup {c}
  /\ UNCHANGED << lifecycle, comp, job, pool >>

\* Commit or Rollback.
Release(c) ==
  /\ Alive /\ job[c] = "sql"
  /\ job' = [job EXCEPT ![c] = "cpu"]
  /\ UNCHANGED << lifecycle, comp, pool, refused >>

\* The loop looks at its context after every batch or tick.
Finish(c) ==
  /\ Alive /\ job[c] = "cpu"
  /\ job' = [job EXCEPT ![c] = "none"]
  /\ comp' = [comp EXCEPT ![c] = IF @ = "asked" THEN "ended" ELSE @]
  /\ UNCHANGED << lifecycle, pool, refused >>

\* An idle goroutine sees the cancelled context; Shutdown sees no request.
End(c) ==
  /\ Alive /\ comp[c] = "asked" /\ job[c] = "none"
  /\ comp' = [comp EXCEPT ![c] = "ended"]
  /\ UNCHANGED << lifecycle, job, pool, refused >>

-----------------------------------------------------------------------------

Init ==
  /\ phase = "new"
  /\ enabled \in {{"http"} \cup S : S \in SUBSET {"consumer", "outbox", "pending"}}
  /\ hook = 0 /\ calling = FALSE /\ left = 0 /\ timer = 0 /\ loopTime = 0
  /\ rollback = FALSE
  /\ comp = [c \in Components |-> "off"]
  /\ job = [c \in Components |-> "none"]
  /\ pool = "open"
  /\ errs = {} /\ refused = {}
  /\ code = 0

\* fx and the hooks.
Manage ==
  \/ Construct \/ StartHook \/ Started
  \/ \E c \in Components : CallStop(c) \/ NoHook(c) \/ StopReturns(c) \/ StopTimesOut(c)
  \/ ClosePool \/ PoolClosed \/ Stopped \/ StopDeadline \/ Tick

Work(c) == Acquire(c) \/ AcquireRefused(c) \/ Release(c) \/ Finish(c) \/ End(c)

Next ==
  \/ Manage
  \/ ConstructFails \/ ListenFails \/ Signal
  \/ \E c \in Components : Begin(c) \/ Work(c)

Spec == Init /\ [][Next]_vars

\* fx goes on, time passes, and an idle goroutine sees its cancelled context.
\* Nothing is assumed of the work in hand: a request, a message or a pass may
\* take for ever.
FairSpec == Spec /\ WF_vars(Manage) /\ \A c \in Components : WF_vars(End(c))

-----------------------------------------------------------------------------

\* The state of fx and of the components has its shape.
TypeOK ==
  /\ phase \in {"new", "starting", "running", "stopping", "exited"}
  /\ enabled \subseteq Components
  /\ hook \in 0 .. Len(Hooks) /\ calling \in BOOLEAN
  /\ left \in Nat /\ timer \in Nat /\ loopTime \in Nat
  /\ rollback \in BOOLEAN
  /\ comp \in [Components -> {"off", "on", "asked", "ended"}]
  /\ job \in [Components -> {"none", "cpu", "sql"}]
  /\ pool \in {"open", "closing", "closed"}
  /\ errs \subseteq Components /\ refused \subseteq Components
  /\ code \in {0, 1}

\* "Runs last": the pool closes only after every component was asked to stop
\* and either ended or used up its deadline, after a failed start too; so
\* only work that outlived its deadline can meet a closed pool.
PoolClosesLast ==
  /\ pool # "open" => \A c \in Components : comp[c] \in {"off", "ended"} \/ c \in errs
  /\ refused \subseteq errs

\* The stop of c is behind fx, or its own deadline has run out.
HadDeadline(c) ==
  \E i \in DOMAIN Hooks : Hooks[i] = c /\ (hook < i \/ (hook = i /\ calling /\ timer = 0))

\* What the sum in New pays for.  It counts one deadline of the workers, while
\* three components have it: when the deadline of the whole stop ends the
\* process, the consumer had its own in full if the two loops before it took
\* no more than the slack, and the HTTP server had its own even if one loop
\* hung for all of its deadline.
DeadlinesKept ==
  phase \in {"stopping", "exited"} /\ ~rollback /\ left = 0 =>
    /\ loopTime <= StopSlack => HadDeadline("consumer")
    /\ loopTime <= WorkerShutdownTimeout + StopSlack => HadDeadline("http")

\* Exit status 0 means a clean end: nothing in hand, nothing turned away,
\* nothing left running, the pool closed.
CleanExit ==
  phase = "exited" /\ code = 0 =>
    /\ \A c \in Components : job[c] = "none" /\ comp[c] \in {"off", "ended"}
    /\ refused = {} /\ pool = "closed"

\* What the stop still has to do: a call and a return for every hook, and the
\* time that is left.
Remaining == 2 * hook - (IF calling THEN 1 ELSE 0) + left

\* Once a stop has begun, everything fx does brings its end nearer and nothing
\* that requests, messages and passes do moves it away: no hook is called
\* twice and no wait is prolonged, after a failed start too.
StopAdvances ==
  [][phase = "stopping" =>
       \/ phase' = "exited"
       \/ phase' = "stopping" /\ Remaining' <= Remaining /\ (Manage => Remaining' < Remaining)]_vars

\* A stop ends, although a request, a message or a connection may hang.
StopEnds == phase = "stopping" ~> phase = "exited"

=============================================================================
