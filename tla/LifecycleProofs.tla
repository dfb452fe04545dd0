-------------------------- MODULE LifecycleProofs ---------------------------
(***************************************************************************)
(* Theorems about Lifecycle for all deadlines: the order of the stop and   *)
(* the time every component has for it.                                    *)
(***************************************************************************)
EXTENDS Lifecycle, TLAPS

\* The order that New and the providers give the hooks.
LEMMA HookOrder ==
  /\ Len(Hooks) = 5 /\ DOMAIN Hooks = 1 .. 5
  /\ Hooks[1] = "pool" /\ Hooks[2] = "consumer" /\ Hooks[3] = "http"
  /\ Hooks[4] = "outbox" /\ Hooks[5] = "pending"
  BY DEF Hooks

\* Every component has one hook.
LEMMA HookOf ==
  /\ \A i \in 1 .. 5 : Hooks[i] # "pool" => Hooks[i] \in Components /\ i > 1
  /\ \A c \in Components : \E i \in 2 .. 5 : Hooks[i] = c
  /\ \A i, j \in 1 .. 5 : Hooks[i] = Hooks[j] => i = j
<1>1. \A i \in 1 .. 5 : i = 1 \/ i = 2 \/ i = 3 \/ i = 4 \/ i = 5
  OBVIOUS
<1>2. \A i \in 1 .. 5 : Hooks[i] # "pool" => Hooks[i] \in Components /\ i > 1
  BY <1>1, HookOrder DEF Components
<1>3. \A c \in Components : \E i \in 2 .. 5 : Hooks[i] = c
  BY HookOrder DEF Components
<1>4. \A i, j \in 1 .. 5 : Hooks[i] = Hooks[j] => i = j
  BY <1>1, HookOrder
<1> QED
  BY <1>2, <1>3, <1>4

-----------------------------------------------------------------------------
(* Invariants *)

\* A component whose stop is behind it: never started, ended, or out of time.
Behind(c) == comp[c] \in {"off", "ended"} \/ c \in errs

\* fx has started the hooks up to hook, and stopped those after it.
OrderInv ==
  /\ phase \in {"new", "starting"} =>
       /\ ~calling /\ ~rollback
       /\ \A i \in 2 .. 5 : i > hook => comp[Hooks[i]] = "off"
  /\ phase = "new" => hook = 0
  /\ phase = "running" => hook = 5 /\ ~calling /\ ~rollback
  /\ phase = "stopping" \/ (phase = "exited" /\ hook > 0) =>
       \A i \in 2 .. 5 : i > hook => Behind(Hooks[i])
  /\ phase = "exited" /\ hook = 0 => code = 1 \/ \A i \in 2 .. 5 : Behind(Hooks[i])
  /\ \A c \in Components : c \notin enabled => comp[c] = "off"
  /\ calling => hook > 0 /\ (hook > 1 => Hooks[hook] \in enabled)

\* Only a component that has not ended has work in hand.
JobInv == \A c \in Components : job[c] # "none" => comp[c] \in {"on", "asked"}

\* The pool is the last to stop, and it is closed when its hook is done.
PoolInv ==
  /\ pool # "open" => phase \in {"stopping", "exited"} /\ hook <= 1
  /\ pool # "open" => \A i \in 2 .. 5 : Behind(Hooks[i])
  /\ phase = "stopping" /\ hook = 0 => pool = "closed"
  /\ refused \subseteq errs

\* What a status of 0 says.
ExitInv ==
  phase = "exited" /\ code = 0 => hook = 0 /\ errs = {} /\ pool = "closed"

\* The time left, with what the loops took, covers what is left of this hook
\* and the full deadlines of those to come.
TimeInv ==
  /\ phase \in {"new", "starting", "running"} => loopTime = 0
  /\ phase \in {"stopping", "exited"} /\ ~rollback =>
       /\ hook \in {4, 5} => left + loopTime = StopTimeout
       /\ hook = 3 /\ ~calling => left + loopTime >= StopTimeout
       /\ hook = 3 /\ calling => left + loopTime >= WorkerShutdownTimeout + StopSlack + timer
       /\ hook = 2 /\ ~calling => left + loopTime >= WorkerShutdownTimeout + StopSlack
       /\ hook = 2 /\ calling => left + loopTime >= StopSlack + timer

Inv == TypeOK /\ OrderInv /\ JobInv /\ PoolInv /\ ExitInv /\ TimeInv

-----------------------------------------------------------------------------
(* Steps *)

\* Every step keeps the types; time never goes below zero.
LEMMA TypeStep ==
  ASSUME TypeOK, [Next]_vars
  PROVE  TypeOK'
<1>1. CASE Construct
  BY <1>1, HookOrder, TimeoutsAssumption DEF Construct, TypeOK, StopTimeout, Deadline
<1>2. CASE ConstructFails
  BY <1>2, HookOrder, TimeoutsAssumption DEF ConstructFails, Exit, TypeOK, StopTimeout,
     Deadline
<1>3. CASE StartHook
  BY <1>3, HookOrder, TimeoutsAssumption DEF StartHook, TypeOK, StopTimeout, Deadline
<1>4. CASE ListenFails
  BY <1>4, HookOrder, TimeoutsAssumption DEF ListenFails, TypeOK, StopTimeout, Deadline
<1>5. CASE Started
  BY <1>5, HookOrder, TimeoutsAssumption DEF Started, TypeOK, StopTimeout, Deadline
<1>6. CASE Signal
  BY <1>6, HookOrder, TimeoutsAssumption DEF Signal, TypeOK, StopTimeout, Deadline
<1>7. ASSUME NEW c \in Components, CallStop(c) PROVE TypeOK'
  BY <1>7, HookOrder, TimeoutsAssumption DEF CallStop, Stopping, TypeOK, StopTimeout,
     Deadline
<1>8. ASSUME NEW c \in Components, NoHook(c) PROVE TypeOK'
  BY <1>8, HookOrder, TimeoutsAssumption DEF NoHook, Stopping, TypeOK, StopTimeout, Deadline
<1>9. ASSUME NEW c \in Components, StopReturns(c) PROVE TypeOK'
  <2>1. hook - 1 \in 0 .. Len(Hooks) /\ FALSE \in BOOLEAN
    BY <1>9, HookOrder DEF StopReturns, Stopping, TypeOK
  <2> QED
    BY <1>9, <2>1 DEF StopReturns, Stopping, TypeOK
<1>10. ASSUME NEW c \in Components, StopTimesOut(c) PROVE TypeOK'
  <2>1. hook - 1 \in 0 .. Len(Hooks) /\ FALSE \in BOOLEAN
    BY <1>10, HookOrder DEF StopTimesOut, Stopping, TypeOK
  <2> QED
    BY <1>10, <2>1 DEF StopTimesOut, Stopping, TypeOK
<1>11. CASE ClosePool
  BY <1>11, HookOrder, TimeoutsAssumption DEF ClosePool, Stopping, TypeOK, StopTimeout,
     Deadline
<1>12. CASE PoolClosed
  <2>1. hook - 1 \in 0 .. Len(Hooks) /\ FALSE \in BOOLEAN
    BY <1>12, HookOrder DEF PoolClosed, Stopping, TypeOK
  <2> QED
    BY <1>12, <2>1 DEF PoolClosed, Stopping, TypeOK
<1>13. CASE Stopped
  BY <1>13, HookOrder, TimeoutsAssumption DEF Stopped, Exit, TypeOK, StopTimeout, Deadline
<1>14. CASE StopDeadline
  BY <1>14, HookOrder, TimeoutsAssumption DEF StopDeadline, Exit, TypeOK, StopTimeout,
     Deadline
<1>15. CASE Tick
  BY <1>15, HookOrder, TimeoutsAssumption DEF Tick, Pass, Waiting, Stopping, TypeOK,
     StopTimeout, Deadline
<1>16. ASSUME NEW c \in Components, Begin(c) PROVE TypeOK'
  BY <1>16, HookOrder, TimeoutsAssumption DEF Begin, lifecycle, TypeOK, StopTimeout,
     Deadline
<1>17. ASSUME NEW c \in Components, Acquire(c) PROVE TypeOK'
  BY <1>17, HookOrder, TimeoutsAssumption DEF Acquire, lifecycle, TypeOK, StopTimeout,
     Deadline
<1>18. ASSUME NEW c \in Components, AcquireRefused(c) PROVE TypeOK'
  BY <1>18, HookOrder, TimeoutsAssumption DEF AcquireRefused, lifecycle, TypeOK,
     StopTimeout, Deadline
<1>19. ASSUME NEW c \in Components, Release(c) PROVE TypeOK'
  BY <1>19, HookOrder, TimeoutsAssumption DEF Release, lifecycle, TypeOK, StopTimeout,
     Deadline
<1>20. ASSUME NEW c \in Components, Finish(c) PROVE TypeOK'
  BY <1>20, HookOrder, TimeoutsAssumption DEF Finish, lifecycle, TypeOK, StopTimeout,
     Deadline
<1>21. ASSUME NEW c \in Components, End(c) PROVE TypeOK'
  BY <1>21, HookOrder, TimeoutsAssumption DEF End, lifecycle, TypeOK, StopTimeout, Deadline
<1>22. CASE UNCHANGED vars
  BY <1>22 DEF vars, lifecycle, TypeOK, StopTimeout, Deadline
<1> QED
  BY <1>1, <1>2, <1>3, <1>4, <1>5, <1>6, <1>7, <1>8, <1>9, <1>10, <1>11,
  <1>12, <1>13, <1>14, <1>15, <1>16, <1>17, <1>18, <1>19, <1>20, <1>21, <1>22
  DEF Next, Manage, Work

\* Every step keeps the order of starts and stops.
LEMMA OrderStep ==
  ASSUME TypeOK, OrderInv, [Next]_vars
  PROVE  OrderInv'
<1>1. CASE Construct
  BY <1>1, HookOrder, HookOf DEF Construct, TypeOK, OrderInv, Behind
<1>2. CASE ConstructFails
  BY <1>2, HookOrder, HookOf DEF ConstructFails, Exit, TypeOK, OrderInv, Behind
<1>3. CASE StartHook
  BY <1>3, HookOrder, HookOf DEF StartHook, TypeOK, OrderInv, Behind
<1>4. CASE ListenFails
  BY <1>4, HookOrder, HookOf DEF ListenFails, TypeOK, OrderInv, Behind
<1>5. CASE Started
  BY <1>5, HookOrder, HookOf DEF Started, TypeOK, OrderInv, Behind
<1>6. CASE Signal
  BY <1>6, HookOrder, HookOf DEF Signal, TypeOK, OrderInv, Behind
<1>7. ASSUME NEW c \in Components, CallStop(c) PROVE OrderInv'
  BY <1>7, HookOrder, HookOf DEF CallStop, Stopping, TypeOK, OrderInv, Behind
<1>8. ASSUME NEW c \in Components, NoHook(c) PROVE OrderInv'
  BY <1>8, HookOrder, HookOf DEF NoHook, Stopping, TypeOK, OrderInv, Behind
<1>9. ASSUME NEW c \in Components, StopReturns(c) PROVE OrderInv'
  BY <1>9, HookOrder, HookOf DEF StopReturns, Stopping, TypeOK, OrderInv, Behind
<1>10. ASSUME NEW c \in Components, StopTimesOut(c) PROVE OrderInv'
  BY <1>10, HookOrder, HookOf DEF StopTimesOut, Stopping, TypeOK, OrderInv, Behind
<1>11. CASE ClosePool
  BY <1>11, HookOrder, HookOf DEF ClosePool, Stopping, TypeOK, OrderInv, Behind
<1>12. CASE PoolClosed
  BY <1>12, HookOrder, HookOf DEF PoolClosed, Stopping, TypeOK, OrderInv, Behind
<1>13. CASE Stopped
  BY <1>13, HookOrder, HookOf DEF Stopped, Exit, TypeOK, OrderInv, Behind
<1>14. CASE StopDeadline
  BY <1>14, HookOrder, HookOf DEF StopDeadline, Exit, TypeOK, OrderInv, Behind
<1>15. CASE Tick
  BY <1>15, HookOrder, HookOf DEF Tick, Pass, Waiting, Stopping, TypeOK, OrderInv, Behind
<1>16. ASSUME NEW c \in Components, Begin(c) PROVE OrderInv'
  BY <1>16, HookOrder, HookOf DEF Begin, lifecycle, TypeOK, OrderInv, Behind
<1>17. ASSUME NEW c \in Components, Acquire(c) PROVE OrderInv'
  BY <1>17, HookOrder, HookOf DEF Acquire, lifecycle, TypeOK, OrderInv, Behind
<1>18. ASSUME NEW c \in Components, AcquireRefused(c) PROVE OrderInv'
  BY <1>18, HookOrder, HookOf DEF AcquireRefused, lifecycle, TypeOK, OrderInv, Behind
<1>19. ASSUME NEW c \in Components, Release(c) PROVE OrderInv'
  BY <1>19, HookOrder, HookOf DEF Release, lifecycle, TypeOK, OrderInv, Behind
<1>20. ASSUME NEW c \in Components, Finish(c) PROVE OrderInv'
  BY <1>20, HookOrder, HookOf DEF Finish, lifecycle, TypeOK, OrderInv, Behind
<1>21. ASSUME NEW c \in Components, End(c) PROVE OrderInv'
  BY <1>21, HookOrder, HookOf DEF End, lifecycle, TypeOK, OrderInv, Behind
<1>22. CASE UNCHANGED vars
  BY <1>22 DEF vars, lifecycle, TypeOK, OrderInv, Behind
<1> QED
  BY <1>1, <1>2, <1>3, <1>4, <1>5, <1>6, <1>7, <1>8, <1>9, <1>10, <1>11,
  <1>12, <1>13, <1>14, <1>15, <1>16, <1>17, <1>18, <1>19, <1>20, <1>21, <1>22
  DEF Next, Manage, Work

\* Work begins and ends with its component.
LEMMA JobStep ==
  ASSUME TypeOK, OrderInv, JobInv, [Next]_vars
  PROVE  JobInv'
<1>1. CASE Construct
  BY <1>1, HookOrder, HookOf DEF Construct, TypeOK, OrderInv, JobInv, Alive
<1>2. CASE ConstructFails
  BY <1>2, HookOrder, HookOf DEF ConstructFails, Exit, TypeOK, OrderInv, JobInv, Alive
<1>3. CASE StartHook
  BY <1>3, HookOrder, HookOf DEF StartHook, TypeOK, OrderInv, JobInv, Alive
<1>4. CASE ListenFails
  BY <1>4, HookOrder, HookOf DEF ListenFails, TypeOK, OrderInv, JobInv, Alive
<1>5. CASE Started
  BY <1>5, HookOrder, HookOf DEF Started, TypeOK, OrderInv, JobInv, Alive
<1>6. CASE Signal
  BY <1>6, HookOrder, HookOf DEF Signal, TypeOK, OrderInv, JobInv, Alive
<1>7. ASSUME NEW c \in Components, CallStop(c) PROVE JobInv'
  BY <1>7, HookOrder, HookOf DEF CallStop, Stopping, TypeOK, OrderInv, JobInv, Alive
<1>8. ASSUME NEW c \in Components, NoHook(c) PROVE JobInv'
  BY <1>8, HookOrder, HookOf DEF NoHook, Stopping, TypeOK, OrderInv, JobInv, Alive
<1>9. ASSUME NEW c \in Components, StopReturns(c) PROVE JobInv'
  BY <1>9, HookOrder, HookOf DEF StopReturns, Stopping, TypeOK, OrderInv, JobInv, Alive
<1>10. ASSUME NEW c \in Components, StopTimesOut(c) PROVE JobInv'
  BY <1>10, HookOrder, HookOf DEF StopTimesOut, Stopping, TypeOK, OrderInv, JobInv, Alive
<1>11. CASE ClosePool
  BY <1>11, HookOrder, HookOf DEF ClosePool, Stopping, TypeOK, OrderInv, JobInv, Alive
<1>12. CASE PoolClosed
  BY <1>12, HookOrder, HookOf DEF PoolClosed, Stopping, TypeOK, OrderInv, JobInv, Alive
<1>13. CASE Stopped
  BY <1>13, HookOrder, HookOf DEF Stopped, Exit, TypeOK, OrderInv, JobInv, Alive
<1>14. CASE StopDeadline
  BY <1>14, HookOrder, HookOf DEF StopDeadline, Exit, TypeOK, OrderInv, JobInv, Alive
<1>15. CASE Tick
  BY <1>15, HookOrder, HookOf DEF Tick, Pass, Waiting, Stopping, TypeOK, OrderInv, JobInv,
     Alive
<1>16. ASSUME NEW c \in Components, Begin(c) PROVE JobInv'
  BY <1>16, HookOrder, HookOf DEF Begin, lifecycle, TypeOK, OrderInv, JobInv, Alive
<1>17. ASSUME NEW c \in Components, Acquire(c) PROVE JobInv'
  BY <1>17, HookOrder, HookOf DEF Acquire, lifecycle, TypeOK, OrderInv, JobInv, Alive
<1>18. ASSUME NEW c \in Components, AcquireRefused(c) PROVE JobInv'
  BY <1>18, HookOrder, HookOf DEF AcquireRefused, lifecycle, TypeOK, OrderInv, JobInv, Alive
<1>19. ASSUME NEW c \in Components, Release(c) PROVE JobInv'
  BY <1>19, HookOrder, HookOf DEF Release, lifecycle, TypeOK, OrderInv, JobInv, Alive
<1>20. ASSUME NEW c \in Components, Finish(c) PROVE JobInv'
  BY <1>20, HookOrder, HookOf DEF Finish, lifecycle, TypeOK, OrderInv, JobInv, Alive
<1>21. ASSUME NEW c \in Components, End(c) PROVE JobInv'
  BY <1>21, HookOrder, HookOf DEF End, lifecycle, TypeOK, OrderInv, JobInv, Alive
<1>22. CASE UNCHANGED vars
  BY <1>22 DEF vars, lifecycle, TypeOK, OrderInv, JobInv, Alive
<1> QED
  BY <1>1, <1>2, <1>3, <1>4, <1>5, <1>6, <1>7, <1>8, <1>9, <1>10, <1>11,
  <1>12, <1>13, <1>14, <1>15, <1>16, <1>17, <1>18, <1>19, <1>20, <1>21, <1>22
  DEF Next, Manage, Work

\* The pool closes behind everything else.
LEMMA PoolStep ==
  ASSUME TypeOK, OrderInv, JobInv, PoolInv, [Next]_vars
  PROVE  PoolInv'
<1>1. CASE Construct
  BY <1>1, HookOrder, HookOf DEF Construct, TypeOK, OrderInv, JobInv, PoolInv, Behind
<1>2. CASE ConstructFails
  BY <1>2, HookOrder, HookOf DEF ConstructFails, Exit, TypeOK, OrderInv, JobInv, PoolInv,
     Behind
<1>3. CASE StartHook
  BY <1>3, HookOrder, HookOf DEF StartHook, TypeOK, OrderInv, JobInv, PoolInv, Behind
<1>4. CASE ListenFails
  BY <1>4, HookOrder, HookOf DEF ListenFails, TypeOK, OrderInv, JobInv, PoolInv, Behind
<1>5. CASE Started
  BY <1>5, HookOrder, HookOf DEF Started, TypeOK, OrderInv, JobInv, PoolInv, Behind
<1>6. CASE Signal
  BY <1>6, HookOrder, HookOf DEF Signal, TypeOK, OrderInv, JobInv, PoolInv, Behind
<1>7. ASSUME NEW c \in Components, CallStop(c) PROVE PoolInv'
  BY <1>7, HookOrder, HookOf DEF CallStop, Stopping, TypeOK, OrderInv, JobInv, PoolInv,
     Behind
<1>8. ASSUME NEW c \in Components, NoHook(c) PROVE PoolInv'
  BY <1>8, HookOrder, HookOf DEF NoHook, Stopping, TypeOK, OrderInv, JobInv, PoolInv, Behind
<1>9. ASSUME NEW c \in Components, StopReturns(c) PROVE PoolInv'
  BY <1>9, HookOrder, HookOf DEF StopReturns, Stopping, TypeOK, OrderInv, JobInv, PoolInv,
     Behind
<1>10. ASSUME NEW c \in Components, StopTimesOut(c) PROVE PoolInv'
  BY <1>10, HookOrder, HookOf DEF StopTimesOut, Stopping, TypeOK, OrderInv, JobInv,
     PoolInv, Behind
<1>11. CASE ClosePool
  BY <1>11, HookOrder, HookOf DEF ClosePool, Stopping, TypeOK, OrderInv, JobInv, PoolInv,
     Behind
<1>12. CASE PoolClosed
  BY <1>12, HookOrder, HookOf DEF PoolClosed, Stopping, TypeOK, OrderInv, JobInv, PoolInv,
     Behind
<1>13. CASE Stopped
  BY <1>13, HookOrder, HookOf DEF Stopped, Exit, TypeOK, OrderInv, JobInv, PoolInv, Behind
<1>14. CASE StopDeadline
  BY <1>14, HookOrder, HookOf DEF StopDeadline, Exit, TypeOK, OrderInv, JobInv, PoolInv,
     Behind
<1>15. CASE Tick
  BY <1>15, HookOrder, HookOf DEF Tick, Pass, Waiting, Stopping, TypeOK, OrderInv, JobInv,
     PoolInv, Behind
<1>16. ASSUME NEW c \in Components, Begin(c) PROVE PoolInv'
  BY <1>16, HookOrder, HookOf DEF Begin, lifecycle, TypeOK, OrderInv, JobInv, PoolInv,
     Behind
<1>17. ASSUME NEW c \in Components, Acquire(c) PROVE PoolInv'
  BY <1>17, HookOrder, HookOf DEF Acquire, lifecycle, TypeOK, OrderInv, JobInv, PoolInv,
     Behind
<1>18. ASSUME NEW c \in Components, AcquireRefused(c) PROVE PoolInv'
  BY <1>18, HookOrder, HookOf DEF AcquireRefused, lifecycle, TypeOK, OrderInv, JobInv,
     PoolInv, Behind
<1>19. ASSUME NEW c \in Components, Release(c) PROVE PoolInv'
  BY <1>19, HookOrder, HookOf DEF Release, lifecycle, TypeOK, OrderInv, JobInv, PoolInv,
     Behind
<1>20. ASSUME NEW c \in Components, Finish(c) PROVE PoolInv'
  BY <1>20, HookOrder, HookOf DEF Finish, lifecycle, TypeOK, OrderInv, JobInv, PoolInv,
     Behind
<1>21. ASSUME NEW c \in Components, End(c) PROVE PoolInv'
  BY <1>21, HookOrder, HookOf DEF End, lifecycle, TypeOK, OrderInv, JobInv, PoolInv, Behind
<1>22. CASE UNCHANGED vars
  BY <1>22 DEF vars, lifecycle, TypeOK, OrderInv, JobInv, PoolInv, Behind
<1> QED
  BY <1>1, <1>2, <1>3, <1>4, <1>5, <1>6, <1>7, <1>8, <1>9, <1>10, <1>11,
  <1>12, <1>13, <1>14, <1>15, <1>16, <1>17, <1>18, <1>19, <1>20, <1>21, <1>22
  DEF Next, Manage, Work

\* The exit status is that of the whole stop.
LEMMA ExitStep ==
  ASSUME TypeOK, OrderInv, PoolInv, ExitInv, [Next]_vars
  PROVE  ExitInv'
<1>1. CASE Construct
  BY <1>1, HookOrder DEF Construct, TypeOK, OrderInv, PoolInv, ExitInv, Alive
<1>2. CASE ConstructFails
  BY <1>2, HookOrder DEF ConstructFails, Exit, TypeOK, OrderInv, PoolInv, ExitInv, Alive
<1>3. CASE StartHook
  BY <1>3, HookOrder DEF StartHook, TypeOK, OrderInv, PoolInv, ExitInv, Alive
<1>4. CASE ListenFails
  BY <1>4, HookOrder DEF ListenFails, TypeOK, OrderInv, PoolInv, ExitInv, Alive
<1>5. CASE Started
  BY <1>5, HookOrder DEF Started, TypeOK, OrderInv, PoolInv, ExitInv, Alive
<1>6. CASE Signal
  BY <1>6, HookOrder DEF Signal, TypeOK, OrderInv, PoolInv, ExitInv, Alive
<1>7. ASSUME NEW c \in Components, CallStop(c) PROVE ExitInv'
  BY <1>7, HookOrder DEF CallStop, Stopping, TypeOK, OrderInv, PoolInv, ExitInv, Alive
<1>8. ASSUME NEW c \in Components, NoHook(c) PROVE ExitInv'
  BY <1>8, HookOrder DEF NoHook, Stopping, TypeOK, OrderInv, PoolInv, ExitInv, Alive
<1>9. ASSUME NEW c \in Components, StopReturns(c) PROVE ExitInv'
  BY <1>9, HookOrder DEF StopReturns, Stopping, TypeOK, OrderInv, PoolInv, ExitInv, Alive
<1>10. ASSUME NEW c \in Components, StopTimesOut(c) PROVE ExitInv'
  BY <1>10, HookOrder DEF StopTimesOut, Stopping, TypeOK, OrderInv, PoolInv, ExitInv, Alive
<1>11. CASE ClosePool
  BY <1>11, HookOrder DEF ClosePool, Stopping, TypeOK, OrderInv, PoolInv, ExitInv, Alive
<1>12. CASE PoolClosed
  BY <1>12, HookOrder DEF PoolClosed, Stopping, TypeOK, OrderInv, PoolInv, ExitInv, Alive
<1>13. CASE Stopped
  BY <1>13, HookOrder DEF Stopped, Exit, TypeOK, OrderInv, PoolInv, ExitInv, Alive
<1>14. CASE StopDeadline
  BY <1>14, HookOrder DEF StopDeadline, Exit, TypeOK, OrderInv, PoolInv, ExitInv, Alive
<1>15. CASE Tick
  BY <1>15, HookOrder DEF Tick, Pass, Waiting, Stopping, TypeOK, OrderInv, PoolInv,
     ExitInv, Alive
<1>16. ASSUME NEW c \in Components, Begin(c) PROVE ExitInv'
  BY <1>16, HookOrder DEF Begin, lifecycle, TypeOK, OrderInv, PoolInv, ExitInv, Alive
<1>17. ASSUME NEW c \in Components, Acquire(c) PROVE ExitInv'
  BY <1>17, HookOrder DEF Acquire, lifecycle, TypeOK, OrderInv, PoolInv, ExitInv, Alive
<1>18. ASSUME NEW c \in Components, AcquireRefused(c) PROVE ExitInv'
  BY <1>18, HookOrder DEF AcquireRefused, lifecycle, TypeOK, OrderInv, PoolInv, ExitInv,
     Alive
<1>19. ASSUME NEW c \in Components, Release(c) PROVE ExitInv'
  BY <1>19, HookOrder DEF Release, lifecycle, TypeOK, OrderInv, PoolInv, ExitInv, Alive
<1>20. ASSUME NEW c \in Components, Finish(c) PROVE ExitInv'
  BY <1>20, HookOrder DEF Finish, lifecycle, TypeOK, OrderInv, PoolInv, ExitInv, Alive
<1>21. ASSUME NEW c \in Components, End(c) PROVE ExitInv'
  BY <1>21, HookOrder DEF End, lifecycle, TypeOK, OrderInv, PoolInv, ExitInv, Alive
<1>22. CASE UNCHANGED vars
  BY <1>22 DEF vars, lifecycle, TypeOK, OrderInv, PoolInv, ExitInv, Alive
<1> QED
  BY <1>1, <1>2, <1>3, <1>4, <1>5, <1>6, <1>7, <1>8, <1>9, <1>10, <1>11,
  <1>12, <1>13, <1>14, <1>15, <1>16, <1>17, <1>18, <1>19, <1>20, <1>21, <1>22
  DEF Next, Manage, Work

\* No step spends the time of a hook that is still to come.
LEMMA TimeStep ==
  ASSUME TypeOK, OrderInv, TimeInv, [Next]_vars
  PROVE  TimeInv'
<1>1. CASE Construct
  BY <1>1, HookOrder, HookOf, TimeoutsAssumption DEF Construct, TypeOK,
     OrderInv, TimeInv, StopTimeout, Deadline, Components
<1>2. CASE ConstructFails
  BY <1>2, HookOrder, HookOf, TimeoutsAssumption DEF ConstructFails,
     Exit, TypeOK, OrderInv, TimeInv, StopTimeout, Deadline, Components
<1>3. CASE StartHook
  BY <1>3, HookOrder, HookOf, TimeoutsAssumption DEF StartHook, TypeOK,
     OrderInv, TimeInv, StopTimeout, Deadline, Components
<1>4. CASE ListenFails
  BY <1>4, HookOrder, HookOf, TimeoutsAssumption DEF ListenFails,
     TypeOK, OrderInv, TimeInv, StopTimeout, Deadline, Components
<1>5. CASE Started
  BY <1>5, HookOrder, HookOf, TimeoutsAssumption DEF Started, TypeOK,
     OrderInv, TimeInv, StopTimeout, Deadline, Components
<1>6. CASE Signal
  BY <1>6, HookOrder, HookOf, TimeoutsAssumption DEF Signal, TypeOK,
     OrderInv, TimeInv, StopTimeout, Deadline, Components
<1>7. ASSUME NEW c \in Components, CallStop(c) PROVE TimeInv'
  BY <1>7, HookOrder, HookOf, TimeoutsAssumption DEF CallStop,
     Stopping, TypeOK, OrderInv, TimeInv, StopTimeout, Deadline, Components
<1>8. ASSUME NEW c \in Components, NoHook(c) PROVE TimeInv'
  BY <1>8, HookOrder, HookOf, TimeoutsAssumption DEF NoHook, Stopping,
     TypeOK, OrderInv, TimeInv, StopTimeout, Deadline, Components
<1>9. ASSUME NEW c \in Components, StopReturns(c) PROVE TimeInv'
  BY <1>9, HookOrder, HookOf, TimeoutsAssumption DEF StopReturns,
     Stopping, TypeOK, OrderInv, TimeInv, StopTimeout, Deadline, Components
<1>10. ASSUME NEW c \in Components, StopTimesOut(c) PROVE TimeInv'
  BY <1>10, HookOrder, HookOf, TimeoutsAssumption DEF StopTimesOut,
     Stopping, TypeOK, OrderInv, TimeInv, StopTimeout, Deadline, Components
<1>11. CASE ClosePool
  BY <1>11, HookOrder, HookOf, TimeoutsAssumption DEF ClosePool,
     Stopping, TypeOK, OrderInv, TimeInv, StopTimeout, Deadline, Components
<1>12. CASE PoolClosed
  BY <1>12, HookOrder, HookOf, TimeoutsAssumption DEF PoolClosed,
     Stopping, TypeOK, OrderInv, TimeInv, StopTimeout, Deadline, Components
<1>13. CASE Stopped
  BY <1>13, HookOrder, HookOf, TimeoutsAssumption DEF Stopped, Exit,
     TypeOK, OrderInv, TimeInv, StopTimeout, Deadline, Components
<1>14. CASE StopDeadline
  BY <1>14, HookOrder, HookOf, TimeoutsAssumption DEF StopDeadline,
     Exit, TypeOK, OrderInv, TimeInv, StopTimeout, Deadline, Components
<1>15. CASE Tick
  <2>1. phase = "stopping" /\ calling /\ left' = left - 1 /\ UNCHANGED << phase, hook, calling, rollback >>
    BY <1>15 DEF Tick, Pass, Waiting, Stopping
  <2>2. CASE hook \in {0, 1}
    BY <1>15, <2>1, <2>2 DEF TimeInv
  <2>3. CASE hook \in 2 .. 5
    <3>1. timer' = timer - 1 /\ timer > 0
      BY <1>15, <2>3, HookOrder, HookOf DEF Tick, Pass, Waiting, Stopping
    <3>2. hook \in {4, 5} => loopTime' = loopTime + 1
      BY <1>15, <2>1, HookOrder DEF Tick, Pass, Stopping, Loops
    <3>3. hook \in {2, 3} => loopTime' = loopTime
      BY <1>15, HookOrder DEF Tick, Pass, Stopping, Loops
    <3> QED
      BY <2>1, <2>3, <3>1, <3>2, <3>3, TimeoutsAssumption DEF TypeOK, TimeInv, StopTimeout
  <2> QED
    BY <2>2, <2>3, HookOrder DEF TypeOK
<1>16. ASSUME NEW c \in Components, Begin(c) PROVE TimeInv'
  BY <1>16, HookOrder, HookOf, TimeoutsAssumption DEF Begin, lifecycle,
     TypeOK, OrderInv, TimeInv, StopTimeout, Deadline, Components
<1>17. ASSUME NEW c \in Components, Acquire(c) PROVE TimeInv'
  BY <1>17, HookOrder, HookOf, TimeoutsAssumption DEF Acquire,
     lifecycle, TypeOK, OrderInv, TimeInv, StopTimeout, Deadline, Components
<1>18. ASSUME NEW c \in Components, AcquireRefused(c) PROVE TimeInv'
  BY <1>18, HookOrder, HookOf, TimeoutsAssumption DEF AcquireRefused,
     lifecycle, TypeOK, OrderInv, TimeInv, StopTimeout, Deadline, Components
<1>19. ASSUME NEW c \in Components, Release(c) PROVE TimeInv'
  BY <1>19, HookOrder, HookOf, TimeoutsAssumption DEF Release,
     lifecycle, TypeOK, OrderInv, TimeInv, StopTimeout, Deadline, Components
<1>20. ASSUME NEW c \in Components, Finish(c) PROVE TimeInv'
  BY <1>20, HookOrder, HookOf, TimeoutsAssumption DEF Finish,
     lifecycle, TypeOK, OrderInv, TimeInv, StopTimeout, Deadline, Components
<1>21. ASSUME NEW c \in Components, End(c) PROVE TimeInv'
  BY <1>21, HookOrder, HookOf, TimeoutsAssumption DEF End, lifecycle,
     TypeOK, OrderInv, TimeInv, StopTimeout, Deadline, Components
<1>22. CASE UNCHANGED vars
  BY <1>22 DEF vars, lifecycle, TypeOK, OrderInv, TimeInv, StopTimeout, Deadline, Components
<1> QED
  BY <1>1, <1>2, <1>3, <1>4, <1>5, <1>6, <1>7, <1>8, <1>9, <1>10, <1>11,
  <1>12, <1>13, <1>14, <1>15, <1>16, <1>17, <1>18, <1>19, <1>20, <1>21, <1>22
  DEF Next, Manage, Work

-----------------------------------------------------------------------------
(* Theorems *)

\* What holds before anything has started.
LEMMA InitInv == Init => Inv
<1> SUFFICES ASSUME Init PROVE Inv
  OBVIOUS
<1>1. TypeOK
  <2>1. enabled \subseteq Components
    BY DEF Init, Components
  <2>2. hook \in 0 .. Len(Hooks)
    BY HookOrder DEF Init
  <2>3. calling \in BOOLEAN /\ rollback \in BOOLEAN
    BY Zenon DEF Init
  <2> QED
    BY <2>1, <2>2, <2>3 DEF Init, TypeOK
<1>2. OrderInv
  BY HookOf DEF Init, OrderInv
<1>3. JobInv /\ PoolInv /\ ExitInv /\ TimeInv
  BY DEF Init, JobInv, PoolInv, ExitInv, TimeInv
<1> QED
  BY <1>1, <1>2, <1>3 DEF Inv

\* The invariant is inductive.
LEMMA StepInv == Inv /\ [Next]_vars => Inv'
  BY TypeStep, OrderStep, JobStep, PoolStep, ExitStep, TimeStep DEF Inv

\* The invariant holds in every state of every run of fx.
THEOREM Invariance == Spec => []Inv
  BY InitInv, StepInv, PTL DEF Spec

\* The state of fx and of the components keeps its shape, whatever the
\* deadlines are.
THEOREM LifecycleTypeCorrect == Spec => []TypeOK
<1>1. Inv => TypeOK
  BY DEF Inv
<1> QED
  BY <1>1, Invariance, PTL

\* The pool closes only when every component has ended or used up its deadline
\* (the OnStop of the pool in fxapp "runs last"), after a failed start too, and
\* only work that outlived its deadline is turned away by it.
THEOREM PoolIsLast == Spec => []PoolClosesLast
<1>1. Inv => PoolClosesLast
  BY HookOf DEF Inv, PoolInv, PoolClosesLast, Behind
<1> QED
  BY <1>1, Invariance, PTL

\* What the sum in New pays for, whatever the deadlines are: the consumer keeps
\* its own if the two loops took no more than the slack, the HTTP server keeps
\* its own even if one loop hung for all of its deadline.
THEOREM DeadlinesAreKept == Spec => []DeadlinesKept
<1>1. Inv => DeadlinesKept
  <2> SUFFICES ASSUME Inv, phase \in {"stopping", "exited"}, ~rollback, left = 0
               PROVE  /\ loopTime <= StopSlack => HadDeadline("consumer")
                      /\ loopTime <= WorkerShutdownTimeout + StopSlack => HadDeadline("http")
    BY DEF DeadlinesKept
  <2>1. hook \in 0 .. 5 /\ timer \in Nat /\ calling \in BOOLEAN /\ loopTime \in Nat
    BY HookOrder DEF Inv, TypeOK
  <2>2. loopTime <= StopSlack => hook < 2 \/ (hook = 2 /\ calling /\ timer = 0)
    BY <2>1, TimeoutsAssumption DEF Inv, TimeInv, StopTimeout
  <2>3. loopTime <= WorkerShutdownTimeout + StopSlack => hook < 3 \/ (hook = 3 /\ calling /\ timer = 0)
    BY <2>1, TimeoutsAssumption DEF Inv, TimeInv, StopTimeout
  <2> QED
    BY <2>2, <2>3, HookOrder DEF HadDeadline
<1> QED
  BY <1>1, Invariance, PTL

\* Exit status 0 means that nothing was cut off: Run never reports success for
\* a stop that left work, a goroutine or the pool behind.
THEOREM ExitIsHonest == Spec => []CleanExit
<1>1. Inv => CleanExit
  <2> SUFFICES ASSUME Inv, phase = "exited", code = 0
               PROVE  /\ \A c \in Components : job[c] = "none" /\ comp[c] \in {"off", "ended"}
                      /\ refused = {} /\ pool = "closed"
    BY DEF CleanExit
  <2>1. hook = 0 /\ errs = {} /\ pool = "closed"
    BY DEF Inv, ExitInv
  <2>2. \A c \in Components : comp[c] \in {"off", "ended"}
    BY <2>1, HookOf DEF Inv, PoolInv, Behind
  <2>3. refused = {}
    BY <2>1 DEF Inv, PoolInv
  <2>4. \A c \in Components : job[c] = "none"
    BY <2>2 DEF Inv, JobInv
  <2> QED
    BY <2>1, <2>2, <2>3, <2>4
<1> QED
  BY <1>1, Invariance, PTL

\* What fx does while it stops: it exits, or calls or finishes a hook, or spends
\* time that was left.
LEMMA ManageStop ==
  ASSUME TypeOK, OrderInv, phase = "stopping", Manage
  PROVE  phase' = "exited" \/ (phase' = "stopping" /\ Remaining' < Remaining)
<1> DEFINE Falls == phase' = "stopping" /\ Remaining' < Remaining
<1>1. hook \in 0 .. 5 /\ left \in Nat
  BY HookOrder DEF TypeOK
<1>2. ~(Construct \/ StartHook \/ Started)
  BY DEF Construct, StartHook, Started
<1>3. ASSUME NEW c \in Components, CallStop(c) PROVE Falls
  BY <1>1, <1>3 DEF CallStop, Stopping, Remaining
<1>4. ASSUME NEW c \in Components, NoHook(c) PROVE Falls
  BY <1>1, <1>4 DEF NoHook, Stopping, Remaining
<1>5. ASSUME NEW c \in Components, StopReturns(c) PROVE Falls
  BY <1>1, <1>5 DEF StopReturns, Stopping, Remaining
<1>6. ASSUME NEW c \in Components, StopTimesOut(c) PROVE Falls
  BY <1>1, <1>6 DEF StopTimesOut, Stopping, Remaining
<1>7. CASE ClosePool
  BY <1>1, <1>7 DEF ClosePool, Stopping, Remaining
<1>8. CASE PoolClosed
  BY <1>1, <1>8 DEF PoolClosed, Stopping, Remaining
<1>9. CASE Tick
  BY <1>1, <1>9 DEF Tick, Pass, Remaining
<1>10. CASE Stopped \/ StopDeadline
  BY <1>10 DEF Stopped, StopDeadline, Exit
<1> QED
  BY <1>2, <1>3, <1>4, <1>5, <1>6, <1>7, <1>8, <1>9, <1>10 DEF Manage

\* A stop ends after a bounded number of steps of fx: every one of them brings
\* it nearer, and no request, message or pass, however it is interleaved with
\* the hooks, moves it away.  What is left to fairness is that fx goes on.
THEOREM StopNearsItsEnd == Spec => StopAdvances
<1>1. ASSUME Inv, [Next]_vars
      PROVE  [phase = "stopping" =>
                \/ phase' = "exited"
                \/ /\ phase' = "stopping" /\ Remaining' <= Remaining
                   /\ Manage => Remaining' < Remaining]_vars
  <2> SUFFICES ASSUME phase = "stopping", phase' # "exited", ~UNCHANGED vars
               PROVE  /\ phase' = "stopping" /\ Remaining' <= Remaining
                      /\ Manage => Remaining' < Remaining
    OBVIOUS
  <2>1. Remaining \in Int
    BY <1>1, HookOrder DEF Inv, TypeOK, Remaining
  <2>2. Inv'
    BY <1>1, StepInv
  <2>3. Remaining' \in Int
    BY <2>2, HookOrder DEF Inv, TypeOK, Remaining
  <2>4. CASE Manage
    BY <1>1, <2>1, <2>3, <2>4, ManageStop DEF Inv
  <2>5. CASE \E c \in Components : Begin(c) \/ Work(c)
    <3>1. UNCHANGED << phase, hook, calling, left >>
      BY <2>5 DEF Begin, Work, Acquire, AcquireRefused, Release, Finish, End, lifecycle
    <3>2. Remaining' = Remaining
      BY <3>1 DEF Remaining
    <3>3. ~Manage
      <4>1. SUFFICES ASSUME Manage PROVE FALSE
        OBVIOUS
      <4>2. Remaining' < Remaining
        BY <1>1, <4>1, ManageStop DEF Inv
      <4> QED
        BY <2>1, <3>2, <4>2
    <3> QED
      BY <2>1, <3>1, <3>2, <3>3
  <2>6. ~(ConstructFails \/ ListenFails \/ Signal)
    BY DEF ConstructFails, ListenFails, Signal
  <2> QED
    BY <1>1, <2>4, <2>5, <2>6 DEF Next
<1> QED
  BY <1>1, Invariance, PTL DEF Spec, StopAdvances

=============================================================================
