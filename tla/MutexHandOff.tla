----------------------------- MODULE MutexHandOff -----------------------------
(***************************************************************************)
(* Mutex m of module Scheduler as an abstract lock (module HandOffLock).   *)
(* The queue is that of the parked waits m can end by itself.  Beside it   *)
(* stand the waits that need other objects as well, and those for messages *)
(* (MsgWaitForMultipleObjects), which set no flag on the mutex: translated *)
(* code may free it behind their back.                                     *)
(***************************************************************************)
EXTENDS Scheduler

CONSTANT m

Waits(t) ==
  /\ Parked(t) /\ t \notin pendingExit
  /\ m \in wait[t].objs /\ wait[t].via \in {"single", "multi", "msg"}

ForItAlone(t) == ~wait[t].all /\ wait[t].via # "msg"

Queued == {t \in Threads : Waits(t) /\ ForItAlone(t)}
Others == {t \in Threads : Waits(t) /\ ~ForItAlone(t)}

Lock == INSTANCE HandOffLock WITH holder <- owner[m], queue <- Queued, partial <- Others

(* Mutex m keeps its promise (module HandOffLock): kernel32 ReleaseMutex,   *)
(* its translated fast path, sched.js signal and process.js removeThread    *)
(* implement the abstract lock.                                             *)
MutexHandsOff == Lock!Spec
==============================================================================
