------------------------------ MODULE Scheduler ------------------------------
(***************************************************************************)
(* The green-thread scheduler of the emulated process and the kernel       *)
(* objects its threads wait for: src/src/core/sched.js, the slice loop of  *)
(* src/src/core/vm.js, the thread and synchronization calls of             *)
(* src/src/win32/kernel32.js, and the two mutex and two critical-section   *)
(* calls that translated code answers without JavaScript                   *)
(* (src/src/cpu/jit/runtime.js).                                           *)
(*                                                                         *)
(* One JavaScript thread runs everything.  stack is the nesting of         *)
(* dispatch loops: empty between two slices, one thread in a top-level     *)
(* slice, several when a wait inside a callback runs other threads on top  *)
(* of the waiting one.  phase says what the host code is doing: "run" the  *)
(* last thread of the stack (guest code, or its nested wait), "signal" or  *)
(* "wake" one pass over the threads, "pick" the next thread.  A pass is    *)
(* one step per thread visited; nothing else runs until it ends.           *)
(***************************************************************************)
EXTENDS Integers, Sequences

CONSTANTS
  N,              \* threads the process may create; ids are their creation order
  Mutexes, CritSecs, AutoEvents, ManualEvents, Semaphores,
  Requests,       \* Requests[t]: the waits the guest code of thread t issues
  Amounts,        \* the signed amounts the guest releases a semaphore by
  MaxCount,       \* bound: recursion levels of a lock; the maximum count of a semaphore
  MinCount,       \* bound: how low releases of a negative amount bring a semaphore
  MaxSuspend,     \* bound: suspend count
  Callbacks,      \* threads whose handlers call guest code back
  Closable,       \* objects the guest closes its handle of
  Killable,       \* threads the guest terminates or suspends from outside
  Jit,            \* TRUE: translated code answers uncontended calls itself
  NoThread, NoWait, NoResult, NoObject

Threads == 1..N
Locks == Mutexes \cup CritSecs
Events == AutoEvents \cup ManualEvents
Counted == AutoEvents \cup Semaphores
Objects == Locks \cup Events \cup Semaphores
Vias == {"single", "multi", "msg", "cs", "sleep", "suspend"}
Claiming == {"single", "multi", "msg", "cs"}

(* A wait as the guest asks for it: WaitForSingleObject, WaitForMultiple-  *)
(* Objects, MsgWaitForMultipleObjects, EnterCriticalSection, Sleep, or a   *)
(* thread suspending itself.  An object is a kernel object, a critical     *)
(* section or a thread (joined).                                           *)
Request == [via : Vias, objs : SUBSET (Objects \cup Threads),
            all : BOOLEAN, timed : BOOLEAN]
Result == [ok : BOOLEAN, got : SUBSET (Objects \cup Threads), req : Request]
Asked == UNION {Requests[t] : t \in Threads}

ASSUME SchedulerAssumption ==
  /\ N \in Nat \ {0}
  /\ Asked \subseteq Request
  /\ \A w \in Asked :
        /\ w.via # "suspend"
        /\ w.via = "cs" => \E s \in CritSecs : w.objs = {s}
        /\ w.via = "sleep" => w.objs = {}
        /\ w.via \in {"single", "multi", "msg"} => w.objs \cap CritSecs = {}
  /\ MaxCount \in Nat \ {0} /\ MaxSuspend \in Nat \ {0}
  /\ Amounts \subseteq Int /\ MinCount \in Int
  /\ Callbacks \subseteq Threads /\ Killable \subseteq Threads
  /\ Closable \subseteq Objects \ CritSecs
  /\ Jit \in BOOLEAN
  /\ NoThread \notin Threads
  /\ NoWait \notin Request /\ NoResult \notin Result /\ NoObject \notin Objects

ASSUME DisjointKinds ==
  /\ Mutexes \cap CritSecs = {} /\ Locks \cap Events = {}
  /\ AutoEvents \cap ManualEvents = {}
  /\ (Locks \cup Events) \cap Semaphores = {}
  /\ Objects \cap Threads = {}

VARIABLES
  state,       \* Thread.state; "new" before CreateThread
  wait,        \* Thread.wait: the wait a parked thread is blocked in
  nested,      \* the wait of a nestedWait() loop on the thread's JavaScript frame
  result,      \* Thread.wakeResult / wakeValue: the outcome of a wait, not returned yet
  due,         \* threads whose wait's deadline has passed
  suspendCount,
  pendingExit, \* terminated while on the stack
  inCallback,  \* Thread.callbackDepth > 0
  stack, phase, next, after,
  owner, count, abandoned,
  waiters,     \* mutexes with MX_WAITERS set
  open,        \* objects with an entry in the handle table
  held         \* levels of each lock the guest code of a thread was granted

threadVars == <<state, wait, nested, result, due, suspendCount, pendingExit, inCallback>>
hostVars   == <<stack, phase, next, after>>
objectVars == <<owner, count, abandoned, waiters, open>>
vars == <<threadVars, hostVars, objectVars, held>>

------------------------------------------------------------------------------
(* Objects *)

(* kernel32 isSignaled; a critical section is free when its LockCount is -1 *)
IsSignaled(o, t) ==
  \/ o \in Mutexes /\ owner[o] \in {NoThread, t}
  \/ o \in CritSecs /\ owner[o] = NoThread
  \/ o \in Events \cup Semaphores /\ count[o] > 0
  \/ o \in Threads /\ state[o] = "done"

Satisfied(w, t) ==
  IF w.all THEN w.objs # {} /\ \A o \in w.objs : IsSignaled(o, t)
           ELSE \E o \in w.objs : IsSignaled(o, t)

(* What a satisfied wait takes: all its objects, or the first one signaled *)
(* of its array (any one, the array being in any order).                   *)
Claims(w, t) ==
  IF w.all THEN {w.objs} ELSE {{o} : o \in {x \in w.objs : IsSignaled(x, t)}}

(* kernel32 consumeSignal of every object in S, for thread t *)
Consume(S, t) ==
  /\ owner' = [o \in Locks |-> IF o \in S THEN t ELSE owner[o]]
  /\ count' = [o \in Objects |->
                 IF o \in S \cap Locks THEN count[o] + 1
                 ELSE IF o \in S \cap Counted THEN count[o] - 1 ELSE count[o]]
  /\ abandoned' = abandoned \ S

Grant(S, t) ==
  held' = [held EXCEPT ![t] = [o \in Locks |-> @[o] + IF o \in S THEN 1 ELSE 0]]

HandlesOpen(w) == w.via \in {"single", "multi", "msg"} => w.objs \cap Objects \subseteq open

------------------------------------------------------------------------------
(* The stack of dispatch loops *)

Top == IF stack = <<>> THEN NoThread ELSE stack[Len(stack)]
Pop == SubSeq(stack, 1, Len(stack) - 1)
OnStack(t) == \E i \in 1..Len(stack) : stack[i] = t
CanUnwind(t) == Len(stack) = 1 /\ t \notin inCallback

(* Guest code of t is running, and it is not about to re-execute a call. *)
Guest(t) == phase = "run" /\ t = Top /\ state[t] = "running" /\ result[t] = NoResult

(* After t's dispatch loop returns: the run loop wakes threads, or the     *)
(* nested wait below looks at its condition again.                         *)
LeaveSlice ==
  /\ stack' = Pop
  /\ phase' = IF Len(stack) = 1 THEN "wake" ELSE "run"
  /\ next' = 1
  /\ after' = NoObject

SignalPass(m) == phase' = "signal" /\ next' = 1 /\ after' = m /\ UNCHANGED stack

------------------------------------------------------------------------------
(* Waits *)

(* A call the guest can make: handles open, threads created; waiting for   *)
(* itself fails at once.  The last conjunct is the MaxCount bound.         *)
MayAsk(t, w) ==
  /\ Guest(t) /\ w \in Requests[t]
  /\ HandlesOpen(w)
  /\ \A u \in w.objs \cap Threads : state[u] # "new"
  /\ w.via = "single" => t \notin w.objs
  /\ w.via = "cs" => t \notin {owner[s] : s \in w.objs}
  /\ \A o \in w.objs \cap Locks : owner[o] = t => count[o] < MaxCount

(* A wait flags its mutexes: WaitForMultipleObjects always, the single-object *)
(* wait when it is about to park, MsgWaitForMultipleObjects never.            *)
FlagMutexes(w, vias) ==
  waiters' = IF w.via \in vias THEN waiters \cup (w.objs \cap Mutexes) ELSE waiters

(* The object is available: taken at once, in JavaScript or translated code. *)
TakeNow(t, w) ==
  /\ MayAsk(t, w) /\ Satisfied(w, t)
  /\ \E S \in Claims(w, t) : Consume(S, t) /\ Grant(S, t)
  /\ FlagMutexes(w, {"multi"})
  /\ UNCHANGED <<threadVars, hostVars, open>>

(* At top level the call is rolled back and the thread parked... *)
ParkIn(t, w) ==
  /\ CanUnwind(t)
  /\ state' = [state EXCEPT ![t] = "blocked"]
  /\ wait' = [wait EXCEPT ![t] = w]
  /\ LeaveSlice
  /\ UNCHANGED nested

(* ...and inside a callback or a nested slice it waits on its frame. *)
NestIn(t, w) ==
  /\ ~CanUnwind(t)
  /\ state' = [state EXCEPT ![t] = "blocked"]
  /\ nested' = [nested EXCEPT ![t] = w]
  /\ UNCHANGED <<wait, hostVars>>

Block(t, w) ==
  /\ MayAsk(t, w) /\ ~Satisfied(w, t)
  /\ ParkIn(t, w) \/ NestIn(t, w)
  /\ FlagMutexes(w, {"single", "multi"})
  /\ UNCHANGED <<result, due, suspendCount, pendingExit, inCallback,
                 owner, count, abandoned, open, held>>

(* The call re-executed after the wake-up looks its handles up again, then *)
(* returns the recorded outcome.                                           *)
ReturnWait(t) ==
  /\ phase = "run" /\ t = Top /\ state[t] = "running" /\ result[t] # NoResult
  /\ IF HandlesOpen(result[t].req) THEN Grant(result[t].got, t) ELSE UNCHANGED held
  /\ result' = [result EXCEPT ![t] = NoResult]
  /\ UNCHANGED <<state, wait, nested, due, suspendCount, pendingExit, inCallback,
                 hostVars, objectVars>>

------------------------------------------------------------------------------
(* Releases and signals *)

Give(t, o) == held' = [held EXCEPT ![t][o] = @ - 1]

(* Mutant: the first release frees a recursively owned lock. *)
LowerFrees(o) ==
  /\ count' = [count EXCEPT ![o] = @ - 1]
  /\ owner' = [owner EXCEPT ![o] = NoThread]

Lower(o) ==
  /\ count' = [count EXCEPT ![o] = @ - 1]
  /\ owner' = IF count[o] = 1 THEN [owner EXCEPT ![o] = NoThread] ELSE owner

(* Mutant: the last release hands nothing over. *)
ReleaseMutexSilently(t, m) ==
  /\ Guest(t) /\ m \in open /\ owner[m] = t /\ held[t][m] > 0
  /\ Lower(m) /\ Give(t, m)
  /\ UNCHANGED <<threadVars, hostVars, abandoned, waiters, open>>

ReleaseMutex(t, m) ==
  /\ Guest(t) /\ m \in open /\ owner[m] = t /\ held[t][m] > 0
  /\ Lower(m) /\ Give(t, m)
  /\ IF count[m] = 1 THEN SignalPass(m) ELSE UNCHANGED hostVars
  /\ UNCHANGED <<threadVars, abandoned, waiters, open>>

(* Mutant: translated code does not look at the flags. *)
JitReleaseUnflagged(t, m) ==
  /\ Jit /\ Guest(t) /\ m \in open /\ owner[m] = t /\ held[t][m] > 0
  /\ Lower(m) /\ Give(t, m)
  /\ UNCHANGED <<threadVars, hostVars, abandoned, waiters, open>>

(* Translated code: one level less, the last one only with no flag set. *)
JitReleaseMutex(t, m) ==
  /\ Jit /\ Guest(t) /\ m \in open /\ owner[m] = t /\ held[t][m] > 0
  /\ count[m] = 1 => m \notin waiters \cup abandoned
  /\ Lower(m) /\ Give(t, m)
  /\ UNCHANGED <<threadVars, hostVars, abandoned, waiters, open>>

(* A further level of a section the thread owns already. *)
EnterAgain(t, s) ==
  /\ Guest(t) /\ owner[s] = t /\ count[s] < MaxCount
  /\ count' = [count EXCEPT ![s] = @ + 1]
  /\ Grant({s}, t)
  /\ UNCHANGED <<threadVars, hostVars, owner, abandoned, waiters, open>>

(* Mutant: the section left is not handed over. *)
LeaveSilently(t, s) ==
  /\ Guest(t) /\ held[t][s] > 0
  /\ Lower(s) /\ Give(t, s)
  /\ UNCHANGED <<threadVars, hostVars, abandoned, waiters, open>>

LeaveCriticalSection(t, s) ==
  /\ Guest(t) /\ held[t][s] > 0
  /\ Lower(s) /\ Give(t, s)
  /\ IF count[s] = 1 THEN SignalPass(NoObject) ELSE UNCHANGED hostVars
  /\ UNCHANGED <<threadVars, abandoned, waiters, open>>

(* Translated code frees the section in guest memory: no scheduler call. *)
JitLeaveCriticalSection(t, s) ==
  /\ Jit /\ Guest(t) /\ held[t][s] > 0
  /\ Lower(s) /\ Give(t, s)
  /\ UNCHANGED <<threadVars, hostVars, abandoned, waiters, open>>

SetEvent(t, e) ==
  /\ Guest(t) /\ e \in open
  /\ count' = [count EXCEPT ![e] = 1]
  /\ SignalPass(NoObject)
  /\ UNCHANGED <<threadVars, owner, abandoned, waiters, open, held>>

ResetEvent(t, e) ==
  /\ Guest(t) /\ e \in open
  /\ count' = [count EXCEPT ![e] = 0]
  /\ UNCHANGED <<threadVars, hostVars, owner, abandoned, waiters, open, held>>

(* Signaled for the length of one wakeBlocked() pass. *)
PulseEvent(t, e) ==
  /\ Guest(t) /\ e \in open
  /\ count' = [count EXCEPT ![e] = 1]
  /\ phase' = "pulse" /\ next' = 1 /\ after' = e
  /\ UNCHANGED <<threadVars, stack, owner, abandoned, waiters, open, held>>

(* Mutant: the maximum is not looked at. *)
ReleaseSemaphoreUncapped(t, s, n) ==
  /\ Guest(t) /\ s \in open /\ count[s] + n >= MinCount
  /\ count' = [count EXCEPT ![s] = @ + n]
  /\ SignalPass(NoObject)
  /\ UNCHANGED <<threadVars, owner, abandoned, waiters, open, held>>

(* The guest's amount is signed and only the maximum is looked at: several *)
(* units end several waits in the pass that follows, a negative amount     *)
(* takes units away, below zero too.  The last conjunct of the guard is    *)
(* the MinCount bound.                                                     *)
ReleaseSemaphore(t, s, n) ==
  /\ Guest(t) /\ s \in open /\ count[s] + n <= MaxCount /\ count[s] + n >= MinCount
  /\ count' = [count EXCEPT ![s] = @ + n]
  /\ SignalPass(NoObject)
  /\ UNCHANGED <<threadVars, owner, abandoned, waiters, open, held>>

CloseHandle(t, o) ==
  /\ Guest(t) /\ o \in open \cap Closable
  /\ open' = open \ {o}
  /\ UNCHANGED <<threadVars, hostVars, owner, count, abandoned, waiters, held>>

------------------------------------------------------------------------------
(* Threads *)

CreateThread(t, u, suspended) ==
  /\ Guest(t)
  /\ state[u] = "new" /\ \A v \in Threads : v < u => state[v] # "new"
  /\ state' = [state EXCEPT ![u] = IF suspended THEN "suspended" ELSE "ready"]
  /\ suspendCount' = [suspendCount EXCEPT ![u] = IF suspended THEN 1 ELSE 0]
  /\ UNCHANGED <<wait, nested, result, due, pendingExit, inCallback, hostVars,
                 objectVars, held>>

Abandon(u, left) ==
  /\ state' = [state EXCEPT ![u] = "done"]
  /\ owner' = [o \in Locks |-> IF o \in left THEN NoThread ELSE owner[o]]
  /\ count' = [o \in Objects |-> IF o \in left THEN 0 ELSE count[o]]
  /\ abandoned' = abandoned \cup left
  /\ held' = [held EXCEPT ![u] = [o \in Locks |-> IF o \in left THEN 0 ELSE @[o]]]

(* Mutant: joiners and waiters are not signaled. *)
RemoveSilently(u) ==
  /\ Abandon(u, {m \in Mutexes \cap open : owner[m] = u})
  /\ phase' = (IF stack = <<u>> THEN "wake" ELSE "run") /\ next' = 1 /\ after' = NoObject

(* Mutant: only mutexes whose wait has returned are abandoned. *)
RemoveReturned(u) ==
  /\ Abandon(u, {m \in Mutexes \cap open : held[u][m] > 0})
  /\ phase' = "signal" /\ next' = 1 /\ after' = NoObject

(* Process.removeThread: what u owns through a handle is abandoned. *)
RemoveThread(u) ==
  /\ Abandon(u, {m \in Mutexes \cap open : owner[m] = u})
  /\ phase' = "signal" /\ next' = 1 /\ after' = NoObject

ExitThread(t) ==
  /\ Guest(t)
  /\ RemoveThread(t)
  /\ stack' = Pop
  /\ inCallback' = inCallback \ {t}
  /\ UNCHANGED <<wait, nested, result, due, suspendCount, pendingExit, waiters, open>>

(* Mutant: a thread is removed under its frames. *)
TerminateAnyway(t, u) ==
  /\ Guest(t) /\ u \in Killable \ {t} /\ state[u] # "new"
  /\ pendingExit' = pendingExit \cup {u}
  /\ RemoveThread(u)
  /\ UNCHANGED <<wait, nested, result, due, suspendCount, inCallback, stack, waiters, open>>

(* A thread on the stack is only marked: its frames cannot be left. *)
TerminateThread(t, u) ==
  /\ Guest(t) /\ u \in Killable \ {t} /\ state[u] # "new"
  /\ pendingExit' = pendingExit \cup {u}
  /\ IF OnStack(u) THEN UNCHANGED <<state, owner, count, abandoned, held, phase, next, after>>
                   ELSE RemoveThread(u)
  /\ UNCHANGED <<wait, nested, result, due, suspendCount, inCallback, stack, waiters, open>>

SuspendThread(t, u) ==
  /\ Guest(t) /\ u \in Killable \ {t} /\ state[u] # "new"
  /\ suspendCount[u] < MaxSuspend
  /\ suspendCount' = [suspendCount EXCEPT ![u] = @ + 1]
  /\ state' = IF state[u] = "ready" THEN [state EXCEPT ![u] = "suspended"] ELSE state
  /\ UNCHANGED <<wait, nested, result, due, pendingExit, inCallback, hostVars,
                 objectVars, held>>

SuspendRequest == [via |-> "suspend", objs |-> {}, all |-> FALSE, timed |-> FALSE]

SuspendSelf(t) ==
  /\ Guest(t) /\ t \in Killable /\ suspendCount[t] < MaxSuspend
  /\ suspendCount' = [suspendCount EXCEPT ![t] = @ + 1]
  /\ ParkIn(t, SuspendRequest) \/ NestIn(t, SuspendRequest)
  /\ UNCHANGED <<result, due, pendingExit, inCallback, objectVars, held>>

ResumeThread(t, u) ==
  /\ Guest(t) /\ suspendCount[u] > 0
  /\ suspendCount' = [suspendCount EXCEPT ![u] = @ - 1]
  /\ state' = IF suspendCount[u] = 1 /\ state[u] = "suspended"
                THEN [state EXCEPT ![u] = "ready"] ELSE state
  /\ UNCHANGED <<wait, nested, result, due, pendingExit, inCallback, hostVars,
                 objectVars, held>>

(* A handler calls guest code back (window procedure, DllMain, APC)... *)
EnterCallback(t) ==
  /\ Guest(t) /\ t \in Callbacks \ inCallback
  /\ inCallback' = inCallback \cup {t}
  /\ UNCHANGED <<state, wait, nested, result, due, suspendCount, pendingExit,
                 hostVars, objectVars, held>>

LeaveCallback(t) ==
  /\ Guest(t) /\ t \in inCallback
  /\ inCallback' = inCallback \ {t}
  /\ UNCHANGED <<state, wait, nested, result, due, suspendCount, pendingExit,
                 hostVars, objectVars, held>>

(* The slice's budget is used up, or the thread yields; a callback's       *)
(* frames go on over several slices.                                       *)
EndSlice(t) ==
  /\ Guest(t) /\ t \notin inCallback
  /\ state' = [state EXCEPT ![t] = "ready"]
  /\ LeaveSlice
  /\ UNCHANGED <<wait, nested, result, due, suspendCount, pendingExit, inCallback,
                 objectVars, held>>

Runnable(u) == state[u] = "ready" /\ ~OnStack(u)

RunThread(u) ==
  /\ state' = [state EXCEPT ![u] = "running"]
  /\ stack' = Append(stack, u)
  /\ phase' = "run" /\ next' = 1 /\ after' = NoObject
  /\ UNCHANGED <<wait, nested, result, due, suspendCount, pendingExit, inCallback,
                 objectVars, held>>

(* A yield that cannot unwind runs another thread's slice on its frame. *)
NestedYield(t, u) == Guest(t) /\ ~CanUnwind(t) /\ Runnable(u) /\ RunThread(u)

------------------------------------------------------------------------------
(* Passes over the threads, and the pick *)

Parked(t) == state[t] = "blocked" /\ wait[t] # NoWait

(* Mutant: the object is left for the re-executed call to take. *)
WakeUnclaimed(t, ok, S) ==
  /\ state' = [state EXCEPT ![t] = "ready"]
  /\ wait' = [wait EXCEPT ![t] = NoWait]
  /\ result' = [result EXCEPT ![t] = [ok |-> ok, got |-> S, req |-> wait[t]]]
  /\ due' = due \ {t}
  /\ UNCHANGED <<nested, suspendCount, pendingExit, inCallback, objectVars, held>>

(* Scheduler.wake, with what the wait's claim took for t; a message may    *)
(* end a MsgWait at any pass.                                              *)
Wake(t, ok, S) ==
  /\ state' = [state EXCEPT ![t] = "ready"]
  /\ wait' = [wait EXCEPT ![t] = NoWait]
  /\ result' = [result EXCEPT ![t] = [ok |-> ok, got |-> S, req |-> wait[t]]]
  /\ due' = due \ {t}
  /\ Consume(S, t)
  /\ UNCHANGED <<nested, suspendCount, pendingExit, inCallback, waiters, open, held>>

WakeSatisfied(t) ==
  \/ Satisfied(wait[t], t) /\ \E S \in Claims(wait[t], t) : Wake(t, TRUE, S)
  \/ wait[t].via = "msg" /\ ~Satisfied(wait[t], t) /\ Wake(t, TRUE, {})

VisitThread == next <= N /\ next' = next + 1 /\ UNCHANGED <<stack, phase, after>>

(* signal(): a waiter is given what has been released, here and now. *)
SignalEligible(t) == Parked(t) /\ wait[t].via \in Claiming /\ t \notin pendingExit

SignalVisit ==
  /\ phase = "signal" /\ VisitThread
  /\ \/ SignalEligible(next) /\ WakeSatisfied(next)
     \/ /\ SignalEligible(next) => ~Satisfied(wait[next], next)
        /\ UNCHANGED <<threadVars, objectVars, held>>

(* wakeBlocked(): conditions and deadlines of every parked thread. *)
Resumed(t) == wait[t].via = "suspend" /\ suspendCount[t] = 0

(* Mutant: deadlines are not looked at. *)
WakeVisitUntimed ==
  /\ phase \in {"wake", "pulse"} /\ VisitThread
  /\ LET t == next IN
     \/ Parked(t) /\ t \in pendingExit /\ Wake(t, FALSE, {})
     \/ Parked(t) /\ t \notin pendingExit /\ WakeSatisfied(t)
     \/ Parked(t) /\ t \notin pendingExit /\ Resumed(t) /\ Wake(t, TRUE, {})
     \/ /\ Parked(t) => t \notin pendingExit /\ ~Satisfied(wait[t], t) /\ ~Resumed(t)
        /\ UNCHANGED <<threadVars, objectVars, held>>

WakeVisit ==
  /\ phase \in {"wake", "pulse"} /\ VisitThread
  /\ LET t == next IN
     \/ Parked(t) /\ t \in pendingExit /\ Wake(t, FALSE, {})
     \/ Parked(t) /\ t \notin pendingExit /\ WakeSatisfied(t)
     \/ Parked(t) /\ t \notin pendingExit /\ Resumed(t) /\ Wake(t, TRUE, {})
     \/ /\ Parked(t) /\ t \notin pendingExit /\ t \in due
        /\ ~Satisfied(wait[t], t) /\ ~Resumed(t)
        /\ Wake(t, FALSE, {})
     \/ /\ Parked(t) => /\ t \notin pendingExit \cup due
                        /\ ~Satisfied(wait[t], t) /\ ~Resumed(t)
        /\ UNCHANGED <<threadVars, objectVars, held>>

(* Mutant: waits for several objects are forgotten. *)
MutexWaitedSingly ==
  \E t \in Threads : state[t] = "blocked" /\
     LET w == IF wait[t] # NoWait THEN wait[t] ELSE nested[t]
     IN  w.via = "single" /\ w.objs \cap Mutexes # {}

(* A blocked thread whose reason names a mutex or several objects. *)
MutexWaited ==
  \E t \in Threads : state[t] = "blocked" /\
     LET w == IF wait[t] # NoWait THEN wait[t] ELSE nested[t]
     IN  w.via = "multi" \/ (w.via = "single" /\ w.objs \cap Mutexes # {})

(* Mutant: a nested wait picks no other thread. *)
EndPassUnpicked ==
  /\ phase \in {"signal", "wake", "pulse"} /\ next = N + 1
  /\ phase' = CASE stack # <<>> -> "run" [] phase = "signal" -> "wake" [] OTHER -> "pick"
  /\ waiters' = IF phase = "signal" /\ ~MutexWaited THEN waiters \ {after} ELSE waiters
  /\ count' = IF phase = "pulse" THEN [count EXCEPT ![after] = 0] ELSE count
  /\ next' = 1 /\ after' = NoObject
  /\ UNCHANGED <<threadVars, stack, owner, abandoned, open, held>>

EndPass ==
  /\ phase \in {"signal", "wake", "pulse"} /\ next = N + 1
  /\ phase' = CASE phase = "wake" -> "pick"
                [] phase = "signal" /\ stack = <<>> -> "wake"
                [] OTHER -> "run"
  /\ waiters' = IF phase = "signal" /\ ~MutexWaited THEN waiters \ {after} ELSE waiters
  /\ count' = IF phase = "pulse" THEN [count EXCEPT ![after] = 0] ELSE count
  /\ next' = 1 /\ after' = NoObject
  /\ UNCHANGED <<threadVars, stack, owner, abandoned, open, held>>

(* pickRunnable(): which one, module ThreadPick. *)
Pick(t) == phase = "pick" /\ Runnable(t) /\ RunThread(t)

(* Nothing to run: the top level sleeps until a thread can wake; a nested  *)
(* wait looks at its own condition again.                                  *)
Wakeable(t) ==
  /\ Parked(t)
  /\ \/ t \in pendingExit \cup due
     \/ wait[t].via = "msg"
     \/ Satisfied(wait[t], t)
     \/ Resumed(t)

PickNone ==
  /\ phase = "pick" /\ \A t \in Threads : ~Runnable(t)
  /\ IF stack = <<>> THEN phase' = "wake" /\ \E t \in Threads : Wakeable(t)
                     ELSE phase' = "run"
  /\ UNCHANGED <<threadVars, stack, next, after, objectVars, held>>

------------------------------------------------------------------------------
(* nestedWait(): the loop of the wait on top of the stack *)

Waiting(t) == phase = "run" /\ t = Top /\ nested[t] # NoWait

NestedHolds(t) ==
  \/ Satisfied(nested[t], t)
  \/ nested[t].via = "suspend" /\ suspendCount[t] = 0

(* Mutant: the object waited for is not taken. *)
NestedReturnUnclaimed(t, S) ==
  /\ state' = [state EXCEPT ![t] = "running"]
  /\ nested' = [nested EXCEPT ![t] = NoWait]
  /\ due' = due \ {t}
  /\ Grant(S, t)
  /\ UNCHANGED <<wait, result, suspendCount, pendingExit, inCallback, hostVars, objectVars>>

NestedReturn(t, S) ==
  /\ state' = [state EXCEPT ![t] = "running"]
  /\ nested' = [nested EXCEPT ![t] = NoWait]
  /\ due' = due \ {t}
  /\ Consume(S, t) /\ Grant(S, t)
  /\ UNCHANGED <<wait, result, suspendCount, pendingExit, inCallback, hostVars,
                 waiters, open>>

NestedTake(t) ==
  /\ Waiting(t)
  /\ \/ Satisfied(nested[t], t) /\ \E S \in Claims(nested[t], t) : NestedReturn(t, S)
     \/ NestedHolds(t) /\ ~Satisfied(nested[t], t) /\ NestedReturn(t, {})
     \/ nested[t].via = "msg" /\ ~Satisfied(nested[t], t) /\ NestedReturn(t, {})

NestedGiveUp(t) ==
  /\ Waiting(t) /\ ~NestedHolds(t) /\ t \in due \cup pendingExit
  /\ NestedReturn(t, {})

(* Wakes the others and runs one of them on top of its frame. *)
NestedTurn(t) ==
  /\ Waiting(t) /\ ~NestedHolds(t) /\ t \notin due \cup pendingExit
  /\ phase' = "wake"
  /\ UNCHANGED <<threadVars, stack, next, after, objectVars, held>>

Timed(t) ==
  state[t] = "blocked" /\ IF wait[t] # NoWait THEN wait[t].timed ELSE nested[t].timed

(* Guest time passes a deadline; a pass reads the clock once. *)
Expire(t) ==
  /\ phase \in {"run", "pick"} /\ t \notin due /\ Timed(t)
  /\ due' = due \cup {t}
  /\ UNCHANGED <<state, wait, nested, result, suspendCount, pendingExit, inCallback,
                 hostVars, objectVars, held>>

------------------------------------------------------------------------------
Init ==
  /\ state = [t \in Threads |-> IF t = 1 THEN "ready" ELSE "new"]
  /\ wait = [t \in Threads |-> NoWait] /\ nested = [t \in Threads |-> NoWait]
  /\ result = [t \in Threads |-> NoResult]
  /\ due = {} /\ pendingExit = {} /\ inCallback = {}
  /\ suspendCount = [t \in Threads |-> 0]
  /\ stack = <<>> /\ phase = "pick" /\ next = 1 /\ after = NoObject
  /\ owner = [o \in Locks |-> NoThread] /\ count = [o \in Objects |-> 0]
  /\ abandoned = {} /\ waiters = {}
  /\ open = Objects \ CritSecs
  /\ held = [t \in Threads |-> [o \in Locks |-> 0]]

GuestCall(t) ==
  \/ \E w \in Asked : TakeNow(t, w) \/ Block(t, w)
  \/ ReturnWait(t)
  \/ \E m \in Mutexes : ReleaseMutex(t, m) \/ JitReleaseMutex(t, m)
  \/ \E s \in CritSecs :
       EnterAgain(t, s) \/ LeaveCriticalSection(t, s) \/ JitLeaveCriticalSection(t, s)
  \/ \E e \in Events : SetEvent(t, e) \/ ResetEvent(t, e) \/ PulseEvent(t, e)
  \/ \E s \in Semaphores, n \in Amounts : ReleaseSemaphore(t, s, n)
  \/ \E o \in Closable : CloseHandle(t, o)
  \/ EnterCallback(t) \/ LeaveCallback(t) \/ SuspendSelf(t)
  \/ EndSlice(t) \/ ExitThread(t)

ThreadCall(t, u) ==
  \/ \E b \in BOOLEAN : CreateThread(t, u, b)
  \/ TerminateThread(t, u) \/ SuspendThread(t, u) \/ ResumeThread(t, u)
  \/ NestedYield(t, u)

HostStep(t) == Pick(t) \/ NestedTake(t) \/ NestedGiveUp(t) \/ NestedTurn(t) \/ Expire(t)

Next ==
  \/ \E t \in Threads : GuestCall(t) \/ HostStep(t) \/ \E u \in Threads : ThreadCall(t, u)
  \/ SignalVisit \/ WakeVisit \/ EndPass \/ PickNone

Spec == Init /\ [][Next]_vars

(* Slices end: their instruction budget persists across API calls          *)
(* (vm.js runThread), so EndSlice cannot be put off for ever by calls.     *)
(* A ready thread is picked: its starvation boost (module ThreadPick).     *)
(* Passes run to their end, a re-executed call returns, callbacks return,  *)
(* and guest time passes every deadline: no deadline stays ahead for ever  *)
(* (passes end, and Expire is possible between any two).                   *)
Fairness ==
  /\ WF_vars(SignalVisit) /\ WF_vars(WakeVisit) /\ WF_vars(EndPass) /\ WF_vars(PickNone)
  /\ \A t \in Threads :
       /\ SF_vars(Pick(t)) /\ SF_vars(EndSlice(t))
       /\ []<>(t \in due \/ ~Timed(t))
       /\ WF_vars(ReturnWait(t))
       /\ WF_vars(NestedTake(t) \/ NestedGiveUp(t) \/ NestedTurn(t))
  /\ \A t \in Callbacks : SF_vars(LeaveCallback(t))

FairSpec == Spec /\ Fairness

------------------------------------------------------------------------------
(* Properties *)

(* An event is set or not; a semaphore has at most its maximum, and no      *)
(* least: a release of a negative amount is not refused.                    *)
InBounds(c) ==
  /\ \A o \in Events : c[o] \in 0..1
  /\ \A o \in Semaphores : c[o] <= MaxCount

TypeOK ==
  /\ state \in [Threads -> {"new", "ready", "running", "blocked", "suspended", "done"}]
  /\ wait \in [Threads -> Request \cup {NoWait}]
  /\ nested \in [Threads -> Request \cup {NoWait}]
  /\ result \in [Threads -> Result \cup {NoResult}]
  /\ due \subseteq Threads /\ pendingExit \subseteq Threads /\ inCallback \subseteq Threads
  /\ suspendCount \in [Threads -> 0..MaxSuspend]
  /\ stack \in Seq(Threads)
  /\ phase \in {"run", "signal", "wake", "pulse", "pick"}
  /\ next \in 1..N+1 /\ after \in Objects \cup {NoObject}
  /\ owner \in [Locks -> Threads \cup {NoThread}]
  /\ count \in [Objects -> Int]
  /\ InBounds(count)
  /\ abandoned \subseteq Mutexes /\ waiters \subseteq Mutexes
  /\ open \subseteq Objects
  /\ held \in [Threads -> [Locks -> Int]]

(* The pass under way has still to visit t. *)
PassAhead(t) == phase \in {"signal", "wake", "pulse"} /\ next <= t

(* A parked wait of one of these kinds is satisfied only while the pass    *)
(* that will claim for it is under way.                                    *)
HandOffIn(vias) ==
  \A t \in Threads :
    /\ Parked(t) /\ t \notin pendingExit
    /\ wait[t].via \in vias /\ Satisfied(wait[t], t)
    => PassAhead(t)

(* No wake-up is lost: whenever guest code runs, no thread parked in       *)
(* WaitForSingleObject or WaitForMultipleObjects could have its wait       *)
(* satisfied.  What a release frees is claimed for a parked waiter inside  *)
(* the releasing call, so nobody takes it in between (sched.js signal,     *)
(* kernel32 ReleaseMutex, SetEvent, ReleaseSemaphore, removeThread).       *)
HandOff == HandOffIn({"single", "multi"})

(* The same for a thread parked in EnterCriticalSection (kernel32          *)
(* LeaveCriticalSection, removeThread).                                    *)
CritSecHandOff == HandOffIn({"cs"})

(* MX_WAITERS covers every parked WaitFor* on the mutex, so that translated *)
(* code never frees a mutex behind a waiter's back (kernel32 waitOneImpl,   *)
(* waitMany, mutexWaited; runtime.js case 18).                              *)
FlaggedWhileWaited ==
  \A t \in Threads :
    Parked(t) /\ wait[t].via \in {"single", "multi"}
      => wait[t].objs \cap Mutexes \subseteq waiters

(* ... and every parked wait of any kind. *)
FlaggedForEveryWait ==
  \A t \in Threads : Parked(t) => wait[t].objs \cap Mutexes \subseteq waiters

(* A lock claimed at the wake-up still belongs to the thread when its      *)
(* re-executed call returns it (sched.js wakeBlocked, signal).             *)
ClaimKept ==
  \A t \in Threads :
    result[t] # NoResult /\ state[t] # "done"
      => \A o \in result[t].got \cap Locks : owner[o] = t

(* Ownership and recursion count agree with what guest code was granted,   *)
(* whichever of JavaScript and translated code took and released the       *)
(* levels, counting the claim of a wait not returned yet; so a release by  *)
(* a holder is never refused and no two threads hold a lock.  A mutex with *)
(* a closed handle can be neither taken nor released.                      *)
Levels(t, o) ==
  held[t][o] + IF result[t] # NoResult /\ o \in result[t].got THEN 1 ELSE 0

LevelsAccounted ==
  \A o \in Locks \cap (CritSecs \cup open) :
    /\ count[o] = IF owner[o] = NoThread THEN 0 ELSE Levels(owner[o], o)
    /\ \A t \in Threads : held[t][o] > 0 => owner[o] = t
    /\ owner[o] # NoThread => count[o] > 0

(* No mutex with an open handle belongs to a thread that has ended, however *)
(* it ended and whatever it had just been given (process.js removeThread).  *)
NoDeadOwner ==
  \A m \in Mutexes \cap open : owner[m] # NoThread => state[owner[m]] # "done"

(* The dispatch loops on the stack belong to distinct live threads, each   *)
(* running or in a nested wait; no other thread is running, and no parked  *)
(* thread has a frame that could be resumed under it (vm.js runThread,     *)
(* kernel32 TerminateThread).                                              *)
StackDiscipline ==
  /\ \A i, j \in 1..Len(stack) : stack[i] = stack[j] => i = j
  /\ \A t \in Threads :
       OnStack(t) <=> \/ state[t] = "running"
                      \/ state[t] = "blocked" /\ ~Parked(t)

(* A left critical section goes to the parked waiter, not back to a thread *)
(* that enters again at once.                                              *)
CritSecNotRetaken ==
  [][\A s \in CritSecs, t \in Threads :
       owner[s] # t /\ owner'[s] = t /\ ~Parked(t)
         => \A u \in Threads : ~(Parked(u) /\ wait[u].objs = {s})]_vars

(* The re-executed call returns what its claim took (sched.js wait). *)
RecordedOutcomeReturned ==
  [][\A t \in Threads :
       result[t] # NoResult /\ result'[t] = NoResult
         => \A o \in result[t].got \cap Locks : held'[t][o] = held[t][o] + 1]_vars

(* A parked wait with a timeout ends, whatever the other threads do: its   *)
(* deadline is noticed by the passes between slices and by those of nested *)
(* waits (sched.js wakeBlocked, nestedWait).                               *)
TimedWaitEnds == \A t \in Threads : []<>~(Parked(t) /\ wait[t].timed)

(* A ready thread leaves the ready state, nested dispatch loops included.  *)
ReadyRuns == \A t \in Threads : []<>(state[t] # "ready")

WaitsFor(t, x) == Parked(t) /\ x \in wait[t].objs

(* Who waits for a mutex gets it if its holders keep releasing it, although *)
(* the releaser takes it again whenever it can, unless two threads created  *)
(* before it keep waiting for it too: a release goes to the oldest thread   *)
(* parked, so two older ones can hand the mutex to each other for ever, and *)
(* one alone cannot (sched.js signal, kernel32 ReleaseMutex).               *)
MutexGranted ==
  \A x \in Mutexes :
    (\A t \in Threads : []<>(held[t][x] = 0))
      => \A t \in Threads :
           \/ []<>~WaitsFor(t, x)
           \/ \E u, v \in 1..t-1 :
                u # v /\ []<>WaitsFor(u, x) /\ []<>WaitsFor(v, x)
==============================================================================
