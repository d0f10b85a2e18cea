--------------------------- MODULE SchedulerProofs ---------------------------
(***************************************************************************)
(* Theorems about module Scheduler, for any number of threads, any objects *)
(* and any waits: its type invariant and the hand-off invariants of the    *)
(* kernel objects; then, about its locks and its stack, that a claim lasts *)
(* until its wait returns, that no ended thread owns a mutex, that the     *)
(* levels a lock counts are those guest code was granted, and that the     *)
(* stack of dispatch loops holds the threads that run or wait on their     *)
(* frames; that each mutex implements module HandOffLock; and last, about  *)
(* module ThreadPick, that the choice among the ready threads starves none *)
(* and keeps what a yield promised.                                        *)
(***************************************************************************)
EXTENDS MutexHandOff, SequenceTheorems, TLAPS

USE SchedulerAssumption, DisjointKinds

(* What a satisfied wait takes belongs to the wait and is signaled.        *)
LEMMA ClaimsSignaled ==
  ASSUME NEW w \in Request, NEW t \in Threads, Satisfied(w, t), NEW S \in Claims(w, t)
  PROVE  S \subseteq w.objs /\ \A o \in S : IsSignaled(o, t)
BY DEF Request, Satisfied, Claims

(* Taking signaled objects keeps the objects well formed: a count is       *)
(* decremented only from above zero.                                       *)
LEMMA ConsumeTypes ==
  ASSUME TypeOK, NEW t \in Threads, NEW S \in SUBSET (Objects \cup Threads),
         \A o \in S : IsSignaled(o, t), Consume(S, t)
  PROVE  /\ owner' \in [Locks -> Threads \cup {NoThread}]
         /\ count' \in [Objects -> Int]
         /\ InBounds(count')
         /\ abandoned' \subseteq Mutexes
<1>1. owner' \in [Locks -> Threads \cup {NoThread}] /\ abandoned' \subseteq Mutexes
  BY DEF TypeOK, Consume
<1>2. \A o \in Objects : count'[o] \in Int
  BY DEF TypeOK, Consume
<1>3. count' \in [Objects -> Int]
  BY <1>2 DEF Consume
<1>4. ASSUME NEW o \in Events \cup Semaphores
      PROVE  /\ o \in Events => count'[o] \in 0..1
             /\ o \in Semaphores => count'[o] <= MaxCount
  <2>1. /\ o \in Objects /\ o \notin Locks /\ count[o] \in Int /\ MaxCount \in Int
        /\ o \in Events => count[o] \in 0..1
        /\ o \in Semaphores => count[o] <= MaxCount
    BY DEF Objects, Locks, TypeOK, InBounds
  <2>2. o \in S => count[o] > 0
    BY <2>1 DEF IsSignaled, Locks, Objects
  <2>3. count'[o] = IF o \in S \cap Counted THEN count[o] - 1 ELSE count[o]
    BY <2>1 DEF Consume
  <2> QED BY <2>1, <2>2, <2>3
<1> QED BY <1>1, <1>3, <1>4 DEF InBounds

LEMMA GrantTypes ==
  ASSUME TypeOK, NEW t \in Threads, NEW S, Grant(S, t)
  PROVE  held' \in [Threads -> [Locks -> Int]]
BY DEF TypeOK, Grant

LEMMA StackTypes ==
  ASSUME TypeOK
  PROVE  /\ Pop \in Seq(Threads)
         /\ stack # <<>> => Top \in Threads
         /\ \A t \in Threads : Append(stack, t) \in Seq(Threads)
BY DEF TypeOK, Pop, Top

LEMMA WakeTypes ==
  ASSUME TypeOK, NEW t \in Threads, Parked(t), NEW ok \in BOOLEAN,
         NEW S \in SUBSET (Objects \cup Threads), \A o \in S : IsSignaled(o, t),
         Wake(t, ok, S), next' \in 1..N+1, UNCHANGED <<stack, phase, after>>
  PROVE  TypeOK'
<1>1. wait[t] \in Request
  BY DEF TypeOK, Parked
<1>2. [ok |-> ok, got |-> S, req |-> wait[t]] \in Result
  BY <1>1 DEF Result
<1>3. /\ owner' \in [Locks -> Threads \cup {NoThread}]
      /\ count' \in [Objects -> Int]
      /\ InBounds(count')
      /\ abandoned' \subseteq Mutexes
  BY ConsumeTypes DEF Wake
<1> QED BY <1>2, <1>3 DEF TypeOK, Wake

LEMMA InitTypes == Init => TypeOK
BY DEF Init, TypeOK, InBounds, Objects, Locks, Threads, Request, Result

(* Releasing one level of a lock disturbs no event and no semaphore.       *)
LEMMA LowerTypes ==
  ASSUME TypeOK, NEW t \in Threads, NEW o \in Locks, Lower(o), Give(t, o)
  PROVE  /\ owner' \in [Locks -> Threads \cup {NoThread}]
         /\ count' \in [Objects -> Int]
         /\ InBounds(count')
         /\ held' \in [Threads -> [Locks -> Int]]
<1>1. o \in Objects /\ o \notin Events \cup Semaphores
  BY DEF Objects, Locks
<1>2. count' = [count EXCEPT ![o] = @ - 1]
  BY DEF Lower
<1>3. owner' \in [Locks -> Threads \cup {NoThread}]
  BY DEF Lower, TypeOK
<1>4. count' \in [Objects -> Int] /\ \A x \in Objects \ {o} : count'[x] = count[x]
  BY <1>1, <1>2 DEF TypeOK
<1>5. held' \in [Threads -> [Locks -> Int]]
  BY DEF Give, TypeOK
<1> QED BY <1>1, <1>3, <1>4, <1>5 DEF TypeOK, InBounds, Objects

LEMMA AbandonTypes ==
  ASSUME TypeOK, NEW u \in Threads, RemoveThread(u)
  PROVE  /\ state' \in [Threads -> {"new", "ready", "running", "blocked", "suspended", "done"}]
         /\ owner' \in [Locks -> Threads \cup {NoThread}]
         /\ count' \in [Objects -> Int]
         /\ InBounds(count')
         /\ abandoned' \subseteq Mutexes
         /\ held' \in [Threads -> [Locks -> Int]]
         /\ phase' = "signal" /\ next' = 1 /\ after' = NoObject
<1> DEFINE left == {x \in Mutexes \cap open : owner[x] = u}
<1>1. Abandon(u, left) /\ phase' = "signal" /\ next' = 1 /\ after' = NoObject
  BY DEF RemoveThread
<1>2. left \subseteq Mutexes /\ \A x \in Events \cup Semaphores : x \notin left
  BY DEF Locks
<1> HIDE DEF left
<1>3. /\ state' \in [Threads -> {"new", "ready", "running", "blocked", "suspended", "done"}]
      /\ owner' \in [Locks -> Threads \cup {NoThread}]
      /\ abandoned' \subseteq Mutexes
  BY <1>1, <1>2 DEF Abandon, TypeOK
<1>4. count' \in [Objects -> Int]
  BY <1>1 DEF Abandon, TypeOK
<1>5. \A x \in Events \cup Semaphores : count'[x] = count[x]
  BY <1>1, <1>2 DEF Abandon, Objects
<1>6. held' \in [Threads -> [Locks -> Int]]
  BY <1>1 DEF Abandon, TypeOK
<1> QED BY <1>1, <1>3, <1>4, <1>5, <1>6 DEF TypeOK, InBounds

(* Every action keeps the types.                                           *)
LEMMA LeaveSliceTypes ==
  ASSUME TypeOK, LeaveSlice
  PROVE  /\ stack' \in Seq(Threads) /\ next' \in 1..N+1
         /\ phase' \in {"run", "signal", "wake", "pulse", "pick"}
         /\ after' \in Objects \cup {NoObject}
BY StackTypes DEF LeaveSlice

LEMMA GuestCallTypes ==
  ASSUME TypeOK, NEW t \in Threads, GuestCall(t)
  PROVE  TypeOK'
<1>1. ASSUME NEW w \in Asked, TakeNow(t, w)
      PROVE  TypeOK'
  <2>1. w \in Request /\ Satisfied(w, t)
    BY <1>1 DEF TakeNow
  <2>2. PICK S \in Claims(w, t) : Consume(S, t) /\ Grant(S, t)
    BY <1>1 DEF TakeNow
  <2>3. S \in SUBSET (Objects \cup Threads) /\ \A o \in S : IsSignaled(o, t)
    BY <2>1, ClaimsSignaled DEF Request
  <2>4. waiters' \subseteq Mutexes
    BY <1>1 DEF TakeNow, FlagMutexes, TypeOK
  <2> QED BY <1>1, <2>2, <2>3, <2>4, ConsumeTypes, GrantTypes
          DEF TakeNow, TypeOK, threadVars, hostVars
<1>2. ASSUME NEW w \in Asked, Block(t, w)
      PROVE  TypeOK'
  <2>1. waiters' \subseteq Mutexes /\ w \in Request
    BY <1>2 DEF Block, FlagMutexes, TypeOK
  <2>2. CASE ParkIn(t, w)
    BY <1>2, <2>1, <2>2, LeaveSliceTypes DEF Block, ParkIn, TypeOK
  <2>3. CASE NestIn(t, w)
    BY <1>2, <2>1, <2>3 DEF Block, NestIn, TypeOK, hostVars
  <2> QED BY <1>2, <2>2, <2>3 DEF Block
<1>3. CASE ReturnWait(t)
  BY <1>3, GrantTypes DEF ReturnWait, TypeOK, hostVars, objectVars
<1>4. ASSUME NEW x \in Mutexes, ReleaseMutex(t, x) \/ JitReleaseMutex(t, x)
      PROVE  TypeOK'
  <2>1. x \in Locks /\ x \in Objects /\ Lower(x) /\ Give(t, x)
    BY <1>4 DEF ReleaseMutex, JitReleaseMutex, Locks, Objects
  <2> QED BY SMTT(30), <1>4, <2>1, LowerTypes
          DEF ReleaseMutex, JitReleaseMutex, SignalPass, TypeOK, threadVars, hostVars
<1>5. ASSUME NEW s \in CritSecs,
             EnterAgain(t, s) \/ LeaveCriticalSection(t, s) \/ JitLeaveCriticalSection(t, s)
      PROVE  TypeOK'
  <2>1. s \in Locks /\ s \in Objects /\ s \notin Events \cup Semaphores
    BY DEF Locks, Objects
  <2>2. CASE EnterAgain(t, s)
    <3>1. count' \in [Objects -> Int] /\ \A x \in Objects \ {s} : count'[x] = count[x]
      BY <2>1, <2>2 DEF EnterAgain, TypeOK
    <3>2. InBounds(count')
      BY <2>1, <3>1 DEF TypeOK, InBounds, Objects
    <3> QED BY <2>2, <3>1, <3>2, GrantTypes DEF EnterAgain, TypeOK, threadVars, hostVars
  <2>3. CASE LeaveCriticalSection(t, s) \/ JitLeaveCriticalSection(t, s)
    BY <2>1, <2>3, LowerTypes
       DEF LeaveCriticalSection, JitLeaveCriticalSection, SignalPass, TypeOK, threadVars, hostVars
  <2> QED BY <1>5, <2>2, <2>3
<1>6. ASSUME NEW e \in Events, SetEvent(t, e) \/ ResetEvent(t, e) \/ PulseEvent(t, e)
      PROVE  TypeOK'
  <2>1. e \in Objects
    BY DEF Objects, Events
  <2>2. PICK v \in 0..1 : count' = [count EXCEPT ![e] = v]
    BY <1>6 DEF SetEvent, ResetEvent, PulseEvent
  <2>3. count' \in [Objects -> Int] /\ \A x \in Objects \ {e} : count'[x] = count[x]
    BY <2>1, <2>2 DEF TypeOK
  <2>4. count'[e] \in 0..1 /\ e \notin Semaphores
    BY <2>1, <2>2 DEF TypeOK
  <2>5. InBounds(count')
    BY <2>3, <2>4 DEF TypeOK, InBounds, Objects
  <2> QED BY <1>6, <2>1, <2>3, <2>5
          DEF SetEvent, ResetEvent, PulseEvent, SignalPass, TypeOK, threadVars, hostVars
<1>7. ASSUME NEW s \in Semaphores, NEW n \in Amounts, ReleaseSemaphore(t, s, n)
      PROVE  TypeOK'
  <2>1. s \in Objects /\ n \in Int /\ count' = [count EXCEPT ![s] = @ + n]
    BY <1>7, SchedulerAssumption DEF ReleaseSemaphore, Objects
  <2>2. count' \in [Objects -> Int] /\ InBounds(count')
    BY <1>7, <2>1 DEF ReleaseSemaphore, TypeOK, InBounds, Objects
  <2> QED BY <1>7, <2>2 DEF ReleaseSemaphore, SignalPass, TypeOK, threadVars
<1>8. ASSUME NEW o \in Closable, CloseHandle(t, o)
      PROVE  TypeOK'
  BY <1>8 DEF CloseHandle, TypeOK, threadVars, hostVars
<1>9. CASE EnterCallback(t) \/ LeaveCallback(t)
  BY <1>9 DEF EnterCallback, LeaveCallback, TypeOK, hostVars, objectVars
<1>10. CASE SuspendSelf(t)
  <2>1. SuspendRequest \in Request
    BY DEF SuspendRequest, Request, Vias
  <2>2. suspendCount' \in [Threads -> 0..MaxSuspend]
    BY <1>10 DEF SuspendSelf, TypeOK
  <2>3. CASE ParkIn(t, SuspendRequest)
    BY <1>10, <2>1, <2>2, <2>3, LeaveSliceTypes DEF SuspendSelf, ParkIn, TypeOK, objectVars
  <2>4. CASE NestIn(t, SuspendRequest)
    BY <1>10, <2>1, <2>2, <2>4 DEF SuspendSelf, NestIn, TypeOK, hostVars, objectVars
  <2> QED BY <1>10, <2>3, <2>4 DEF SuspendSelf
<1>11. CASE EndSlice(t)
  BY <1>11, LeaveSliceTypes DEF EndSlice, TypeOK, objectVars
<1>12. CASE ExitThread(t)
  BY SMTT(30), <1>12, StackTypes, AbandonTypes DEF ExitThread, TypeOK
<1> QED BY <1>1, <1>2, <1>3, <1>4, <1>5, <1>6, <1>7, <1>8, <1>9, <1>10, <1>11, <1>12
        DEF GuestCall

LEMMA ThreadCallTypes ==
  ASSUME TypeOK, NEW t \in Threads, NEW u \in Threads, ThreadCall(t, u)
  PROVE  TypeOK'
<1>1. ASSUME NEW b \in BOOLEAN, CreateThread(t, u, b)
      PROVE  TypeOK'
  BY <1>1 DEF CreateThread, TypeOK, hostVars, objectVars
<1>2. CASE TerminateThread(t, u)
  <2>1. pendingExit' \subseteq Threads
    BY <1>2 DEF TerminateThread, TypeOK
  <2>2. CASE OnStack(u)
    BY <1>2, <2>1, <2>2 DEF TerminateThread, TypeOK
  <2>3. CASE RemoveThread(u)
    <3>1. UNCHANGED <<wait, nested, result, due, suspendCount, inCallback, stack, waiters, open>>
      BY <1>2 DEF TerminateThread
    <3> QED BY SMTT(30), <2>1, <2>3, <3>1, AbandonTypes DEF TypeOK
  <2> QED BY <1>2, <2>2, <2>3 DEF TerminateThread
<1>3. CASE SuspendThread(t, u)
  BY <1>3 DEF SuspendThread, TypeOK, hostVars, objectVars
<1>4. CASE ResumeThread(t, u)
  BY <1>4 DEF ResumeThread, TypeOK, hostVars, objectVars
<1>5. CASE NestedYield(t, u)
  BY <1>5, StackTypes DEF NestedYield, RunThread, TypeOK, objectVars
<1> QED BY <1>1, <1>2, <1>3, <1>4, <1>5 DEF ThreadCall

LEMMA NestedReturnTypes ==
  ASSUME TypeOK, NEW t \in Threads, NEW S \in SUBSET (Objects \cup Threads),
         \A o \in S : IsSignaled(o, t), NestedReturn(t, S)
  PROVE  TypeOK'
BY ConsumeTypes, GrantTypes DEF NestedReturn, TypeOK, hostVars

LEMMA HostStepTypes ==
  ASSUME TypeOK, NEW t \in Threads, HostStep(t)
  PROVE  TypeOK'
<1>1. CASE Pick(t)
  BY <1>1, StackTypes DEF Pick, RunThread, TypeOK, objectVars
<1>2. CASE NestedTake(t)
  <2>1. nested[t] \in Request
    BY <1>2 DEF NestedTake, Waiting, TypeOK
  <2>2. ASSUME Satisfied(nested[t], t), NEW S \in Claims(nested[t], t), NestedReturn(t, S)
        PROVE  TypeOK'
    BY <2>1, <2>2, ClaimsSignaled, NestedReturnTypes DEF Request
  <2>3. CASE NestedReturn(t, {})
    BY <2>3, NestedReturnTypes
  <2> QED BY <1>2, <2>2, <2>3 DEF NestedTake
<1>3. CASE NestedGiveUp(t)
  BY <1>3, NestedReturnTypes DEF NestedGiveUp
<1>4. CASE NestedTurn(t)
  BY <1>4 DEF NestedTurn, TypeOK, threadVars, objectVars
<1>5. CASE Expire(t)
  BY <1>5 DEF Expire, TypeOK, hostVars, objectVars
<1> QED BY <1>1, <1>2, <1>3, <1>4, <1>5 DEF HostStep

LEMMA VisitTypes ==
  ASSUME TypeOK, SignalVisit \/ WakeVisit
  PROVE  TypeOK'
<1> DEFINE t == next
<1>1. t \in Threads /\ next' \in 1..N+1 /\ UNCHANGED <<stack, phase, after>>
  <2>1. VisitThread
    BY DEF SignalVisit, WakeVisit
  <2> QED BY <2>1 DEF VisitThread, TypeOK, Threads
<1>2. ASSUME Parked(t), WakeSatisfied(t)
      PROVE  TypeOK'
  <2>1. wait[t] \in Request
    BY <1>1, <1>2 DEF Parked, TypeOK
  <2>2. ASSUME Satisfied(wait[t], t), NEW S \in Claims(wait[t], t), Wake(t, TRUE, S)
        PROVE  TypeOK'
    <3>1. S \in SUBSET (Objects \cup Threads) /\ \A o \in S : IsSignaled(o, t)
      BY <1>1, <2>1, <2>2, ClaimsSignaled DEF Request
    <3> QED BY <1>1, <1>2, <2>2, <3>1, WakeTypes
  <2>3. CASE Wake(t, TRUE, {})
    BY <1>1, <1>2, <2>3, WakeTypes
  <2> QED BY <1>2, <2>2, <2>3 DEF WakeSatisfied
<1>3. ASSUME Parked(t), NEW ok \in BOOLEAN, Wake(t, ok, {})
      PROVE  TypeOK'
  BY <1>1, <1>3, WakeTypes
<1>4. CASE UNCHANGED <<threadVars, objectVars, held>>
  BY <1>1, <1>4 DEF TypeOK, threadVars, objectVars
<1> QED BY <1>2, <1>3, <1>4 DEF SignalVisit, WakeVisit, SignalEligible

LEMMA EndPassTypes ==
  ASSUME TypeOK, EndPass \/ PickNone
  PROVE  TypeOK'
<1>1. CASE EndPass
  <2>1. /\ count' \in [Objects -> Int]
        /\ InBounds(count')
    <3>1. CASE phase = "pulse"
      <4>1. count' = [count EXCEPT ![after] = 0]
        BY <1>1, <3>1 DEF EndPass
      <4>2. \A x \in Objects : count'[x] \in Int /\ count'[x] \in {0, count[x]}
        BY <4>1 DEF TypeOK
      <4>3. count' \in [Objects -> Int]
        BY <4>1, <4>2 DEF TypeOK
      <4>4. ASSUME NEW x \in Events \cup Semaphores
            PROVE  /\ x \in Events => count'[x] \in 0..1
                   /\ x \in Semaphores => count'[x] <= MaxCount
        <5>1. /\ x \in Objects /\ 0 <= MaxCount
              /\ x \in Events => count[x] \in 0..1
              /\ x \in Semaphores => count[x] <= MaxCount
          BY SchedulerAssumption DEF Objects, TypeOK, InBounds
        <5> QED BY <4>2, <5>1
      <4> QED BY <4>3, <4>4 DEF InBounds
    <3>2. CASE phase # "pulse"
      <4>1. count' = count
        BY <1>1, <3>2 DEF EndPass
      <4> QED BY <4>1 DEF TypeOK
    <3> QED BY <3>1, <3>2
  <2>2. waiters' \subseteq Mutexes
    BY <1>1 DEF EndPass, TypeOK
  <2>3. phase' \in {"run", "signal", "wake", "pulse", "pick"} /\ next' \in 1..N+1
    BY <1>1 DEF EndPass
  <2> QED BY <1>1, <2>1, <2>2, <2>3 DEF EndPass, TypeOK, threadVars
<1>2. CASE PickNone
  BY <1>2 DEF PickNone, TypeOK, threadVars, objectVars
<1> QED BY <1>1, <1>2

LEMMA StepTypes == TypeOK /\ [Next]_vars => TypeOK'
<1> SUFFICES ASSUME TypeOK, [Next]_vars PROVE TypeOK'
  OBVIOUS
<1>1. CASE UNCHANGED vars
  BY <1>1 DEF vars, TypeOK, threadVars, hostVars, objectVars
<1>2. CASE Next
  BY <1>2, GuestCallTypes, HostStepTypes, ThreadCallTypes, VisitTypes, EndPassTypes DEF Next
<1> QED BY <1>1, <1>2

(* Every reachable state is well typed: in particular an event is set or   *)
(* not, and a semaphore's count never exceeds its maximum, whatever signed *)
(* amounts it is released by and whatever its waits take (kernel32         *)
(* ReleaseSemaphore, consumeSignal).                                       *)
THEOREM TypeCorrect == Spec => []TypeOK
BY InitTypes, StepTypes, PTL DEF Spec

------------------------------------------------------------------------------
(* A thread is parked only in a wait the guest asked for, and a wait, on   *)
(* the thread or on its frame, is that of a blocked or ended thread.       *)
WaitsAsked ==
  \A t \in Threads :
    /\ wait[t] # NoWait => wait[t] \in Asked \cup {SuspendRequest} /\ nested[t] = NoWait
    /\ wait[t] # NoWait \/ nested[t] # NoWait => state[t] \in {"blocked", "done"}

LEMMA InitAsked == Init => WaitsAsked
BY DEF Init, WaitsAsked

LEMMA GuestAsked ==
  ASSUME TypeOK, WaitsAsked, NEW t \in Threads, GuestCall(t)
  PROVE  WaitsAsked'
<1> USE DEF WaitsAsked, TypeOK
<1>1. ASSUME NEW w \in Asked \cup {SuspendRequest}, Guest(t), ParkIn(t, w)
      PROVE  WaitsAsked'
  BY <1>1 DEF ParkIn, Guest
<1>2. ASSUME NEW w, Guest(t), NestIn(t, w)
      PROVE  WaitsAsked'
  BY <1>2 DEF NestIn, Guest
<1>3. ASSUME NEW w \in Asked, Block(t, w)
      PROVE  WaitsAsked'
  BY <1>1, <1>2, <1>3 DEF Block, MayAsk
<1>4. CASE SuspendSelf(t)
  BY <1>1, <1>2, <1>4 DEF SuspendSelf
<1>5. CASE EndSlice(t)
  BY <1>5 DEF EndSlice, Guest
<1>6. CASE ExitThread(t)
  BY <1>6 DEF ExitThread, RemoveThread, Abandon
<1>7. CASE UNCHANGED <<state, wait, nested>>
  BY <1>7
<1> QED
  BY <1>3, <1>4, <1>5, <1>6, <1>7
     DEF GuestCall, TakeNow, ReturnWait, ReleaseMutex, JitReleaseMutex, EnterAgain,
         LeaveCriticalSection, JitLeaveCriticalSection, SetEvent, ResetEvent, PulseEvent,
         ReleaseSemaphore, CloseHandle, EnterCallback, LeaveCallback, threadVars

LEMMA StepAsked ==
  ASSUME TypeOK, WaitsAsked, [Next]_vars
  PROVE  WaitsAsked'
<1> USE DEF WaitsAsked, TypeOK
<1>1. ASSUME NEW t \in Threads, NEW ok, NEW S, Parked(t), Wake(t, ok, S)
      PROVE  WaitsAsked'
  BY <1>1 DEF Wake, Parked
<1>2. CASE UNCHANGED <<state, wait, nested>>
  BY <1>2
<1>3. ASSUME NEW t \in Threads, NEW u \in Threads, ThreadCall(t, u)
      PROVE  WaitsAsked'
  BY <1>3 DEF ThreadCall, CreateThread, TerminateThread, RemoveThread, Abandon, SuspendThread,
              ResumeThread, NestedYield, Runnable, RunThread
<1>4. ASSUME NEW t \in Threads, HostStep(t)
      PROVE  WaitsAsked'
  <2>1. ASSUME Waiting(t), NEW S, NestedReturn(t, S)
        PROVE  WaitsAsked'
    BY <2>1 DEF Waiting, NestedReturn
  <2> QED BY <1>2, <1>4, <2>1 DEF HostStep, Pick, Runnable, RunThread, NestedTake, NestedGiveUp,
              NestedTurn, Expire, threadVars
<1>5. CASE SignalVisit \/ WakeVisit
  <2>1. VisitThread
    BY <1>5 DEF SignalVisit, WakeVisit
  <2>2. next \in Threads
    BY <2>1 DEF VisitThread, Threads
  <2> QED BY <1>1, <1>2, <1>5, <2>2
          DEF SignalVisit, WakeVisit, SignalEligible, WakeSatisfied, threadVars
<1>6. CASE EndPass \/ PickNone
  BY <1>2, <1>6 DEF EndPass, PickNone, threadVars
<1>7. CASE UNCHANGED vars
  BY <1>2, <1>7 DEF vars, threadVars
<1> QED BY GuestAsked, <1>3, <1>4, <1>5, <1>6, <1>7 DEF Next

------------------------------------------------------------------------------
(* A thread is parked after a step only if it was, in the same wait, or if *)
(* the step is its own call parking it: then its mutexes are flagged and   *)
(* the run loop's pass over the threads begins.                            *)
StillParked(t) == Parked(t) /\ wait'[t] = wait[t]

JustParked(t) ==
  /\ phase' = "wake" /\ next' = 1
  /\ wait'[t].via \in {"single", "multi"} => wait'[t].objs \cap Mutexes \subseteq waiters'

LEMMA Parking ==
  ASSUME TypeOK, WaitsAsked, [Next]_vars, NEW t \in Threads, Parked(t)'
  PROVE  StillParked(t) \/ JustParked(t)
<1> USE DEF TypeOK, WaitsAsked, Parked, StillParked
<1>1. CASE UNCHANGED <<state, wait>>
  BY <1>1
<1>2. ASSUME NEW u \in Threads, NEW w, ParkIn(u, w), phase' = "wake" /\ next' = 1 => JustParked(t)
      PROVE  StillParked(t) \/ JustParked(t)
  BY <1>2 DEF ParkIn, LeaveSlice, CanUnwind
<1>3. ASSUME NEW u \in Threads, NEW w, Guest(u), NestIn(u, w)
      PROVE  StillParked(t)
  BY <1>3 DEF NestIn, Guest
<1>4. ASSUME NEW u \in Threads, GuestCall(u)
      PROVE  StillParked(t) \/ JustParked(t)
  <2>1. ASSUME NEW w \in Asked, Block(u, w)
        PROVE  StillParked(t) \/ JustParked(t)
    <3>1. CASE ParkIn(u, w)
      <4>1. CASE t = u
        <5>1. wait'[t] = w
          BY <3>1, <4>1 DEF ParkIn
        <5> QED BY <2>1, <3>1, <5>1 DEF Block, FlagMutexes, JustParked, ParkIn, LeaveSlice, CanUnwind
      <4>2. CASE t # u
        BY <3>1, <4>2 DEF ParkIn
      <4> QED BY <4>1, <4>2
    <3>2. CASE NestIn(u, w)
      BY <1>3, <2>1, <3>2 DEF Block, MayAsk
    <3> QED BY <2>1, <3>1, <3>2 DEF Block
  <2>2. CASE SuspendSelf(u)
    <3>1. CASE ParkIn(u, SuspendRequest)
      <4>1. CASE t = u
        <5>1. wait'[t].via = "suspend"
          BY <3>1, <4>1 DEF ParkIn, SuspendRequest
        <5> QED BY <3>1, <5>1 DEF JustParked, ParkIn, LeaveSlice, CanUnwind
      <4>2. CASE t # u
        BY <3>1, <4>2 DEF ParkIn
      <4> QED BY <4>1, <4>2
    <3>2. CASE NestIn(u, SuspendRequest)
      BY <1>3, <2>2, <3>2 DEF SuspendSelf
    <3> QED BY <2>2, <3>1, <3>2 DEF SuspendSelf
  <2>3. CASE EndSlice(u)
    BY <2>3 DEF EndSlice
  <2>4. CASE ExitThread(u)
    BY <2>4 DEF ExitThread, RemoveThread, Abandon
  <2> QED
    BY <1>1, <1>4, <2>1, <2>2, <2>3, <2>4
       DEF GuestCall, TakeNow, ReturnWait, ReleaseMutex, JitReleaseMutex, EnterAgain,
           LeaveCriticalSection, JitLeaveCriticalSection, SetEvent, ResetEvent, PulseEvent,
           ReleaseSemaphore, CloseHandle, EnterCallback, LeaveCallback, threadVars
<1>5. ASSUME NEW u \in Threads, NEW v \in Threads, ThreadCall(u, v)
      PROVE  StillParked(t)
  BY <1>5 DEF ThreadCall, CreateThread, TerminateThread, RemoveThread, Abandon, SuspendThread,
              ResumeThread, NestedYield, Runnable, RunThread
<1>6. ASSUME NEW u \in Threads, HostStep(u)
      PROVE  StillParked(t)
  BY <1>6 DEF HostStep, Pick, Runnable, RunThread, NestedTake, NestedReturn, NestedGiveUp,
              NestedTurn, Expire, threadVars
<1>7. ASSUME NEW u, NEW ok, NEW S, Wake(u, ok, S)
      PROVE  StillParked(t)
  BY <1>7 DEF Wake
<1>8. CASE SignalVisit \/ WakeVisit
  BY <1>1, <1>7, <1>8 DEF SignalVisit, WakeVisit, WakeSatisfied, threadVars
<1>9. CASE EndPass \/ PickNone \/ UNCHANGED vars
  BY <1>1, <1>9 DEF EndPass, PickNone, vars, threadVars
<1> QED BY <1>4, <1>5, <1>6, <1>8, <1>9 DEF Next

(* Flags are added by waits about to park, and lowered only at the end of  *)
(* a release's pass that has found no blocked thread in need of one.       *)
LEMMA StepFlagged ==
  ASSUME TypeOK, WaitsAsked, FlaggedWhileWaited, [Next]_vars
  PROVE  FlaggedWhileWaited'
<1> SUFFICES ASSUME NEW t \in Threads, Parked(t)', wait'[t].via \in {"single", "multi"}
             PROVE  wait'[t].objs \cap Mutexes \subseteq waiters'
  BY DEF FlaggedWhileWaited
<1>1. CASE JustParked(t)
  BY <1>1 DEF JustParked
<1>2. CASE StillParked(t)
  <2>1. wait[t].objs \cap Mutexes \subseteq waiters
    BY <1>2 DEF StillParked, FlaggedWhileWaited
  <2>2. CASE waiters \subseteq waiters'
    BY <1>2, <2>1, <2>2 DEF StillParked
  <2>3. CASE EndPass
    <3>1. MutexWaited \/ wait[t].objs \cap Mutexes = {}
      BY <1>2 DEF StillParked, Parked, MutexWaited
    <3> QED BY <1>2, <2>1, <2>3, <3>1 DEF EndPass, StillParked
  <2>4. ASSUME NEW u \in Threads, GuestCall(u)
        PROVE  waiters \subseteq waiters'
    BY <2>4
       DEF GuestCall, TakeNow, Block, FlagMutexes, ReturnWait, ReleaseMutex, JitReleaseMutex,
           EnterAgain, LeaveCriticalSection, JitLeaveCriticalSection, SetEvent, ResetEvent,
           PulseEvent, ReleaseSemaphore, CloseHandle, EnterCallback, LeaveCallback, SuspendSelf,
           EndSlice, ExitThread, objectVars
  <2>5. ASSUME NEW u \in Threads, NEW v \in Threads, ThreadCall(u, v)
        PROVE  waiters \subseteq waiters'
    BY <2>5 DEF ThreadCall, CreateThread, TerminateThread, SuspendThread, ResumeThread,
                NestedYield, RunThread, objectVars
  <2>6. ASSUME NEW u \in Threads, HostStep(u)
        PROVE  waiters \subseteq waiters'
    BY <2>6 DEF HostStep, Pick, RunThread, NestedTake, NestedReturn, NestedGiveUp, NestedTurn,
                Expire, objectVars
  <2>7. ASSUME SignalVisit \/ WakeVisit \/ PickNone \/ UNCHANGED vars
        PROVE  waiters \subseteq waiters'
    <3>1. ASSUME NEW u, NEW ok, NEW S, Wake(u, ok, S)
          PROVE  waiters' = waiters
      BY <3>1 DEF Wake
    <3> QED BY <2>7, <3>1 DEF SignalVisit, WakeVisit, WakeSatisfied, PickNone, vars, objectVars
  <2> QED BY <2>2, <2>3, <2>4, <2>5, <2>6, <2>7 DEF Next
<1> QED BY <1>1, <1>2, Parking

(* Translated code never frees a mutex that a thread is parked for in one  *)
(* of the WaitFor calls: the flag it looks at is set (kernel32             *)
(* waitOneImpl, waitMany, mutexWaited; runtime.js case 18).                *)
THEOREM FlagsCorrect == Spec => []FlaggedWhileWaited
<1>1. Init => FlaggedWhileWaited
  BY DEF Init, FlaggedWhileWaited, Parked
<1> QED BY <1>1, InitAsked, StepAsked, StepFlagged, TypeCorrect, PTL DEF Spec

------------------------------------------------------------------------------
(* The kinds of wait handed over at once: critical sections are not, once  *)
(* translated code leaves them.                                            *)
HandedVias(V) == V \subseteq {"single", "multi", "cs"} /\ ("cs" \in V => ~Jit)

HandedTo(V, t) ==
  /\ Parked(t) /\ t \notin pendingExit
  /\ wait[t].via \in V /\ Satisfied(wait[t], t)
  => PassAhead(t)

(* Nothing that thread t waits for becomes signaled.                       *)
NothingNew(t) == \A o \in wait[t].objs : IsSignaled(o, t)' => IsSignaled(o, t)

LEMMA StillUnsatisfied ==
  ASSUME TypeOK, NEW t \in Threads, StillParked(t), NothingNew(t), Satisfied(wait[t], t)'
  PROVE  Satisfied(wait[t], t)
<1>1. wait[t]' = wait[t]
  BY DEF StillParked
<1> QED BY <1>1 DEF NothingNew, Satisfied

(* A step during which t stays parked, nothing it waits for becomes        *)
(* signaled and no pass goes by it, keeps the hand-off.                    *)
LEMMA Quiet ==
  ASSUME TypeOK, NEW V, NEW t \in Threads, HandedTo(V, t), StillParked(t), NothingNew(t),
         pendingExit \subseteq pendingExit', PassAhead(t) => PassAhead(t)'
  PROVE  HandedTo(V, t)'
<1>1. Satisfied(wait[t], t)' => Satisfied(wait[t], t)
  BY StillUnsatisfied
<1> QED BY <1>1 DEF HandedTo, StillParked

(* What one thread takes is not signaled to another one by it.             *)
LEMMA Consumed ==
  ASSUME TypeOK, NEW t \in Threads, NEW u \in Threads \ {t}, NEW S, Consume(S, u),
         \A v \in Threads : state'[v] = "done" => state[v] = "done"
  PROVE  NothingNew(t)
<1> SUFFICES ASSUME NEW o \in wait[t].objs, IsSignaled(o, t)'
             PROVE  IsSignaled(o, t)
  BY DEF NothingNew
<1>1. CASE o \in Locks
  <2>1. o \notin Events \cup Semaphores /\ o \notin Threads
    BY <1>1 DEF Objects
  <2>2. owner'[o] = IF o \in S THEN u ELSE owner[o]
    BY <1>1 DEF Consume
  <2> QED BY <1>1, <2>1, <2>2 DEF IsSignaled, Locks
<1>2. CASE o \in Events \cup Semaphores
  <2>1. o \in Objects /\ o \notin Locks /\ o \notin Threads
    BY <1>2 DEF Objects
  <2>2. count[o] \in Int /\ count'[o] = IF o \in S \cap Counted THEN count[o] - 1 ELSE count[o]
    BY <2>1 DEF Consume, TypeOK
  <2> QED BY <1>2, <2>1, <2>2 DEF IsSignaled, Locks
<1>3. CASE o \notin Locks \cup Events \cup Semaphores
  BY <1>3 DEF IsSignaled, Locks
<1> QED BY <1>1, <1>2, <1>3

LEMMA Unchanged ==
  ASSUME TypeOK, NEW t \in Threads, UNCHANGED <<owner, count>>,
         \A v \in Threads : state'[v] = "done" => state[v] = "done"
  PROVE  NothingNew(t)
BY DEF NothingNew, IsSignaled, TypeOK

(* Releasing a level that is not the last one frees nothing.               *)
LEMMA Kept ==
  ASSUME TypeOK, NEW t \in Threads, NEW o \in Locks, count[o] # 1, Lower(o), UNCHANGED state
  PROVE  NothingNew(t)
<1>1. owner' = owner /\ \A x \in Events \cup Semaphores : count'[x] = count[x]
  BY DEF Lower, TypeOK, Objects
<1> QED BY <1>1 DEF NothingNew, IsSignaled, TypeOK

(* Freeing a lock matters only to the waits that name it.                  *)
LEMMA Freed ==
  ASSUME TypeOK, NEW t \in Threads, NEW o \in Locks, o \notin wait[t].objs, Lower(o),
         UNCHANGED state
  PROVE  NothingNew(t)
<1>1. \A x \in Locks \ {o} : owner'[x] = owner[x]
  BY DEF Lower, TypeOK
<1>2. \A x \in Events \cup Semaphores : count'[x] = count[x]
  BY DEF Lower, TypeOK, Objects
<1> QED BY ZenonT(60), <1>1, <1>2 DEF NothingNew, IsSignaled, TypeOK, Locks

LEMMA GuestHandsOff ==
  ASSUME TypeOK, WaitsAsked, FlaggedWhileWaited, NEW V, HandedVias(V), HandOffIn(V),
         NEW u \in Threads, GuestCall(u), NEW t \in Threads, StillParked(t)
  PROVE  HandedTo(V, t)'
<1>1. HandedTo(V, t)
  BY DEF HandOffIn, HandedTo
<1>2. CASE phase' \in {"signal", "wake", "pulse"} /\ next' = 1
  BY <1>2 DEF HandedTo, PassAhead, Threads
<1>4. ASSUME phase = "run", NothingNew(t), pendingExit \subseteq pendingExit'
      PROVE  HandedTo(V, t)'
  BY <1>1, <1>4, Quiet DEF PassAhead
<1>5. ASSUME NEW w \in Asked, TakeNow(u, w)
      PROVE  HandedTo(V, t)'
  <2>1. t # u /\ phase = "run"
    BY <1>5 DEF TakeNow, MayAsk, Guest, StillParked, Parked
  <2>2. NothingNew(t)
    BY <1>5, <2>1, Consumed DEF TakeNow, threadVars
  <2> QED BY <1>4, <1>5, <2>1, <2>2 DEF TakeNow, threadVars
<1>6. ASSUME NEW w \in Asked, Block(u, w)
      PROVE  HandedTo(V, t)'
  <2>1. phase = "run" /\ NothingNew(t)
    BY <1>6, Unchanged DEF Block, ParkIn, NestIn, MayAsk, Guest, TypeOK
  <2> QED BY <1>4, <1>6, <2>1 DEF Block
<1>7. CASE SuspendSelf(u)
  <2>1. phase = "run" /\ NothingNew(t)
    BY <1>7, Unchanged DEF SuspendSelf, ParkIn, NestIn, Guest, TypeOK, objectVars
  <2> QED BY <1>4, <1>7, <2>1 DEF SuspendSelf
<1>8. CASE \/ ReturnWait(u) \/ (\E o \in Closable : CloseHandle(u, o))
           \/ EnterCallback(u) \/ LeaveCallback(u) \/ EndSlice(u)
  <2>1. phase = "run" /\ NothingNew(t) /\ pendingExit' = pendingExit
    BY <1>8, Unchanged
       DEF ReturnWait, CloseHandle, EnterCallback, LeaveCallback, EndSlice, Guest, TypeOK,
           objectVars, threadVars
  <2> QED BY <1>4, <2>1
<1>9. ASSUME NEW x \in Mutexes, ReleaseMutex(u, x)
      PROVE  HandedTo(V, t)'
  <2>1. CASE count[x] = 1
    BY <1>2, <1>9, <2>1 DEF ReleaseMutex, SignalPass
  <2>2. CASE count[x] # 1
    BY <1>4, <1>9, <2>2, Kept DEF ReleaseMutex, Guest, Locks, threadVars
  <2> QED BY <2>1, <2>2
<1>10. ASSUME NEW x \in Mutexes, JitReleaseMutex(u, x)
       PROVE  HandedTo(V, t)'
  <2>1. phase = "run" /\ UNCHANGED <<state, pendingExit>> /\ Lower(x) /\ x \in Locks
    BY <1>10 DEF JitReleaseMutex, Guest, threadVars, Locks
  <2>2. CASE count[x] # 1
    BY <1>4, <2>1, <2>2, Kept
  <2>3. CASE x \notin wait[t].objs
    BY <1>4, <2>1, <2>3, Freed
  <2>4. CASE count[x] = 1 /\ x \in wait[t].objs
    <3>1. x \notin waiters
      BY <1>10, <2>4 DEF JitReleaseMutex
    <3>2. wait[t].via \notin {"single", "multi"}
      BY <2>4, <3>1 DEF FlaggedWhileWaited, StillParked
    <3>3. wait[t].via # "cs"
      BY <2>4 DEF WaitsAsked, StillParked, Parked, SuspendRequest
    <3> QED BY <3>2, <3>3 DEF HandedTo, HandedVias, StillParked
  <2> QED BY <2>2, <2>3, <2>4
<1>11. ASSUME NEW s \in CritSecs, EnterAgain(u, s)
       PROVE  HandedTo(V, t)'
  <2>1. owner' = owner /\ \A x \in Events \cup Semaphores : count'[x] = count[x]
    BY <1>11 DEF EnterAgain, TypeOK, Objects, Locks
  <2>2. NothingNew(t)
    BY <1>11, <2>1 DEF EnterAgain, NothingNew, IsSignaled, TypeOK, threadVars
  <2> QED BY <1>4, <1>11, <2>2 DEF EnterAgain, Guest, threadVars
<1>12. ASSUME NEW s \in CritSecs, LeaveCriticalSection(u, s)
       PROVE  HandedTo(V, t)'
  <2>1. CASE count[s] = 1
    BY <1>2, <1>12, <2>1 DEF LeaveCriticalSection, SignalPass
  <2>2. CASE count[s] # 1
    BY <1>4, <1>12, <2>2, Kept DEF LeaveCriticalSection, Guest, Locks, threadVars
  <2> QED BY <2>1, <2>2
<1>13. ASSUME NEW s \in CritSecs, JitLeaveCriticalSection(u, s)
       PROVE  HandedTo(V, t)'
  <2>1. phase = "run" /\ UNCHANGED <<state, pendingExit>> /\ Lower(s) /\ s \in Locks
    BY <1>13 DEF JitLeaveCriticalSection, Guest, threadVars, Locks
  <2>2. CASE s \notin wait[t].objs
    BY <1>4, <2>1, <2>2, Freed
  <2>3. CASE s \in wait[t].objs
    <3>1. "cs" \notin V
      BY <1>13 DEF JitLeaveCriticalSection, HandedVias
    <3>2. wait[t].via \notin {"single", "multi"}
      BY <2>3 DEF WaitsAsked, StillParked, Parked, SuspendRequest
    <3> QED BY <3>1, <3>2 DEF HandedTo, HandedVias, StillParked
  <2> QED BY <2>2, <2>3
<1>14. ASSUME NEW e \in Events, ResetEvent(u, e)
       PROVE  HandedTo(V, t)'
  <2>1. e \in Objects /\ owner' = owner /\ state' = state
    BY <1>14 DEF ResetEvent, Objects, threadVars
  <2>2. \A x \in Events \cup Semaphores : count'[x] > 0 => count[x] > 0
    BY <1>14, <2>1 DEF ResetEvent, TypeOK, Objects
  <2>3. NothingNew(t)
    BY <2>1, <2>2 DEF NothingNew, IsSignaled
  <2> QED BY <1>4, <1>14, <2>3 DEF ResetEvent, Guest, threadVars
<1>15. CASE \/ \E e \in Events : SetEvent(u, e) \/ PulseEvent(u, e)
            \/ \E s \in Semaphores, n \in Amounts : ReleaseSemaphore(u, s, n)
            \/ ExitThread(u)
  BY <1>2, <1>15 DEF SetEvent, PulseEvent, ReleaseSemaphore, ExitThread, RemoveThread, SignalPass
<1> QED BY <1>5, <1>6, <1>7, <1>8, <1>9, <1>10, <1>11, <1>12, <1>13, <1>14, <1>15 DEF GuestCall

LEMMA ThreadHandsOff ==
  ASSUME TypeOK, NEW V, HandOffIn(V), NEW u \in Threads, NEW v \in Threads, ThreadCall(u, v),
         NEW t \in Threads, StillParked(t)
  PROVE  HandedTo(V, t)'
<1>1. HandedTo(V, t)
  BY DEF HandOffIn, HandedTo
<1>2. phase = "run"
  BY DEF ThreadCall, CreateThread, TerminateThread, SuspendThread, ResumeThread, NestedYield, Guest
<1>3. CASE phase' = "signal" /\ next' = 1
  BY <1>3 DEF HandedTo, PassAhead, Threads
<1>4. ASSUME UNCHANGED <<owner, count>>, pendingExit \subseteq pendingExit',
             \A x \in Threads : state'[x] = "done" => state[x] = "done"
      PROVE  HandedTo(V, t)'
  BY <1>1, <1>2, <1>4, Unchanged, Quiet DEF PassAhead
<1>5. CASE TerminateThread(u, v)
  BY <1>3, <1>4, <1>5 DEF TerminateThread, RemoveThread
<1>6. CASE \/ \E b \in BOOLEAN : CreateThread(u, v, b)
           \/ SuspendThread(u, v) \/ ResumeThread(u, v) \/ NestedYield(u, v)
  BY <1>4, <1>6 DEF CreateThread, SuspendThread, ResumeThread, NestedYield, RunThread, TypeOK,
                    objectVars
<1> QED BY <1>5, <1>6 DEF ThreadCall

LEMMA HostHandsOff ==
  ASSUME TypeOK, NEW V, HandOffIn(V), NEW u \in Threads, HostStep(u),
         NEW t \in Threads, StillParked(t)
  PROVE  HandedTo(V, t)'
<1>1. HandedTo(V, t) /\ ~PassAhead(t) /\ pendingExit' = pendingExit
  BY DEF HandOffIn, HandedTo, HostStep, Pick, RunThread, NestedTake, NestedGiveUp, NestedReturn,
         NestedTurn, Expire, Waiting, PassAhead, threadVars
<1>2. ASSUME NothingNew(t)
      PROVE  HandedTo(V, t)'
  BY <1>1, <1>2, Quiet
<1>3. ASSUME UNCHANGED <<owner, count>>, \A v \in Threads : state'[v] = "done" => state[v] = "done"
      PROVE  HandedTo(V, t)'
  BY <1>2, <1>3, Unchanged
<1>4. ASSUME NEW S, Waiting(u), NestedReturn(u, S)
      PROVE  HandedTo(V, t)'
  <2>1. CASE t = u
    BY <1>4, <2>1 DEF NestedReturn, HandedTo, Parked, TypeOK
  <2>2. CASE t # u
    BY <1>2, <1>4, <2>2, Consumed DEF NestedReturn, TypeOK
  <2> QED BY <2>1, <2>2
<1>5. CASE Pick(u) \/ NestedTurn(u) \/ Expire(u)
  BY <1>3, <1>5 DEF Pick, RunThread, NestedTurn, Expire, TypeOK, objectVars, threadVars
<1> QED BY <1>4, <1>5 DEF HostStep, NestedTake, NestedGiveUp

LEMMA VisitHandsOff ==
  ASSUME TypeOK, NEW V, HandedVias(V), HandOffIn(V), SignalVisit \/ WakeVisit,
         NEW t \in Threads, StillParked(t)
  PROVE  HandedTo(V, t)'
<1>1. HandedTo(V, t)
  BY DEF HandOffIn, HandedTo
<1>2. VisitThread /\ phase \in {"signal", "wake", "pulse"}
  BY DEF SignalVisit, WakeVisit
<1>3. ASSUME t # next, NothingNew(t), pendingExit' = pendingExit
      PROVE  HandedTo(V, t)'
  <2>1. PassAhead(t) => PassAhead(t)'
    BY <1>2, <1>3 DEF PassAhead, VisitThread, Threads, TypeOK
  <2> QED BY <1>1, <1>3, <2>1, Quiet
<1>4. ASSUME NEW ok, NEW S, Wake(next, ok, S)
      PROVE  HandedTo(V, t)'
  <2>1. next \in Threads
    BY <1>2 DEF VisitThread, Threads, TypeOK
  <2>2. CASE t = next
    BY <1>4, <2>2 DEF Wake, HandedTo, Parked, TypeOK
  <2>3. CASE t # next
    <3>1. NothingNew(t)
      BY <1>4, <2>1, <2>3, Consumed DEF Wake, TypeOK
    <3> QED BY <1>3, <1>4, <2>3, <3>1 DEF Wake
  <2> QED BY <2>2, <2>3
<1>5. ASSUME UNCHANGED <<threadVars, objectVars, held>>,
             Parked(next) /\ next \notin pendingExit /\ wait[next].via \in V
               => ~Satisfied(wait[next], next)
      PROVE  HandedTo(V, t)'
  <2>1. NothingNew(t) /\ pendingExit' = pendingExit
    BY <1>5, Unchanged DEF threadVars, objectVars
  <2>2. CASE t = next
    BY <1>5, <2>1, <2>2, StillUnsatisfied DEF HandedTo, StillParked
  <2>3. CASE t # next
    BY <1>3, <2>1, <2>3
  <2> QED BY <2>2, <2>3
<1>6. CASE SignalVisit
  BY <1>4, <1>5, <1>6 DEF SignalVisit, SignalEligible, WakeSatisfied, HandedVias, Claiming
<1>7. CASE WakeVisit
  BY <1>4, <1>5, <1>7 DEF WakeVisit, WakeSatisfied
<1> QED BY <1>6, <1>7

LEMMA PassHandsOff ==
  ASSUME TypeOK, NEW V, HandOffIn(V), EndPass \/ PickNone \/ UNCHANGED vars,
         NEW t \in Threads, StillParked(t)
  PROVE  HandedTo(V, t)'
<1>1. HandedTo(V, t)
  BY DEF HandOffIn, HandedTo
<1>2. CASE EndPass
  <2>1. ~PassAhead(t) /\ UNCHANGED <<state, owner, pendingExit>>
    BY <1>2 DEF EndPass, PassAhead, Threads, threadVars
  <2>2. \A x \in Objects : count'[x] \in {0, count[x]}
    BY <1>2 DEF EndPass, TypeOK
  <2>3. NothingNew(t)
    BY <2>1, <2>2 DEF NothingNew, IsSignaled, Objects
  <2> QED BY <1>1, <2>1, <2>3, Quiet
<1>3. CASE PickNone
  <2>1. NothingNew(t) /\ ~PassAhead(t) /\ pendingExit' = pendingExit
    BY <1>3, Unchanged DEF PickNone, PassAhead, threadVars, objectVars
  <2> QED BY <1>1, <2>1, Quiet
<1>4. CASE UNCHANGED vars
  <2>1. NothingNew(t) /\ (PassAhead(t) => PassAhead(t)') /\ pendingExit' = pendingExit
    BY <1>4, Unchanged DEF vars, PassAhead, threadVars, hostVars, objectVars
  <2> QED BY <1>1, <2>1, Quiet
<1> QED BY <1>2, <1>3, <1>4

(* The hand-off invariant is inductive with the waiters flags: without     *)
(* them translated code could free a mutex under a parked thread.          *)
LEMMA StepHandsOff ==
  ASSUME TypeOK, WaitsAsked, FlaggedWhileWaited, NEW V, HandedVias(V), HandOffIn(V), [Next]_vars
  PROVE  HandOffIn(V)'
<1> SUFFICES ASSUME NEW t \in Threads, Parked(t)' PROVE HandedTo(V, t)'
  BY DEF HandOffIn, HandedTo
<1>1. CASE JustParked(t)
  BY <1>1 DEF JustParked, HandedTo, PassAhead, Threads
<1>2. CASE StillParked(t)
  BY <1>2, GuestHandsOff, ThreadHandsOff, HostHandsOff, VisitHandsOff, PassHandsOff DEF Next
<1> QED BY <1>1, <1>2, Parking

(* No wake-up is lost for the threads parked in WaitForSingleObject and    *)
(* WaitForMultipleObjects: when guest code runs none of them could have    *)
(* its wait satisfied (sched.js signal, wakeBlocked; kernel32              *)
(* ReleaseMutex, SetEvent, ReleaseSemaphore; process.js removeThread;      *)
(* runtime.js case 18).                                                    *)
THEOREM HandOffCorrect == Spec => []HandOff
<1> DEFINE V == {"single", "multi"}
<1>1. Init => HandOff
  BY DEF Init, HandOff, HandOffIn, Parked
<1>2. TypeOK /\ WaitsAsked /\ FlaggedWhileWaited /\ HandOff /\ [Next]_vars => HandOff'
  BY StepHandsOff DEF HandOff, HandedVias
<1> QED BY <1>1, <1>2, InitAsked, StepAsked, TypeCorrect, FlagsCorrect, PTL DEF Spec

(* The same for critical sections, as long as no translated code leaves    *)
(* them (kernel32 LeaveCriticalSection).                                   *)
THEOREM CritSecHandOffCorrect == ASSUME Jit = FALSE PROVE Spec => []CritSecHandOff
<1>1. Init => CritSecHandOff
  BY DEF Init, CritSecHandOff, HandOffIn, Parked
<1>2. TypeOK /\ WaitsAsked /\ FlaggedWhileWaited /\ CritSecHandOff /\ [Next]_vars => CritSecHandOff'
  BY StepHandsOff DEF CritSecHandOff, HandedVias
<1> QED BY <1>1, <1>2, InitAsked, StepAsked, TypeCorrect, FlagsCorrect, PTL DEF Spec

----------------------------------------------------------------------------
(* The locks and the stack.                                                *)

(* The outcome of a wait is that of a thread that waits no more, and took  *)
(* objects of its wait only.                                               *)
ResultInv ==
  \A t \in Threads : result[t] # NoResult =>
    /\ wait[t] = NoWait /\ nested[t] = NoWait
    /\ result[t].got \subseteq result[t].req.objs
    /\ result[t].req \in Asked \cup {SuspendRequest}

(* A pulse is one of an event, and handles are closed by the guest.        *)
ObjectInv ==
  /\ phase = "pulse" => after \in Events
  /\ Objects \ CritSecs \subseteq open \cup Closable

LEMMA ObjectStep ==
  ASSUME ObjectInv, [Next]_vars
  PROVE  ObjectInv'
<1> USE DEF ObjectInv
<1>1. ASSUME NEW t \in Threads, GuestCall(t)
      PROVE  ObjectInv'
  <2>1. CASE \E e \in Events : PulseEvent(t, e)
    BY <2>1 DEF PulseEvent
  <2>2. CASE \E o \in Closable : CloseHandle(t, o)
    BY <2>2 DEF CloseHandle, hostVars
  <2> QED BY <1>1, <2>1, <2>2
          DEF GuestCall, TakeNow, Block, ParkIn, NestIn, LeaveSlice, ReturnWait, ReleaseMutex,
              JitReleaseMutex, SignalPass, EnterAgain, LeaveCriticalSection,
              JitLeaveCriticalSection, SetEvent, ResetEvent, ReleaseSemaphore, EnterCallback,
              LeaveCallback, SuspendSelf, EndSlice, ExitThread, RemoveThread, hostVars, objectVars
<1>2. ASSUME NEW t \in Threads, NEW u \in Threads, ThreadCall(t, u)
      PROVE  ObjectInv'
  BY <1>2 DEF ThreadCall, CreateThread, TerminateThread, RemoveThread, SuspendThread,
              ResumeThread, NestedYield, RunThread, hostVars, objectVars
<1>3. ASSUME NEW t \in Threads, HostStep(t)
      PROVE  ObjectInv'
  BY <1>3 DEF HostStep, Pick, RunThread, NestedTake, NestedGiveUp, NestedReturn, NestedTurn,
              Expire, hostVars, objectVars
<1>4. CASE SignalVisit \/ WakeVisit
  BY <1>4 DEF SignalVisit, WakeVisit, VisitThread, WakeSatisfied, Wake, objectVars
<1>5. CASE EndPass \/ PickNone
  BY <1>5 DEF EndPass, PickNone, objectVars
<1>6. CASE UNCHANGED vars
  BY <1>6 DEF vars, hostVars, objectVars
<1> QED BY <1>1, <1>2, <1>3, <1>4, <1>5, <1>6 DEF Next

(* A closed handle is never open again.                                    *)
LEMMA OpenStep == [Next]_vars => open' \subseteq open
<1>1. ASSUME NEW t \in Threads, GuestCall(t)
      PROVE  open' \subseteq open
  BY <1>1 DEF GuestCall, TakeNow, Block, ReturnWait, ReleaseMutex, JitReleaseMutex, EnterAgain,
              LeaveCriticalSection, JitLeaveCriticalSection, SetEvent, ResetEvent, PulseEvent,
              ReleaseSemaphore, CloseHandle, EnterCallback, LeaveCallback, SuspendSelf, EndSlice,
              ExitThread, objectVars
<1>2. ASSUME NEW t \in Threads, NEW u \in Threads, ThreadCall(t, u)
      PROVE  open' \subseteq open
  BY <1>2 DEF ThreadCall, CreateThread, TerminateThread, SuspendThread, ResumeThread,
              NestedYield, RunThread, objectVars
<1>3. ASSUME NEW t \in Threads, HostStep(t)
      PROVE  open' \subseteq open
  BY <1>3 DEF HostStep, Pick, RunThread, NestedTake, NestedGiveUp, NestedReturn, NestedTurn,
              Expire, objectVars
<1>4. CASE SignalVisit \/ WakeVisit
  BY <1>4 DEF SignalVisit, WakeVisit, WakeSatisfied, Wake, objectVars
<1>5. CASE EndPass \/ PickNone \/ UNCHANGED vars
  BY <1>5 DEF EndPass, PickNone, vars, objectVars
<1> QED BY <1>1, <1>2, <1>3, <1>4, <1>5 DEF Next

(* What a pass may do to the thread it visits.                             *)
LEMMA Visit ==
  ASSUME TypeOK, WaitsAsked, SignalVisit \/ WakeVisit
  PROVE  /\ UNCHANGED <<stack, phase, after>>
         /\ \/ UNCHANGED <<threadVars, objectVars, held>>
            \/ \E t \in Threads, ok \in BOOLEAN, S \in SUBSET (Objects \cup Threads) :
                 /\ Parked(t) /\ Wake(t, ok, S)
                 /\ S \subseteq wait[t].objs /\ \A o \in S : IsSignaled(o, t)
                 /\ S # {} => t \notin pendingExit
<1> DEFINE Woken == \E t \in Threads, ok \in BOOLEAN, S \in SUBSET (Objects \cup Threads) :
                      /\ Parked(t) /\ Wake(t, ok, S)
                      /\ S \subseteq wait[t].objs /\ \A o \in S : IsSignaled(o, t)
                      /\ S # {} => t \notin pendingExit
<1>1. VisitThread
  BY DEF SignalVisit, WakeVisit
<1>2. next \in Threads /\ UNCHANGED <<stack, phase, after>>
  BY <1>1 DEF VisitThread, TypeOK, Threads
<1>3. ASSUME NEW ok \in BOOLEAN, Parked(next), Wake(next, ok, {})
      PROVE  Woken
  BY <1>2, <1>3
<1>4. ASSUME Parked(next), next \notin pendingExit, WakeSatisfied(next)
      PROVE  Woken
  <2>1. wait[next] \in Request
    BY <1>2, <1>4 DEF Parked, TypeOK
  <2>2. ASSUME Satisfied(wait[next], next), NEW S \in Claims(wait[next], next),
               Wake(next, TRUE, S)
        PROVE  Woken
    <3>1. S \subseteq wait[next].objs /\ \A o \in S : IsSignaled(o, next)
      BY <1>2, <2>1, <2>2, ClaimsSignaled
    <3>2. S \in SUBSET (Objects \cup Threads)
      BY <2>1, <3>1 DEF Request
    <3> QED BY <1>2, <1>4, <2>2, <3>1, <3>2
  <2> QED BY <1>3, <1>4, <2>2 DEF WakeSatisfied
<1> QED BY <1>2, <1>3, <1>4 DEF SignalVisit, WakeVisit, SignalEligible

(* What the wait on top of the stack may take when it returns.             *)
LEMMA NestedEnd ==
  ASSUME TypeOK, NEW t \in Threads, NestedTake(t) \/ NestedGiveUp(t)
  PROVE  \E S \in SUBSET (Objects \cup Threads) :
           Waiting(t) /\ NestedReturn(t, S) /\ \A o \in S : IsSignaled(o, t)
<1>1. Waiting(t) /\ nested[t] \in Request
  BY DEF NestedTake, NestedGiveUp, Waiting, TypeOK
<1>2. ASSUME NEW S \in Claims(nested[t], t), Satisfied(nested[t], t)
      PROVE  S \in SUBSET (Objects \cup Threads) /\ \A o \in S : IsSignaled(o, t)
  BY <1>1, <1>2, ClaimsSignaled DEF Request
<1> QED BY <1>1, <1>2 DEF NestedTake, NestedGiveUp

LEMMA ResultStep ==
  ASSUME TypeOK, WaitsAsked, ResultInv, [Next]_vars
  PROVE  ResultInv'
<1> USE DEF ResultInv, TypeOK
<1>1. ASSUME NEW t \in Threads, GuestCall(t)
      PROVE  ResultInv'
  <2>1. CASE ReturnWait(t)
    BY <2>1 DEF ReturnWait
  <2>2. ASSUME NEW w \in Asked, Block(t, w)
        PROVE  ResultInv'
    BY <2>2 DEF Block, MayAsk, Guest, ParkIn, NestIn
  <2>3. CASE SuspendSelf(t)
    BY <2>3 DEF SuspendSelf, Guest, ParkIn, NestIn
  <2>4. CASE UNCHANGED <<wait, nested, result>>
    BY <2>4
  <2> QED BY <1>1, <2>1, <2>2, <2>3, <2>4
          DEF GuestCall, TakeNow, ReleaseMutex, JitReleaseMutex, EnterAgain, LeaveCriticalSection,
              JitLeaveCriticalSection, SetEvent, ResetEvent, PulseEvent, ReleaseSemaphore,
              CloseHandle, EnterCallback, LeaveCallback, EndSlice, ExitThread, threadVars
<1>2. ASSUME NEW t \in Threads, NEW u \in Threads, ThreadCall(t, u)
      PROVE  ResultInv'
  BY <1>2 DEF ThreadCall, CreateThread, TerminateThread, SuspendThread, ResumeThread,
              NestedYield, RunThread
<1>3. ASSUME NEW t \in Threads, HostStep(t)
      PROVE  ResultInv'
  <2>1. ASSUME NEW S, NestedReturn(t, S)
        PROVE  ResultInv'
    BY <2>1 DEF NestedReturn
  <2> QED BY <1>3, <2>1 DEF HostStep, Pick, RunThread, NestedTake, NestedGiveUp, NestedTurn,
                            Expire, threadVars
<1>4. CASE SignalVisit \/ WakeVisit
  <2>1. CASE UNCHANGED threadVars
    BY <2>1 DEF threadVars
  <2>2. ASSUME NEW t \in Threads, NEW ok \in BOOLEAN, NEW S \in SUBSET (Objects \cup Threads),
               Parked(t), Wake(t, ok, S), S \subseteq wait[t].objs
        PROVE  ResultInv'
    <3>1. nested[t] = NoWait /\ wait[t] \in Asked \cup {SuspendRequest}
      BY <2>2 DEF Parked, WaitsAsked
    <3>2. \A u \in Threads :
            /\ wait'[u] = IF u = t THEN NoWait ELSE wait[u]
            /\ nested'[u] = nested[u]
            /\ u # t => result'[u] = result[u]
            /\ result'[t] = [ok |-> ok, got |-> S, req |-> wait[t]]
      BY <2>2 DEF Wake
    <3> QED BY <2>2, <3>1, <3>2
  <2> QED BY ZenonT(60), <1>4, <2>1, <2>2, Visit
<1>5. CASE EndPass \/ PickNone \/ UNCHANGED vars
  BY <1>5 DEF EndPass, PickNone, vars, threadVars
<1> QED BY <1>1, <1>2, <1>3, <1>4, <1>5 DEF Next

------------------------------------------------------------------------------
Distinct == \A i, j \in 1..Len(stack) : stack[i] = stack[j] => i = j
InFrames(t) == state[t] = "running" \/ (state[t] = "blocked" /\ ~Parked(t))

(* The slice that ends leaves the stack, and only it.                      *)
LEMMA PopStack ==
  ASSUME TypeOK, Distinct, NEW t \in Threads, t = Top, stack' = Pop
  PROVE  Distinct' /\ \A u \in Threads : OnStack(u)' <=> OnStack(u) /\ u # t
<1>1. stack # <<>> /\ stack \in Seq(Threads) /\ t = stack[Len(stack)]
  BY DEF Top, TypeOK
<1>2. Len(stack) \in Nat \ {0} /\ Len(stack') = Len(stack) - 1
  <2>1. Len(stack) \in Nat \ {0}
    BY <1>1
  <2>2. PICK n \in Nat : n = Len(stack) - 1
    BY <2>1
  <2>3. stack' = SubSeq(stack, 1, n)
    BY <2>2 DEF Pop
  <2>4. Len(SubSeq(stack, 1, n)) = n
    BY <1>1, <2>1, <2>2
  <2> QED BY <2>1, <2>2, <2>3, <2>4
<1>3. \A i \in 1..Len(stack') : i \in 1..Len(stack) /\ stack'[i] = stack[i]
  BY <1>1, <1>2 DEF Pop
<1>4. Distinct'
  BY <1>3 DEF Distinct
<1>5. ASSUME NEW u \in Threads
      PROVE  OnStack(u)' <=> OnStack(u) /\ u # t
  <2>1. ASSUME OnStack(u)'
        PROVE  OnStack(u) /\ u # t
    BY <1>1, <1>2, <1>3, <2>1 DEF OnStack, Distinct
  <2>2. ASSUME OnStack(u), u # t
        PROVE  OnStack(u)'
    <3>1. PICK i \in 1..Len(stack) : stack[i] = u
      BY <2>2 DEF OnStack
    <3>2. i # Len(stack)
      BY <1>1, <2>2, <3>1
    <3> QED BY <1>2, <1>3, <3>1, <3>2 DEF OnStack
  <2> QED BY <2>1, <2>2
<1> QED BY <1>4, <1>5

(* A thread that gets a slice comes on top of the others.                  *)
LEMMA PushStack ==
  ASSUME TypeOK, Distinct, NEW t \in Threads, ~OnStack(t), stack' = Append(stack, t)
  PROVE  Distinct' /\ \A u \in Threads : OnStack(u)' <=> OnStack(u) \/ u = t
<1>1. stack \in Seq(Threads) /\ Len(stack) \in Nat /\ Len(stack') = Len(stack) + 1
  BY DEF TypeOK
<1>2. \A i \in 1..Len(stack') : stack'[i] = IF i = Len(stack') THEN t ELSE stack[i]
  BY <1>1
<1> QED BY <1>1, <1>2 DEF Distinct, OnStack

LEMMA SameStack ==
  ASSUME UNCHANGED stack
  PROVE  (Distinct <=> Distinct') /\ \A u \in Threads : OnStack(u)' <=> OnStack(u)
BY DEF Distinct, OnStack

LEMMA GuestStack ==
  ASSUME TypeOK, WaitsAsked, StackDiscipline, NEW t \in Threads, GuestCall(t)
  PROVE  StackDiscipline'
<1> USE DEF TypeOK, WaitsAsked, Parked, InFrames
<1>1. Distinct /\ \A u \in Threads : OnStack(u) <=> InFrames(u)
  BY DEF StackDiscipline, Distinct
<1>2. ASSUME Distinct', \A u \in Threads : OnStack(u)' <=> InFrames(u)'
      PROVE  StackDiscipline'
  BY <1>2 DEF StackDiscipline, Distinct
<1> HIDE DEF InFrames
<1>3. ASSUME Guest(t), stack' = Pop, ~InFrames(t)',
             \A u \in Threads \ {t} : state'[u] = state[u] /\ wait'[u] = wait[u]
      PROVE  StackDiscipline'
  <2>1. Distinct' /\ \A u \in Threads : OnStack(u)' <=> OnStack(u) /\ u # t
    BY <1>1, <1>3, PopStack DEF Guest
  <2>2. \A u \in Threads \ {t} : InFrames(u)' <=> InFrames(u)
    BY <1>3 DEF InFrames
  <2> QED BY <1>1, <1>2, <1>3, <2>1, <2>2
<1>4. ASSUME NEW w \in Asked \cup {SuspendRequest}, Guest(t), ParkIn(t, w)
      PROVE  StackDiscipline'
  <2>1. state'[t] = "blocked" /\ wait'[t] = w
    BY <1>4 DEF ParkIn
  <2>2. w # NoWait
    <3>1. SuspendRequest \in Request
      BY DEF SuspendRequest, Request, Vias
    <3> QED BY <3>1
  <2>3. stack' = Pop /\ \A u \in Threads \ {t} : state'[u] = state[u] /\ wait'[u] = wait[u]
    BY <1>4 DEF ParkIn, LeaveSlice
  <2> QED BY <1>3, <1>4, <2>1, <2>2, <2>3 DEF InFrames
<1>5. ASSUME NEW w, Guest(t), NestIn(t, w)
      PROVE  StackDiscipline'
  <2>1. UNCHANGED <<stack, wait>> /\ state'[t] = "blocked" /\ wait[t] = NoWait
        /\ \A u \in Threads \ {t} : state'[u] = state[u]
    BY <1>5 DEF NestIn, hostVars, Guest
  <2>2. \A u \in Threads : InFrames(u)' <=> InFrames(u)
    BY <1>5, <2>1 DEF InFrames, Guest
  <2> QED BY <1>1, <1>2, <2>1, <2>2, SameStack
<1>6. CASE UNCHANGED <<state, wait, stack>>
  BY <1>1, <1>2, <1>6, SameStack DEF InFrames
<1>7. ASSUME NEW w \in Asked, Block(t, w)
      PROVE  StackDiscipline'
  BY <1>4, <1>5, <1>7 DEF Block, MayAsk
<1>8. CASE SuspendSelf(t)
  BY <1>4, <1>5, <1>8 DEF SuspendSelf
<1>9. CASE EndSlice(t)
  BY <1>3, <1>9 DEF EndSlice, LeaveSlice, InFrames
<1>10. CASE ExitThread(t)
  BY <1>3, <1>10 DEF ExitThread, RemoveThread, Abandon, InFrames
<1> QED
  BY <1>6, <1>7, <1>8, <1>9, <1>10
     DEF GuestCall, TakeNow, ReturnWait, ReleaseMutex, JitReleaseMutex, SignalPass, EnterAgain,
         LeaveCriticalSection, JitLeaveCriticalSection, SetEvent, ResetEvent, PulseEvent,
         ReleaseSemaphore, CloseHandle, EnterCallback, LeaveCallback, threadVars, hostVars

LEMMA StepStack ==
  ASSUME TypeOK, WaitsAsked, StackDiscipline, [Next]_vars
  PROVE  StackDiscipline'
<1> USE DEF TypeOK, WaitsAsked, Parked
<1>1. Distinct /\ \A u \in Threads : OnStack(u) <=> InFrames(u)
  BY DEF StackDiscipline, Distinct, InFrames
<1>2. ASSUME Distinct', \A u \in Threads : OnStack(u)' <=> InFrames(u)'
      PROVE  StackDiscipline'
  BY <1>2 DEF StackDiscipline, Distinct, InFrames
<1>3. ASSUME UNCHANGED stack, \A u \in Threads : InFrames(u)' <=> InFrames(u)
      PROVE  StackDiscipline'
  BY <1>1, <1>2, <1>3, SameStack
<1>4. ASSUME NEW u \in Threads, Runnable(u), RunThread(u)
      PROVE  StackDiscipline'
  <2>1. Distinct' /\ \A v \in Threads : OnStack(v)' <=> OnStack(v) \/ v = u
    BY <1>1, <1>4, PushStack DEF Runnable, RunThread
  <2>2. InFrames(u)' /\ \A v \in Threads \ {u} : InFrames(v)' <=> InFrames(v)
    BY <1>4 DEF RunThread, InFrames
  <2> QED BY <1>1, <1>2, <2>1, <2>2
<1>5. ASSUME NEW t \in Threads, NEW u \in Threads, ThreadCall(t, u)
      PROVE  StackDiscipline'
  <2>1. ASSUME NEW b \in BOOLEAN, CreateThread(t, u, b)
        PROVE  StackDiscipline'
    BY <1>3, <2>1 DEF CreateThread, hostVars, InFrames
  <2>2. CASE TerminateThread(t, u)
    <3>1. CASE OnStack(u)
      BY <1>3, <2>2, <3>1 DEF TerminateThread, InFrames
    <3>2. CASE ~OnStack(u)
      <4>1. UNCHANGED <<stack, wait>> /\ state' = [state EXCEPT ![u] = "done"]
        BY <2>2, <3>2 DEF TerminateThread, RemoveThread, Abandon
      <4> QED BY <1>1, <1>3, <3>2, <4>1 DEF InFrames
    <3> QED BY <3>1, <3>2
  <2>3. CASE SuspendThread(t, u) \/ ResumeThread(t, u)
    BY <1>3, <2>3 DEF SuspendThread, ResumeThread, hostVars, InFrames
  <2> QED BY <1>4, <1>5, <2>1, <2>2, <2>3 DEF ThreadCall, NestedYield
<1>6. ASSUME NEW t \in Threads, HostStep(t)
      PROVE  StackDiscipline'
  <2>1. ASSUME NEW S, Waiting(t), NestedReturn(t, S)
        PROVE  StackDiscipline'
    <3>1. OnStack(t)
      BY <2>1 DEF Waiting, Top, OnStack
    <3>2. UNCHANGED <<stack, wait>> /\ state' = [state EXCEPT ![t] = "running"]
      BY <2>1 DEF NestedReturn, hostVars
    <3> QED BY <1>1, <1>3, <3>1, <3>2 DEF InFrames
  <2> QED BY <1>3, <1>4, <1>6, <2>1
          DEF HostStep, Pick, NestedTake, NestedGiveUp, NestedTurn, Expire, threadVars, hostVars,
              InFrames
<1>7. CASE SignalVisit \/ WakeVisit
  <2>1. ASSUME NEW t \in Threads, NEW ok, NEW S, Parked(t), Wake(t, ok, S), UNCHANGED stack
        PROVE  StackDiscipline'
    BY <1>3, <2>1 DEF Wake, InFrames
  <2> QED BY <1>3, <1>7, <2>1, Visit DEF threadVars, InFrames
<1>8. CASE EndPass \/ PickNone \/ UNCHANGED vars
  BY <1>3, <1>8 DEF EndPass, PickNone, vars, threadVars, hostVars, InFrames
<1>9. ASSUME NEW t \in Threads, GuestCall(t)
      PROVE  StackDiscipline'
  BY <1>9, GuestStack
<1> QED BY <1>5, <1>6, <1>7, <1>8, <1>9 DEF Next

(* The dispatch loops on the stack are always those of distinct threads    *)
(* that run or wait on their frames, and no parked, ready or ended thread  *)
(* has a frame left there (vm.js runThread, kernel32 TerminateThread).     *)
THEOREM StackDisciplineAlways == Spec => []StackDiscipline
<1>1. Init => StackDiscipline
  BY DEF Init, StackDiscipline, OnStack, Parked
<1> QED BY <1>1, InitTypes, InitAsked, StepTypes, StepAsked, StepStack, PTL DEF Spec

------------------------------------------------------------------------------
(* No step but a thread's end makes an owner a dead one, ...               *)
LEMMA Alive ==
  ASSUME TypeOK, NoDeadOwner, open' \subseteq open,
         \A u \in Threads : state'[u] = "done" => state[u] = "done",
         \A x \in Mutexes : \/ owner'[x] \in {owner[x], NoThread}
                            \/ owner'[x] \in Threads /\ state'[owner'[x]] # "done"
  PROVE  NoDeadOwner'
BY DEF NoDeadOwner, TypeOK, Locks

(* ... and a thread that ends loses what it owns through a handle.         *)
LEMMA Removed ==
  ASSUME TypeOK, NoDeadOwner, NEW u \in Threads, RemoveThread(u), UNCHANGED open
  PROVE  NoDeadOwner'
<1>1. ASSUME NEW x \in Mutexes \cap open, owner'[x] # NoThread
      PROVE  state'[owner'[x]] # "done"
  <2>1. owner'[x] = owner[x] /\ owner[x] # u
    BY <1>1 DEF RemoveThread, Abandon, Locks
  <2> QED BY <1>1, <2>1 DEF NoDeadOwner, RemoveThread, Abandon, TypeOK, Locks
<1> QED BY <1>1 DEF NoDeadOwner

LEMMA GuestAlive ==
  ASSUME TypeOK, NoDeadOwner, NEW t \in Threads, GuestCall(t)
  PROVE  NoDeadOwner'
<1> USE DEF TypeOK, Locks
<1>1. ASSUME NEW w \in Asked, TakeNow(t, w)
      PROVE  NoDeadOwner'
  <2>1. PICK S \in Claims(w, t) : Consume(S, t)
    BY <1>1 DEF TakeNow
  <2>2. UNCHANGED <<state, open>> /\ state[t] = "running"
    BY <1>1 DEF TakeNow, MayAsk, Guest, threadVars
  <2>3. \A x \in Mutexes : owner'[x] \in {owner[x], t}
    BY <2>1 DEF Consume
  <2> QED BY <2>2, <2>3, Alive
<1>2. ASSUME NEW w, ParkIn(t, w) \/ NestIn(t, w), UNCHANGED <<owner, open>>
      PROVE  NoDeadOwner'
  BY <1>2, Alive DEF ParkIn, NestIn
<1>3. ASSUME NEW o \in Locks, Lower(o), UNCHANGED <<state, open>>
      PROVE  NoDeadOwner'
  BY <1>3, Alive DEF Lower
<1>4. CASE UNCHANGED <<state, owner>> /\ open' \subseteq open
  BY <1>4, Alive
<1>5. ASSUME NEW w \in Asked, Block(t, w)
      PROVE  NoDeadOwner'
  BY <1>2, <1>5 DEF Block
<1>6. CASE SuspendSelf(t)
  BY <1>2, <1>6 DEF SuspendSelf, objectVars
<1>7. CASE EndSlice(t)
  BY <1>7, Alive DEF EndSlice, objectVars
<1>8. CASE ExitThread(t)
  BY <1>8, Removed DEF ExitThread
<1>9. ASSUME NEW x \in Mutexes, ReleaseMutex(t, x) \/ JitReleaseMutex(t, x)
      PROVE  NoDeadOwner'
  BY <1>3, <1>9 DEF ReleaseMutex, JitReleaseMutex, threadVars
<1>10. ASSUME NEW s \in CritSecs, LeaveCriticalSection(t, s) \/ JitLeaveCriticalSection(t, s)
      PROVE  NoDeadOwner'
  BY <1>3, <1>10 DEF LeaveCriticalSection, JitLeaveCriticalSection, threadVars
<1> QED
  BY <1>1, <1>4, <1>5, <1>6, <1>7, <1>8, <1>9, <1>10
     DEF GuestCall, ReturnWait, EnterAgain, SetEvent, ResetEvent, PulseEvent, ReleaseSemaphore,
         CloseHandle, EnterCallback, LeaveCallback, threadVars, objectVars

LEMMA StepAlive ==
  ASSUME TypeOK, WaitsAsked, NoDeadOwner, [Next]_vars
  PROVE  NoDeadOwner'
<1> USE DEF TypeOK, Locks
<1>1. ASSUME NEW t \in Threads, GuestCall(t)
      PROVE  NoDeadOwner'
  BY <1>1, GuestAlive
<1>2. ASSUME NEW t \in Threads, NEW u \in Threads, ThreadCall(t, u)
      PROVE  NoDeadOwner'
  <2>1. CASE TerminateThread(t, u)
    BY <2>1, Removed, Alive DEF TerminateThread
  <2>2. ASSUME UNCHANGED objectVars, \A v \in Threads : state'[v] = "done" => state[v] = "done"
        PROVE  NoDeadOwner'
    BY <2>2, Alive DEF objectVars
  <2> QED BY <1>2, <2>1, <2>2
          DEF ThreadCall, CreateThread, SuspendThread, ResumeThread, NestedYield, RunThread
<1>3. ASSUME NEW t \in Threads, NEW S, Consume(S, t), state'[t] # "done",
             \A u \in Threads \ {t} : state'[u] = state[u], UNCHANGED open
      PROVE  NoDeadOwner'
  BY <1>3, Alive DEF Consume
<1>4. ASSUME NEW t \in Threads, HostStep(t)
      PROVE  NoDeadOwner'
  <2>1. CASE NestedTake(t) \/ NestedGiveUp(t)
    <3>1. PICK S \in SUBSET (Objects \cup Threads) : NestedReturn(t, S)
      BY <2>1, NestedEnd
    <3> QED BY <1>3, <3>1 DEF NestedReturn
  <2>2. CASE Pick(t) \/ NestedTurn(t) \/ Expire(t)
    BY <2>2, Alive DEF Pick, RunThread, NestedTurn, Expire, threadVars, objectVars
  <2> QED BY <1>4, <2>1, <2>2 DEF HostStep
<1>5. CASE SignalVisit \/ WakeVisit
  <2>1. CASE UNCHANGED <<threadVars, objectVars, held>>
    BY <2>1, Alive DEF threadVars, objectVars
  <2>2. ASSUME NEW t \in Threads, NEW ok, NEW S, Wake(t, ok, S)
        PROVE  NoDeadOwner'
    BY <1>3, <2>2 DEF Wake
  <2> QED BY <1>5, <2>1, <2>2, Visit
<1>6. CASE EndPass \/ PickNone \/ UNCHANGED vars
  BY <1>6, Alive DEF EndPass, PickNone, vars, threadVars, objectVars
<1> QED BY <1>1, <1>2, <1>4, <1>5, <1>6 DEF Next

(* No mutex with an open handle belongs to an ended thread, however it     *)
(* ended: by itself, terminated while parked, or just after it had been    *)
(* given the mutex (process.js removeThread).                              *)
THEOREM NoDeadOwnerAlways == Spec => []NoDeadOwner
<1>1. Init => NoDeadOwner
  BY DEF Init, NoDeadOwner, Locks
<1> QED BY <1>1, InitTypes, InitAsked, StepTypes, StepAsked, StepAlive, PTL DEF Spec

------------------------------------------------------------------------------
(* A thread whose wait took o and has not returned yet.                    *)
Claimant(t, o) == result[t] # NoResult /\ o \in result[t].got

(* One lock: its count is its owner's levels, only its owner has levels,   *)
(* and a live claimant owns it.                                            *)
LockOK(o) ==
  /\ owner[o] = NoThread => count[o] = 0
  /\ \A t \in Threads : owner[o] = t => count[o] = Levels(t, o)
  /\ \A t \in Threads : held[t][o] >= 0 /\ (held[t][o] > 0 => owner[o] = t)
  /\ owner[o] # NoThread => count[o] > 0
  /\ \A t \in Threads : Claimant(t, o) /\ state[t] # "done" => owner[o] = t

LEMMA LockTypes ==
  ASSUME TypeOK, NEW o \in Locks
  PROVE  /\ owner[o] \in Threads \cup {NoThread} /\ count[o] \in Int
         /\ \A t \in Threads : held[t][o] \in Int /\ held[t] \in [Locks -> Int]
BY DEF TypeOK, Objects

(* The other threads, when t does something to lock o.                     *)
OthersKeep(t, o) ==
  \A u \in Threads \ {t} :
    /\ held'[u][o] = held[u][o]
    /\ Claimant(u, o)' <=> Claimant(u, o)
    /\ Claimant(u, o) /\ state'[u] # "done" => state[u] # "done"

(* What a step may do to lock o: nothing, ...                              *)
Untouched(o) ==
  /\ owner'[o] = owner[o] /\ count'[o] = count[o]
  /\ \A u \in Threads :
       /\ held'[u][o] = held[u][o]
       /\ Claimant(u, o)' <=> Claimant(u, o)
       /\ Claimant(u, o) /\ state'[u] # "done" => state[u] # "done"

(* ... t takes a level of it, at once or as the claim of its wait, ...     *)
Gained(t, o) ==
  /\ ~Claimant(t, o) /\ owner[o] \in {NoThread, t}
  /\ owner'[o] = t /\ count'[o] = count[o] + 1
  /\ OthersKeep(t, o)
  /\ \/ held'[t][o] = held[t][o] + 1 /\ ~Claimant(t, o)'
     \/ held'[t][o] = held[t][o] /\ Claimant(t, o)'

(* ... or t releases a level of it.                                        *)
Lowered(t, o) ==
  /\ result[t] = NoResult /\ held[t][o] > 0 /\ (o \in Mutexes => owner[o] = t)
  /\ Lower(o) /\ Give(t, o)
  /\ UNCHANGED <<result, state>>

(* A lock nothing happens to keeps its account, ...                        *)
LEMMA LockSame ==
  ASSUME NEW o \in Locks, LockOK(o), Untouched(o)
  PROVE  LockOK(o)'
<1>1. \A t \in Threads : Levels(t, o)' = Levels(t, o)
  BY DEF Untouched, Levels, Claimant
<1> QED BY <1>1 DEF LockOK, Untouched

(* ... so does one a thread that claims nothing takes a level of, ...      *)
LEMMA LockGained ==
  ASSUME TypeOK, NEW o \in Locks, LockOK(o), NEW t \in Threads, Gained(t, o)
  PROVE  LockOK(o)'
<1> USE DEF Gained
<1>1. /\ owner[o] \in Threads \cup {NoThread} /\ count[o] \in Int
      /\ \A u \in Threads : held[u][o] \in Int
  BY LockTypes
<1>2. Levels(t, o) = held[t][o] /\ Levels(t, o)' = held[t][o] + 1
  BY <1>1 DEF Levels, Claimant
<1>3. count[o] = held[t][o]
  BY <1>1, <1>2 DEF LockOK
<1>4. count'[o] = Levels(t, o)' /\ t # NoThread /\ count'[o] > 0
  BY <1>1, <1>2, <1>3 DEF LockOK
<1>5. \A u \in Threads : held'[u][o] >= 0 /\ (held'[u][o] > 0 => owner'[o] = u)
  BY <1>1 DEF LockOK, OthersKeep
<1>6. \A u \in Threads : Claimant(u, o)' /\ state'[u] # "done" => owner'[o] = u
  BY DEF LockOK, OthersKeep
<1> QED BY <1>4, <1>5, <1>6 DEF LockOK

(* ... one its holder releases a level of, ...                             *)
LEMMA LockLowered ==
  ASSUME TypeOK, NEW o \in Locks, LockOK(o), NEW t \in Threads, Lowered(t, o)
  PROVE  LockOK(o)'
<1> USE DEF Lowered
<1>1. /\ owner[o] \in Threads \cup {NoThread} /\ count[o] \in Int
      /\ \A u \in Threads : held[u][o] \in Int /\ held[u] \in [Locks -> Int]
  BY LockTypes
<1>2. owner[o] = t /\ t # NoThread /\ count[o] = held[t][o]
  BY <1>1 DEF LockOK, Levels
<1>3. count'[o] = count[o] - 1 /\ owner'[o] = IF count[o] = 1 THEN NoThread ELSE t
  BY <1>2 DEF Lower, TypeOK, Objects
<1>4. held'[t][o] = held[t][o] - 1 /\ \A u \in Threads \ {t} : held'[u][o] = held[u][o]
  BY <1>1 DEF Give, TypeOK
<1>5. Levels(t, o)' = held'[t][o]
  BY <1>1, <1>4 DEF Levels
<1>6. \A u \in Threads \ {t} : held[u][o] = 0
  BY <1>1, <1>2 DEF LockOK
<1>7. /\ owner'[o] = NoThread => count'[o] = 0
      /\ \A u \in Threads : owner'[o] = u => u = t /\ count'[o] = Levels(t, o)'
  BY <1>1, <1>2, <1>3, <1>4, <1>5
<1>8. \A u \in Threads : held'[u][o] >= 0 /\ (held'[u][o] > 0 => owner'[o] = u)
  BY <1>1, <1>2, <1>3, <1>4, <1>6
<1>9. \A u \in Threads : Claimant(u, o)' /\ state'[u] # "done" => owner'[o] = u
  BY <1>2 DEF LockOK, Claimant
<1> QED BY <1>1, <1>2, <1>3, <1>4, <1>7, <1>8, <1>9 DEF LockOK

(* ... one claimed by the wait that returns, whose level becomes its       *)
(* thread's, ...                                                           *)
LEMMA LockReturned ==
  ASSUME TypeOK, NEW o \in Locks, LockOK(o), NEW t \in Threads, ReturnWait(t),
         o \in result[t].got => HandlesOpen(result[t].req)
  PROVE  LockOK(o)'
<1>1. /\ owner[o] \in Threads \cup {NoThread} /\ count[o] \in Int
      /\ \A u \in Threads : held[u][o] \in Int /\ held[u] \in [Locks -> Int]
  BY LockTypes
<1>2. /\ UNCHANGED <<owner, count, state>> /\ state[t] = "running" /\ result[t] # NoResult
      /\ ~Claimant(t, o)'
      /\ \A u \in Threads \ {t} : result'[u] = result[u]
  BY DEF ReturnWait, objectVars, Claimant, TypeOK
<1>3. /\ held'[t][o] = held[t][o] + IF o \in result[t].got THEN 1 ELSE 0
      /\ \A u \in Threads \ {t} : held'[u][o] = held[u][o]
  <2>1. CASE HandlesOpen(result[t].req)
    BY <1>1, <2>1 DEF ReturnWait, Grant, TypeOK
  <2>2. CASE ~HandlesOpen(result[t].req)
    BY <1>1, <2>2 DEF ReturnWait
  <2> QED BY <2>1, <2>2
<1>4. o \in result[t].got => owner[o] = t
  BY <1>2 DEF LockOK, Claimant
<1>5. \A u \in Threads : Levels(u, o)' = Levels(u, o)
  BY <1>1, <1>2, <1>3 DEF Levels, Claimant
<1>6. /\ owner'[o] = NoThread => count'[o] = 0
      /\ \A u \in Threads : owner'[o] = u => count'[o] = Levels(u, o)'
  BY <1>1, <1>2, <1>5 DEF LockOK
<1>7. \A u \in Threads : held'[u][o] >= 0 /\ (held'[u][o] > 0 => owner'[o] = u)
  BY <1>1, <1>2, <1>3, <1>4 DEF LockOK
<1>8. \A u \in Threads : Claimant(u, o)' /\ state'[u] # "done" => owner'[o] = u
  BY <1>2 DEF LockOK, Claimant
<1> QED BY <1>2, <1>6, <1>7, <1>8 DEF LockOK

(* ... and one whose owner ends: abandoned if it is a mutex with a handle, *)
(* kept for ever otherwise.                                                *)
LEMMA LockAbandoned ==
  ASSUME TypeOK, NEW o \in Locks, LockOK(o), NEW u \in Threads, RemoveThread(u),
         UNCHANGED result
  PROVE  LockOK(o)'
<1>1. /\ owner[o] \in Threads \cup {NoThread} /\ count[o] \in Int /\ o \in Objects
      /\ \A t \in Threads : held[t][o] \in Int /\ held[t] \in [Locks -> Int]
  BY LockTypes DEF Objects
<1>2. /\ \A t \in Threads : Claimant(t, o)' <=> Claimant(t, o)
      /\ \A t \in Threads : state'[t] # "done" => state[t] # "done" /\ t # u
  BY DEF Claimant, RemoveThread, Abandon, TypeOK
<1>3. \A t \in Threads \ {u} : held'[t][o] = held[t][o]
  BY DEF RemoveThread, Abandon, TypeOK
<1>4. CASE o \in Mutexes \cap open /\ owner[o] = u
  <2>1. owner'[o] = NoThread /\ count'[o] = 0 /\ held'[u][o] = 0
    BY <1>1, <1>4 DEF RemoveThread, Abandon, TypeOK
  <2>2. \A t \in Threads \ {u} : held[t][o] = 0 /\ (Claimant(t, o) => state[t] = "done")
    BY <1>1, <1>4 DEF LockOK
  <2> QED BY <1>2, <1>3, <2>1, <2>2 DEF LockOK
<1>5. CASE ~(o \in Mutexes \cap open /\ owner[o] = u)
  <2>1. owner'[o] = owner[o] /\ count'[o] = count[o] /\ held'[u][o] = held[u][o]
    BY <1>1, <1>5 DEF RemoveThread, Abandon, TypeOK
  <2> QED BY <1>2, <1>3, <2>1, LockSame DEF Untouched
<1> QED BY <1>4, <1>5

(* A step that changes neither owners, counts, levels nor outcomes.        *)
LEMMA Aside ==
  ASSUME NEW o \in Locks, UNCHANGED <<held, result>>, owner'[o] = owner[o], count'[o] = count[o],
         \A u \in Threads : Claimant(u, o) /\ state'[u] # "done" => state[u] # "done"
  PROVE  Untouched(o)
BY DEF Untouched, Claimant

(* Taking the objects of S, with the levels or as a claim of t.            *)
LEMMA Taken ==
  ASSUME TypeOK, NEW o \in Locks, NEW t \in Threads, result[t] = NoResult, NEW S,
         \A x \in S : IsSignaled(x, t), Consume(S, t),
         \A u \in Threads \ {t} : state'[u] = state[u] /\ result'[u] = result[u],
         \/ Grant(S, t) /\ result'[t] = NoResult
         \/ UNCHANGED held /\ result'[t] # NoResult /\ result'[t].got = S
  PROVE  Untouched(o) \/ Gained(t, o)
<1>1. /\ o \in Objects
      /\ \A u \in Threads : held[u] \in [Locks -> Int]
  BY LockTypes DEF Objects
<1>2. ~Claimant(t, o) /\ \A u \in Threads \ {t} : held'[u][o] = held[u][o]
  BY DEF Claimant, Grant, TypeOK
<1>3. OthersKeep(t, o)
  BY <1>2 DEF OthersKeep, Claimant
<1>4. CASE o \in S
  <2>1. owner[o] \in {NoThread, t}
    BY <1>4 DEF IsSignaled, Locks, Objects
  <2>2. owner'[o] = t /\ count'[o] = count[o] + 1
    BY <1>1, <1>4 DEF Consume
  <2>3. \/ held'[t][o] = held[t][o] + 1 /\ ~Claimant(t, o)'
        \/ held'[t][o] = held[t][o] /\ Claimant(t, o)'
    BY <1>1, <1>4 DEF Grant, Claimant, TypeOK
  <2> QED BY <1>2, <1>3, <2>1, <2>2, <2>3 DEF Gained
<1>5. CASE o \notin S
  <2>1. o \notin Counted
    BY DEF Counted, Locks, Events
  <2>2. owner'[o] = owner[o] /\ count'[o] = count[o]
    BY <1>1, <1>5, <2>1 DEF Consume
  <2>3. held'[t][o] = held[t][o] /\ ~Claimant(t, o)'
    BY <1>1, <1>5, LockTypes DEF Grant, Claimant, TypeOK
  <2> QED BY <1>2, <1>3, <2>2, <2>3 DEF Untouched, OthersKeep
<1> QED BY <1>4, <1>5

(* Each step does at most one thing to a lock.                             *)
Effect(o) ==
  \/ Untouched(o)
  \/ \E t \in Threads :
       \/ Gained(t, o) \/ Lowered(t, o) \/ ReturnWait(t)
       \/ RemoveThread(t) /\ UNCHANGED result

LEMMA GuestEffect ==
  ASSUME TypeOK, WaitsAsked, NEW o \in Locks, NEW t \in Threads, GuestCall(t)
  PROVE  Effect(o)
<1> USE DEF TypeOK, Effect
<1>1. ASSUME NEW w \in Asked, TakeNow(t, w)
      PROVE  Effect(o)
  <2>1. Guest(t) /\ Satisfied(w, t) /\ UNCHANGED <<state, result>>
    BY <1>1 DEF TakeNow, MayAsk, threadVars
  <2>2. PICK S \in Claims(w, t) : Consume(S, t) /\ Grant(S, t)
    BY <1>1 DEF TakeNow
  <2>3. \A x \in S : IsSignaled(x, t)
    BY <2>1, <2>2, ClaimsSignaled
  <2>4. result[t] = NoResult
    BY <2>1 DEF Guest
  <2> QED BY <2>1, <2>2, <2>3, <2>4, Taken
<1>2. ASSUME NEW s \in CritSecs, EnterAgain(t, s)
      PROVE  Effect(o)
  <2>1. /\ Guest(t) /\ owner[s] = t /\ count' = [count EXCEPT ![s] = @ + 1] /\ Grant({s}, t)
        /\ UNCHANGED <<state, result, owner>>
    BY <1>2 DEF EnterAgain, threadVars
  <2>2. o \in Objects /\ s \in Objects
    BY DEF Objects, Locks
  <2>3. /\ \A u \in Threads \ {t} : held'[u][o] = held[u][o]
        /\ held'[t][o] = held[t][o] + IF o = s THEN 1 ELSE 0
    BY <2>1 DEF Grant
  <2>4. OthersKeep(t, o) /\ ~Claimant(t, o) /\ ~Claimant(t, o)'
    BY <2>1, <2>3 DEF OthersKeep, Claimant, Guest
  <2>5. CASE o = s
    BY <2>1, <2>2, <2>3, <2>4, <2>5 DEF Gained
  <2>6. CASE o # s
    BY <2>1, <2>2, <2>3, <2>4, <2>6, LockTypes DEF Untouched, OthersKeep
  <2> QED BY <2>5, <2>6
<1>3. ASSUME NEW x \in Locks, Guest(t), Lower(x), Give(t, x), held[t][x] > 0,
             x \in Mutexes => owner[x] = t, UNCHANGED <<state, result>>
      PROVE  Effect(o)
  <2>1. CASE x = o
    BY <1>3, <2>1 DEF Lowered, Guest
  <2>2. CASE x # o
    <3>1. owner'[o] = owner[o] /\ count'[o] = count[o]
          /\ \A u \in Threads : held'[u][o] = held[u][o]
      BY <1>3, <2>2, LockTypes DEF Lower, Give, Objects
    <3> QED BY <1>3, <3>1 DEF Untouched, Claimant
  <2> QED BY <2>1, <2>2
<1>4. ASSUME NEW x \in Mutexes, ReleaseMutex(t, x) \/ JitReleaseMutex(t, x)
      PROVE  Effect(o)
  BY <1>3, <1>4 DEF ReleaseMutex, JitReleaseMutex, threadVars, Locks
<1>5. ASSUME NEW s \in CritSecs, LeaveCriticalSection(t, s) \/ JitLeaveCriticalSection(t, s)
      PROVE  Effect(o)
  BY <1>3, <1>5 DEF LeaveCriticalSection, JitLeaveCriticalSection, threadVars, Locks
<1>6. ASSUME NEW e \in Events \cup Semaphores,
             \/ SetEvent(t, e) \/ ResetEvent(t, e) \/ PulseEvent(t, e)
             \/ \E n \in Amounts : ReleaseSemaphore(t, e, n)
      PROVE  Effect(o)
  <2>1. o \in Objects /\ o # e
    BY DEF Objects, Locks, Events
  <2>2. UNCHANGED <<state, result, owner, held>> /\ count'[o] = count[o]
    BY <1>6, <2>1 DEF SetEvent, ResetEvent, PulseEvent, ReleaseSemaphore, threadVars
  <2> QED BY <2>2, Aside
<1>7. ASSUME NEW w, Guest(t), ParkIn(t, w) \/ NestIn(t, w),
             UNCHANGED <<owner, count, held, result>>
      PROVE  Effect(o)
  BY <1>7, Aside DEF ParkIn, NestIn, Guest
<1>8. CASE \E w \in Asked : Block(t, w)
  <2>1. PICK w \in Asked : Block(t, w)
    BY <1>8
  <2> QED BY <1>7, <2>1 DEF Block, MayAsk
<1>9. CASE SuspendSelf(t)
  BY <1>7, <1>9 DEF SuspendSelf, objectVars
<1>10. CASE EndSlice(t)
  BY <1>10, Aside DEF EndSlice, Guest, objectVars
<1>11. CASE ExitThread(t)
  BY <1>11 DEF ExitThread
<1>12. CASE UNCHANGED <<state, result, owner, count, held>>
  BY <1>12, Aside
<1>13. CASE ReturnWait(t)
  BY <1>13
<1> QED
  BY <1>1, <1>2, <1>4, <1>5, <1>6, <1>8, <1>9, <1>10, <1>11, <1>12, <1>13
     DEF GuestCall, CloseHandle, EnterCallback, LeaveCallback, threadVars, objectVars

LEMMA StepEffect ==
  ASSUME TypeOK, WaitsAsked, ResultInv, ObjectInv, NEW o \in Locks, [Next]_vars
  PROVE  Effect(o)
<1> USE DEF TypeOK, Effect
<1>1. ASSUME NEW t \in Threads, NEW u \in Threads, ThreadCall(t, u)
      PROVE  Effect(o)
  <2>1. CASE TerminateThread(t, u)
    BY <2>1, Aside DEF TerminateThread
  <2>2. ASSUME UNCHANGED <<owner, count, held, result>>,
               \A v \in Threads : state'[v] # "done" => state[v] # "done" \/ ~Claimant(v, o)
        PROVE  Effect(o)
    BY <2>2, Aside
  <2>3. ASSUME NEW b \in BOOLEAN, CreateThread(t, u, b)
        PROVE  Effect(o)
    BY <2>2, <2>3 DEF CreateThread, objectVars
  <2>4. CASE SuspendThread(t, u) \/ ResumeThread(t, u)
    BY <2>2, <2>4 DEF SuspendThread, ResumeThread, objectVars
  <2>5. CASE NestedYield(t, u)
    BY <2>2, <2>5 DEF NestedYield, RunThread, Runnable, objectVars
  <2> QED BY <1>1, <2>1, <2>3, <2>4, <2>5 DEF ThreadCall
<1>2. ASSUME NEW t \in Threads, HostStep(t)
      PROVE  Effect(o)
  <2>1. CASE NestedTake(t) \/ NestedGiveUp(t)
    <3>1. PICK S \in SUBSET (Objects \cup Threads) :
            Waiting(t) /\ NestedReturn(t, S) /\ \A x \in S : IsSignaled(x, t)
      BY <2>1, NestedEnd
    <3>2. result[t] = NoResult
      BY <3>1 DEF Waiting, ResultInv
    <3>3. /\ Consume(S, t) /\ Grant(S, t) /\ UNCHANGED result
          /\ \A u \in Threads \ {t} : state'[u] = state[u]
      BY <3>1 DEF NestedReturn
    <3> QED BY <3>1, <3>2, <3>3, Taken
  <2>2. CASE Pick(t) \/ NestedTurn(t) \/ Expire(t)
    BY <2>2, Aside DEF Pick, RunThread, Runnable, NestedTurn, Expire, threadVars, objectVars
  <2> QED BY <1>2, <2>1, <2>2 DEF HostStep
<1>3. CASE SignalVisit \/ WakeVisit
  <2>1. CASE UNCHANGED <<threadVars, objectVars, held>>
    BY <2>1, Aside DEF threadVars, objectVars
  <2>2. ASSUME NEW t \in Threads, NEW ok \in BOOLEAN, NEW S \in SUBSET (Objects \cup Threads),
               Parked(t), Wake(t, ok, S), S \subseteq wait[t].objs,
               \A x \in S : IsSignaled(x, t)
        PROVE  Effect(o)
    <3>1. result[t] = NoResult /\ wait[t] \in Request
      BY <2>2 DEF Parked, ResultInv
    <3>2. /\ Consume(S, t) /\ UNCHANGED held
          /\ \A u \in Threads \ {t} : state'[u] = state[u] /\ result'[u] = result[u]
          /\ result'[t] = [ok |-> ok, got |-> S, req |-> wait[t]]
      BY <2>2 DEF Wake
    <3>3. result'[t] # NoResult /\ result'[t].got = S
      <4>1. [ok |-> ok, got |-> S, req |-> wait[t]] \in Result
        BY <3>1 DEF Result
      <4> QED BY <3>2, <4>1
    <3> QED BY <2>2, <3>1, <3>2, <3>3, Taken
  <2>3. \/ UNCHANGED <<threadVars, objectVars, held>>
        \/ \E t \in Threads, ok \in BOOLEAN, S \in SUBSET (Objects \cup Threads) :
             /\ Parked(t) /\ Wake(t, ok, S)
             /\ S \subseteq wait[t].objs /\ \A x \in S : IsSignaled(x, t)
             /\ S # {} => t \notin pendingExit
    BY <1>3, Visit
  <2> HIDE DEF TypeOK, Effect
  <2> QED BY <2>1, <2>2, <2>3
<1>4. CASE EndPass
  <2>1. count'[o] = count[o]
    BY <1>4 DEF EndPass, ObjectInv, Objects, Locks, Events
  <2> QED BY <1>4, <2>1, Aside DEF EndPass, threadVars
<1>5. CASE PickNone \/ UNCHANGED vars
  BY <1>5, Aside DEF PickNone, vars, threadVars, objectVars
<1> QED BY <1>1, <1>2, <1>3, <1>4, <1>5, GuestEffect DEF Next

------------------------------------------------------------------------------
(* Handles are closed of objects waited for alone only: a call for several *)
(* objects that returns with one of them closed reports a failure, and     *)
(* keeps what it took.                                                     *)
ClosedSingly == \A w \in Asked : w.objs \cap Closable # {} => \E x : w.objs = {x}

LEMMA StepLock ==
  ASSUME TypeOK, WaitsAsked, ResultInv, ObjectInv, [Next]_vars, NEW o \in Locks, LockOK(o),
         o \in CritSecs \/ (ClosedSingly /\ o \in open)
  PROVE  LockOK(o)'
<1>1. ASSUME NEW t \in Threads, ReturnWait(t), o \in result[t].got
      PROVE  HandlesOpen(result[t].req)
  <2> DEFINE w == result[t].req
  <2>1. result[t] # NoResult
    BY <1>1 DEF ReturnWait
  <2>2. w \in Asked \cup {SuspendRequest} /\ o \in w.objs
    BY <1>1, <2>1 DEF ResultInv
  <2> HIDE DEF w
  <2>3. w \in Asked
    BY <2>2 DEF SuspendRequest
  <2>4. SUFFICES ASSUME w.via \in {"single", "multi", "msg"}
                 PROVE  w.objs \cap Objects \subseteq open
    BY DEF HandlesOpen, w
  <2>5. w.objs \cap CritSecs = {}
    BY <2>3, <2>4
  <2>6. o \notin CritSecs /\ ClosedSingly /\ o \in open
    BY <2>2, <2>5
  <2>7. ASSUME NEW x \in w.objs \cap Objects, x \notin open
        PROVE  FALSE
    <3>1. x \in Closable
      BY <2>5, <2>7 DEF ObjectInv
    <3>2. PICK y : w.objs = {y}
      BY <2>3, <2>6, <2>7, <3>1 DEF ClosedSingly
    <3> QED BY <2>2, <2>6, <2>7, <3>2
  <2> QED BY <2>7
<1> QED BY <1>1, StepEffect, LockSame, LockGained, LockLowered, LockReturned, LockAbandoned
        DEF Effect

(* A claim of a live thread on any lock, whatever becomes of its handle.   *)
ClaimOK(o) == \A t \in Threads : Claimant(t, o) /\ state[t] # "done" => owner[o] = t

LEMMA StepClaim ==
  ASSUME TypeOK, WaitsAsked, ResultInv, ObjectInv, [Next]_vars, NEW o \in Mutexes, ClaimOK(o)
  PROVE  ClaimOK(o)'
<1>1. o \in Locks /\ o \in Objects
  BY DEF Locks, Objects
<1>2. CASE Untouched(o)
  BY <1>2 DEF Untouched, ClaimOK
<1>3. ASSUME NEW t \in Threads, Gained(t, o)
      PROVE  ClaimOK(o)'
  BY <1>3 DEF Gained, OthersKeep, ClaimOK
<1>4. ASSUME NEW t \in Threads, Lowered(t, o)
      PROVE  ClaimOK(o)'
  BY <1>4 DEF Lowered, ClaimOK, Claimant
<1>5. ASSUME NEW t \in Threads, ReturnWait(t)
      PROVE  ClaimOK(o)'
  BY <1>5 DEF ReturnWait, objectVars, ClaimOK, Claimant, TypeOK
<1>6. ASSUME NEW t \in Threads, RemoveThread(t), UNCHANGED result
      PROVE  ClaimOK(o)'
  BY <1>1, <1>6 DEF RemoveThread, Abandon, ClaimOK, Claimant, TypeOK
<1> QED BY <1>1, <1>2, <1>3, <1>4, <1>5, <1>6, StepEffect DEF Effect

(* What every step keeps, of the critical sections and of the mutexes.     *)
LocksInv ==
  /\ TypeOK /\ WaitsAsked /\ ResultInv /\ ObjectInv
  /\ \A s \in CritSecs : LockOK(s)
  /\ \A x \in Mutexes : ClaimOK(x)

LEMMA InitLock ==
  ASSUME Init, NEW o \in Locks
  PROVE  LockOK(o) /\ ClaimOK(o)
BY DEF Init, LockOK, ClaimOK, Claimant, Locks, Objects

LEMMA InitLocks == Init => LocksInv
<1>1. Init => ResultInv /\ ObjectInv
  BY DEF Init, ResultInv, ObjectInv
<1>2. Init => \A s \in CritSecs : LockOK(s)
  BY InitLock DEF Locks
<1>3. Init => \A x \in Mutexes : ClaimOK(x)
  BY InitLock DEF Locks
<1> QED BY <1>1, <1>2, <1>3, InitTypes, InitAsked DEF LocksInv

LEMMA StepLocks == LocksInv /\ [Next]_vars => LocksInv'
<1> SUFFICES ASSUME LocksInv, [Next]_vars PROVE LocksInv'
  OBVIOUS
<1>1. TypeOK /\ WaitsAsked /\ ResultInv /\ ObjectInv
  BY DEF LocksInv
<1>2. \A s \in CritSecs : LockOK(s)'
  BY <1>1, StepLock DEF LocksInv, Locks
<1>3. \A x \in Mutexes : ClaimOK(x)'
  BY <1>1, StepClaim DEF LocksInv
<1> QED BY <1>1, <1>2, <1>3, StepTypes, StepAsked, ResultStep, ObjectStep DEF LocksInv

(* The types, the waits and their outcomes, the accounts of the critical   *)
(* sections and the claims on mutexes hold in every reachable state.       *)
THEOREM LocksAlways == Spec => []LocksInv
BY InitLocks, StepLocks, PTL DEF Spec

(* What a wake-up took for a thread - a mutex or a critical section - still *)
(* belongs to it when its re-executed call returns, unless it was          *)
(* terminated before (sched.js wakeBlocked, signal).                       *)
THEOREM ClaimKeptAlways == Spec => []ClaimKept
<1>1. LocksInv => ClaimKept
  BY DEF LocksInv, LockOK, ClaimOK, Claimant, ClaimKept, Locks
<1> QED BY <1>1, LocksAlways, PTL

(* The levels a lock counts are those its owner's guest code was granted   *)
(* and has not released, with the claim it has still to be told of, and    *)
(* only the owner was granted any: the JavaScript calls and the            *)
(* translated ones keep one account (kernel32 consumeSignal, ReleaseMutex, *)
(* LeaveCriticalSection; runtime.js cases 6 and 18).                       *)
THEOREM LevelsAccountedAlways == ASSUME ClosedSingly PROVE Spec => []LevelsAccounted
<1> DEFINE Inv == LocksInv /\ \A x \in Mutexes \cap open : LockOK(x)
<1>1. Init => Inv
  BY InitLocks, InitLock DEF Locks
<1>2. Inv /\ [Next]_vars => Inv'
  <2> SUFFICES ASSUME Inv, [Next]_vars PROVE Inv'
    OBVIOUS
  <2>1. open' \subseteq open
    BY OpenStep
  <2>2. \A x \in Mutexes \cap open : LockOK(x)'
    BY StepLock DEF LocksInv, Locks
  <2> QED BY <2>1, <2>2, StepLocks
<1>3. Inv => LevelsAccounted
  BY LockTypes DEF LocksInv, LockOK, LevelsAccounted, Locks
<1> QED BY <1>1, <1>2, <1>3, PTL DEF Spec

(***************************************************************************)
(* Every mutex implements module HandOffLock, for any number of threads,   *)
(* any objects, waits and closed handles, with or without translated code. *)
(***************************************************************************)
absVars == <<owner[m], Queued, Others>>

LEMMA MutexTypes ==
  ASSUME TypeOK, m \in Mutexes
  PROVE  /\ m \in Locks /\ m \in Objects /\ m \notin CritSecs /\ m \notin Events \cup Semaphores
         /\ m \notin Threads /\ owner[m] \in Threads \cup {NoThread}
BY DEF TypeOK, Locks, Objects

(* Only parked threads wait for the mutex, and a wait that takes it is one *)
(* of the three kinds.                                                     *)
LEMMA WaitsParked ==
  ASSUME TypeOK, WaitsAsked, NEW t \in Threads
  PROVE  /\ t \in Queued => Waits(t) /\ t \notin Others
         /\ t \in Others => Waits(t) /\ t \notin Queued
         /\ Waits(t) => state[t] = "blocked" /\ nested[t] = NoWait
BY DEF Queued, Others, Waits, Parked, WaitsAsked

(* A step that changes no wait leaves the queue as it is, ...              *)
LEMMA SameQueue ==
  ASSUME \A t \in Threads : /\ Waits(t)' <=> Waits(t)
                            /\ Waits(t) => wait'[t] = wait[t]
  PROVE  UNCHANGED <<Queued, Others>>
BY DEF Queued, Others, ForItAlone

(* ... one that ends the wait of u takes it out of both sets, ...          *)
LEMMA LeftQueue ==
  ASSUME NEW u \in Threads, ~Waits(u)',
         \A t \in Threads \ {u} : /\ Waits(t)' <=> Waits(t)
                                  /\ Waits(t) => wait'[t] = wait[t]
  PROVE  Queued' = Queued \ {u} /\ Others' = Others \ {u}
BY DEF Queued, Others, ForItAlone

(* ... and one that parks u adds it to one of them.                        *)
LEMMA JoinedQueue ==
  ASSUME NEW u \in Threads, ~Waits(u), Waits(u)',
         \A t \in Threads \ {u} : /\ Waits(t)' <=> Waits(t)
                                  /\ Waits(t) => wait'[t] = wait[t]
  PROVE  /\ ForItAlone(u)' => Queued' = Queued \cup {u} /\ UNCHANGED Others
         /\ ~ForItAlone(u)' => Others' = Others \cup {u} /\ UNCHANGED Queued
BY DEF Queued, Others, ForItAlone

(* When guest code runs and the mutex is free nobody queues for it.        *)
LEMMA FreeUnqueued ==
  ASSUME TypeOK, HandOff, m \in Mutexes, phase = "run", owner[m] = NoThread
  PROVE  Queued = {}
<1> SUFFICES ASSUME NEW t \in Queued PROVE FALSE
  OBVIOUS
<1>1. t \in Threads /\ Waits(t) /\ wait[t].via \in {"single", "multi"} /\ ~wait[t].all
  BY DEF Queued, Waits, ForItAlone
<1>2. Satisfied(wait[t], t)
  BY <1>1 DEF Satisfied, IsSignaled, Waits
<1> QED BY <1>1, <1>2 DEF HandOff, HandOffIn, Waits, PassAhead

(* The steps of the lock that the steps of the threads are.                *)
LEMMA TakenNow ==
  ASSUME TypeOK, HandOff, m \in Mutexes, phase = "run", NEW t \in Threads, ~Waits(t),
         NEW S, \A o \in S : IsSignaled(o, t), Consume(S, t), UNCHANGED <<Queued, Others>>
  PROVE  [Lock!Next]_absVars
<1>1. CASE m \in S
  <2>1. owner[m] \in {NoThread, t} /\ owner'[m] = t
    BY <1>1, MutexTypes DEF IsSignaled, Consume
  <2>2. owner[m] = NoThread => Lock!Take(t)
    BY <2>1, FreeUnqueued DEF Lock!Take, Others
  <2> QED BY <2>1, <2>2 DEF Lock!Next, absVars
<1>2. CASE m \notin S
  BY <1>2, MutexTypes DEF Consume, absVars
<1> QED BY <1>1, <1>2

LEMMA FreedNow ==
  ASSUME TypeOK, m \in Mutexes, NEW o \in Locks, Lower(o), UNCHANGED <<Queued, Others>>
  PROVE  [Lock!Next]_absVars
<1>1. owner'[m] = owner[m] \/ (owner[m] # NoThread /\ owner'[m] = NoThread)
  BY MutexTypes DEF Lower, TypeOK
<1> QED BY <1>1 DEF Lock!Next, Lock!Release, absVars

LEMMA ParkedNow ==
  ASSUME TypeOK, WaitsAsked, m \in Mutexes, NEW t \in Threads, Guest(t),
         NEW w \in Asked \cup {SuspendRequest}, ParkIn(t, w), ~Satisfied(w, t),
         UNCHANGED <<owner, pendingExit>>
  PROVE  [Lock!Next]_absVars
<1>1. state[t] = "running" /\ ~Waits(t)
  BY DEF Guest, Waits, Parked
<1>2. wait'[t] = w /\ state'[t] = "blocked" /\ owner'[m] = owner[m]
  BY DEF ParkIn, TypeOK
<1>3. \A u \in Threads \ {t} : /\ Waits(u)' <=> Waits(u)
                               /\ Waits(u) => wait'[u] = wait[u]
  BY DEF ParkIn, Waits, Parked, TypeOK
<1>4. CASE ~Waits(t)'
  BY <1>1, <1>2, <1>3, <1>4, SameQueue DEF absVars
<1>5. CASE Waits(t)'
  <2>1. m \in w.objs
    BY <1>2, <1>5 DEF Waits
  <2>2. t \notin Queued \cup Others
    BY <1>1 DEF Queued, Others
  <2>3. CASE ForItAlone(t)'
    <3>1. ~IsSignaled(m, t)
      BY <1>2, <2>1, <2>3 DEF ForItAlone, Satisfied
    <3>2. owner[m] \notin {NoThread, t}
      BY <3>1 DEF IsSignaled
    <3>3. Lock!Join(t)
      BY <1>1, <1>2, <1>3, <1>5, <2>2, <2>3, <3>2, JoinedQueue DEF Lock!Join
    <3> QED BY <3>3 DEF Lock!Next
  <2>4. CASE ~ForItAlone(t)'
    <3>1. Lock!JoinPartial(t)
      BY <1>1, <1>2, <1>3, <1>5, <2>2, <2>4, JoinedQueue DEF Lock!JoinPartial
    <3> QED BY <3>1 DEF Lock!Next
  <2> QED BY <2>3, <2>4
<1> QED BY <1>4, <1>5

LEMMA WokenNow ==
  ASSUME TypeOK, WaitsAsked, m \in Mutexes, NEW t \in Threads, Parked(t),
         NEW ok, NEW S, Wake(t, ok, S), S \subseteq wait[t].objs,
         \A o \in S : IsSignaled(o, t), S # {} => t \notin pendingExit
  PROVE  [Lock!Next]_absVars
<1>1. Queued' = Queued \ {t} /\ Others' = Others \ {t}
  <2>1. ~Waits(t)'
    BY DEF Wake, Waits, Parked, TypeOK
  <2>2. \A u \in Threads \ {t} : /\ Waits(u)' <=> Waits(u)
                                 /\ Waits(u) => wait'[u] = wait[u]
    BY DEF Wake, Waits, Parked, TypeOK
  <2> QED BY <2>1, <2>2, LeftQueue
<1>2. CASE m \in S
  <2>1. owner[m] \in {NoThread, t} /\ owner'[m] = t
    BY <1>2, MutexTypes DEF IsSignaled, Wake, Consume
  <2>2. wait[t] \in Asked \cup {SuspendRequest} /\ m \in wait[t].objs
    BY <1>2 DEF Parked, WaitsAsked
  <2>3. wait[t].via \in {"single", "multi", "msg"}
    BY <2>2, MutexTypes DEF SuspendRequest, Request, Vias
  <2>4. t \in Queued \cup Others
    BY <1>2, <2>2, <2>3 DEF Waits, Queued, Others
  <2>5. owner[m] = NoThread => Lock!Grant(t)
    BY <1>1, <2>1, <2>4 DEF Lock!Grant
  <2>6. owner[m] = t => Lock!Leave(t)
    BY <1>1, <2>1, <2>4 DEF Lock!Leave
  <2> QED BY <2>1, <2>5, <2>6 DEF Lock!Next
<1>3. CASE m \notin S
  <2>1. owner'[m] = owner[m]
    BY <1>3, MutexTypes DEF Wake, Consume
  <2>2. t \in Queued \cup Others => Lock!Leave(t)
    BY <1>1, <2>1 DEF Lock!Leave
  <2>3. t \notin Queued \cup Others => UNCHANGED absVars
    BY <1>1, <2>1 DEF absVars
  <2> QED BY <2>2, <2>3 DEF Lock!Next
<1> QED BY <1>2, <1>3

LEMMA EndedNow ==
  ASSUME TypeOK, m \in Mutexes, NEW u \in Threads, RemoveThread(u), UNCHANGED wait,
         \A t \in Threads \ {u} : t \in pendingExit' <=> t \in pendingExit
  PROVE  [Lock!Next]_absVars
<1>1. Queued' = Queued \ {u} /\ Others' = Others \ {u}
  <2>1. ~Waits(u)'
    BY DEF RemoveThread, Abandon, Waits, Parked, TypeOK
  <2>2. \A t \in Threads \ {u} : /\ Waits(t)' <=> Waits(t)
                                 /\ Waits(t) => wait'[t] = wait[t]
    BY DEF RemoveThread, Abandon, Waits, Parked, TypeOK
  <2> QED BY <2>1, <2>2, LeftQueue
<1>2. CASE owner[m] = u /\ m \in open
  <2>1. owner'[m] = NoThread
    BY <1>2, MutexTypes DEF RemoveThread, Abandon
  <2>2. Lock!Die
    BY <1>1, <1>2, <2>1 DEF Lock!Die
  <2> QED BY <2>2 DEF Lock!Next
<1>3. CASE ~(owner[m] = u /\ m \in open)
  <2>1. owner'[m] = owner[m]
    BY <1>3, MutexTypes DEF RemoveThread, Abandon
  <2>2. u \in Queued \cup Others => Lock!Leave(u)
    BY <1>1, <2>1 DEF Lock!Leave
  <2>3. u \notin Queued \cup Others => UNCHANGED absVars
    BY <1>1, <2>1 DEF absVars
  <2> QED BY <2>2, <2>3 DEF Lock!Next
<1> QED BY <1>2, <1>3

LEMMA GuestLock ==
  ASSUME TypeOK, WaitsAsked, HandOff, m \in Mutexes, NEW t \in Threads, GuestCall(t)
  PROVE  [Lock!Next]_absVars
<1>1. CASE UNCHANGED <<state, wait, pendingExit>>
  <2>1. UNCHANGED <<Queued, Others>>
    BY <1>1, SameQueue DEF Waits, Parked
  <2>2. ASSUME NEW w \in Asked, TakeNow(t, w)
        PROVE  [Lock!Next]_absVars
    <3>1. Satisfied(w, t) /\ phase = "run" /\ state[t] = "running"
      BY <2>2 DEF TakeNow, MayAsk, Guest
    <3>2. PICK S \in Claims(w, t) : Consume(S, t)
      BY <2>2 DEF TakeNow
    <3>3. \A o \in S : IsSignaled(o, t)
      BY <3>1, <3>2, ClaimsSignaled
    <3>4. ~Waits(t)
      BY <3>1 DEF Waits, Parked
    <3> QED BY <2>1, <3>1, <3>2, <3>3, <3>4, TakenNow
  <2>3. ASSUME NEW o \in Locks, Lower(o)
        PROVE  [Lock!Next]_absVars
    BY <2>1, <2>3, FreedNow
  <2>4. CASE UNCHANGED owner
    BY <2>1, <2>4 DEF absVars
  <2>5. ASSUME NEW x \in Mutexes, ReleaseMutex(t, x) \/ JitReleaseMutex(t, x)
        PROVE  [Lock!Next]_absVars
    BY <2>3, <2>5 DEF ReleaseMutex, JitReleaseMutex, Locks
  <2>6. ASSUME NEW x \in CritSecs, LeaveCriticalSection(t, x) \/ JitLeaveCriticalSection(t, x)
        PROVE  [Lock!Next]_absVars
    BY <2>3, <2>6 DEF LeaveCriticalSection, JitLeaveCriticalSection, Locks
  <2>7. ASSUME NEW w \in Asked, Block(t, w)
        PROVE  UNCHANGED owner
    BY <2>7 DEF Block
  <2>8. CASE ExitThread(t)
    BY <2>8, EndedNow DEF ExitThread
  <2> QED
    BY <1>1, <2>2, <2>4, <2>5, <2>6, <2>7, <2>8
       DEF GuestCall, ReturnWait, EnterAgain, SetEvent, ResetEvent, PulseEvent, ReleaseSemaphore,
           CloseHandle, EnterCallback, LeaveCallback, SuspendSelf, EndSlice, objectVars
<1>2. ASSUME NEW w \in Asked \cup {SuspendRequest}, Guest(t), ~Satisfied(w, t),
             ParkIn(t, w) \/ NestIn(t, w), UNCHANGED <<owner, pendingExit>>
      PROVE  [Lock!Next]_absVars
  <2>1. CASE NestIn(t, w)
    <3>1. wait[t] = NoWait /\ wait' = wait
      BY <1>2, <2>1 DEF NestIn, Guest, WaitsAsked
    <3>2. UNCHANGED <<Queued, Others>>
      BY <1>2, <2>1, <3>1, SameQueue DEF NestIn, Waits, Parked, TypeOK
    <3> QED BY <1>2, <3>2 DEF absVars
  <2> QED BY <1>2, <2>1, ParkedNow
<1>3. ASSUME NEW w \in Asked, Block(t, w)
      PROVE  [Lock!Next]_absVars
  BY <1>2, <1>3 DEF Block, MayAsk
<1>4. CASE SuspendSelf(t)
  <2>1. ~Satisfied(SuspendRequest, t)
    BY DEF Satisfied, SuspendRequest
  <2> QED BY <1>2, <1>4, <2>1 DEF SuspendSelf, objectVars
<1>5. CASE EndSlice(t)
  <2>1. UNCHANGED <<Queued, Others>>
    BY <1>5, SameQueue DEF EndSlice, Guest, Waits, Parked, TypeOK
  <2> QED BY <1>5, <2>1 DEF EndSlice, objectVars, absVars
<1>6. CASE ExitThread(t)
  BY <1>6, EndedNow DEF ExitThread
<1> QED
  BY <1>1, <1>3, <1>4, <1>5, <1>6
     DEF GuestCall, TakeNow, ReturnWait, ReleaseMutex, JitReleaseMutex, EnterAgain,
         LeaveCriticalSection, JitLeaveCriticalSection, SetEvent, ResetEvent, PulseEvent,
         ReleaseSemaphore, CloseHandle, EnterCallback, LeaveCallback, threadVars

LEMMA StepLockOf ==
  ASSUME TypeOK, WaitsAsked, StackDiscipline, HandOff, m \in Mutexes, [Next]_vars
  PROVE  [Lock!Next]_absVars
<1>1. ASSUME UNCHANGED owner, UNCHANGED <<wait, pendingExit>>,
             \A u \in Threads : state'[u] = "blocked" <=> state[u] = "blocked"
      PROVE  [Lock!Next]_absVars
  <2>1. UNCHANGED <<Queued, Others>>
    BY <1>1, SameQueue DEF Waits, Parked
  <2> QED BY <1>1, <2>1 DEF absVars
<1>2. ASSUME NEW t \in Threads, NEW u \in Threads, ThreadCall(t, u)
      PROVE  [Lock!Next]_absVars
  <2>1. ASSUME NEW b \in BOOLEAN, CreateThread(t, u, b)
        PROVE  [Lock!Next]_absVars
    BY <1>1, <2>1 DEF CreateThread, objectVars, TypeOK
  <2>2. CASE TerminateThread(t, u)
    <3>1. CASE OnStack(u)
      <4>1. ~Waits(u) /\ ~Waits(u)' /\ UNCHANGED <<state, wait, owner>>
        BY <2>2, <3>1 DEF TerminateThread, StackDiscipline, Waits, Parked
      <4>2. UNCHANGED <<Queued, Others>>
        BY <2>2, <4>1, SameQueue DEF TerminateThread, Waits, Parked
      <4> QED BY <4>1, <4>2 DEF absVars
    <3>2. CASE ~OnStack(u)
      BY <2>2, <3>2, EndedNow DEF TerminateThread
    <3> QED BY <3>1, <3>2
  <2>3. CASE SuspendThread(t, u) \/ ResumeThread(t, u)
    BY <1>1, <2>3 DEF SuspendThread, ResumeThread, objectVars, TypeOK
  <2>4. CASE NestedYield(t, u)
    BY <1>1, <2>4 DEF NestedYield, RunThread, Runnable, objectVars, TypeOK
  <2> QED BY <1>2, <2>1, <2>2, <2>3, <2>4 DEF ThreadCall
<1>3. ASSUME NEW t \in Threads, HostStep(t)
      PROVE  [Lock!Next]_absVars
  <2>1. CASE NestedTake(t) \/ NestedGiveUp(t)
    <3>1. PICK S \in SUBSET (Objects \cup Threads) :
            Waiting(t) /\ NestedReturn(t, S) /\ \A o \in S : IsSignaled(o, t)
      BY <2>1, NestedEnd
    <3>2. wait[t] = NoWait /\ phase = "run"
      BY <3>1 DEF Waiting, WaitsAsked
    <3>3. ~Waits(t) /\ Consume(S, t)
      BY <3>1, <3>2 DEF Waits, Parked, NestedReturn
    <3>4. UNCHANGED <<Queued, Others>>
      BY <3>1, <3>2, SameQueue DEF NestedReturn, Waits, Parked, TypeOK
    <3> QED BY <3>1, <3>2, <3>3, <3>4, TakenNow
  <2>2. CASE Pick(t) \/ NestedTurn(t) \/ Expire(t)
    BY <1>1, <2>2 DEF Pick, RunThread, Runnable, NestedTurn, Expire, threadVars, objectVars, TypeOK
  <2> QED BY <1>3, <2>1, <2>2 DEF HostStep
<1>4. CASE SignalVisit \/ WakeVisit
  <2>1. CASE UNCHANGED <<threadVars, objectVars, held>>
    BY <1>1, <2>1 DEF threadVars, objectVars
  <2>2. ASSUME NEW t \in Threads, NEW ok \in BOOLEAN, NEW S \in SUBSET (Objects \cup Threads),
               Parked(t), Wake(t, ok, S), S \subseteq wait[t].objs,
               \A o \in S : IsSignaled(o, t), S # {} => t \notin pendingExit
        PROVE  [Lock!Next]_absVars
    BY <2>2, WokenNow
  <2> QED BY <1>4, <2>1, <2>2, Visit
<1>5. CASE EndPass \/ PickNone \/ UNCHANGED vars
  BY <1>1, <1>5 DEF EndPass, PickNone, vars, threadVars, objectVars
<1>6. ASSUME NEW t \in Threads, GuestCall(t)
      PROVE  [Lock!Next]_absVars
  BY <1>6, GuestLock
<1> QED BY <1>2, <1>3, <1>4, <1>5, <1>6 DEF Next

(* Every mutex hands off as Windows promises: released, by a call in       *)
(* JavaScript or in translated code or by its owner's end, it goes to one  *)
(* of the threads parked for it, and nobody else takes it before (kernel32 *)
(* ReleaseMutex, runtime.js case 18, sched.js signal, process.js           *)
(* removeThread).                                                          *)
THEOREM MutexHandsOffAlways == ASSUME m \in Mutexes PROVE Spec => MutexHandsOff
<1>1. Init => Lock!Init
  BY MutexTypes DEF Init, Lock!Init, Queued, Others, Waits, Parked, Locks
<1>2. TypeOK /\ WaitsAsked /\ StackDiscipline /\ HandOff /\ [Next]_vars => [Lock!Next]_absVars
  BY StepLockOf
<1>3. Spec => []WaitsAsked
  BY InitTypes, InitAsked, StepTypes, StepAsked, PTL DEF Spec
<1> QED BY <1>1, <1>2, <1>3, TypeCorrect, HandOffCorrect, StackDisciplineAlways, PTL
        DEF Spec, MutexHandsOff, Lock!Spec, absVars

------------------------------------------------------------------------------
(* The choice among the ready threads: module ThreadPick, on its own.       *)

CONSTANTS Count, Prios, Boost, StarvePicks, Nobody
VARIABLES mode, prio, rr, waited, old, running, under, yielder, yieldAny, handing

(* Threads 0..Count - 1; mode: which of them is ready, runs, waits or lies  *)
(* under a loop; Nobody: no thread.                                         *)
P == INSTANCE ThreadPick WITH N <- Count, NoThread <- Nobody, state <- mode

PickNumbers ==
  /\ Count \in Nat \ {0} /\ StarvePicks \in Nat
  /\ Prios \subseteq Int /\ 0 \in Prios
  /\ Boost \in Int /\ \A p \in Prios : p < Boost
  /\ Nobody \notin P!Threads

PickStates == {"ready", "runs", "blocked", "under"}
Loops == [t : P!Threads, why : {"wait", "yield"}]

PickTypes ==
  /\ mode \in [P!Threads -> PickStates]
  /\ prio \in [P!Threads -> Prios]
  /\ rr \in P!Threads
  /\ waited \in [P!Threads -> Nat] /\ old \in [P!Threads -> BOOLEAN]
  /\ running \in P!Threads \cup {Nobody}
  /\ under \in Seq(Loops)
  /\ yielder \in P!Threads \cup {Nobody}

(* Where the threads of the stack are *)
LoopsOnStack ==
  /\ running # Nobody => mode[running] = "runs"
  /\ \A i \in 1..Len(under) : mode[under[i].t] = "under"
  /\ \A i, j \in 1..Len(under) : i # j => under[i].t # under[j].t

(* Only ready threads wait and grow old. *)
OnlyReadyWait == \A t \in P!Threads : mode[t] # "ready" => waited[t] = 0 /\ ~old[t]

(* A boosted thread's turn comes nearer with every pick that passes it; the *)
(* one pick that a yield of its own lets pass starts the round again.       *)
TurnBound(t) == IF t = yielder THEN Count - 1 ELSE 2 * Count - 2
TurnComes ==
  \A t \in P!Threads :
    waited[t] > StarvePicks => waited[t] - StarvePicks + P!Dist(t) <= TurnBound(t)

PickInv == PickTypes /\ LoopsOnStack /\ OnlyReadyWait /\ TurnComes

------------------------------------------------------------------------------
(* The order of the picks *)

TurnsTo(r, t) == IF t >= r THEN t - r ELSE t - r + Count

LEMMA DistRange ==
  ASSUME PickNumbers, NEW r \in P!Threads, NEW t \in P!Threads
  PROVE  TurnsTo(r, t) \in 0..(Count - 1)
BY DEF PickNumbers, P!Threads, TurnsTo

(* The pick of c leaves another thread t less than a round before its turn, *)
(* and nearer to it when c came first.                                      *)
LEMMA PickTurn ==
  ASSUME PickNumbers, NEW r \in P!Threads, NEW c \in P!Threads, NEW t \in P!Threads, c # t
  PROVE  /\ P!After(c) \in P!Threads
         /\ TurnsTo(P!After(c), t) \in 0..(Count - 2)
         /\ TurnsTo(r, c) <= TurnsTo(r, t) => TurnsTo(P!After(c), t) + 1 <= TurnsTo(r, t)
<1>1. Count \in Nat /\ Count >= 1 /\ r \in Int /\ c \in Int /\ t \in Int
  BY DEF PickNumbers, P!Threads
<1>2. /\ 0 <= r /\ r <= Count - 1 /\ 0 <= c /\ c <= Count - 1 /\ 0 <= t /\ t <= Count - 1
  BY <1>1 DEF P!Threads
<1>3. CASE c = Count - 1
  <2>1. P!After(c) = 0 /\ TurnsTo(0, t) = t /\ t < Count - 1
    BY <1>1, <1>2, <1>3 DEF P!After, TurnsTo
  <2>2. TurnsTo(r, c) = Count - 1 - r
    BY <1>1, <1>2, <1>3 DEF TurnsTo
  <2>3. CASE t >= r
    BY <1>1, <1>2, <1>3, <2>1, <2>2, <2>3 DEF TurnsTo, P!Threads
  <2>4. CASE t < r
    BY <1>1, <1>2, <1>3, <2>1, <2>2, <2>4 DEF TurnsTo, P!Threads
  <2> QED BY <1>1, <1>2, <2>3, <2>4
<1>4. CASE c # Count - 1
  <2>1. P!After(c) = c + 1
    BY <1>4 DEF P!After
  <2>2. TurnsTo(c + 1, t) = IF t > c THEN t - c - 1 ELSE t - c - 1 + Count
    BY <1>1, <1>2 DEF TurnsTo
  <2> QED BY <1>1, <1>2, <1>4, <2>1, <2>2 DEF TurnsTo, P!Threads
<1> QED BY <1>3, <1>4

(* A thread that is boosted when the pick is made is passed only by one before *)
(* it: nobody has more than the boost.                                        *)
LEMMA Passers ==
  ASSUME PickNumbers, PickTypes, NEW S \in SUBSET P!Threads, NEW c, NEW t \in S,
         P!Best(c, S), c # t, waited[t] + 1 > StarvePicks
  PROVE  /\ P!AtPick(c) = Boost
         /\ P!After(c) \in P!Threads /\ TurnsTo(P!After(c), t) \in 0..(Count - 2)
         /\ TurnsTo(P!After(c), t) + 1 <= P!Dist(t)
<1>1. c \in P!Threads /\ t \in P!Threads
  BY DEF P!Best
<1>2. P!AtPick(t) = Boost
  BY <1>1 DEF P!AtPick, P!Eff
<1>3. /\ prio[c] \in Int /\ Boost \in Int /\ prio[c] < Boost
      /\ P!AtPick(c) = Boost \/ P!AtPick(c) = prio[c]
  BY <1>1 DEF PickTypes, PickNumbers, P!AtPick, P!Eff
<1>4. P!AtPick(t) <= P!AtPick(c) /\ (P!AtPick(t) = P!AtPick(c) => P!Dist(c) <= P!Dist(t))
  BY DEF P!Best
<1>5. P!AtPick(c) = Boost
  BY <1>2, <1>3, <1>4
<1>6. P!Dist(c) = TurnsTo(rr, c) /\ P!Dist(t) = TurnsTo(rr, t)
  BY DEF P!Dist, TurnsTo
<1> QED BY <1>1, <1>2, <1>4, <1>5, <1>6, PickTurn DEF PickTypes

------------------------------------------------------------------------------
(* The steps *)

(* What a pick of c among S does to TurnComes *)
LEMMA PickKeepsTurns ==
  ASSUME PickNumbers, PickInv, NEW S \in SUBSET P!Ready, NEW c, P!Best(c, S),
         rr' = P!After(c), waited' = P!Passed(c),
         yielder' = yielder \/ (yielder' = Nobody /\ P!Ready \ {yielder} \subseteq S),
         yielder' = yielder => P!Ready \subseteq S
  PROVE  TurnComes'
<1> SUFFICES ASSUME NEW t \in P!Threads, waited'[t] > StarvePicks
             PROVE  waited'[t] - StarvePicks + TurnsTo(P!After(c), t) <= TurnBound(t)'
  BY DEF TurnComes, P!Dist, TurnsTo
<1>1. /\ t \in P!Ready /\ t # c /\ waited'[t] = waited[t] + 1
      /\ waited[t] \in Nat /\ c \in P!Threads
  BY DEF PickInv, PickTypes, P!Passed, PickNumbers, P!Best, P!Ready
<1>2. waited[t] + 1 > StarvePicks
  BY <1>1
<1>3. /\ P!Dist(t) = TurnsTo(rr, t) /\ P!Dist(t) \in 0..(Count - 1)
      /\ Count \in Nat /\ Count >= 1 /\ StarvePicks \in Nat
  BY DistRange DEF P!Dist, TurnsTo, PickInv, PickTypes, PickNumbers
<1>4. CASE t \in S
  <2>1. TurnsTo(P!After(c), t) \in 0..(Count - 2) /\ TurnsTo(P!After(c), t) + 1 <= P!Dist(t)
    BY <1>1, <1>2, <1>4, Passers DEF PickInv, P!Ready
  <2>2. waited[t] > StarvePicks => waited[t] - StarvePicks + P!Dist(t) <= TurnBound(t)
    BY DEF PickInv, TurnComes
  <2>3. /\ TurnBound(t) \in Int /\ TurnBound(t)' \in Int
        /\ Count - 1 <= TurnBound(t)' /\ TurnBound(t) <= TurnBound(t)'
    BY <1>3 DEF TurnBound, PickNumbers
  <2> QED BY <1>1, <1>2, <1>3, <2>1, <2>2, <2>3
<1>5. CASE t \notin S
  <2>1. t = yielder /\ yielder' = Nobody
    BY <1>1, <1>5
  <2>2. TurnBound(t) = Count - 1 /\ TurnBound(t)' = 2 * Count - 2
    BY <2>1 DEF TurnBound, PickNumbers
  <2>3. TurnsTo(P!After(c), t) \in 0..(Count - 2)
    BY <1>1, PickTurn DEF PickInv, PickTypes
  <2>4. waited[t] > StarvePicks => waited[t] - StarvePicks + P!Dist(t) <= Count - 1
    BY <2>2 DEF PickInv, TurnComes
  <2> QED BY <1>1, <1>2, <1>3, <2>2, <2>3, <2>4
<1> QED BY <1>4, <1>5

(* A pick that passes nobody who is boosted *)
LEMMA NobodyPassed ==
  ASSUME PickNumbers, PickInv, NEW S \in SUBSET P!Threads, waited' \in [P!Threads -> Nat],
         \A t \in P!Threads \ S : waited'[t] = 0,
         \A t \in S : waited'[t] = waited[t] + 1 /\ P!AtPick(t) < Boost
  PROVE  TurnComes'
<1> SUFFICES ASSUME NEW t \in P!Threads PROVE ~(waited'[t] > StarvePicks)
  BY DEF TurnComes
<1>1. CASE t \in S
  <2>1. ~(waited[t] + 1 > StarvePicks)
    BY <1>1 DEF P!AtPick, P!Eff, PickNumbers
  <2> QED BY <1>1, <2>1
<1>2. CASE t \notin S
  BY <1>2 DEF PickNumbers
<1> QED BY <1>1, <1>2

(* The stack after a pop, and after a push *)
LEMMA LoopPopped ==
  ASSUME NEW q \in Seq(Loops), q # <<>>, NEW p, p = SubSeq(q, 1, Len(q) - 1)
  PROVE  /\ p \in Seq(Loops) /\ Len(p) = Len(q) - 1 /\ Len(q) \in Nat
         /\ \A i \in 1..Len(p) : i \in 1..Len(q) /\ i # Len(q) /\ p[i] = q[i]
         /\ Len(q) \in 1..Len(q) /\ q[Len(q)] \in Loops
<1>1. Len(q) \in Nat /\ Len(q) # 0
  OBVIOUS
<1>2. Len(q) \in 1..Len(q) /\ q[Len(q)] \in Loops
  BY <1>1
<1>3. \A i \in 1..(Len(q) - 1) : q[i] \in Loops
  BY <1>1
<1>4. p \in Seq(Loops)
  BY <1>1, <1>3, SubSeqProperties
<1>5. Len(p) = Len(q) - 1
  <2>1. Len(p) = IF 1 <= Len(q) - 1 THEN Len(q) - 1 - 1 + 1 ELSE 0
    BY <1>1, <1>3, SubSeqProperties
  <2>2. ASSUME NEW n \in Nat, n # 0
        PROVE  (IF 1 <= n - 1 THEN n - 1 - 1 + 1 ELSE 0) = n - 1
    BY <2>2
  <2> QED BY <1>1, <2>1, <2>2
<1>6. \A i \in 1..(Len(q) - 1) : p[i] = q[1 + i - 1]
  BY <1>1, <1>3, SubSeqProperties
<1> QED BY <1>1, <1>2, <1>4, <1>5, <1>6

LEMMA LoopPushed ==
  ASSUME NEW q \in Seq(Loops), NEW e \in Loops, NEW p, p = Append(q, e)
  PROVE  /\ p \in Seq(Loops) /\ Len(p) = Len(q) + 1 /\ Len(q) \in Nat
         /\ \A i \in 1..Len(q) : p[i] = q[i]
         /\ p[Len(q) + 1] = e
OBVIOUS

(* The steps that leave the picks alone keep the turns. *)
LEMMA TurnsStay ==
  ASSUME PickNumbers, PickInv, UNCHANGED <<rr, waited>>,
         yielder' = yielder \/ (yielder' = running /\ running # Nobody)
                            \/ yielder' = Nobody
  PROVE  OnlyReadyWait /\ TurnComes'
<1> SUFFICES ASSUME NEW t \in P!Threads, waited[t] > StarvePicks
             PROVE  waited[t] - StarvePicks + P!Dist(t) <= TurnBound(t)'
  BY DEF TurnComes, P!Dist, PickInv
<1>1. waited[t] - StarvePicks + P!Dist(t) <= TurnBound(t)
  BY DEF PickInv, TurnComes
<1>2. t # running
  BY DEF PickInv, LoopsOnStack, OnlyReadyWait, PickNumbers
<1>3. TurnBound(t) <= TurnBound(t)'
  BY <1>2 DEF TurnBound, PickNumbers
<1>4. P!Dist(t) \in Int /\ waited[t] \in Nat /\ TurnBound(t) \in Int /\ TurnBound(t)' \in Int
  BY DistRange DEF P!Dist, TurnsTo, PickInv, PickTypes, TurnBound, PickNumbers
<1> QED BY <1>1, <1>3, <1>4 DEF PickNumbers

(* A thread that is picked runs; the others of the stack are where they were. *)
LEMMA PickRunKeeps ==
  ASSUME PickNumbers, PickInv, NEW c \in P!Ready, running = Nobody, P!Run(c),
         UNCHANGED <<prio, under>>,
         yielder' \in {yielder, Nobody}
  PROVE  PickTypes' /\ LoopsOnStack' /\ OnlyReadyWait'
<1>1. c \in P!Threads /\ P!After(c) \in P!Threads
  BY DEF P!Ready, P!After, P!Threads, PickNumbers
<1>2. P!Passed(c) \in [P!Threads -> Nat]
  BY DEF P!Passed, P!Ready, PickInv, PickTypes
<1>3. PickTypes'
  BY <1>1, <1>2 DEF PickInv, PickTypes, P!Run, PickStates
<1>4. \A i \in 1..Len(under) : under[i].t # c
  BY DEF PickInv, LoopsOnStack, P!Ready
<1>5. LoopsOnStack'
  BY <1>1, <1>4 DEF PickInv, LoopsOnStack, PickTypes, P!Run
<1>6. OnlyReadyWait'
  BY <1>1 DEF PickInv, OnlyReadyWait, PickTypes, P!Run, P!Passed, P!Ready
<1> QED BY <1>3, <1>5, <1>6

LEMMA PickStep == ASSUME PickNumbers, PickInv, P!Pick PROVE PickInv'
<1>1. PICK c \in P!Ready : P!Picked(c, yielder) /\ P!Run(c)
  BY DEF P!Pick
<1>2. PickTypes' /\ LoopsOnStack' /\ OnlyReadyWait'
  BY <1>1, PickRunKeeps DEF P!Pick
<1>3. rr' = P!After(c) /\ waited' = P!Passed(c) /\ yielder' = Nobody
  BY <1>1 DEF P!Pick, P!Run
<1>4. CASE yielder \notin P!Ready
  <2>1. P!Best(c, P!Ready)
    BY <1>1, <1>4 DEF P!Picked
  <2>2. TurnComes'
    BY <1>3, <2>1, PickKeepsTurns
  <2> QED BY <1>2, <2>2 DEF PickInv
<1>5. CASE yielder \in P!Ready /\ c # yielder
  <2>1. P!Best(c, P!Ready \ {yielder})
    BY <1>1, <1>5 DEF P!Picked
  <2>2. yielder' # yielder
    BY <1>3, <1>5 DEF PickNumbers, P!Ready
  <2>3. TurnComes'
    BY <1>3, <2>1, <2>2, PickKeepsTurns
  <2> QED BY <1>2, <2>3 DEF PickInv
<1>6. CASE yielder \in P!Ready /\ c = yielder
  <2> DEFINE others == P!Ready \ {c}
  <2>1. others = {} \/ \A d \in others : P!AtPick(d) < P!AtPick(c)
    BY <1>1, <1>6 DEF P!Picked, P!Best
  <2>2. \A t \in P!Threads : prio[t] \in Int /\ prio[t] < Boost /\ Boost \in Int
    BY DEF PickInv, PickTypes, PickNumbers
  <2>3. \A t \in P!Threads : P!AtPick(t) \in Int /\ P!AtPick(t) <= Boost
    BY <2>2 DEF P!AtPick, P!Eff
  <2>4. \A t \in others : P!AtPick(t) < Boost
    BY <2>1, <2>2, <2>3 DEF P!Ready
  <2>5. /\ waited' \in [P!Threads -> Nat] /\ others \in SUBSET P!Threads
        /\ \A t \in others : waited'[t] = waited[t] + 1
        /\ \A t \in P!Threads \ others : waited'[t] = 0
    BY <1>2, <1>3 DEF PickTypes, P!Passed, P!Ready
  <2>6. TurnComes'
    BY <2>4, <2>5, NobodyPassed
  <2> QED BY <1>2, <2>6 DEF PickInv
<1> QED BY <1>4, <1>5, <1>6

LEMMA NestedPickStep == ASSUME PickNumbers, PickInv, P!NestedPick PROVE PickInv'
<1>1. PICK c \in P!Ready : P!Best(c, P!Ready) /\ P!Run(c)
  BY DEF P!NestedPick
<1>2. PickTypes' /\ LoopsOnStack' /\ OnlyReadyWait'
  BY <1>1, PickRunKeeps DEF P!NestedPick
<1>3. TurnComes'
  BY <1>1, PickKeepsTurns DEF P!NestedPick, P!Run
<1> QED BY <1>2, <1>3 DEF PickInv

(* A loop's wait ends, or the slice above a yield: the thread goes on. *)
LEMMA PickResumeKeeps ==
  ASSUME PickNumbers, PickInv, under # <<>>, P!Resume(P!Top.t), NEW f \in [P!Threads -> PickStates],
         \A t \in P!Threads : t # running => f[t] = mode[t],
         running # Nobody => f[running] # "under",
         mode' = [f EXCEPT ![P!Top.t] = "runs"], UNCHANGED <<prio, rr, waited, old>>,
         yielder' \in P!Threads \cup {Nobody}
  PROVE  PickTypes' /\ LoopsOnStack' /\ OnlyReadyWait'
<1> DEFINE t0 == P!Top.t
<1>1. /\ P!Popped \in Seq(Loops) /\ Len(P!Popped) = Len(under) - 1 /\ Len(under) \in Nat
      /\ \A i \in 1..Len(P!Popped) : i \in 1..Len(under) /\ i # Len(under) /\ P!Popped[i] = under[i]
      /\ Len(under) \in 1..Len(under) /\ under[Len(under)] \in Loops
  BY LoopPopped DEF P!Popped, PickInv, PickTypes
<1>2. t0 \in P!Threads /\ mode[t0] = "under"
  BY <1>1 DEF P!Top, Loops, PickInv, LoopsOnStack
<1>3. running # t0
  BY <1>2 DEF PickInv, LoopsOnStack, PickNumbers
<1>4. under' = P!Popped /\ running' = t0
  BY DEF P!Resume
<1>5. PickTypes'
  BY <1>1, <1>2, <1>4 DEF PickInv, PickTypes, PickStates
<1>6. \A i \in 1..Len(P!Popped) : /\ P!Popped[i].t # t0 /\ P!Popped[i].t # running
                                /\ mode[P!Popped[i].t] = "under"
  <2>1. \A i \in 1..Len(P!Popped) : P!Popped[i].t # t0
    BY <1>1 DEF P!Top, PickInv, LoopsOnStack
  <2>2. \A i \in 1..Len(P!Popped) : mode[P!Popped[i].t] = "under"
    BY <1>1 DEF PickInv, LoopsOnStack
  <2>3. running # Nobody => mode[running] # "under"
    BY DEF PickInv, LoopsOnStack
  <2>4. \A i \in 1..Len(P!Popped) : P!Popped[i].t \in P!Threads
    <3>1. \A i \in 1..Len(P!Popped) : P!Popped[i] \in Loops
      BY <1>1
    <3> QED BY <3>1 DEF Loops
  <2> QED BY <2>1, <2>2, <2>3, <2>4 DEF PickNumbers
<1>7. \A i \in 1..Len(P!Popped) : P!Popped[i] \in Loops
  BY <1>1
<1>8. \A i \in 1..Len(P!Popped) : /\ P!Popped[i].t # t0 /\ P!Popped[i].t # running
                                /\ P!Popped[i].t \in P!Threads /\ mode[P!Popped[i].t] = "under"
  BY <1>6, <1>7 DEF Loops
<1>9. \A i, j \in 1..Len(P!Popped) : i # j => P!Popped[i].t # P!Popped[j].t
  BY <1>1 DEF PickInv, LoopsOnStack
<1>10. LoopsOnStack'
  BY <1>2, <1>4, <1>8, <1>9 DEF LoopsOnStack
<1>11. OnlyReadyWait'
  <2> SUFFICES ASSUME NEW t \in P!Threads, mode'[t] # "ready" PROVE waited[t] = 0 /\ ~old[t]
    BY DEF OnlyReadyWait
  <2>1. CASE t = t0 \/ t = running
    BY <1>2, <2>1 DEF PickInv, OnlyReadyWait, LoopsOnStack, PickNumbers
  <2>2. CASE t # t0 /\ t # running
    BY <2>2 DEF PickInv, OnlyReadyWait
  <2> QED BY <2>1, <2>2
<1> QED BY <1>5, <1>10, <1>11

LEMMA WaitEndsStep == ASSUME PickNumbers, PickInv, P!WaitEnds PROVE PickInv'
<1>1. mode \in [P!Threads -> PickStates]
  BY DEF PickInv, PickTypes
<1>2. PickTypes' /\ LoopsOnStack' /\ OnlyReadyWait'
  BY <1>1, PickResumeKeeps DEF P!WaitEnds, PickInv, PickTypes
<1>3. TurnComes'
  BY TurnsStay DEF P!WaitEnds
<1> QED BY <1>2, <1>3 DEF PickInv

(* The running thread lies under a loop of its own from now. *)
LEMMA StackGrows ==
  ASSUME PickNumbers, PickInv, running # Nobody, NEW why \in {"wait", "yield"},
         under' = Append(under, [t |-> running, why |-> why])
  PROVE  /\ under' \in Seq(Loops) /\ Len(under') = Len(under) + 1 /\ Len(under) \in Nat
         /\ \A i \in 1..Len(under) : /\ under'[i] = under[i]
                                      /\ mode[under[i].t] = "under" /\ under[i].t # running
         /\ under'[Len(under) + 1].t = running
         /\ \A i, j \in 1..Len(under') : i # j => under'[i].t # under'[j].t
         /\ \A i \in 1..Len(under') : under'[i].t \in P!Threads
<1>1. running \in P!Threads /\ mode[running] = "runs"
  BY DEF PickInv, PickTypes, LoopsOnStack
<1>2. [t |-> running, why |-> why] \in Loops
  BY <1>1 DEF Loops
<1>3. /\ under' \in Seq(Loops) /\ Len(under') = Len(under) + 1 /\ Len(under) \in Nat
      /\ \A i \in 1..Len(under) : under'[i] = under[i]
      /\ under'[Len(under) + 1] = [t |-> running, why |-> why]
  BY <1>2, LoopPushed DEF PickInv, PickTypes
<1>4. \A i \in 1..Len(under) : mode[under[i].t] = "under" /\ under[i].t # running
  BY <1>1 DEF PickInv, LoopsOnStack
<1>5. \A i, j \in 1..Len(under) : i # j => under[i].t # under[j].t
  BY DEF PickInv, LoopsOnStack
<1>6. \A i \in 1..Len(under') : i \in 1..Len(under) \/ i = Len(under) + 1
  BY <1>3
<1>7. \A i \in 1..Len(under') : under'[i].t \in P!Threads
  <2>1. \A i \in 1..Len(under') : under'[i] \in Loops
    BY <1>3
  <2> QED BY <2>1 DEF Loops
<1> QED BY <1>3, <1>4, <1>5, <1>6, <1>7

LEMMA WaitNestedStep == ASSUME PickNumbers, PickInv, P!WaitNested PROVE PickInv'
<1>1. /\ under' \in Seq(Loops) /\ Len(under') = Len(under) + 1 /\ Len(under) \in Nat
      /\ \A i \in 1..Len(under) : /\ under'[i] = under[i]
                                   /\ mode[under[i].t] = "under" /\ under[i].t # running
      /\ under'[Len(under) + 1].t = running
      /\ \A i, j \in 1..Len(under') : i # j => under'[i].t # under'[j].t
      /\ \A i \in 1..Len(under') : under'[i].t \in P!Threads
  BY StackGrows DEF P!WaitNested
<1>2. running \in P!Threads /\ mode' = [mode EXCEPT ![running] = "under"] /\ running' = Nobody
  BY DEF P!WaitNested, PickInv, PickTypes
<1>3. PickTypes'
  BY <1>1, <1>2 DEF P!WaitNested, PickInv, PickTypes, PickStates
<1>4. \A i \in 1..Len(under') : i \in 1..Len(under) \/ i = Len(under) + 1
  BY <1>1
<1>5. \A i \in 1..Len(under') : mode'[under'[i].t] = "under"
  BY <1>1, <1>2, <1>4 DEF PickInv, PickTypes
<1>6. LoopsOnStack'
  BY <1>1, <1>2, <1>5 DEF LoopsOnStack
<1>7. OnlyReadyWait' /\ TurnComes'
  BY <1>2, TurnsStay DEF P!WaitNested, PickInv, OnlyReadyWait, LoopsOnStack, PickTypes
<1> QED BY <1>3, <1>6, <1>7 DEF PickInv

(* The running thread gives its slice up. *)
LEMMA SliceOverStep ==
  ASSUME PickNumbers, PickInv, NEW s \in {"ready", "blocked"}, P!SliceOver(s),
         yielder' \in {yielder, running}
  PROVE  PickInv'
<1>1. running \in P!Threads /\ running # Nobody /\ mode[running] = "runs"
  BY DEF P!SliceOver, PickInv, PickTypes, LoopsOnStack
<1>2. UNCHANGED <<prio, rr, waited, old>> /\ yielder' \in P!Threads \cup {Nobody}
  BY <1>1 DEF P!SliceOver, PickInv, PickTypes
<1>3. TurnComes'
  BY <1>1, <1>2, TurnsStay
<1>4. CASE under # <<>> /\ P!Top.why = "yield"
  <2> DEFINE f == [mode EXCEPT ![running] = s]
  <2>1. /\ P!Resume(P!Top.t) /\ f \in [P!Threads -> PickStates] /\ f[running] # "under"
        /\ \A t \in P!Threads : t # running => f[t] = mode[t]
        /\ mode' = [f EXCEPT ![P!Top.t] = "runs"]
    BY <1>1, <1>4 DEF P!SliceOver, PickInv, PickTypes, PickStates
  <2> HIDE DEF f
  <2>2. PickTypes' /\ LoopsOnStack' /\ OnlyReadyWait'
    BY <1>2, <1>4, <2>1, PickResumeKeeps
  <2> QED BY <1>3, <2>2 DEF PickInv
<1>5. CASE ~(under # <<>> /\ P!Top.why = "yield")
  <2>1. /\ running' = Nobody /\ under' = under
        /\ mode' = [mode EXCEPT ![running] = s]
    BY <1>5 DEF P!SliceOver
  <2>2. PickTypes'
    BY <1>1, <1>2, <2>1 DEF PickInv, PickTypes, PickStates
  <2>3. LoopsOnStack'
    BY <1>1, <2>1 DEF PickInv, LoopsOnStack, PickTypes
  <2>4. OnlyReadyWait'
    BY <1>1, <1>2, <2>1 DEF PickInv, OnlyReadyWait, PickTypes
  <2> QED BY <1>3, <2>2, <2>3, <2>4 DEF PickInv
<1> QED BY <1>4, <1>5

LEMMA YieldNestedStep ==
  ASSUME PickNumbers, PickInv, NEW any \in BOOLEAN, P!YieldNested(any) PROVE PickInv'
<1>1. PICK c \in P!Ready :
        /\ P!Best(c, P!Ready)
        /\ IF any \/ P!AtPick(c) >= prio[running]
           THEN /\ mode' = [mode EXCEPT ![c] = "runs", ![running] = "under"]
                /\ under' = Append(under, [t |-> running, why |-> "yield"])
                /\ running' = c
                /\ waited' = P!Passed(c) /\ old' = [old EXCEPT ![c] = FALSE]
           ELSE /\ waited' = P!Passed(Nobody)
                /\ UNCHANGED <<mode, under, running, old>>
        /\ rr' = P!After(c)
  BY DEF P!YieldNested
<1>2. /\ running \in P!Threads /\ running # Nobody /\ mode[running] = "runs"
      /\ c \in P!Threads /\ c # running /\ mode[c] = "ready" /\ P!After(c) \in P!Threads
  BY DEF P!YieldNested, PickInv, PickTypes, LoopsOnStack, P!Ready, P!After, P!Threads, PickNumbers
<1>3. UNCHANGED <<prio, yielder>>
  BY DEF P!YieldNested
<1>4. \A x : P!Passed(x) \in [P!Threads -> Nat]
  BY DEF P!Passed, P!Ready, PickInv, PickTypes
<1>5. CASE any \/ P!AtPick(c) >= prio[running]
  <2>1. /\ under' \in Seq(Loops) /\ Len(under') = Len(under) + 1 /\ Len(under) \in Nat
        /\ \A i \in 1..Len(under) : /\ under'[i] = under[i]
                                     /\ mode[under[i].t] = "under" /\ under[i].t # running
        /\ under'[Len(under) + 1].t = running
        /\ \A i, j \in 1..Len(under') : i # j => under'[i].t # under'[j].t
        /\ \A i \in 1..Len(under') : under'[i].t \in P!Threads
    BY <1>1, <1>2, <1>5, StackGrows
  <2>2. PickTypes'
    <3>1. /\ mode' = [mode EXCEPT ![c] = "runs", ![running] = "under"]
          /\ old' = [old EXCEPT ![c] = FALSE] /\ waited' \in [P!Threads -> Nat]
          /\ running' = c /\ rr' = P!After(c)
      BY <1>1, <1>4, <1>5
    <3>2. mode' \in [P!Threads -> PickStates] /\ old' \in [P!Threads -> BOOLEAN]
      BY <1>2, <3>1 DEF PickInv, PickTypes, PickStates
    <3> QED BY <1>2, <1>3, <2>1, <3>1, <3>2 DEF PickInv, PickTypes
  <2>3. \A i \in 1..Len(under') : i \in 1..Len(under) \/ i = Len(under) + 1
    BY <2>1
  <2>4. \A i \in 1..Len(under') : mode'[under'[i].t] = "under"
    <3>1. /\ mode' = [mode EXCEPT ![c] = "runs", ![running] = "under"]
          /\ mode \in [P!Threads -> PickStates]
      BY <1>1, <1>5 DEF PickInv, PickTypes
    <3>2. \A i \in 1..Len(under) : under[i].t # c
      BY <1>2, <2>1
    <3> QED BY <1>2, <2>1, <2>3, <3>1, <3>2
  <2>5. LoopsOnStack'
    BY <1>1, <1>2, <1>5, <2>1, <2>4 DEF PickInv, PickTypes, LoopsOnStack
  <2>6. OnlyReadyWait'
    BY <1>1, <1>2, <1>5 DEF PickInv, OnlyReadyWait, PickTypes, P!Passed, P!Ready
  <2>7. TurnComes'
    BY <1>1, <1>3, <1>5, PickKeepsTurns
  <2> QED BY <2>2, <2>5, <2>6, <2>7 DEF PickInv
<1>6. CASE ~(any \/ P!AtPick(c) >= prio[running])
  <2>1. waited' = P!Passed(Nobody) /\ UNCHANGED <<mode, under, running, old>>
    BY <1>1, <1>6
  <2>2. \A t \in P!Threads : prio[t] \in Int /\ prio[t] < Boost /\ Boost \in Int
    BY DEF PickInv, PickTypes, PickNumbers
  <2>3. \A t \in P!Threads : P!AtPick(t) \in Int
    BY <2>2 DEF P!AtPick, P!Eff
  <2>4. \A t \in P!Ready : P!AtPick(t) < Boost
    BY <1>1, <1>2, <1>6, <2>2, <2>3 DEF P!Best, P!Ready
  <2>5. /\ waited' \in [P!Threads -> Nat] /\ P!Ready \in SUBSET P!Threads
        /\ \A t \in P!Ready : waited'[t] = waited[t] + 1
        /\ \A t \in P!Threads \ P!Ready : waited'[t] = 0
    BY <1>4, <2>1 DEF P!Passed, P!Ready, PickNumbers
  <2>6. TurnComes'
    BY <2>4, <2>5, NobodyPassed
  <2>7. PickTypes' /\ LoopsOnStack' /\ OnlyReadyWait'
    BY <1>1, <1>2, <1>3, <2>1, <2>5 DEF PickInv, PickTypes, LoopsOnStack, OnlyReadyWait, P!Ready
  <2> QED BY <2>6, <2>7 DEF PickInv
<1> QED BY <1>5, <1>6

LEMMA PickWakeStep == ASSUME PickNumbers, PickInv, NEW t \in P!Threads, P!Wake(t) PROVE PickInv'
<1>1. mode[t] = "blocked" /\ mode' = [mode EXCEPT ![t] = "ready"] /\ t # Nobody
  BY DEF P!Wake, PickNumbers
<1>2. PickTypes'
  BY <1>1 DEF P!Wake, PickInv, PickTypes, PickStates
<1>3. \A i \in 1..Len(under) : under[i].t # t
  BY <1>1 DEF PickInv, LoopsOnStack
<1>4. LoopsOnStack'
  BY <1>1, <1>3 DEF P!Wake, PickInv, LoopsOnStack, PickTypes
<1>5. PickTypes' /\ LoopsOnStack' /\ OnlyReadyWait'
  BY <1>1, <1>2, <1>4 DEF P!Wake, PickInv, PickTypes, OnlyReadyWait
<1>6. TurnComes'
  BY TurnsStay DEF P!Wake
<1> QED BY <1>5, <1>6 DEF PickInv

LEMMA PickAgeStep == ASSUME PickNumbers, PickInv, NEW t \in P!Threads, P!Age(t) PROVE PickInv'
<1>1. mode[t] = "ready" /\ old' = [old EXCEPT ![t] = TRUE]
  BY DEF P!Age, P!Ready
<1>2. PickTypes' /\ LoopsOnStack'
  BY <1>1 DEF P!Age, PickInv, PickTypes, LoopsOnStack
<1>3. OnlyReadyWait'
  BY <1>1 DEF P!Age, PickInv, PickTypes, OnlyReadyWait
<1>4. TurnComes'
  BY TurnsStay DEF P!Age
<1> QED BY <1>2, <1>3, <1>4 DEF PickInv

LEMMA PickStepKeeps == ASSUME PickNumbers, PickInv, [P!Next]_(P!vars) PROVE PickInv'
<1>1. CASE P!Pick \/ P!NestedPick \/ P!WaitEnds \/ P!WaitNested
  BY <1>1, PickStep, NestedPickStep, WaitEndsStep, WaitNestedStep
<1>2. CASE P!EndSlice \/ P!Block
  BY <1>2, SliceOverStep DEF P!EndSlice, P!Block
<1>3. ASSUME NEW any \in BOOLEAN, P!Yield(any) PROVE PickInv'
  BY <1>3, SliceOverStep DEF P!Yield
<1>4. ASSUME NEW any \in BOOLEAN, P!YieldNested(any) PROVE PickInv'
  BY <1>4, YieldNestedStep
<1>5. ASSUME NEW t \in P!Threads, P!Wake(t) PROVE PickInv'
  BY <1>5, PickWakeStep
<1>6. ASSUME NEW t \in P!Threads, P!Age(t) PROVE PickInv'
  BY <1>6, PickAgeStep
<1>7. ASSUME NEW t \in P!Threads, NEW p \in Prios, P!SetThreadPriority(t, p) PROVE PickInv'
  BY <1>7, TurnsStay DEF P!SetThreadPriority, PickInv, PickTypes, LoopsOnStack, OnlyReadyWait
<1>8. CASE UNCHANGED P!vars
  BY <1>8, TurnsStay DEF P!vars, PickInv, PickTypes, LoopsOnStack, OnlyReadyWait
<1> QED BY <1>1, <1>2, <1>3, <1>4, <1>5, <1>6, <1>7, <1>8 DEF P!Next

LEMMA PickStarts == ASSUME PickNumbers, P!Init PROVE PickInv
BY DEF P!Init, PickInv, PickTypes, LoopsOnStack, OnlyReadyWait, TurnComes, PickNumbers,
       P!Threads, PickStates

LEMMA BoundHolds == ASSUME PickNumbers, PickInv PROVE P!ReadyRunsSoon
<1> SUFFICES ASSUME NEW t \in P!Ready, waited[t] > StarvePicks
             PROVE  waited[t] <= StarvePicks + 2 * Count - 2
  BY DEF P!ReadyRunsSoon, P!Ready, PickInv, PickTypes, PickNumbers
<1>1. waited[t] - StarvePicks + P!Dist(t) <= TurnBound(t) /\ t \in P!Threads
  BY DEF PickInv, TurnComes, P!Ready
<1>2. /\ P!Dist(t) \in Nat /\ waited[t] \in Nat
      /\ TurnBound(t) \in Int /\ TurnBound(t) <= 2 * Count - 2
  BY <1>1, DistRange DEF P!Dist, TurnsTo, TurnBound, PickInv, PickTypes, PickNumbers
<1> QED BY <1>1, <1>2 DEF PickNumbers

(* Every ready thread runs after at most StarvePicks + 2 * Count - 2 picks  *)
(* (sched.js effPrio, pickRunnable).                                        *)
THEOREM ReadyRunsSoonAlways == ASSUME PickNumbers PROVE P!Spec => []P!ReadyRunsSoon
<1>1. P!Init => PickInv
  BY PickStarts
<1>2. PickInv /\ [P!Next]_(P!vars) => PickInv'
  BY PickStepKeeps
<1>3. PickInv => P!ReadyRunsSoon
  BY BoundHolds
<1> QED BY <1>1, <1>2, <1>3, PTL DEF P!Spec

------------------------------------------------------------------------------
(* What a yield promised *)

(* Between a yield that is to hand over and the next pick, the thread it is  *)
(* for stays ready and goes first.                                           *)
Promised ==
  handing =>
    /\ running = Nobody /\ under = <<>>
    /\ yielder \in P!Ready /\ waited[yielder] = 0 /\ ~old[yielder]
    /\ \E t \in P!Ready \ {yielder} : yieldAny \/ P!Now(t) >= prio[yielder]

LEMMA YieldPromises ==
  ASSUME PickNumbers, 1 <= StarvePicks, PickInv, Promised, NEW any \in BOOLEAN, P!Yield(any)
  PROVE  Promised'
<1> SUFFICES ASSUME P!Target(any), under = <<>> PROVE Promised'
  BY DEF P!Yield, Promised
<1>1. /\ running \in P!Threads /\ running # Nobody /\ mode[running] = "runs"
      /\ waited[running] = 0 /\ ~old[running]
  BY DEF P!Yield, P!SliceOver, PickInv, PickTypes, LoopsOnStack, OnlyReadyWait
<1>2. /\ running' = Nobody /\ under' = under
      /\ mode' = [mode EXCEPT ![running] = "ready"] /\ UNCHANGED <<prio, waited, old>>
      /\ yielder' = running /\ yieldAny' = any
  BY DEF P!Yield, P!SliceOver
<1>3. PICK t \in P!Ready : any \/ P!Now(t) >= prio[running]
  BY DEF P!Target
<1>4. t \in P!Threads /\ t # running /\ t \in P!Ready' /\ running \in P!Ready'
  BY <1>1, <1>2, <1>3 DEF P!Ready, PickInv, PickTypes
<1>5. P!Now(t)' = P!Now(t)
  BY <1>2 DEF P!Now, P!Eff
<1> QED BY <1>1, <1>2, <1>3, <1>4, <1>5 DEF Promised

LEMMA PromiseStays ==
  ASSUME PickNumbers, 1 <= StarvePicks, PickInv, Promised, [P!Next]_(P!vars) PROVE Promised'
<1>1. CASE P!Pick \/ P!NestedPick
  BY <1>1 DEF P!Pick, P!NestedPick, P!Run, Promised
<1>2. CASE P!WaitEnds \/ P!WaitNested \/ P!EndSlice \/ P!Block
  BY <1>2 DEF P!WaitEnds, P!WaitNested, P!EndSlice, P!Block, P!SliceOver, Promised
<1>3. ASSUME NEW any \in BOOLEAN, P!Yield(any) PROVE Promised'
  BY <1>3, YieldPromises
<1>4. ASSUME NEW any \in BOOLEAN, P!YieldNested(any) PROVE Promised'
  BY <1>4 DEF P!YieldNested, Promised
<1>5. ASSUME NEW t \in P!Threads, P!Wake(t) PROVE Promised'
  <2>1. P!Ready \subseteq P!Ready' /\ \A x \in P!Threads : P!Now(x)' = P!Now(x)
    BY <1>5 DEF P!Wake, P!Ready, P!Now, P!Eff, PickInv, PickTypes
  <2>2. UNCHANGED <<prio, waited, old, running, under, yielder, yieldAny, handing>>
    BY <1>5 DEF P!Wake
  <2>3. P!Ready \subseteq P!Threads
    BY DEF P!Ready
  <2> QED BY <2>1, <2>2, <2>3 DEF Promised
<1>6. ASSUME NEW t \in P!Threads, P!Age(t) PROVE Promised'
  BY <1>6 DEF P!Age, Promised
<1>7. ASSUME NEW t \in P!Threads, NEW p \in Prios, P!SetThreadPriority(t, p) PROVE Promised'
  BY <1>7 DEF P!SetThreadPriority, Promised
<1>8. CASE UNCHANGED P!vars
  BY <1>8 DEF P!vars, Promised, P!Ready, P!Now, P!Eff
<1> QED BY <1>1, <1>2, <1>3, <1>4, <1>5, <1>6, <1>7, <1>8 DEF P!Next

LEMMA PromiseKept ==
  ASSUME PickNumbers, 1 <= StarvePicks, PickInv, Promised, [P!Next]_(P!vars) PROVE P!GivesWay
<1> SUFFICES ASSUME handing, running' # running PROVE running' # yielder
  BY DEF P!GivesWay
<1>1. running = Nobody /\ under = <<>>
  BY DEF Promised
<1>2. P!Pick
  BY <1>1 DEF P!Next, P!vars, P!NestedPick, P!WaitEnds, P!WaitNested, P!EndSlice, P!Block,
              P!SliceOver,
              P!Yield, P!YieldNested, P!Wake, P!Age, P!SetThreadPriority
<1>3. PICK c \in P!Ready : P!Picked(c, yielder) /\ running' = c
  BY <1>2 DEF P!Pick, P!Run
<1>4. yielder \in P!Ready /\ waited[yielder] = 0 /\ ~old[yielder]
  BY DEF Promised
<1>5. PICK t \in P!Ready \ {yielder} : yieldAny \/ P!Now(t) >= prio[yielder]
  BY DEF Promised
<1>6. P!AtPick(yielder) = prio[yielder]
  BY <1>4 DEF P!AtPick, P!Eff, PickNumbers
<1>7. /\ prio[t] \in Int /\ prio[t] < Boost /\ Boost \in Int
      /\ prio[yielder] \in Int /\ waited[t] \in Nat /\ StarvePicks \in Nat
  BY <1>4 DEF PickInv, PickTypes, PickNumbers, P!Ready
<1>8. P!AtPick(t) >= P!Now(t) /\ P!AtPick(t) \in Int /\ P!Now(t) \in Int
  BY <1>7 DEF P!AtPick, P!Now, P!Eff
<1>9. yieldAny \/ ~(P!AtPick(t) < P!AtPick(yielder))
  BY <1>5, <1>6, <1>7, <1>8
<1> QED BY <1>3, <1>4, <1>5, <1>9 DEF P!Picked, P!Best

(* A yield hands the processor over (sched.js yieldFrom, pickRunnable). *)
THEOREM YieldHandsOverAlways ==
  ASSUME PickNumbers, 1 <= StarvePicks PROVE P!Spec => P!YieldHandsOver
<1>1. P!Init => PickInv /\ Promised
  BY PickStarts DEF P!Init, Promised
<1>2. PickInv /\ Promised /\ [P!Next]_(P!vars) => PickInv' /\ Promised'
  BY PickStepKeeps, PromiseStays
<1>3. PickInv /\ Promised /\ [P!Next]_(P!vars) => [P!GivesWay]_(P!vars)
  BY PromiseKept
<1> QED BY <1>1, <1>2, <1>3, PTL DEF P!Spec, P!YieldHandsOver
==============================================================================
