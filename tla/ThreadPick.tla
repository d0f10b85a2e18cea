------------------------------ MODULE ThreadPick ------------------------------
(***************************************************************************)
(* Which thread runs next (core/sched.js pickRunnable): the highest        *)
(* priority, in turn among equals, but for a thread that has been ready    *)
(* for too long and for one that yielded.  Picks are made by the top loop, *)
(* by the loops of waits inside callbacks, and by yields inside callbacks; *)
(* these lie on each other as the calls of the JavaScript stack.           *)
(***************************************************************************)
EXTENDS Integers, Sequences

CONSTANTS
  N,             \* threads: 0..N-1, in the order of the process's list
  Prios,         \* SetThreadPriority's values; a new thread has 0
  Boost,         \* 16: above every priority
  StarvePicks,
  NoThread

Threads == 0..(N - 1)

VARIABLES
  state,         \* of each thread: "ready", "runs", "blocked", "under" (a loop)
  prio,
  rr,            \* where the next pick starts
  waited,        \* picks since the thread became ready: picks - readyPick
  old,           \* ready for STARVE_INSNS instructions
  running,
  under,         \* the loops on the stack: [t, why]
  yielder, yieldAny,
  handing        \* history: the last slice ended with a yield that is to hand over

vars == <<state, prio, rr, waited, old, running, under, yielder, yieldAny, handing>>

Init ==
  /\ state = [t \in Threads |-> IF t = 0 THEN "ready" ELSE "blocked"]
  /\ prio = [t \in Threads |-> 0]
  /\ rr = 0
  /\ waited = [t \in Threads |-> 0] /\ old = [t \in Threads |-> FALSE]
  /\ running = NoThread /\ under = <<>>
  /\ yielder = NoThread /\ yieldAny = FALSE /\ handing = FALSE

Ready == {t \in Threads : state[t] = "ready"}

(* Mutant: only time boosts. *)
EffByTime(t, w) == IF old[t] THEN Boost ELSE prio[t]

(* effPrio, after a thread has waited for w picks *)
Eff(t, w) == IF old[t] \/ w > StarvePicks THEN Boost ELSE prio[t]
Now(t) == Eff(t, waited[t])
AtPick(t) == Eff(t, waited[t] + 1)

(* The places a pick passes before t; where the pick after t's starts *)
Dist(t) == IF t >= rr THEN t - rr ELSE t - rr + N
After(t) == IF t = N - 1 THEN 0 ELSE t + 1

(* c is the first of the highest priority among S. *)
Best(c, S) ==
  /\ c \in S
  /\ \A d \in S :
       AtPick(d) <= AtPick(c) /\ (AtPick(d) = AtPick(c) => Dist(c) <= Dist(d))

(* pickRunnable(): the yielder y goes on when no other thread may run. *)
Picked(c, y) ==
  IF y \notin Ready THEN Best(c, Ready)
  ELSE LET others == Ready \ {y}
       IN  \/ /\ c = y
              /\ others = {} \/ (~yieldAny /\ \A d \in others : AtPick(d) < AtPick(y))
           \/ /\ Best(c, others)
              /\ yieldAny \/ AtPick(c) >= AtPick(y)

(* ++picks *)
Passed(c) == [t \in Threads |-> IF t \in Ready \ {c} THEN waited[t] + 1 ELSE 0]

Run(c) ==
  /\ state' = [state EXCEPT ![c] = "runs"]
  /\ running' = c
  /\ rr' = After(c)
  /\ waited' = Passed(c) /\ old' = [old EXCEPT ![c] = FALSE]
  /\ handing' = FALSE

(* The top loop (vm.js runOwn) *)
Pick ==
  /\ running = NoThread /\ under = <<>>
  /\ \E c \in Ready : Picked(c, yielder) /\ Run(c)
  /\ yielder' = NoThread
  /\ UNCHANGED <<prio, under, yieldAny>>

Top == under[Len(under)]
Popped == SubSeq(under, 1, Len(under) - 1)

(* The loop of a wait inside a callback (nestedWait) *)
NestedPick ==
  /\ running = NoThread /\ under # <<>>
  /\ \E c \in Ready : Best(c, Ready) /\ Run(c)
  /\ UNCHANGED <<prio, under, yielder, yieldAny>>

Resume(t) == under' = Popped /\ running' = t

WaitEnds ==
  /\ running = NoThread /\ under # <<>>
  /\ Resume(Top.t) /\ state' = [state EXCEPT ![Top.t] = "runs"]
  /\ UNCHANGED <<prio, rr, waited, old, yielder, yieldAny, handing>>

WaitNested ==
  /\ running # NoThread
  /\ state' = [state EXCEPT ![running] = "under"]
  /\ under' = Append(under, [t |-> running, why |-> "wait"])
  /\ running' = NoThread
  /\ UNCHANGED <<prio, rr, waited, old, yielder, yieldAny, handing>>

(* The slice ends: a loop, or the thread whose yield ran it, goes on.  The  *)
(* thread is blocked, or ready from now (markReady).                        *)
SliceOver(s) ==
  /\ running # NoThread
  /\ IF under # <<>> /\ Top.why = "yield"
     THEN /\ Resume(Top.t)
          /\ state' = [state EXCEPT ![running] = s, ![Top.t] = "runs"]
     ELSE /\ running' = NoThread /\ under' = under
          /\ state' = [state EXCEPT ![running] = s]
  /\ UNCHANGED <<prio, rr, waited, old>>

EndSlice == SliceOver("ready") /\ UNCHANGED <<yielder, yieldAny, handing>>
Block == SliceOver("blocked") /\ UNCHANGED <<yielder, yieldAny, handing>>

(* Mutant: any ready thread counts, though the pick passes lower ones over. *)
TargetAny(any) == Ready # {}

(* hasYieldTarget *)
Target(any) ==
  IF any THEN Ready # {} ELSE \E t \in Ready : Now(t) >= prio[running]

(* yieldFrom(): Sleep(0), and SwitchToThread with any *)
Yield(any) ==
  /\ SliceOver("ready")
  /\ IF Target(any)
     THEN yielder' = running /\ yieldAny' = any
     ELSE UNCHANGED <<yielder, yieldAny>>
  /\ handing' = (Target(any) /\ under = <<>>)

(* yieldFrom() inside a callback: a thread is run on top, if any may be. *)
YieldNested(any) ==
  /\ running # NoThread
  /\ \E c \in Ready :
       /\ Best(c, Ready)
       /\ IF any \/ AtPick(c) >= prio[running]
          THEN /\ state' = [state EXCEPT ![c] = "runs", ![running] = "under"]
               /\ under' = Append(under, [t |-> running, why |-> "yield"])
               /\ running' = c
               /\ waited' = Passed(c) /\ old' = [old EXCEPT ![c] = FALSE]
          ELSE /\ waited' = Passed(NoThread)
               /\ UNCHANGED <<state, under, running, old>>
       /\ rr' = After(c)
  /\ UNCHANGED <<prio, yielder, yieldAny, handing>>

Wake(t) ==
  /\ state[t] = "blocked"
  /\ state' = [state EXCEPT ![t] = "ready"]
  /\ UNCHANGED <<prio, rr, waited, old, running, under, yielder, yieldAny, handing>>

(* STARVE_INSNS instructions since it became ready *)
Age(t) ==
  /\ running # NoThread /\ t \in Ready /\ ~old[t]
  /\ old' = [old EXCEPT ![t] = TRUE]
  /\ UNCHANGED <<state, prio, rr, waited, running, under, yielder, yieldAny, handing>>

SetThreadPriority(t, p) ==
  /\ running # NoThread /\ prio[t] # p
  /\ prio' = [prio EXCEPT ![t] = p]
  /\ UNCHANGED <<state, rr, waited, old, running, under, yielder, yieldAny, handing>>

Next ==
  \/ Pick \/ NestedPick \/ WaitEnds \/ WaitNested
  \/ EndSlice \/ Block
  \/ \E any \in BOOLEAN : Yield(any) \/ YieldNested(any)
  \/ \E t \in Threads : Wake(t) \/ Age(t)
  \/ \E t \in Threads, p \in Prios : SetThreadPriority(t, p)

Spec == Init /\ [][Next]_vars

------------------------------------------------------------------------------
(* Properties *)

(* Whatever the priorities, the yields and the loops it is picked by, a     *)
(* ready thread is passed over at most so often: the boost comes, and those *)
(* boosted with it take turns (sched.js effPrio, pickRunnable).             *)
ReadyRunsSoon == \A t \in Ready : waited[t] <= StarvePicks + 2 * N - 2

(* The processor a thread gives away with Sleep(0) or SwitchToThread goes   *)
(* to the other thread it was given away for (sched.js yieldFrom,           *)
(* hasYieldTarget, pickRunnable).                                           *)
GivesWay == handing /\ running' # running => running' # yielder
YieldHandsOver == [][GivesWay]_vars
==============================================================================
