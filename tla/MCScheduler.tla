----------------------------- MODULE MCScheduler -----------------------------
(* Small instances of Scheduler for TLC: the waits each run's guest issues. *)
EXTENDS MutexHandOff

CONSTANTS cs, e, s

Single(o, timed) == [via |-> "single", objs |-> {o}, all |-> FALSE, timed |-> timed]
Multi(S, all, timed) == [via |-> "multi", objs |-> S, all |-> all, timed |-> timed]
Msg(o, timed) == [via |-> "msg", objs |-> {o}, all |-> FALSE, timed |-> timed]
Enter(c) == [via |-> "cs", objs |-> {c}, all |-> FALSE, timed |-> FALSE]
Sleep == [via |-> "sleep", objs |-> {}, all |-> FALSE, timed |-> TRUE]

(* A semaphore is released by one unit, by two at once, or by -1. *)
SignedAmounts == {-1, 1, 2}
BelowZero == -1

Everyone(waits) == [t \in Threads |-> waits]

SyncRequests ==
  Everyone({Single(m, TRUE), Single(e, FALSE), Multi({m, e}, TRUE, FALSE),
            Multi({m, s}, FALSE, FALSE), Single(s, FALSE), Sleep})
LifecycleRequests == Everyone({Single(m, FALSE), Single(2, FALSE), Enter(cs)})

(* All three contend for the mutex; the first, whose handlers call back,    *)
(* also enters a section, the others also wait with a deadline.             *)
LivenessRequests ==
  <<{Single(m, FALSE), Enter(cs)}, {Single(m, FALSE), Msg(m, TRUE)},
    {Single(m, FALSE), Single(m, TRUE), Sleep}>>
CritSecRequests == Everyone({Enter(cs), Single(e, TRUE)})
MsgRequests == Everyone({Msg(m, FALSE), Single(m, TRUE), Sleep})
CloseRequests == Everyone({Single(e, FALSE), Single(m, TRUE)})
==============================================================================
