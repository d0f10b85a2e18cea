----------------------------- MODULE HandOffLock -----------------------------
(***************************************************************************)
(* What a kernel mutex promises its waiters, as Windows satisfies waits:   *)
(* a released lock is granted to one of the waiters, and a thread that is  *)
(* not waiting takes it only when nobody waits for it alone.  queue holds  *)
(* the waits the lock alone can satisfy, partial those that need other     *)
(* objects or events as well.  Recursion is hidden: a release is the last  *)
(* level's.                                                                *)
(***************************************************************************)
CONSTANTS Threads, NoThread

VARIABLES holder, queue, partial

Init == holder = NoThread /\ queue = {} /\ partial = {}

Take(t) ==
  /\ holder = NoThread /\ queue = {} /\ t \notin partial
  /\ holder' = t
  /\ UNCHANGED <<queue, partial>>

Join(t) ==
  /\ holder # NoThread /\ t \notin queue \cup partial \cup {holder}
  /\ queue' = queue \cup {t}
  /\ UNCHANGED <<holder, partial>>

JoinPartial(t) ==
  /\ t \notin queue \cup partial
  /\ partial' = partial \cup {t}
  /\ UNCHANGED <<holder, queue>>

(* A timeout, another object, or the end of the waiting thread. *)
Leave(t) ==
  /\ t \in queue \cup partial
  /\ queue' = queue \ {t} /\ partial' = partial \ {t}
  /\ UNCHANGED holder

Grant(t) ==
  /\ holder = NoThread /\ t \in queue \cup partial
  /\ holder' = t
  /\ queue' = queue \ {t} /\ partial' = partial \ {t}

Release ==
  /\ holder # NoThread
  /\ holder' = NoThread
  /\ UNCHANGED <<queue, partial>>

(* The holder's end, with whatever it waits for. *)
Die ==
  /\ holder # NoThread
  /\ holder' = NoThread
  /\ queue' = queue \ {holder} /\ partial' = partial \ {holder}

Next ==
  Release \/ Die \/ \E t \in Threads : Take(t) \/ Join(t) \/ JoinPartial(t) \/ Leave(t) \/ Grant(t)

Spec == Init /\ [][Next]_<<holder, queue, partial>>
==============================================================================
