-------------------------- MODULE MessageQueueProofs --------------------------
(***************************************************************************)
(* The order of the messages of MessageQueue, and the device's focus, for  *)
(* any number of threads, windows, events and calls.                       *)
(***************************************************************************)
EXTENDS MessageQueue, SequenceTheorems, WellFoundedInduction, TLAPS

(* What the constants are *)
Places ==
  /\ Owner \in [Windows -> Threads]
  /\ NoThread \notin Threads /\ NoWindow \notin Windows /\ MaxSent \in Nat \ {0}

(* The steps of calls, and the calls *)
Waiting ==
  [op : {"send"}, msg : {"cursor", "activate", "app", "destroy"}, w : Windows, n : Nat]
  \cup [op : {"focus"}, on : BOOLEAN, w : Windows, n : Nat]
Items ==
  Waiting
  \cup [op : {"focus"}, on : BOOLEAN, w : {NoWindow}, n : Nat]
  \cup [op : {"taken"}, on : BOOLEAN]
  \cup [op : {"activate", "activated", "post"}, w : Windows, n : Nat]
  \cup [op : {"gone", "drop"}, w : Windows]
Calls ==
  [t : Threads \cup {NoThread}, call : {"peek", "read", "test", "show", "destroy", "proc"},
   at : {"pump", "event", "delivers", "does", "runs"}, todo : Seq(Items), frames : Nat]

TypeOK ==
  /\ made \in Nat /\ frames \in Nat
  /\ input \in Seq([n : Nat, type : Types]) /\ Len(input) <= made
  /\ stack \in Seq(Calls)
  /\ windows \subseteq Windows /\ active \in Windows \cup {NoWindow}
  /\ sent \in [Threads -> Seq(Waiting)]
  /\ msgs \in [Threads -> Seq([n : Nat, w : Windows])]
  /\ focused \in BOOLEAN

(* The events wait in the order they were made. *)
EventsInOrder == \A i \in 1..Len(input) : input[i].n = Now + i

(* One event is handled at a time; its message is posted last. *)
OneEvent ==
  \A i, j \in 1..Len(stack) : stack[i].at = "event" /\ stack[j].at = "event" => i = j
PostsLast ==
  \A i \in 1..Len(stack) : \A k \in 1..Len(stack[i].todo) :
    stack[i].todo[k].op = "post" =>
      /\ stack[i].at = "event" /\ k = Len(stack[i].todo) /\ stack[i].todo[k].n = Now
      /\ \A t \in Threads : \A m \in 1..Len(msgs[t]) : msgs[t][m].n < Now
PostedBefore == \A t \in Threads : \A m \in 1..Len(msgs[t]) : msgs[t][m].n <= Now

(* Which calls do what: a wait condition (NoThread) pumps and no more. *)
CallsFit ==
  \A i \in 1..Len(stack) : LET f == stack[i] IN
    /\ (f.call = "test") = (f.t = NoThread)
    /\ f.call = "test" => f.at \in {"pump", "event"}
    /\ f.at \in {"pump", "runs"} => f.todo = <<>>
    /\ f.call = "proc" => f.at = "runs"

PostInv ==
  TypeOK /\ EventsInOrder /\ CallsFit /\ OneEvent /\ PostsLast /\ PostedBefore /\ PostedInOrder

(* While an event is handled, what is called on top of it runs on the same *)
(* thread, for which nothing waits, and sends for this event only.         *)
UnderEvent ==
  \A i, j \in 1..Len(stack) : stack[i].at = "event" /\ i <= j =>
    /\ \A k \in 1..Len(stack[j].todo) :
         stack[j].todo[k].op \in {"send", "focus", "activate", "activated"} =>
           stack[j].todo[k].n = Now
    /\ i < j => /\ stack[i].t \in Threads /\ sent[stack[i].t] = <<>>
                /\ stack[j].t \in {stack[i].t, NoThread}
SentBefore ==
  /\ \A t \in Threads : \A m \in 1..Len(sent[t]) :
       sent[t][m].n <= Now /\ Owner[sent[t][m].w] = t

SentInv == PostInv /\ UnderEvent /\ SentBefore /\ SentInOrder

(* The focus the program is to be told, once every event taken is handled: *)
(* what the event being handled says, or what the program is told already. *)
Waits(f) == f.todo # <<>> /\ f.todo[Len(f.todo)].op = "taken"
Says(f) == f.todo[Len(f.todo)].on
Aim(v) ==
  \/ \E i \in 1..Len(stack) : Waits(stack[i]) /\ v = Says(stack[i])
  \/ (\A i \in 1..Len(stack) : ~Waits(stack[i])) /\ v = focused

(* A change of focus is done by the event, before its last step, or by the *)
(* call that has just taken it from those that wait for its thread.        *)
FirstOf(f) ==
  /\ f.at \in {"event", "delivers"} /\ f.todo[1].w \in Windows
  /\ f.at = "event" => Len(f.todo) = 2 /\ Waits(f) /\ f.todo[1].on = Says(f)
  /\ f.at = "delivers" => Len(f.todo) = 1
TakenLast(f) ==
  \A k \in 1..Len(f.todo) : f.todo[k].op = "taken" => f.at = "event" /\ k = Len(f.todo)
FocusFirst ==
  \A i \in 1..Len(stack) :
    /\ TakenLast(stack[i])
    /\ \A k \in 1..Len(stack[i].todo) :
         /\ stack[i].todo[k].op \notin {"gone", "drop"}
         /\ stack[i].todo[k].op = "focus" => i = Len(stack) /\ k = 1 /\ FirstOf(stack[i])

(* The newest change of focus in q says v. *)
HasFocus(q) == \E m \in 1..Len(q) : q[m].op = "focus"
NewestSays(q, v) ==
  \A m \in 1..Len(q) :
    q[m].op = "focus" /\ (\A l \in 1..Len(q) : q[l].op = "focus" => l <= m) => q[m].on = v

(* The newest change of focus that waits is the one aimed at; when none    *)
(* waits, the device is as that says.                                      *)
FocusOnTop == stack # <<>> /\ Top.todo # <<>> /\ Top.todo[1].op = "focus"
InEvent == FocusOnTop /\ Top.at = "event"
InQueue == \E t \in Threads : HasFocus(sent[t])
NewestWins ==
  ~InEvent =>
    \A v \in BOOLEAN : Aim(v) =>
      /\ \A t \in Threads : NewestSays(sent[t], v)
      /\ ~InQueue /\ FocusOnTop => Top.todo[1].on = v
      /\ ~InQueue /\ ~FocusOnTop => (device = "lost") = ~v

FocusInv ==
  SentInv /\ windows = Windows /\ active \in Windows /\ FocusFirst /\ NewestWins

OneThread == \A v, w \in Windows : Owner[v] = Owner[w]
NeverFull == \A t \in Threads : Len(sent[t]) < MaxSent
------------------------------------------------------------------------------
(* The stack of calls *)

LEMMA StackFacts ==
  ASSUME stack \in Seq(Calls), stack # <<>>
  PROVE  /\ Len(stack) \in Nat \ {0}
         /\ Top = stack[Len(stack)] /\ Top \in Calls
         /\ Below \in Seq(Calls) /\ Len(Below) = Len(stack) - 1
         /\ \A i \in 1..(Len(stack) - 1) : Below[i] = stack[i]
<1>1. Len(stack) \in Nat \ {0}
  BY EmptySeq
<1>2. PICK n \in Nat : n = Len(stack) - 1
  BY <1>1
<1>3. Below \in Seq(Calls) /\ Len(Below) = n /\ \A i \in 1..n : Below[i] = stack[i]
  BY <1>1, <1>2 DEF Below, Front
<1> QED BY <1>1, <1>2, <1>3 DEF Top, Last

(* How a step changes the stack *)
Same(n) == \A i \in 1..n : stack'[i] = stack[i]
Pushed(f) ==
  stack' \in Seq(Calls) /\ Len(stack') = Len(stack) + 1 /\ Same(Len(stack))
  /\ stack'[Len(stack) + 1] = f
Swapped(f) ==
  stack' \in Seq(Calls) /\ Len(stack') = Len(stack) /\ Same(Len(stack) - 1)
  /\ stack'[Len(stack)] = f
Popped ==
  stack' \in Seq(Calls) /\ Len(stack') = Len(stack) - 1 /\ Same(Len(stack) - 1)
Called(f, g) ==
  stack' \in Seq(Calls) /\ Len(stack') = Len(stack) + 1 /\ Same(Len(stack) - 1)
  /\ stack'[Len(stack)] = f /\ stack'[Len(stack) + 1] = g

LEMMA Pushes ==
  ASSUME stack \in Seq(Calls), NEW f \in Calls, stack' = Append(stack, f)
  PROVE  Pushed(f)
BY AppendProperties DEF Pushed, Same

LEMMA Swaps ==
  ASSUME stack \in Seq(Calls), stack # <<>>, NEW f \in Calls, Replace(f)
  PROVE  Swapped(f)
<1>1. stack' = Append(Below, f)
  BY DEF Replace
<1> QED BY <1>1, StackFacts, AppendProperties DEF Swapped, Same

LEMMA Pops ==
  ASSUME stack \in Seq(Calls), stack # <<>>, Pop
  PROVE  Popped
BY StackFacts DEF Popped, Pop, Same

LEMMA Calls2 ==
  ASSUME stack \in Seq(Calls), stack # <<>>, NEW f \in Calls, NEW g \in Calls,
         stack' = Append(Append(Below, f), g)
  PROVE  Called(f, g)
<1>1. /\ Append(Below, f) \in Seq(Calls) /\ Len(Append(Below, f)) = Len(stack)
      /\ Append(Below, f)[Len(stack)] = f
      /\ \A i \in 1..(Len(stack) - 1) : Append(Below, f)[i] = stack[i]
  BY StackFacts, AppendProperties
<1> QED BY <1>1, StackFacts, AppendProperties DEF Called, Same

(* The call on top, with its first step done and others put in its place *)
With(items) == [Top EXCEPT !.todo = items \o Tail(Top.todo)]

LEMMA RestFacts ==
  ASSUME TypeOK, stack # <<>>, Top.todo # <<>>
  PROVE  /\ Item \in Items /\ Item = Top.todo[1] /\ Len(Top.todo) \in Nat \ {0}
         /\ Top.todo \in Seq(Items) /\ Tail(Top.todo) \in Seq(Items)
         /\ Len(Tail(Top.todo)) = Len(Top.todo) - 1
         /\ \A k \in 1..(Len(Top.todo) - 1) : Tail(Top.todo)[k] = Top.todo[k + 1]
         /\ Rest \in Calls /\ Rest = [Top EXCEPT !.todo = Tail(Top.todo)]
<1>1. Top \in Calls /\ Top.todo \in Seq(Items)
  BY StackFacts DEF TypeOK, Calls
<1>2. Item \in Items /\ Item = Top.todo[1] /\ Len(Top.todo) \in Nat \ {0}
  BY <1>1, EmptySeq, HeadTailProperties DEF Item
<1>3. /\ Tail(Top.todo) \in Seq(Items) /\ Len(Tail(Top.todo)) = Len(Top.todo) - 1
      /\ \A k \in 1..(Len(Top.todo) - 1) : Tail(Top.todo)[k] = Top.todo[k + 1]
  BY <1>1, <1>2, HeadTailProperties
<1>4. Rest \in Calls /\ Rest = [Top EXCEPT !.todo = Tail(Top.todo)]
  BY <1>1, <1>3 DEF Rest, Calls
<1> QED BY <1>1, <1>2, <1>3, <1>4

LEMMA Thens ==
  ASSUME TypeOK, stack # <<>>, Top.todo # <<>>, NEW items \in Seq(Items), Then(items)
  PROVE  /\ Swapped(With(items)) /\ With(items) \in Calls
         /\ With(items).t = Top.t /\ With(items).call = Top.call /\ With(items).at = Top.at
         /\ Len(With(items).todo) = Len(items) + Len(Top.todo) - 1
         /\ \A k \in 1..Len(items) : With(items).todo[k] = items[k]
         /\ \A k \in (Len(items) + 1)..(Len(items) + Len(Top.todo) - 1) :
              With(items).todo[k] = Top.todo[k - Len(items) + 1]
<1> DEFINE rest == Tail(Top.todo)
<1>1. /\ rest \in Seq(Items) /\ Len(rest) = Len(Top.todo) - 1
      /\ \A k \in 1..(Len(Top.todo) - 1) : rest[k] = Top.todo[k + 1]
      /\ Len(Top.todo) \in Nat \ {0} /\ Len(items) \in Nat
  BY RestFacts
<1>2. Top \in Calls
  BY StackFacts DEF TypeOK
<1>3. items \o rest \in Seq(Items) /\ Len(items \o rest) = Len(items) + Len(rest)
      /\ \A k \in 1..(Len(items) + Len(rest)) :
           (items \o rest)[k] = IF k <= Len(items) THEN items[k] ELSE rest[k - Len(items)]
  BY <1>1, ConcatProperties
<1>4. With(items) \in Calls /\ With(items).todo = items \o rest
      /\ With(items).t = Top.t /\ With(items).call = Top.call /\ With(items).at = Top.at
  BY <1>2, <1>3 DEF With, Calls
<1>5. [Rest EXCEPT !.todo = items \o @] = With(items)
  BY <1>2, RestFacts DEF With, Calls
<1>6. Swapped(With(items))
  BY <1>4, <1>5, Swaps DEF Then, TypeOK
<1>7. Len(With(items).todo) = Len(items) + Len(Top.todo) - 1
  BY <1>1, <1>3, <1>4
<1>8. \A k \in 1..Len(items) : With(items).todo[k] = items[k]
  BY <1>1, <1>3, <1>4
<1>9. ASSUME NEW k \in (Len(items) + 1)..(Len(items) + Len(Top.todo) - 1)
      PROVE  With(items).todo[k] = Top.todo[k - Len(items) + 1]
  BY <1>1, <1>3, <1>4
<1> QED BY <1>4, <1>6, <1>7, <1>8, <1>9
------------------------------------------------------------------------------
(* Sequences: the first of the naturals, what a filter keeps, and removals *)

LEMMA Least ==
  ASSUME NEW T \in SUBSET Nat, T # {}
  PROVE  \E x \in T : \A y \in T : x <= y
<1> DEFINE R == OpToRel(<, Nat)
<1>1. IsWellFoundedOn(R, Nat)
  BY NatLessThanWellFounded
<1>2. \E x \in T : \A y \in T : ~(<<y, x>> \in R)
  <2> HIDE DEF R
  <2> QED BY <1>1, WFMin
<1>3. \A x, y \in Nat : y < x => <<y, x>> \in R
  BY DEF OpToRel
<1>4. PICK x \in T : \A y \in T : ~(<<y, x>> \in R)
  BY <1>2
<1>5. \A y \in T : ~(y < x)
  BY <1>3, <1>4
<1>6. \A y \in T : x <= y
  BY <1>5
<1> QED BY <1>4, <1>6

(* The recursive function of Others up to n *)
Keeps(g, q, w, n) ==
  g = [i \in 0..n |->
         IF i = 0 THEN <<>> ELSE IF q[i].w = w THEN g[i - 1] ELSE Append(g[i - 1], q[i])]

LEMMA KeepsExists ==
  ASSUME NEW q, NEW w, NEW m \in Nat
  PROVE  \E g : Keeps(g, q, w, m)
<1> DEFINE Bad == {n \in Nat : ~(\E g : Keeps(g, q, w, n))}
<1> SUFFICES ASSUME Bad # {} PROVE FALSE
  OBVIOUS
<1>1. PICK b \in Bad : \A y \in Bad : b <= y
  <2> HIDE DEF Bad
  <2>1. Bad \in SUBSET Nat
    BY DEF Bad
  <2> QED BY <2>1, Least
<1>2. b # 0
  <2>1. Keeps([i \in 0..0 |-> <<>>], q, w, 0)
    BY DEF Keeps
  <2> QED BY <2>1
<1>3. PICK p \in Nat : b = p + 1
  BY <1>2
<1>4. PICK g : Keeps(g, q, w, p)
  BY <1>1, <1>3
<1> DEFINE e == [i \in 0..b |->
                  IF i = b THEN IF q[b].w = w THEN g[p] ELSE Append(g[p], q[b]) ELSE g[i]]
<1>5. \A i \in 0..p : e[i] = g[i]
  BY <1>3
<1>6. \A i \in 0..b : e[i] = IF i = 0 THEN <<>> ELSE IF q[i].w = w THEN e[i - 1]
                                                ELSE Append(e[i - 1], q[i])
  <2> TAKE i \in 0..b
  <2>1. CASE i = b
    <3>1. e[b] = IF q[b].w = w THEN g[p] ELSE Append(g[p], q[b])
      BY <1>3
    <3>2. e[b - 1] = g[p]
      BY <1>3, <1>5
    <3> HIDE DEF e
    <3> QED BY <2>1, <1>2, <3>1, <3>2
  <2>2. CASE i \in 0..p
    <3>1. g[i] = IF i = 0 THEN <<>> ELSE IF q[i].w = w THEN g[i - 1] ELSE Append(g[i - 1], q[i])
      BY <1>4, <2>2 DEF Keeps
    <3>2. i # 0 => i - 1 \in 0..p
      BY <2>2
    <3> HIDE DEF e
    <3> QED BY <1>5, <2>2, <3>1, <3>2
  <2> QED BY <1>3, <2>1, <2>2
<1>7. Keeps(e, q, w, b)
  <2>1. e = [i \in 0..b |-> e[i]]
    OBVIOUS
  <2> HIDE DEF e
  <2> QED BY <1>6, <2>1 DEF Keeps
<1> QED BY <1>7

(* What a filter keeps stands in the order it had. *)
LEMMA OthersFacts ==
  ASSUME NEW S, NEW q \in Seq(S), NEW w
  PROVE  /\ Others(q, w) \in Seq(S)
         /\ \E h \in [1..Len(Others(q, w)) -> 1..Len(q)] :
              /\ \A i, j \in 1..Len(Others(q, w)) : i < j => h[i] < h[j]
              /\ \A k \in 1..Len(Others(q, w)) : Others(q, w)[k] = q[h[k]]
<1> DEFINE g == CHOOSE x : Keeps(x, q, w, Len(q))
<1>1. Others(q, w) = g[Len(q)]
  BY DEF Others, Keeps
<1>2. Keeps(g, q, w, Len(q)) /\ Len(q) \in Nat
  BY KeepsExists
<1> HIDE DEF g
<1>3. g[0] = <<>>
  BY <1>2 DEF Keeps
<1>4. \A n \in 0..(Len(q) - 1) :
        g[n + 1] = IF q[n + 1].w = w THEN g[n] ELSE Append(g[n], q[n + 1])
  <2> TAKE n \in 0..(Len(q) - 1)
  <2>1. n + 1 \in 0..Len(q) /\ n + 1 # 0 /\ (n + 1) - 1 = n
    BY <1>2
  <2>2. g[n + 1] = IF n + 1 = 0 THEN <<>> ELSE IF q[n + 1].w = w THEN g[(n + 1) - 1]
                                          ELSE Append(g[(n + 1) - 1], q[n + 1])
    BY <1>2, <2>1 DEF Keeps
  <2> QED BY <2>1, <2>2
<1> DEFINE
      Fits(n) ==
        /\ g[n] \in Seq(S)
        /\ \E h \in [1..Len(g[n]) -> 1..n] :
             /\ \A i, j \in 1..Len(g[n]) : i < j => h[i] < h[j]
             /\ \A k \in 1..Len(g[n]) : g[n][k] = q[h[k]]
      Bad == {n \in 0..Len(q) : ~Fits(n)}
<1>5. Bad = {}
  <2> SUFFICES ASSUME Bad # {} PROVE FALSE
    OBVIOUS
  <2>1. PICK b \in Bad : \A y \in Bad : b <= y
    <3>1. Bad \in SUBSET Nat
      OBVIOUS
    <3> HIDE DEF Bad
    <3> QED BY <3>1, Least
  <2>2. Fits(0)
    <3>1. Len(g[0]) = 0 /\ g[0] \in Seq(S)
      BY <1>3
    <3> DEFINE h == [i \in 1..0 |-> i]
    <3>2. h \in [1..Len(g[0]) -> 1..0]
      BY <3>1
    <3> HIDE DEF h
    <3>3. \A i \in 1..Len(g[0]) : FALSE
      BY <3>1
    <3> QED BY <3>1, <3>2, <3>3
  <2>3. b \in 0..Len(q) /\ ~Fits(b) /\ \A n \in 0..Len(q) : ~Fits(n) => b <= n
    BY <2>1
  <2> HIDE DEF Bad, Fits
  <2>4. b # 0
    BY <2>2, <2>3
  <2>5. PICK p \in 0..(Len(q) - 1) : b = p + 1
    <3>1. b - 1 \in 0..(Len(q) - 1) /\ b = (b - 1) + 1
      BY <1>2, <2>3, <2>4
    <3> QED BY <3>1
  <2>6. Fits(p) /\ p \in Nat /\ p \in 0..Len(q)
    BY <1>2, <2>3, <2>5
  <2>7. Fits(b)
    <3> USE DEF Fits
    <3>1. PICK h \in [1..Len(g[p]) -> 1..p] :
            /\ \A i, j \in 1..Len(g[p]) : i < j => h[i] < h[j]
            /\ \A k \in 1..Len(g[p]) : g[p][k] = q[h[k]]
      BY <2>6
    <3>2. g[p] \in Seq(S) /\ Len(g[p]) \in Nat /\ p \in Nat /\ q[b] \in S
      BY <1>2, <2>5, <2>6, ElementOfSeq
    <3>3. CASE q[b].w = w
      <4>1. g[b] = g[p]
        BY <1>4, <2>5, <3>3
      <4>2. h \in [1..Len(g[b]) -> 1..b]
        BY <2>5, <3>2, <4>1
      <4> QED BY <3>1, <3>2, <4>1, <4>2
    <3>4. CASE q[b].w # w
      <4>1. g[b] = Append(g[p], q[b])
        BY <1>4, <2>5, <3>4
      <4>2. /\ g[b] \in Seq(S) /\ Len(g[b]) = Len(g[p]) + 1
            /\ g[b][Len(g[p]) + 1] = q[b]
            /\ \A k \in 1..Len(g[p]) : g[b][k] = g[p][k]
        BY <3>2, <4>1, AppendProperties
      <4> DEFINE f == [k \in 1..Len(g[b]) |-> IF k <= Len(g[p]) THEN h[k] ELSE b]
      <4>3. \A k \in 1..Len(g[b]) : f[k] = IF k <= Len(g[p]) THEN h[k] ELSE b
        OBVIOUS
      <4>4. f = [k \in 1..Len(g[b]) |-> f[k]]
        OBVIOUS
      <4> HIDE DEF f, Fits
      <4>5. \A k \in 1..Len(g[p]) : h[k] \in 1..p
        BY <3>1
      <4>6. \A k \in 1..Len(g[b]) : f[k] \in 1..b
        BY <3>2, <4>2, <4>3, <4>5, <2>5
      <4>7. f \in [1..Len(g[b]) -> 1..b]
        BY <4>4, <4>6
      <4>8. \A i, j \in 1..Len(g[b]) : i < j => f[i] < f[j]
        BY <3>1, <3>2, <4>2, <4>3, <4>5, <2>5
      <4>9. \A k \in 1..Len(g[b]) : g[b][k] = q[f[k]]
        BY <3>1, <3>2, <4>2, <4>3, <2>5
      <4> QED BY <4>2, <4>7, <4>8, <4>9 DEF Fits
    <3> QED BY <3>3, <3>4
  <2> QED BY <2>3, <2>7
<1>6. Fits(Len(q))
  BY SMTT(30), <1>2, <1>5
<1> QED BY <1>1, <1>6

(* A sequence without one of its elements *)
LEMMA RemoveAtFacts ==
  ASSUME NEW S, NEW q \in Seq(S), NEW i \in 1..Len(q)
  PROVE  /\ RemoveAt(q, i) \in Seq(S) /\ Len(RemoveAt(q, i)) = Len(q) - 1
         /\ \A k \in 1..(Len(q) - 1) : RemoveAt(q, i)[k] = q[IF k < i THEN k ELSE k + 1]
<1> DEFINE a == SubSeq(q, 1, i - 1)
           c == SubSeq(q, i + 1, Len(q))
<1>1. Len(q) \in Nat
  OBVIOUS
<1>2. PICK m \in Nat : m = i - 1
  <2>1. i - 1 \in Nat
    BY <1>1
  <2> QED BY <2>1
<1>3. PICK r \in Nat : r = Len(q) - i
  <2>1. Len(q) - i \in Nat
    BY <1>1
  <2> QED BY <2>1
<1>4. a \in Seq(S) /\ Len(a) = m /\ \A k \in 1..m : a[k] = q[k]
  <2>1. a = SubSeq(q, 1, m) /\ m <= Len(q)
    BY <1>1, <1>2
  <2> HIDE DEF a
  <2> QED BY <1>1, <2>1
<1>5. c \in Seq(S) /\ Len(c) = r /\ \A k \in 1..r : c[k] = q[i + k]
  <2>1. c \in Seq(S) /\ Len(c) = r
    BY <1>1, <1>3
  <2>2. \A k \in 1..r : c[k] = q[i + k]
    BY <1>1, <1>3, <2>1
  <2> QED BY <2>1, <2>2
<1>6. RemoveAt(q, i) = a \o c
  BY DEF RemoveAt
<1> HIDE DEF a, c
<1>7. a \o c \in Seq(S) /\ Len(a \o c) = m + r
  BY <1>4, <1>5
<1>8. \A k \in 1..(m + r) : (a \o c)[k] = IF k <= m THEN a[k] ELSE c[k - m]
  <2>1. \A k \in 1..(Len(a) + Len(c)) :
          (a \o c)[k] = IF k <= Len(a) THEN a[k] ELSE c[k - Len(a)]
    BY <1>4, <1>5, ConcatProperties
  <2> QED BY <1>4, <1>5, <2>1
<1>9. m + r = Len(q) - 1
  BY <1>1, <1>2, <1>3
<1>10. \A k \in 1..(Len(q) - 1) : (a \o c)[k] = q[IF k < i THEN k ELSE k + 1]
  <2> TAKE k \in 1..(Len(q) - 1)
  <2>1. CASE k <= m
    BY <1>1, <1>2, <1>4, <1>8, <1>9, <2>1
  <2>2. CASE k > m
    <3>1. k - m \in 1..r /\ i + (k - m) = k + 1 /\ ~(k < i)
      BY <1>1, <1>2, <1>3, <1>9, <2>2
    <3>2. (a \o c)[k] = c[k - m]
      <4>1. k \in 1..(m + r) /\ ~(k <= m)
        BY <1>1, <1>9, <2>2
      <4> QED BY <1>8, <4>1
    <3>3. c[k - m] = q[i + (k - m)]
      BY <1>5, <3>1
    <3> QED BY <3>1, <3>2, <3>3
  <2>3. k <= m \/ k > m
    BY <1>1
  <2> QED BY <2>1, <2>2, <2>3
<1> QED BY <1>6, <1>7, <1>9, <1>10
------------------------------------------------------------------------------
(* The messages that wait for a thread *)

(* d is what is left of o, in its order *)
LeftOf(d, o) ==
  \E h \in [1..Len(d) -> 1..Len(o)] :
    /\ \A i, j \in 1..Len(d) : i < j => h[i] < h[j]
    /\ \A k \in 1..Len(d) : d[k] = o[h[k]]

LEMMA LeftOfSame ==
  ASSUME NEW S, NEW o \in Seq(S)
  PROVE  LeftOf(o, o)
<1> DEFINE h == [k \in 1..Len(o) |-> k]
<1>1. h \in [1..Len(o) -> 1..Len(o)] /\ \A k \in 1..Len(o) : h[k] = k
  OBVIOUS
<1> HIDE DEF h
<1> QED BY <1>1 DEF LeftOf

LEMMA LeftOfRemoved ==
  ASSUME NEW S, NEW o \in Seq(S), NEW i \in 1..Len(o)
  PROVE  LeftOf(RemoveAt(o, i), o)
<1> DEFINE d == RemoveAt(o, i)
           h == [k \in 1..Len(d) |-> IF k < i THEN k ELSE k + 1]
<1>1. d \in Seq(S) /\ Len(d) = Len(o) - 1 /\ Len(o) \in Nat
      /\ \A k \in 1..(Len(o) - 1) : d[k] = o[IF k < i THEN k ELSE k + 1]
  BY RemoveAtFacts
<1>2. \A k \in 1..Len(d) : h[k] = IF k < i THEN k ELSE k + 1
  OBVIOUS
<1>3. h = [k \in 1..Len(d) |-> h[k]]
  OBVIOUS
<1> HIDE DEF d, h
<1>4. \A k \in 1..Len(d) : h[k] \in 1..Len(o)
  BY <1>1, <1>2
<1>5. h \in [1..Len(d) -> 1..Len(o)]
  BY <1>3, <1>4
<1>6. \A k, l \in 1..Len(d) : k < l => h[k] < h[l]
  BY <1>1, <1>2
<1>7. \A k \in 1..Len(d) : d[k] = o[h[k]]
  BY <1>1, <1>2
<1>8. LeftOf(d, o)
  BY <1>5, <1>6, <1>7 DEF LeftOf
<1> QED BY <1>8 DEF d

LEMMA LeftOfTail ==
  ASSUME NEW S, NEW d \in Seq(S), NEW o \in Seq(S), d # <<>>, LeftOf(d, o)
  PROVE  LeftOf(Tail(d), o)
<1>1. PICK g \in [1..Len(d) -> 1..Len(o)] :
        /\ \A i, j \in 1..Len(d) : i < j => g[i] < g[j]
        /\ \A k \in 1..Len(d) : d[k] = o[g[k]]
  BY DEF LeftOf
<1>2. /\ Tail(d) \in Seq(S) /\ Len(Tail(d)) = Len(d) - 1 /\ Len(d) \in Nat \ {0}
      /\ \A k \in 1..(Len(d) - 1) : Tail(d)[k] = d[k + 1]
  BY HeadTailProperties, EmptySeq
<1> DEFINE h == [k \in 1..Len(Tail(d)) |-> g[k + 1]]
<1>3. \A k \in 1..Len(Tail(d)) : h[k] = g[k + 1] /\ k + 1 \in 1..Len(d)
  BY <1>2
<1>4. h = [k \in 1..Len(Tail(d)) |-> h[k]]
  OBVIOUS
<1> HIDE DEF h
<1>5. h \in [1..Len(Tail(d)) -> 1..Len(o)]
  BY <1>1, <1>3, <1>4
<1>6. \A k, l \in 1..Len(Tail(d)) : k < l => h[k] < h[l]
  BY <1>1, <1>2, <1>3
<1>7. \A k \in 1..Len(Tail(d)) : Tail(d)[k] = o[h[k]]
  BY <1>1, <1>2, <1>3
<1> QED BY <1>5, <1>6, <1>7 DEF LeftOf

(* The first message that is looked for is taken out, if there is one. *)
IsCursorOf(s, w) == s.op = "send" /\ s.msg = "cursor" /\ s.w = w
NoCursor(o, w) == RemoveFirstMatch(o, LAMBDA s : s.op = "send" /\ s.msg = "cursor" /\ s.w = w)

LEMMA FirstRemoved ==
  ASSUME NEW S, NEW o \in Seq(S), NEW w
  PROVE  NoCursor(o, w) = o
         \/ \E i \in 1..Len(o) : IsCursorOf(o[i], w) /\ NoCursor(o, w) = RemoveAt(o, i)
<1> DEFINE I == {i \in 1..Len(o) : o[i].op = "send" /\ o[i].msg = "cursor" /\ o[i].w = w}
<1>1. CASE I = {}
  BY <1>1 DEF NoCursor, RemoveFirstMatch
<1>2. CASE I # {}
  <2>1. NoCursor(o, w) = RemoveAt(o, Min(I))
    BY <1>2 DEF NoCursor, RemoveFirstMatch, SelectInSeq
  <2>2. Min(I) \in I
    <3>1. I \in SUBSET Nat
      OBVIOUS
    <3> HIDE DEF I
    <3>2. \E x \in I : \A y \in I : x <= y
      BY <1>2, <3>1, Least
    <3> QED BY <3>2 DEF Min
  <2> QED BY <2>1, <2>2 DEF IsCursorOf
<1> QED BY <1>1, <1>2

LEMMA DeferredFacts ==
  ASSUME Places, TypeOK, NEW w \in Windows, NEW item \in Waiting
  PROVE  LET o == sent[Owner[w]]
             d == Deferred(w, item)[Owner[w]]
         IN  /\ Deferred(w, item) \in [Threads -> Seq(Waiting)]
             /\ \A t \in Threads : t # Owner[w] => Deferred(w, item)[t] = sent[t]
             /\ d \in Seq(Waiting) /\ d # <<>> /\ d[Len(d)] = item
             /\ \E c \in Seq(Waiting) :
                  /\ LeftOf(c, o) /\ Len(c) = Len(d) - 1
                  /\ \A k \in 1..Len(c) : d[k] = c[k]
                  /\ Len(o) < MaxSent =>
                       c = o \/ \E i \in 1..Len(o) : o[i].op = "send" /\ c = RemoveAt(o, i)
<1> DEFINE o == sent[Owner[w]]
           d == Deferred(w, item)[Owner[w]]
<1>1. Owner[w] \in Threads /\ o \in Seq(Waiting) /\ MaxSent \in Nat \ {0}
  BY DEF Places, TypeOK
<1>2. PICK kept : /\ kept = o \/ \E i \in 1..Len(o) : IsCursorOf(o[i], w) /\ kept = RemoveAt(o, i)
                  /\ LET q == Append(kept, item) IN
                       Deferred(w, item) =
                         [sent EXCEPT ![Owner[w]] = IF Len(q) > MaxSent THEN Tail(q) ELSE q]
  <2> DEFINE r == NoCursor(o, w)
  <2>1. r = o \/ \E i \in 1..Len(o) : IsCursorOf(o[i], w) /\ r = RemoveAt(o, i)
    BY <1>1, FirstRemoved
  <2>2. \/ LET q == Append(r, item) IN
             Deferred(w, item) =
               [sent EXCEPT ![Owner[w]] = IF Len(q) > MaxSent THEN Tail(q) ELSE q]
        \/ LET q == Append(o, item) IN
             Deferred(w, item) =
               [sent EXCEPT ![Owner[w]] = IF Len(q) > MaxSent THEN Tail(q) ELSE q]
    BY DEF Deferred, NoCursor
  <2> HIDE DEF r, o
  <2> QED BY <2>1, <2>2
<1>3. /\ kept \in Seq(Waiting) /\ LeftOf(kept, o) /\ Len(kept) <= Len(o)
      /\ kept = o \/ \E i \in 1..Len(o) : o[i].op = "send" /\ kept = RemoveAt(o, i)
  <2>1. CASE kept = o
    BY <1>1, <2>1, LeftOfSame
  <2>2. ASSUME NEW i \in 1..Len(o), IsCursorOf(o[i], w), kept = RemoveAt(o, i)
        PROVE  kept \in Seq(Waiting) /\ LeftOf(kept, o) /\ Len(kept) <= Len(o) /\ o[i].op = "send"
    <3> HIDE DEF o
    <3> QED BY <1>1, <2>2, RemoveAtFacts, LeftOfRemoved DEF IsCursorOf
  <2> HIDE DEF o
  <2> QED BY <1>2, <2>1, <2>2
<1> DEFINE q == Append(kept, item)
<1>4. /\ q \in Seq(Waiting) /\ Len(q) = Len(kept) + 1 /\ q[Len(kept) + 1] = item
      /\ Len(kept) \in Nat /\ Len(o) \in Nat
      /\ \A k \in 1..Len(kept) : q[k] = kept[k]
  BY <1>1, <1>3, AppendProperties
<1>5. d = IF Len(q) > MaxSent THEN Tail(q) ELSE q
  BY <1>1, <1>2 DEF TypeOK
<1>6. \A t \in Threads : t # Owner[w] => Deferred(w, item)[t] = sent[t]
  BY <1>1, <1>2 DEF TypeOK
<1>7. Deferred(w, item) = [sent EXCEPT ![Owner[w]] = d]
  BY <1>2, <1>5
<1> HIDE DEF o, d, q
<1>8. CASE ~(Len(q) > MaxSent)
  <2>1. d = q /\ d \in Seq(Waiting) /\ d # <<>> /\ d[Len(d)] = item
    BY <1>4, <1>5, <1>8, EmptySeq
  <2>2. Deferred(w, item) \in [Threads -> Seq(Waiting)]
    BY <1>7, <2>1 DEF TypeOK
  <2>3. Len(kept) = Len(d) - 1 /\ \A k \in 1..Len(kept) : d[k] = kept[k]
    BY <1>4, <2>1
  <2> QED BY <1>3, <1>6, <2>1, <2>2, <2>3 DEF o, d
<1>9. CASE Len(q) > MaxSent
  <2>1. Len(kept) \in Nat \ {0} /\ kept # <<>> /\ q # <<>>
    BY <1>1, <1>4, <1>9, EmptySeq
  <2>2. /\ d \in Seq(Waiting) /\ Len(d) = Len(kept)
        /\ \A k \in 1..Len(kept) : d[k] = q[k + 1]
    BY <1>4, <1>5, <1>9, <2>1, HeadTailProperties
  <2>3. /\ Tail(kept) \in Seq(Waiting) /\ Len(Tail(kept)) = Len(kept) - 1
        /\ \A k \in 1..(Len(kept) - 1) : Tail(kept)[k] = kept[k + 1]
    BY <1>3, <2>1, HeadTailProperties
  <2>4. LeftOf(Tail(kept), o)
    BY <1>1, <1>3, <2>1, LeftOfTail DEF o
  <2>5. d # <<>> /\ d[Len(d)] = item
    BY <1>4, <2>1, <2>2, EmptySeq
  <2>6. \A k \in 1..Len(Tail(kept)) : d[k] = Tail(kept)[k]
    BY <1>4, <2>1, <2>2, <2>3
  <2>7. ~(Len(o) < MaxSent)
    BY <1>1, <1>3, <1>4, <1>9
  <2>8. Deferred(w, item) \in [Threads -> Seq(Waiting)]
    BY <1>7, <2>2 DEF TypeOK
  <2>9. Len(Tail(kept)) = Len(d) - 1
    BY <2>2, <2>3
  <2> QED BY <1>6, <2>2, <2>3, <2>4, <2>5, <2>6, <2>7, <2>8, <2>9 DEF o, d
<1> QED BY <1>8, <1>9

AddedTo(d, o, item) ==
  /\ d \in Seq(Waiting) /\ d # <<>> /\ d[Len(d)] = item
  /\ \E c \in Seq(Waiting) :
       /\ LeftOf(c, o) /\ Len(c) = Len(d) - 1
       /\ \A k \in 1..Len(c) : d[k] = c[k]
       /\ Len(o) < MaxSent =>
            c = o \/ \E i \in 1..Len(o) : o[i].op = "send" /\ c = RemoveAt(o, i)

LEMMA DeferredAdds ==
  ASSUME Places, TypeOK, NEW w \in Windows, NEW item \in Waiting
  PROVE  /\ AddedTo(Deferred(w, item)[Owner[w]], sent[Owner[w]], item)
         /\ \A t \in Threads : t # Owner[w] => Deferred(w, item)[t] = sent[t]
BY DeferredFacts DEF AddedTo
------------------------------------------------------------------------------
(* What the steps do to the stack: every call is well formed. *)

Send1(msg, w, n) == [op |-> "send", msg |-> msg, w |-> w, n |-> n]

LEMMA NowNat ==
  ASSUME TypeOK PROVE Now \in Nat /\ Len(input) \in Nat
BY DEF TypeOK, Now

LEMMA FrameFacts ==
  ASSUME TypeOK, NEW t \in Threads \cup {NoThread},
         NEW call \in {"peek", "read", "test", "show", "destroy", "proc"},
         NEW at \in {"pump", "event", "delivers", "does", "runs"}, NEW todo \in Seq(Items)
  PROVE  /\ Frame(t, call, at, todo) \in Calls
         /\ Frame(t, call, at, todo).t = t /\ Frame(t, call, at, todo).call = call
         /\ Frame(t, call, at, todo).at = at /\ Frame(t, call, at, todo).todo = todo
BY DEF Frame, Calls, TypeOK

LEMMA Seqs ==
  /\ <<>> \in Seq(Items)
  /\ \A x \in Items : <<x>> \in Seq(Items) /\ Len(<<x>>) = 1 /\ <<x>>[1] = x
  /\ \A x, y \in Items : <<x, y>> \in Seq(Items) /\ Len(<<x, y>>) = 2
                         /\ <<x, y>>[1] = x /\ <<x, y>>[2] = y
  /\ \A x, y, z \in Items :
       <<x, y, z>> \in Seq(Items) /\ Len(<<x, y, z>>) = 3
       /\ <<x, y, z>>[1] = x /\ <<x, y, z>>[2] = y /\ <<x, y, z>>[3] = z
OBVIOUS

LEMMA OneMore ==
  ASSUME NEW a \in Seq(Items), NEW z \in Items
  PROVE  /\ a \o <<z>> \in Seq(Items) /\ Len(a \o <<z>>) = Len(a) + 1
         /\ \A k \in 1..(Len(a) + 1) : (a \o <<z>>)[k] = IF k <= Len(a) THEN a[k] ELSE z
<1>1. <<z>> \in Seq(Items) /\ Len(<<z>>) = 1 /\ <<z>>[1] = z /\ Len(a) \in Nat
  BY Seqs
<1>2. /\ a \o <<z>> \in Seq(Items) /\ Len(a \o <<z>>) = Len(a) + Len(<<z>>)
      /\ \A k \in 1..(Len(a) + Len(<<z>>)) :
           (a \o <<z>>)[k] = IF k <= Len(a) THEN a[k] ELSE <<z>>[k - Len(a)]
  BY <1>1, ConcatProperties
<1>3. ASSUME NEW k \in 1..(Len(a) + 1) PROVE (a \o <<z>>)[k] = IF k <= Len(a) THEN a[k] ELSE z
  <2>1. ~(k <= Len(a)) => k - Len(a) = 1
    BY <1>1
  <2> QED BY <1>1, <1>2, <2>1
<1> QED BY <1>1, <1>2, <1>3

Pumps(t, call) == Frame(t, call, "pump", <<>>)
Shows(w) == Frame(Owner[w], "show", "does", <<[op |-> "activate", w |-> w, n |-> Now]>>)
Destroyed(w) ==
  Frame(Owner[w], "destroy", "does",
        <<[op |-> "send", msg |-> "destroy", w |-> w, n |-> Now], [op |-> "gone", w |-> w]>>)

LEMMA CallDoes ==
  ASSUME TypeOK, NEW t \in Threads \cup {NoThread}, NEW call \in {"peek", "read", "test"},
         Call(t, call)
  PROVE  Pushed(Pumps(t, call)) /\ Pumps(t, call) \in Calls
<1>1. Pumps(t, call) \in Calls
  BY Seqs DEF Pumps, Frame, Calls, TypeOK
<1>2. stack' = Append(stack, Pumps(t, call))
  BY DEF Call, Begin, Pumps
<1> QED BY <1>1, <1>2, Pushes DEF TypeOK

LEMMA ShowDoes ==
  ASSUME TypeOK, Places, NEW w \in Windows, Show(w)
  PROVE  Pushed(Shows(w)) /\ Shows(w) \in Calls
<1>1. [op |-> "activate", w |-> w, n |-> Now] \in Items
  BY NowNat DEF Items
<1>2. Shows(w) \in Calls
  <2>1. <<[op |-> "activate", w |-> w, n |-> Now]>> \in Seq(Items)
    BY <1>1, Seqs
  <2> QED BY <2>1 DEF Shows, Places, Frame, Calls, TypeOK
<1>3. stack' = Append(stack, Shows(w))
  BY DEF Show, Begin, Shows
<1> QED BY <1>2, <1>3, Pushes DEF TypeOK

LEMMA DestroyDoes ==
  ASSUME TypeOK, Places, NEW w \in Windows, Destroy(w)
  PROVE  Pushed(Destroyed(w)) /\ Destroyed(w) \in Calls
<1>1. [op |-> "send", msg |-> "destroy", w |-> w, n |-> Now] \in Items
      /\ [op |-> "gone", w |-> w] \in Items
  BY NowNat DEF Items, Waiting
<1>2. Destroyed(w) \in Calls
  <2>1. <<[op |-> "send", msg |-> "destroy", w |-> w, n |-> Now], [op |-> "gone", w |-> w]>>
          \in Seq(Items)
    BY <1>1, Seqs
  <2> QED BY <2>1 DEF Destroyed, Places, Frame, Calls, TypeOK
<1>3. stack' = Append(stack, Destroyed(w))
  BY DEF Destroy, Begin, Destroyed
<1> QED BY <1>2, <1>3, Pushes DEF TypeOK

Busy == stack # <<>> /\ Top.todo # <<>>
Proc == Frame(Top.t, "proc", "runs", <<>>)

(* send(): one of three *)
Dropped == Then(<<>>) /\ Swapped(With(<<>>)) /\ sent' = sent
PutOff ==
  /\ Item \in Waiting /\ Item.w \in Windows
  /\ Then(<<>>) /\ Swapped(With(<<>>)) /\ sent' = Deferred(Item.w, Item)

LEMMA SendDoes ==
  ASSUME TypeOK, Busy, Send
  PROVE  /\ Item \in Waiting
         /\ \/ Dropped
            \/ Deferring /\ MustDefer(Item.w) /\ PutOff
            \/ /\ ~(Deferring /\ MustDefer(Item.w)) /\ Called(Rest, Proc) /\ sent' = sent
               /\ Rest \in Calls /\ Proc \in Calls
<1>1. Item \in Waiting /\ Item.w \in Windows
  BY RestFacts DEF Send, Items, Waiting, Busy
<1>2. Then(<<>>) => Swapped(With(<<>>))
  BY Thens, Seqs DEF Busy
<1>3. CASE Item.w \notin windows
  BY <1>1, <1>2, <1>3 DEF Send, Dropped
<1>4. CASE Item.w \in windows /\ Deferring /\ MustDefer(Item.w)
  BY <1>1, <1>2, <1>4 DEF Send, PutOff
<1>5. CASE Item.w \in windows /\ ~(Deferring /\ MustDefer(Item.w))
  <2>1. stack' = Append(Append(Below, Rest), Proc) /\ sent' = sent
    BY <1>5 DEF Send, Proc
  <2>2. Rest \in Calls /\ Top.t \in Threads \cup {NoThread}
    BY RestFacts, StackFacts DEF Busy, TypeOK, Calls
  <2>3. Proc \in Calls
    BY <2>2, Seqs DEF Proc, Frame, Calls, TypeOK
  <2> QED BY <1>1, <1>5, <2>1, <2>2, <2>3, Calls2 DEF Busy, TypeOK
<1> QED BY <1>1, <1>3, <1>4, <1>5

AppTold == IF Item.w = NoWindow THEN <<>> ELSE <<Send1("app", Item.w, Item.n)>>

LEMMA ActivateDoes ==
  ASSUME TypeOK, Busy, Activate
  PROVE  \/ /\ Item.w # NoWindow /\ Top.at = "event" /\ MustDefer(Item.w) /\ PutOff
            /\ device' = device
         \/ /\ ~(Item.w # NoWindow /\ Top.at = "event" /\ MustDefer(Item.w)) /\ sent' = sent
            /\ Swapped(With(AppTold)) /\ Then(AppTold) /\ AppTold \in Seq(Items)
            /\ device' = IF ~Item.on THEN "lost" ELSE IF device = "lost" THEN "notreset" ELSE device
<1>1. Item \in Items /\ Item.op = "focus"
  BY RestFacts DEF Activate, Busy
<1>2. CASE Item.w # NoWindow /\ Top.at = "event" /\ MustDefer(Item.w)
  <2>1. Item \in Waiting /\ Item.w \in Windows
    BY <1>1, <1>2 DEF Items, Waiting
  <2>2. Then(<<>>) /\ Swapped(With(<<>>)) /\ sent' = Deferred(Item.w, Item) /\ device' = device
    BY <1>2, Thens, Seqs DEF Activate, Busy
  <2> QED BY <1>2, <2>1, <2>2 DEF PutOff
<1>3. CASE ~(Item.w # NoWindow /\ Top.at = "event" /\ MustDefer(Item.w))
  <2>1. Item.w # NoWindow => Send1("app", Item.w, Item.n) \in Items
    BY <1>1 DEF Send1, Items, Waiting
  <2>2. AppTold \in Seq(Items)
    BY <2>1, Seqs DEF AppTold
  <2>3. Then(AppTold) /\ sent' = sent
        /\ device' = IF ~Item.on THEN "lost" ELSE IF device = "lost" THEN "notreset" ELSE device
    BY <1>3 DEF Activate, AppTold, Send1
  <2> QED BY <1>3, <2>2, <2>3, Thens DEF Busy
<1> QED BY <1>2, <1>3

WindowsTold ==
  IF Active = Item.w THEN <<>>
  ELSE (IF Active = NoWindow THEN <<>> ELSE <<Told(Active, Item.n)>>)
       \o <<[Item EXCEPT !.op = "activated"]>>

(* the items put in place of one that tells windows something *)
Tells(items) ==
  /\ items \in Seq(Items) /\ Len(items) <= 2
  /\ \A k \in 1..Len(items) :
       items[k].op \in {"send", "activated", "activate", "drop"}
       /\ (items[k].op \in {"send", "activated"} => items[k].n = Item.n)
       /\ (items[k].op = "activate" => items[k].n = Now)

LEMMA ActivateWindowDoes ==
  ASSUME TypeOK, Busy, ActivateWindow
  PROVE  /\ Tells(WindowsTold) /\ Swapped(With(WindowsTold)) /\ Then(WindowsTold)
         /\ \A k \in 1..Len(WindowsTold) : WindowsTold[k].op \in {"send", "activated"}
<1>1. Item \in Items /\ Item.op = "activate"
  BY RestFacts DEF ActivateWindow, Busy
<1>2. Item \in [op : {"activate", "activated", "post"}, w : Windows, n : Nat]
  BY <1>1 DEF Items, Waiting
<1>3. [Item EXCEPT !.op = "activated"] \in Items
      /\ [Item EXCEPT !.op = "activated"].op = "activated"
      /\ [Item EXCEPT !.op = "activated"].n = Item.n
  BY <1>2 DEF Items
<1>4. Active # NoWindow => Told(Active, Item.n) \in Items
      /\ Told(Active, Item.n).op = "send" /\ Told(Active, Item.n).n = Item.n
  BY <1>2 DEF Active, Told, Items, Waiting, TypeOK
<1> DEFINE a == IF Active = NoWindow THEN <<>> ELSE <<Told(Active, Item.n)>>
           z == [Item EXCEPT !.op = "activated"]
<1>5. /\ a \in Seq(Items) /\ Len(a) \in {0, 1}
      /\ \A k \in 1..Len(a) : a[k].op = "send" /\ a[k].n = Item.n
  BY <1>4, Seqs
<1>6. /\ Tells(WindowsTold)
      /\ \A k \in 1..Len(WindowsTold) : WindowsTold[k].op \in {"send", "activated"}
  <2>1. WindowsTold = IF Active = Item.w THEN <<>> ELSE a \o <<z>>
    BY DEF WindowsTold
  <2>2. CASE Active = Item.w
    BY <2>1, <2>2, Seqs DEF Tells
  <2>3. CASE Active # Item.w
    <3>1. z \in Items /\ z.op = "activated" /\ z.n = Item.n
      BY <1>3
    <3> HIDE DEF a, z
    <3>2. /\ a \o <<z>> \in Seq(Items) /\ Len(a \o <<z>>) = Len(a) + 1
          /\ \A k \in 1..(Len(a) + 1) : (a \o <<z>>)[k] = IF k <= Len(a) THEN a[k] ELSE z
      BY <1>5, <3>1, OneMore
    <3> QED BY SMTT(30), <1>5, <2>1, <2>3, <3>1, <3>2 DEF Tells
  <2> QED BY <2>2, <2>3
<1>7. Then(WindowsTold)
  BY DEF ActivateWindow, WindowsTold
<1> QED BY <1>6, <1>7, Thens DEF Tells, Busy

LEMMA ActivatedDoes ==
  ASSUME TypeOK, Busy, Activated
  PROVE  /\ Tells(<<Told(Item.w, Item.n)>>) /\ Swapped(With(<<Told(Item.w, Item.n)>>))
         /\ Then(<<Told(Item.w, Item.n)>>) /\ Item.w \in Windows
<1>1. Item \in Items /\ Item.op = "activated"
  BY RestFacts DEF Activated, Busy
<1>2. Told(Item.w, Item.n) \in Items /\ Told(Item.w, Item.n).op = "send"
      /\ Told(Item.w, Item.n).n = Item.n /\ Item.w \in Windows
  BY <1>1 DEF Told, Items, Waiting
<1>3. Tells(<<Told(Item.w, Item.n)>>)
  BY <1>2, Seqs DEF Tells
<1> QED BY <1>2, <1>3, Thens DEF Tells, Busy, Activated

LEMMA GoneDoes ==
  ASSUME TypeOK, Busy, Gone
  PROVE  \E items : /\ Tells(items) /\ Swapped(With(items)) /\ Then(items)
                     /\ \A k \in 1..Len(items) : items[k].op \in {"activate", "drop"}
<1>1. Item \in Items /\ Item.op = "gone"
  BY RestFacts DEF Gone, Busy
<1>2. PICK next \in windows' \cup {NoWindow} :
        Then((IF active # Item.w \/ next = NoWindow THEN <<>>
              ELSE <<[op |-> "activate", w |-> next, n |-> Now]>>)
             \o <<[Item EXCEPT !.op = "drop"]>>)
  BY DEF Gone
<1>3. [Item EXCEPT !.op = "drop"] \in Items /\ [Item EXCEPT !.op = "drop"].op = "drop"
  BY <1>1 DEF Items, Waiting
<1>4. windows' \subseteq Windows
  BY DEF Gone, TypeOK
<1>5. next # NoWindow => [op |-> "activate", w |-> next, n |-> Now] \in Items
  BY <1>2, <1>4, NowNat DEF Items
<1> DEFINE a == IF active # Item.w \/ next = NoWindow THEN <<>>
                ELSE <<[op |-> "activate", w |-> next, n |-> Now]>>
           z == [Item EXCEPT !.op = "drop"]
<1>6. /\ a \in Seq(Items) /\ Len(a) \in {0, 1}
      /\ \A k \in 1..Len(a) : a[k].op = "activate" /\ a[k].n = Now
  BY <1>5, Seqs
<1>7. z \in Items /\ z.op = "drop" /\ Then(a \o <<z>>)
  BY <1>2, <1>3
<1> HIDE DEF a, z
<1>8. /\ a \o <<z>> \in Seq(Items) /\ Len(a \o <<z>>) = Len(a) + 1
      /\ \A k \in 1..(Len(a) + 1) : (a \o <<z>>)[k] = IF k <= Len(a) THEN a[k] ELSE z
  BY <1>6, <1>7, OneMore
<1>9. Tells(a \o <<z>>)
  BY <1>6, <1>7, <1>8 DEF Tells
<1>10. \A k \in 1..Len(a \o <<z>>) : (a \o <<z>>)[k].op \in {"activate", "drop"}
  BY <1>6, <1>7, <1>8
<1> QED BY <1>7, <1>8, <1>9, <1>10, Thens DEF Busy

LEMMA PlainDoes ==
  ASSUME TypeOK, Busy, FocusTaken \/ Post \/ Drop
  PROVE  Swapped(With(<<>>)) /\ Then(<<>>)
<1>1. Then(<<>>)
  BY DEF FocusTaken, Post, Drop
<1> QED BY <1>1, Thens, Seqs DEF Busy
------------------------------------------------------------------------------
(* What a pump does *)

LEMMA TodoFacts ==
  ASSUME NEW ev \in [n : Nat, type : Types], NEW w \in Windows \cup {NoWindow}
  PROVE  /\ Todo(ev, w) \in Seq(Items)
         /\ \A k \in 1..Len(Todo(ev, w)) :
              /\ Todo(ev, w)[k].op \in {"send", "activate", "post", "focus", "taken"}
              /\ Todo(ev, w)[k].op # "taken" => Todo(ev, w)[k].n = ev.n
              /\ Todo(ev, w)[k].op = "post" => k = Len(Todo(ev, w))
         /\ ev.type \notin {"blur", "focus"} =>
              \A k \in 1..Len(Todo(ev, w)) : Todo(ev, w)[k].op \notin {"focus", "taken"}
         /\ ev.type \in {"blur", "focus"} =>
              LET on == ev.type = "focus" IN
                Todo(ev, w) = <<[op |-> "focus", on |-> on, w |-> w, n |-> ev.n],
                                [op |-> "taken", on |-> on]>>
<1> DEFINE c == [op |-> "send", msg |-> "cursor", w |-> w, n |-> ev.n]
           a == [op |-> "activate", w |-> w, n |-> ev.n]
           p == [op |-> "post", w |-> w, n |-> ev.n]
           f == [op |-> "focus", on |-> ev.type = "focus", w |-> w, n |-> ev.n]
           x == [op |-> "taken", on |-> ev.type = "focus"]
<1>1. ev.n \in Nat /\ ev.type \in Types /\ (ev.type = "focus") \in BOOLEAN
  OBVIOUS
<1>2. w # NoWindow => c \in Items /\ a \in Items /\ p \in Items
  BY <1>1 DEF Items, Waiting
<1>3. f \in Items /\ x \in Items
  BY <1>1 DEF Items, Waiting
<1>4. /\ c.op = "send" /\ c.n = ev.n /\ a.op = "activate" /\ a.n = ev.n
      /\ p.op = "post" /\ p.n = ev.n /\ f.op = "focus" /\ f.n = ev.n /\ x.op = "taken"
  OBVIOUS
<1>5. Todo(ev, w) =
        CASE ev.type \in {"down", "up"} ->
               IF w = NoWindow THEN <<>>
               ELSE <<c>> \o (IF ev.type = "down" THEN <<a>> ELSE <<>>) \o <<p>>
          [] ev.type = "key" -> IF w = NoWindow THEN <<>> ELSE <<p>>
          [] OTHER -> <<f, x>>
  BY DEF Todo
<1> HIDE DEF c, a, p, f, x
<1>6. CASE ev.type \in {"down", "up", "key"} /\ w = NoWindow
  <2>1. Todo(ev, w) = <<>>
    BY <1>5, <1>6
  <2> QED BY <2>1, <1>6, Seqs
<1>7. CASE ev.type = "key" /\ w # NoWindow
  <2>1. Todo(ev, w) = <<p>>
    BY <1>5, <1>7
  <2> QED BY <2>1, <1>2, <1>4, <1>7, Seqs
<1>8. CASE ev.type \in {"down", "up"} /\ w # NoWindow
  <2> DEFINE m == IF ev.type = "down" THEN <<a>> ELSE <<>>
  <2>1. /\ m \in Seq(Items) /\ Len(m) \in {0, 1} /\ Len(m) \in Nat
        /\ \A k \in 1..Len(m) : m[k] = a
    BY <1>2, <1>8, Seqs
  <2>2. Todo(ev, w) = <<c>> \o m \o <<p>>
    BY <1>5, <1>8
  <2> HIDE DEF m
  <2>3. /\ <<c>> \o m \in Seq(Items) /\ Len(<<c>> \o m) = 1 + Len(m)
        /\ \A k \in 1..(1 + Len(m)) : (<<c>> \o m)[k] = IF k <= 1 THEN <<c>>[k] ELSE m[k - 1]
    <3>1. <<c>> \in Seq(Items) /\ Len(<<c>>) = 1
      BY <1>2, <1>8, Seqs
    <3> QED BY <2>1, <3>1, ConcatProperties
  <2>4. \A k \in 1..(1 + Len(m)) : (<<c>> \o m)[k] \in {c, a}
    <3> TAKE k \in 1..(1 + Len(m))
    <3>1. CASE k = 1
      BY <2>3, <3>1
    <3>2. CASE k = 2
      BY <2>1, <2>3, <3>2
    <3>3. k \in {1, 2}
      BY <2>1
    <3> QED BY <3>1, <3>2, <3>3
  <2> DEFINE b == <<c>> \o m
  <2>5. b \in Seq(Items) /\ Len(b) \in Nat /\ \A k \in 1..Len(b) : b[k] \in {c, a}
    BY <2>1, <2>3, <2>4
  <2>6. Todo(ev, w) = b \o <<p>>
    BY <2>2
  <2> HIDE DEF b
  <2>7. /\ b \o <<p>> \in Seq(Items) /\ Len(b \o <<p>>) = Len(b) + 1
        /\ \A k \in 1..(Len(b) + 1) : (b \o <<p>>)[k] = IF k <= Len(b) THEN b[k] ELSE p
    BY <2>5, <1>2, <1>8, OneMore
  <2>8. \A k \in 1..(Len(b) + 1) :
          (b \o <<p>>)[k] \in {c, a} \/ (k = Len(b) + 1 /\ (b \o <<p>>)[k] = p)
    BY <2>5, <2>7
  <2> QED BY ZenonT(60), <1>4, <1>8, <2>6, <2>7, <2>8
<1>9. CASE ev.type \in {"blur", "focus"}
  <2>1. Todo(ev, w) = <<f, x>>
    BY <1>5, <1>9
  <2>2. /\ Todo(ev, w) \in Seq(Items) /\ Len(Todo(ev, w)) = 2
        /\ Todo(ev, w)[1] = f /\ Todo(ev, w)[2] = x
    BY <2>1, <1>3, Seqs
  <2>3. \A k \in 1..Len(Todo(ev, w)) : k \in {1, 2}
    BY <2>2
  <2> QED BY <1>4, <1>9, <2>1, <2>2, <2>3 DEF f, x
<1>10. ev.type \in {"down", "up", "key", "blur", "focus"}
  BY <1>1 DEF Types
<1> QED BY <1>6, <1>7, <1>8, <1>9, <1>10

(* An event is taken: it is the next one. *)
LEMMA TakeEventDoes ==
  ASSUME TypeOK, EventsInOrder, TakeEvent
  PROVE  /\ Between /\ Takes /\ Now' = Now + 1 /\ Len(input') <= made /\ EventsInOrder'
         /\ input' \in Seq([n : Nat, type : Types])
         /\ Head(input) \in [n : Nat, type : Types] /\ Head(input).n = Now + 1
         /\ \E w \in windows \cup {NoWindow}, f \in Calls :
              /\ Swapped(f) /\ f.at = "event" /\ f.t = Top.t /\ f.call = Top.call
              /\ f.todo = Todo(Head(input), w)
              /\ Head(input).type \in {"blur", "focus"} => w = Active
<1>1. Between /\ Takes /\ input # <<>> /\ stack # <<>> /\ made' = made
  BY DEF TakeEvent, Between, Takes, hostVars
<1>2. /\ Len(input) \in Nat \ {0} /\ Head(input) = input[1]
      /\ Head(input) \in [n : Nat, type : Types]
      /\ input' \in Seq([n : Nat, type : Types]) /\ Len(input') = Len(input) - 1
      /\ \A i \in 1..(Len(input) - 1) : input'[i] = input[i + 1]
  <2> DEFINE E == [n : Nat, type : Types]
  <2>1. input \in Seq(E) /\ input' = Tail(input)
    BY DEF TakeEvent, TypeOK
  <2> HIDE DEF E
  <2>2. Len(input) \in Nat \ {0} /\ Head(input) \in E
    BY <1>1, <2>1, EmptySeq, HeadTailProperties
  <2>3. /\ input' \in Seq(E) /\ Len(input') = Len(input) - 1
        /\ \A i \in 1..(Len(input) - 1) : input'[i] = input[i + 1]
    BY <1>1, <2>1, HeadTailProperties
  <2>4. Head(input) = input[1]
    BY <1>1, <2>1
  <2> QED BY <2>2, <2>3, <2>4 DEF E
<1>3. Now' = Now + 1 /\ Len(input') <= made /\ Now \in Nat
  BY <1>1, <1>2 DEF Now, TypeOK
<1>4. EventsInOrder'
  <2> SUFFICES ASSUME NEW i \in 1..Len(input') PROVE input'[i].n = Now' + i
    BY DEF EventsInOrder
  <2>1. i + 1 \in 1..Len(input) /\ i \in 1..(Len(input) - 1)
    BY <1>2
  <2>2. input'[i].n = Now + (i + 1)
    BY <1>2, <2>1 DEF EventsInOrder
  <2> QED BY <1>3, <2>2
<1>5. Head(input).n = Now + 1
  BY <1>2 DEF EventsInOrder
<1>6. PICK w \in windows \cup {NoWindow} :
        /\ Replace([Top EXCEPT !.at = "event", !.todo = Todo(Head(input), w)])
        /\ Head(input).type \in {"blur", "focus"} => w = Active
  <2>1. Active \in windows \cup {NoWindow}
    BY DEF Active
  <2>2. \E w \in IF Head(input).type \in {"down", "up"} THEN windows \cup {NoWindow} ELSE {Active} :
          Replace([Top EXCEPT !.at = "event", !.todo = Todo(Head(input), w)])
    BY DEF TakeEvent
  <2> QED BY <2>1, <2>2
<1> DEFINE f == [Top EXCEPT !.at = "event", !.todo = Todo(Head(input), w)]
<1>7. /\ f \in Calls /\ f.at = "event" /\ f.t = Top.t /\ f.call = Top.call
      /\ f.todo = Todo(Head(input), w)
  <2>1. Todo(Head(input), w) \in Seq(Items)
    BY <1>2, <1>6, TodoFacts DEF TypeOK
  <2>2. Top \in Calls
    BY <1>1, StackFacts DEF TypeOK
  <2> QED BY <2>1, <2>2 DEF Calls
<1>8. Swapped(f)
  BY <1>1, <1>6, <1>7, Swaps DEF TypeOK
<1> HIDE DEF f
<1> QED BY <1>1, <1>2, <1>3, <1>4, <1>5, <1>6, <1>7, <1>8

Delivers == [Top EXCEPT !.at = "delivers"]

LEMMA PumpedDoes ==
  ASSUME TypeOK, Pumped
  PROVE  /\ stack # <<>> /\ Top.todo = <<>> /\ Top.at \in {"pump", "event"}
         /\ \/ Top.call = "peek" /\ Swapped(Delivers) /\ Delivers \in Calls
            \/ Top.call # "peek" /\ Popped
<1>1. stack # <<>> /\ Top.todo = <<>> /\ Top.at \in {"pump", "event"}
  BY DEF Pumped, Between
<1>2. Top \in Calls
  BY <1>1, StackFacts DEF TypeOK
<1>3. Delivers \in Calls
  BY <1>2 DEF Delivers, Calls
<1> QED BY <1>1, <1>3, Swaps, Pops DEF Pumped, TypeOK, Delivers

Delivered == [Top EXCEPT !.todo = <<Head(sent[Top.t])>>]

LEMMA TopFits ==
  ASSUME TypeOK, CallsFit, stack # <<>>
  PROVE  /\ Top \in Calls /\ (Top.call = "test") = (Top.t = NoThread)
         /\ Top.call = "test" => Top.at \in {"pump", "event"}
         /\ Top.at \in {"pump", "runs"} => Top.todo = <<>>
         /\ Top.call = "proc" => Top.at = "runs"
         /\ Top.at = "delivers" => Top.t \in Threads
<1>1. Len(stack) \in 1..Len(stack) /\ Top = stack[Len(stack)] /\ Top \in Calls
  BY StackFacts DEF TypeOK
<1>2. /\ (Top.call = "test") = (Top.t = NoThread)
      /\ Top.call = "test" => Top.at \in {"pump", "event"}
      /\ Top.at \in {"pump", "runs"} => Top.todo = <<>>
      /\ Top.call = "proc" => Top.at = "runs"
  BY <1>1 DEF CallsFit
<1>3. Top.at = "delivers" => Top.t \in Threads
  BY <1>1, <1>2 DEF Calls
<1> QED BY <1>1, <1>2, <1>3

LEMMA DeliverDoes ==
  ASSUME TypeOK, CallsFit, Deliver
  PROVE  /\ stack # <<>> /\ Top.at = "delivers" /\ Top.t \in Threads /\ Top.todo = <<>>
         /\ sent[Top.t] # <<>> /\ sent[Top.t] \in Seq(Waiting)
         /\ sent' = [sent EXCEPT ![Top.t] = Tail(@)]
         /\ Head(sent[Top.t]) \in Waiting /\ Head(sent[Top.t]) = sent[Top.t][1]
         /\ Delivered \in Calls /\ Swapped(Delivered)
         /\ Delivered.todo = <<sent[Top.t][1]>> /\ Delivered.at = "delivers"
         /\ Delivered.t = Top.t /\ Delivered.call = Top.call
<1>1. stack # <<>> /\ Top.at = "delivers" /\ Top.todo = <<>> /\ sent[Top.t] # <<>>
      /\ sent' = [sent EXCEPT ![Top.t] = Tail(@)]
  BY DEF Deliver
<1>2. Top.t \in Threads /\ Top \in Calls
  BY <1>1, TopFits
<1>3. sent[Top.t] \in Seq(Waiting)
  BY <1>2 DEF TypeOK
<1>4. Head(sent[Top.t]) \in Waiting /\ Head(sent[Top.t]) = sent[Top.t][1]
  BY <1>1, <1>3, EmptySeq, HeadTailProperties
<1>5. Head(sent[Top.t]) \in Items
  BY <1>4 DEF Items
<1>6. <<Head(sent[Top.t])>> \in Seq(Items)
  BY <1>5, Seqs
<1>7. /\ Delivered \in Calls /\ Delivered.todo = <<sent[Top.t][1]>> /\ Delivered.at = "delivers"
      /\ Delivered.t = Top.t /\ Delivered.call = Top.call
  BY <1>1, <1>2, <1>4, <1>6 DEF Delivered, Calls
<1>8. Swapped(Delivered)
  BY <1>1, <1>7, Swaps DEF Deliver, Delivered, TypeOK
<1> QED BY <1>1, <1>2, <1>3, <1>4, <1>7, <1>8

LEMMA ReturnDoes ==
  ASSUME TypeOK, TakeMessage \/ Return
  PROVE  stack # <<>> /\ Top.todo = <<>> /\ Popped
BY Pops DEF TakeMessage, Return, TypeOK
------------------------------------------------------------------------------
(* The messages posted *)

Fits(f) ==
  /\ (f.call = "test") = (f.t = NoThread)
  /\ f.call = "test" => f.at \in {"pump", "event"}
  /\ f.at \in {"pump", "runs"} => f.todo = <<>>
  /\ f.call = "proc" => f.at = "runs"

NoPosts(f) == \A k \in 1..Len(f.todo) : f.todo[k].op # "post"

(* The posts of f are the last of g's. *)
PostsOf(f, g) ==
  \A k \in 1..Len(f.todo) : f.todo[k].op = "post" =>
    /\ f.at = g.at /\ k = Len(f.todo)
    /\ \E l \in 1..Len(g.todo) : g.todo[l] = f.todo[k]

(* No call begins to handle an event, or gets a message to post. *)
CalmStack ==
  \A i \in 1..Len(stack') :
    /\ Fits(stack'[i])
    /\ stack'[i].at = "event" => i \in 1..Len(stack) /\ stack[i].at = "event"
    /\ NoPosts(stack'[i]) \/ (i \in 1..Len(stack) /\ PostsOf(stack'[i], stack[i]))

LEMMA OldCalm ==
  ASSUME CallsFit, PostsLast, NEW i \in 1..Len(stack)
  PROVE  Fits(stack[i]) /\ PostsOf(stack[i], stack[i])
BY DEF CallsFit, PostsLast, Fits, PostsOf

LEMMA PushCalm ==
  ASSUME TypeOK, CallsFit, PostsLast, NEW f, Pushed(f), Fits(f), f.at # "event", NoPosts(f)
  PROVE  CalmStack
<1> SUFFICES ASSUME NEW i \in 1..Len(stack')
             PROVE  /\ Fits(stack'[i])
                    /\ stack'[i].at = "event" => i \in 1..Len(stack) /\ stack[i].at = "event"
                    /\ NoPosts(stack'[i]) \/ (i \in 1..Len(stack) /\ PostsOf(stack'[i], stack[i]))
  BY DEF CalmStack
<1>1. Len(stack) \in Nat /\ Len(stack') = Len(stack) + 1
  BY DEF Pushed, TypeOK
<1>2. CASE i = Len(stack) + 1
  BY <1>2 DEF Pushed
<1>3. CASE i \in 1..Len(stack)
  BY <1>3, OldCalm DEF Pushed, Same
<1> QED BY <1>1, <1>2, <1>3

LEMMA SwapCalm ==
  ASSUME TypeOK, CallsFit, PostsLast, stack # <<>>, NEW f, Swapped(f), Fits(f),
         f.at = "event" => Top.at = "event", PostsOf(f, Top)
  PROVE  CalmStack
<1> SUFFICES ASSUME NEW i \in 1..Len(stack')
             PROVE  /\ Fits(stack'[i])
                    /\ stack'[i].at = "event" => i \in 1..Len(stack) /\ stack[i].at = "event"
                    /\ NoPosts(stack'[i]) \/ (i \in 1..Len(stack) /\ PostsOf(stack'[i], stack[i]))
  BY DEF CalmStack
<1>1. Len(stack) \in Nat \ {0} /\ Len(stack') = Len(stack) /\ Top = stack[Len(stack)]
  BY StackFacts DEF Swapped, TypeOK
<1>2. CASE i = Len(stack)
  BY <1>1, <1>2 DEF Swapped
<1>3. CASE i \in 1..(Len(stack) - 1)
  <2>1. stack'[i] = stack[i] /\ i \in 1..Len(stack)
    BY <1>1, <1>3 DEF Swapped, Same
  <2> QED BY <2>1, OldCalm
<1> QED BY <1>1, <1>2, <1>3

LEMMA PopCalm ==
  ASSUME TypeOK, CallsFit, PostsLast, stack # <<>>, Popped
  PROVE  CalmStack
<1> SUFFICES ASSUME NEW i \in 1..Len(stack')
             PROVE  /\ Fits(stack'[i])
                    /\ stack'[i].at = "event" => i \in 1..Len(stack) /\ stack[i].at = "event"
                    /\ NoPosts(stack'[i]) \/ (i \in 1..Len(stack) /\ PostsOf(stack'[i], stack[i]))
  BY DEF CalmStack
<1>1. Len(stack) \in Nat \ {0} /\ Len(stack') = Len(stack) - 1
  BY StackFacts DEF Popped, TypeOK
<1>2. stack'[i] = stack[i] /\ i \in 1..Len(stack)
  BY <1>1 DEF Popped, Same
<1> QED BY <1>2, OldCalm

LEMMA CallCalm ==
  ASSUME TypeOK, CallsFit, PostsLast, stack # <<>>, NEW f, NEW g, Called(f, g), Fits(f), Fits(g),
         f.at = "event" => Top.at = "event", g.at # "event", PostsOf(f, Top), NoPosts(g)
  PROVE  CalmStack
<1> SUFFICES ASSUME NEW i \in 1..Len(stack')
             PROVE  /\ Fits(stack'[i])
                    /\ stack'[i].at = "event" => i \in 1..Len(stack) /\ stack[i].at = "event"
                    /\ NoPosts(stack'[i]) \/ (i \in 1..Len(stack) /\ PostsOf(stack'[i], stack[i]))
  BY DEF CalmStack
<1>1. Len(stack) \in Nat \ {0} /\ Len(stack') = Len(stack) + 1 /\ Top = stack[Len(stack)]
  BY StackFacts DEF Called, TypeOK
<1>2. CASE i = Len(stack)
  BY <1>1, <1>2 DEF Called
<1>3. CASE i = Len(stack) + 1
  BY <1>3 DEF Called
<1>4. CASE i \in 1..(Len(stack) - 1)
  <2>1. stack'[i] = stack[i] /\ i \in 1..Len(stack)
    BY <1>1, <1>4 DEF Called, Same
  <2> QED BY <2>1, OldCalm
<1> QED BY <1>1, <1>2, <1>3, <1>4

(* What a call does next of its own: no post is added. *)
LEMMA WithCalm ==
  ASSUME TypeOK, CallsFit, PostsLast, Busy, NEW items \in Seq(Items), Then(items),
         \A k \in 1..Len(items) : items[k].op # "post"
  PROVE  CalmStack
<1> DEFINE f == With(items)
<1>1. /\ Swapped(f) /\ f.t = Top.t /\ f.call = Top.call /\ f.at = Top.at
      /\ Len(f.todo) = Len(items) + Len(Top.todo) - 1
      /\ \A k \in 1..Len(items) : f.todo[k] = items[k]
      /\ \A k \in (Len(items) + 1)..(Len(items) + Len(Top.todo) - 1) :
           f.todo[k] = Top.todo[k - Len(items) + 1]
  BY Thens DEF Busy
<1> HIDE DEF f
<1>2. Fits(f)
  BY <1>1, TopFits DEF Fits, Busy
<1>3. Len(Top.todo) \in Nat \ {0} /\ Len(items) \in Nat
      /\ Len(stack) \in 1..Len(stack) /\ Top = stack[Len(stack)]
  BY RestFacts, StackFacts DEF Busy, TypeOK
<1>4. PostsOf(f, Top)
  <2> SUFFICES ASSUME NEW k \in 1..Len(f.todo), f.todo[k].op = "post"
               PROVE  k = Len(f.todo) /\ \E l \in 1..Len(Top.todo) : Top.todo[l] = f.todo[k]
    BY <1>1 DEF PostsOf
  <2>1. k \in (Len(items) + 1)..(Len(items) + Len(Top.todo) - 1)
    BY <1>1, <1>3
  <2>2. PICK l \in 1..Len(Top.todo) : l = k - Len(items) + 1
    <3>1. k - Len(items) + 1 \in 1..Len(Top.todo)
      BY <1>3, <2>1
    <3> QED BY <3>1
  <2>3. f.todo[k] = Top.todo[l]
    BY <1>1, <2>1, <2>2
  <2>4. l = Len(Top.todo)
    BY <1>3, <2>3 DEF PostsLast
  <2>5. k = Len(f.todo)
    BY <1>1, <1>3, <2>2, <2>4
  <2> QED BY <2>3, <2>5
<1> QED BY <1>1, <1>2, <1>4, SwapCalm DEF Busy

(* A step that takes no event and adds no message keeps the order. *)
LEMMA CalmKeeps ==
  ASSUME PostInv, TypeOK', CalmStack, EventsInOrder', Now' = Now,
         \A t \in Threads : LeftOf(msgs'[t], msgs[t])
  PROVE  PostInv'
<1>1. CallsFit'
  BY DEF CalmStack, CallsFit, Fits
<1>2. OneEvent'
  BY DEF CalmStack, OneEvent, PostInv
<1>3. \A t \in Threads : \A m \in 1..Len(msgs'[t]) : \E l \in 1..Len(msgs[t]) :
        msgs'[t][m] = msgs[t][l]
  <2> TAKE t \in Threads
  <2>1. PICK h \in [1..Len(msgs'[t]) -> 1..Len(msgs[t])] :
          \A k \in 1..Len(msgs'[t]) : msgs'[t][k] = msgs[t][h[k]]
    BY DEF LeftOf
  <2> QED BY <2>1
<1>4. PostsLast'
  <2> SUFFICES ASSUME NEW i \in 1..Len(stack'), NEW k \in 1..Len(stack'[i].todo),
                      stack'[i].todo[k].op = "post"
               PROVE  /\ stack'[i].at = "event" /\ k = Len(stack'[i].todo)
                      /\ stack'[i].todo[k].n = Now
                      /\ \A t \in Threads : \A m \in 1..Len(msgs'[t]) : msgs'[t][m].n < Now
    BY DEF PostsLast
  <2>1. i \in 1..Len(stack) /\ PostsOf(stack'[i], stack[i])
    BY DEF CalmStack, NoPosts
  <2>2. PICK l \in 1..Len(stack[i].todo) : stack[i].todo[l] = stack'[i].todo[k]
    BY <2>1 DEF PostsOf
  <2>3. /\ stack[i].at = "event" /\ stack[i].todo[l].n = Now
        /\ \A t \in Threads : \A m \in 1..Len(msgs[t]) : msgs[t][m].n < Now
    BY <2>1, <2>2 DEF PostInv, PostsLast
  <2>4. stack'[i].at = "event" /\ k = Len(stack'[i].todo)
    BY <2>1, <2>3 DEF PostsOf
  <2> QED BY <1>3, <2>2, <2>3, <2>4
<1>5. PostedBefore'
  BY <1>3 DEF PostInv, PostedBefore
<1>6. PostedInOrder'
  <2> SUFFICES ASSUME NEW t \in Threads, NEW i \in 1..Len(msgs'[t]), NEW j \in 1..Len(msgs'[t]),
                      i < j
               PROVE  msgs'[t][i].n < msgs'[t][j].n
    BY DEF PostedInOrder
  <2>1. PICK h \in [1..Len(msgs'[t]) -> 1..Len(msgs[t])] :
          /\ \A k, l \in 1..Len(msgs'[t]) : k < l => h[k] < h[l]
          /\ \A k \in 1..Len(msgs'[t]) : msgs'[t][k] = msgs[t][h[k]]
    BY DEF LeftOf
  <2>2. h[i] < h[j] /\ h[i] \in 1..Len(msgs[t]) /\ h[j] \in 1..Len(msgs[t])
    BY <2>1
  <2> QED BY <2>1, <2>2 DEF PostInv, PostedInOrder
<1> QED BY <1>1, <1>2, <1>4, <1>5, <1>6 DEF PostInv
LEMMA SameCalm ==
  ASSUME CallsFit, PostsLast, stack' = stack
  PROVE  CalmStack
BY OldCalm DEF CalmStack

LEMMA SameMessages ==
  ASSUME TypeOK, msgs' = msgs
  PROVE  \A t \in Threads : LeftOf(msgs'[t], msgs[t])
BY LeftOfSame DEF TypeOK

LEMMA SameEvents ==
  ASSUME EventsInOrder, made' = made, input' = input
  PROVE  EventsInOrder' /\ Now' = Now
BY DEF EventsInOrder, Now

(* The variables the types speak of, the stack aside *)
typed == <<made, frames, input, windows, active, sent, msgs, focused>>

LEMMA TypedSame ==
  ASSUME TypeOK, UNCHANGED typed, stack' \in Seq(Calls)
  PROVE  TypeOK'
BY DEF TypeOK, typed

LEMMA HostKeeps ==
  ASSUME PostInv, NEW type \in Types, Host(type)
  PROVE  PostInv'
<1> DEFINE E == [n : Nat, type : Types]
           e == [n |-> made + 1, type |-> type]
<1>1. /\ made' = made + 1 /\ input' = Append(input, e) /\ stack' = stack /\ msgs' = msgs
      /\ frames' = frames /\ windows' = windows /\ active' = active /\ sent' = sent
      /\ focused' = focused
  BY DEF Host, gameVars
<1>2. e \in E /\ e.n = made + 1 /\ input \in Seq(E) /\ made \in Nat
  BY DEF PostInv, TypeOK
<1> HIDE DEF E, e
<1>3. /\ input' \in Seq(E) /\ Len(input') = Len(input) + 1 /\ input'[Len(input) + 1] = e
      /\ \A i \in 1..Len(input) : input'[i] = input[i] /\ Len(input) \in Nat
  BY <1>1, <1>2, AppendProperties
<1>4. Now' = Now /\ Len(input') <= made' /\ Len(input) \in Nat /\ Len(input) <= made
  BY <1>1, <1>2, <1>3 DEF Now, PostInv, TypeOK
<1>5. EventsInOrder'
  <2> SUFFICES ASSUME NEW i \in 1..Len(input') PROVE input'[i].n = Now + i
    BY <1>4 DEF EventsInOrder
  <2>1. CASE i = Len(input) + 1
    BY <1>2, <1>3, <1>4, <2>1 DEF Now
  <2>2. CASE i \in 1..Len(input)
    BY <1>3, <2>2 DEF PostInv, EventsInOrder
  <2> QED BY <1>3, <1>4, <2>1, <2>2
<1>6. TypeOK'
  BY <1>1, <1>2, <1>3, <1>4 DEF PostInv, TypeOK, E
<1>7. CalmStack
  BY <1>1, SameCalm DEF PostInv
<1> QED BY <1>1, <1>4, <1>5, <1>6, <1>7, SameMessages, CalmKeeps DEF PostInv

LEMMA IdleKeeps ==
  ASSUME PostInv,
         \/ Age \/ UNCHANGED vars
         \/ \E t \in Threads : Present(t) \/ Reset(t)
  PROVE  PostInv'
<1>1. /\ made' = made /\ input' = input /\ stack' = stack /\ msgs' = msgs
      /\ windows' = windows /\ active' = active /\ sent' = sent /\ focused' = focused
      /\ frames' \in {frames, frames + 1}
  BY DEF Age, Present, Reset, vars, hostVars, gameVars
<1>2. TypeOK'
  <2>1. TypeOK
    BY DEF PostInv
  <2>2. frames' \in Nat
    BY <1>1, <2>1 DEF TypeOK
  <2> QED BY <1>1, <2>1, <2>2 DEF TypeOK
<1>3. CalmStack /\ EventsInOrder' /\ Now' = Now
  BY <1>1, SameCalm, SameEvents DEF PostInv
<1> QED BY <1>1, <1>2, <1>3, SameMessages, CalmKeeps DEF PostInv

LEMMA BeginKeeps ==
  ASSUME PostInv, Places,
         \/ \E t \in Threads : Call(t, "peek") \/ Call(t, "read")
         \/ Call(NoThread, "test")
         \/ \E w \in Windows : Show(w) \/ Destroy(w)
  PROVE  PostInv'
<1>1. /\ made' = made /\ input' = input /\ msgs' = msgs /\ frames' = frames
      /\ windows' = windows /\ active' = active /\ sent' = sent /\ focused' = focused
  BY DEF Call, Show, Destroy, Begin, hostVars
<1>2. \E f \in Calls : Pushed(f) /\ Fits(f) /\ f.at # "event" /\ NoPosts(f)
  <2>1. ASSUME NEW t \in Threads \cup {NoThread}, NEW call \in {"peek", "read", "test"},
               Call(t, call), (call = "test") = (t = NoThread)
        PROVE  \E f \in Calls : Pushed(f) /\ Fits(f) /\ f.at # "event" /\ NoPosts(f)
    <3>1. Pushed(Pumps(t, call)) /\ Pumps(t, call) \in Calls
      BY <2>1, CallDoes DEF PostInv
    <3>2. /\ Pumps(t, call).t = t /\ Pumps(t, call).call = call /\ Pumps(t, call).at = "pump"
          /\ Pumps(t, call).todo = <<>>
      BY DEF Pumps, Frame
    <3>3. Fits(Pumps(t, call)) /\ NoPosts(Pumps(t, call))
      BY <2>1, <3>2 DEF Fits, NoPosts
    <3> QED BY <3>1, <3>2, <3>3
  <2>2. ASSUME NEW w \in Windows, Show(w)
        PROVE  \E f \in Calls : Pushed(f) /\ Fits(f) /\ f.at # "event" /\ NoPosts(f)
    <3>1. Pushed(Shows(w)) /\ Shows(w) \in Calls
      BY <2>2, ShowDoes DEF PostInv
    <3>2. /\ Shows(w).t = Owner[w] /\ Shows(w).call = "show" /\ Shows(w).at = "does"
          /\ Shows(w).todo = <<[op |-> "activate", w |-> w, n |-> Now]>>
      BY DEF Shows, Frame
    <3>3. Fits(Shows(w)) /\ NoPosts(Shows(w))
      BY <3>2 DEF Fits, NoPosts, Places
    <3> QED BY <3>1, <3>2, <3>3
  <2>3. ASSUME NEW w \in Windows, Destroy(w)
        PROVE  \E f \in Calls : Pushed(f) /\ Fits(f) /\ f.at # "event" /\ NoPosts(f)
    <3>1. Pushed(Destroyed(w)) /\ Destroyed(w) \in Calls
      BY <2>3, DestroyDoes DEF PostInv
    <3>2. /\ Destroyed(w).t = Owner[w] /\ Destroyed(w).call = "destroy" /\ Destroyed(w).at = "does"
          /\ Destroyed(w).todo = <<[op |-> "send", msg |-> "destroy", w |-> w, n |-> Now],
                                   [op |-> "gone", w |-> w]>>
      BY DEF Destroyed, Frame
    <3>3. NoPosts(Destroyed(w))
      BY <3>2 DEF NoPosts
    <3>4. Fits(Destroyed(w))
      BY <3>2 DEF Fits, Places
    <3> QED BY <3>1, <3>2, <3>3, <3>4
  <2> QED BY <2>1, <2>2, <2>3 DEF Places
<1>3. PICK f \in Calls : Pushed(f) /\ Fits(f) /\ f.at # "event" /\ NoPosts(f)
  BY <1>2
<1>4. stack' \in Seq(Calls)
  BY <1>3 DEF Pushed
<1>5. TypeOK'
  BY <1>1, <1>4, TypedSame DEF PostInv, typed
<1>6. CalmStack
  BY <1>3, PushCalm DEF PostInv
<1>7. EventsInOrder' /\ Now' = Now
  BY <1>1, SameEvents DEF PostInv
<1> QED BY <1>1, <1>5, <1>6, <1>7, SameMessages, CalmKeeps DEF PostInv

(* What a call does next of its own, its message to post aside *)
LEMMA ThenKeeps ==
  ASSUME PostInv, Busy, NEW items \in Seq(Items), Then(items),
         \A k \in 1..Len(items) : items[k].op # "post",
         made' = made, input' = input, TypeOK',
         \A t \in Threads : LeftOf(msgs'[t], msgs[t])
  PROVE  PostInv'
<1>1. CalmStack
  BY WithCalm DEF PostInv
<1>2. EventsInOrder' /\ Now' = Now
  BY SameEvents DEF PostInv
<1> QED BY <1>1, <1>2, CalmKeeps

LEMMA SwappedSeq ==
  ASSUME NEW f, Swapped(f) PROVE stack' \in Seq(Calls)
BY DEF Swapped

(* A message is put off: the types, and nothing posted *)
LEMMA PutOffTypes ==
  ASSUME TypeOK, Places, PutOff, UNCHANGED <<made, frames, input, windows, active, msgs, focused>>
  PROVE  TypeOK'
<1>1. sent' \in [Threads -> Seq(Waiting)]
  BY DeferredFacts DEF PutOff
<1>2. stack' \in Seq(Calls)
  BY DEF PutOff, Swapped
<1> QED BY <1>1, <1>2 DEF TypeOK

LEMMA SendKeeps ==
  ASSUME PostInv, Places, Busy, Send
  PROVE  PostInv'
<1>1. /\ made' = made /\ input' = input /\ msgs' = msgs /\ frames' = frames
      /\ windows' = windows /\ active' = active /\ focused' = focused
  BY DEF Send, hostVars, gameVars
<1>2. TypeOK
  BY DEF PostInv
<1>3. Item \in Waiting /\ Item.w \in Windows
  BY <1>2, SendDoes DEF Waiting
<1>4. CASE Dropped \/ PutOff
  <2>1. Then(<<>>)
    BY <1>4 DEF Dropped, PutOff
  <2>2. TypeOK'
    <3>1. CASE Dropped
      BY <1>1, <1>2, <3>1, TypedSame DEF Dropped, Swapped, typed
    <3>2. CASE PutOff
      BY <1>1, <1>2, <3>2, PutOffTypes
    <3> QED BY <1>4, <3>1, <3>2
  <2>3. <<>> \in Seq(Items) /\ \A k \in 1..Len(<<>>) : <<>>[k].op # "post"
    BY Seqs
  <2>4. \A t \in Threads : LeftOf(msgs'[t], msgs[t])
    BY <1>1, <1>2, SameMessages
  <2> QED BY <1>1, <2>1, <2>2, <2>3, <2>4, ThenKeeps
<1>5. CASE ~(Deferring /\ MustDefer(Item.w)) /\ Called(Rest, Proc) /\ sent' = sent
  <2>1. ~(Deferring /\ MustDefer(Item.w)) /\ sent' = sent /\ Item.w \in Windows
    BY <1>3, <1>5, SendDoes DEF Waiting
  <2>2. stack' \in Seq(Calls)
    BY <1>5 DEF Called
  <2>3. TypeOK'
    BY <1>1, <1>2, <2>1, <2>2, TypedSame DEF typed
  <2>4. Rest.t = Top.t /\ Rest.call = Top.call /\ Rest.at = Top.at /\ Rest.todo = Tail(Top.todo)
    BY <1>2, RestFacts, StackFacts DEF Busy, TypeOK, Calls
  <2>5. /\ Fits(Top) /\ PostsOf(Top, Top) /\ Top.at \notin {"pump", "runs"}
        /\ Len(stack) \in 1..Len(stack) /\ Top = stack[Len(stack)]
    <3>1. Len(stack) \in 1..Len(stack) /\ Top = stack[Len(stack)]
      BY <1>2, StackFacts DEF Busy, TypeOK
    <3>2. Fits(Top) /\ PostsOf(Top, Top)
      BY <3>1, OldCalm DEF PostInv
    <3> QED BY <3>1, <3>2 DEF Fits, Busy
  <2>6. Fits(Rest)
    BY <2>4, <2>5 DEF Fits
  <2>7. PostsOf(Rest, Top)
    <3> SUFFICES ASSUME NEW k \in 1..Len(Rest.todo), Rest.todo[k].op = "post"
                 PROVE  k = Len(Rest.todo) /\ \E l \in 1..Len(Top.todo) : Top.todo[l] = Rest.todo[k]
      BY <2>4 DEF PostsOf
    <3>1. /\ Len(Rest.todo) = Len(Top.todo) - 1 /\ Len(Top.todo) \in Nat \ {0}
          /\ \A l \in 1..(Len(Top.todo) - 1) : Rest.todo[l] = Top.todo[l + 1]
      BY <1>2, <2>4, RestFacts DEF Busy
    <3>2. k + 1 \in 1..Len(Top.todo) /\ Top.todo[k + 1] = Rest.todo[k]
      BY <3>1
    <3>3. k + 1 = Len(Top.todo)
      BY <2>5, <3>2 DEF PostsOf
    <3> QED BY <3>1, <3>2, <3>3
  <2>8. Top.t # NoThread
    <3> SUFFICES ASSUME Top.t = NoThread PROVE FALSE
      OBVIOUS
    <3>1. Top.at = "event"
      BY <2>5 DEF Fits
    <3>2. Deferring
      BY <2>5, <3>1 DEF Deferring
    <3>3. MustDefer(Item.w)
      BY <2>1 DEF MustDefer, Places
    <3> QED BY <2>1, <3>2, <3>3
  <2>9. Proc.t = Top.t /\ Proc.call = "proc" /\ Proc.at = "runs" /\ Proc.todo = <<>>
    BY DEF Proc, Frame
  <2>10. Fits(Proc) /\ NoPosts(Proc)
    BY <2>8, <2>9 DEF Fits, NoPosts
  <2>11. CalmStack
    BY <1>2, <1>5, <2>4, <2>6, <2>7, <2>9, <2>10, CallCalm DEF PostInv, Busy
  <2>12. EventsInOrder' /\ Now' = Now
    BY <1>1, SameEvents DEF PostInv
  <2> QED BY <1>1, <1>2, <2>3, <2>11, <2>12, SameMessages, CalmKeeps
<1> QED BY <1>2, <1>4, <1>5, SendDoes

LEMMA ActivateKeeps ==
  ASSUME PostInv, Places, Busy, Activate
  PROVE  PostInv'
<1>1. /\ made' = made /\ input' = input /\ msgs' = msgs /\ frames' = frames
      /\ windows' = windows /\ active' = active /\ focused' = focused
  BY DEF Activate, hostVars, gameVars
<1>2. TypeOK /\ \A t \in Threads : LeftOf(msgs'[t], msgs[t])
  BY <1>1, SameMessages DEF PostInv
<1>3. CASE PutOff
  <2>1. TypeOK'
    BY <1>1, <1>2, <1>3, PutOffTypes
  <2>2. <<>> \in Seq(Items) /\ \A k \in 1..Len(<<>>) : <<>>[k].op # "post"
    BY Seqs
  <2> QED BY <1>1, <1>2, <1>3, <2>1, <2>2, ThenKeeps DEF PutOff
<1>4. CASE sent' = sent /\ Swapped(With(AppTold)) /\ Then(AppTold) /\ AppTold \in Seq(Items)
  <2>1. TypeOK'
    BY <1>1, <1>2, <1>4, SwappedSeq, TypedSame DEF typed
  <2>2. \A k \in 1..Len(AppTold) : AppTold[k].op # "post"
    BY DEF AppTold, Send1
  <2> QED BY <1>1, <1>2, <1>4, <2>1, <2>2, ThenKeeps
<1> QED BY <1>2, <1>3, <1>4, ActivateDoes

LEMMA TellKeeps ==
  ASSUME PostInv, Places, Busy, FocusTaken \/ ActivateWindow \/ Activated \/ Gone
  PROVE  PostInv'
<1>1. /\ made' = made /\ input' = input /\ msgs' = msgs /\ frames' = frames /\ sent' = sent
  BY DEF FocusTaken, ActivateWindow, Activated, Gone, hostVars, gameVars
<1>2. TypeOK /\ \A t \in Threads : LeftOf(msgs'[t], msgs[t])
  BY <1>1, SameMessages DEF PostInv
<1>3. \E items \in Seq(Items) :
        /\ Then(items) /\ Swapped(With(items)) /\ \A k \in 1..Len(items) : items[k].op # "post"
  <2>1. CASE FocusTaken
    <3>1. Then(<<>>) /\ Swapped(With(<<>>))
      BY <1>2, <2>1, PlainDoes
    <3>2. <<>> \in Seq(Items) /\ \A k \in 1..Len(<<>>) : <<>>[k].op # "post"
      BY Seqs
    <3> QED BY <3>1, <3>2
  <2>2. \A items : Tells(items) =>
          items \in Seq(Items) /\ \A k \in 1..Len(items) : items[k].op # "post"
    BY DEF Tells
  <2>3. CASE ActivateWindow
    BY <1>2, <2>2, <2>3, ActivateWindowDoes
  <2>4. CASE Activated
    BY <1>2, <2>2, <2>4, ActivatedDoes
  <2>5. CASE Gone
    BY <1>2, <2>2, <2>5, GoneDoes
  <2> QED BY <2>1, <2>3, <2>4, <2>5
<1>4. PICK items \in Seq(Items) :
        /\ Then(items) /\ Swapped(With(items)) /\ \A k \in 1..Len(items) : items[k].op # "post"
  BY <1>3
<1>5. windows' \subseteq Windows /\ active' \in Windows \cup {NoWindow} /\ focused' \in BOOLEAN
  <2>1. CASE FocusTaken
    <3>1. Item \in Items /\ Item.op = "taken"
      BY <1>2, <2>1, RestFacts DEF Busy, FocusTaken
    <3>2. Item.on \in BOOLEAN
      BY <3>1 DEF Items, Waiting
    <3> QED BY <1>2, <2>1, <3>2 DEF FocusTaken, gameVars, TypeOK
  <2>2. CASE ActivateWindow
    BY <1>2, <2>2 DEF ActivateWindow, gameVars, TypeOK
  <2>3. CASE Activated
    BY <1>2, <2>3, ActivatedDoes DEF Activated, TypeOK
  <2>4. CASE Gone
    BY <1>2, <2>4 DEF Gone, TypeOK
  <2> QED BY <2>1, <2>2, <2>3, <2>4
<1>6. stack' \in Seq(Calls)
  BY <1>4, SwappedSeq
<1>7. TypeOK'
  BY <1>1, <1>2, <1>5, <1>6 DEF TypeOK
<1> QED BY <1>1, <1>2, <1>4, <1>7, ThenKeeps

LEMMA DropKeeps ==
  ASSUME PostInv, Places, Busy, Drop
  PROVE  PostInv'
<1>1. /\ made' = made /\ input' = input /\ frames' = frames /\ sent' = sent
      /\ windows' = windows /\ active' = active /\ focused' = focused
      /\ msgs' = [t \in Threads |-> Others(msgs[t], Item.w)]
  BY DEF Drop, hostVars, gameVars
<1>2. TypeOK
  BY DEF PostInv
<1> DEFINE E == [n : Nat, w : Windows]
<1>3. msgs \in [Threads -> Seq(E)]
  BY <1>2 DEF TypeOK
<1> HIDE DEF E
<1>4. \A t \in Threads : msgs'[t] \in Seq(E) /\ LeftOf(msgs'[t], msgs[t])
  <2> TAKE t \in Threads
  <2>1. msgs[t] \in Seq(E) /\ msgs'[t] = Others(msgs[t], Item.w)
    BY <1>1, <1>3
  <2>2. Others(msgs[t], Item.w) \in Seq(E)
    BY <2>1, OthersFacts
  <2>3. PICK h \in [1..Len(Others(msgs[t], Item.w)) -> 1..Len(msgs[t])] :
          /\ \A i, j \in 1..Len(Others(msgs[t], Item.w)) : i < j => h[i] < h[j]
          /\ \A k \in 1..Len(Others(msgs[t], Item.w)) : Others(msgs[t], Item.w)[k] = msgs[t][h[k]]
    BY <2>1, OthersFacts
  <2>4. LeftOf(msgs'[t], msgs[t])
    BY <2>1, <2>3 DEF LeftOf
  <2> QED BY <2>1, <2>2, <2>4
<1>5. msgs' \in [Threads -> Seq(E)]
  BY <1>1, <1>4
<1>6. Then(<<>>) /\ Swapped(With(<<>>))
  BY <1>2, PlainDoes
<1>7. stack' \in Seq(Calls)
  BY <1>6, SwappedSeq
<1>8. TypeOK'
  BY <1>1, <1>2, <1>5, <1>7 DEF TypeOK, E
<1>9. <<>> \in Seq(Items) /\ \A k \in 1..Len(<<>>) : <<>>[k].op # "post"
  BY Seqs
<1> QED BY <1>1, <1>4, <1>6, <1>8, <1>9, ThenKeeps

(* The message of the event being handled is posted: after all the others. *)
LEMMA PostKeeps ==
  ASSUME PostInv, Places, Busy, Post
  PROVE  PostInv'
<1> DEFINE o == Owner[Item.w]
           m == [n |-> Item.n, w |-> Item.w]
           E == [n : Nat, w : Windows]
<1>1. /\ made' = made /\ input' = input /\ frames' = frames /\ sent' = sent
      /\ windows' = windows /\ active' = active /\ focused' = focused
      /\ msgs' = [msgs EXCEPT ![o] = Append(@, m)]
  BY DEF Post, hostVars, gameVars
<1>2. TypeOK
  BY DEF PostInv
<1>3. Item \in Items /\ Item.op = "post" /\ Item = Top.todo[1] /\ Len(Top.todo) \in Nat \ {0}
      /\ Len(stack) \in 1..Len(stack) /\ Top = stack[Len(stack)]
  <2>1. Item \in Items /\ Item = Top.todo[1] /\ Len(Top.todo) \in Nat \ {0}
    BY <1>2, RestFacts DEF Busy
  <2>2. Len(stack) \in Nat \ {0} /\ Top = stack[Len(stack)]
    BY <1>2, StackFacts DEF Busy, TypeOK
  <2>3. Item.op = "post"
    BY DEF Post
  <2> QED BY <2>1, <2>2, <2>3
<1>4. Item.w \in Windows /\ Item.n \in Nat
  BY <1>3 DEF Items, Waiting
<1>5. o \in Threads /\ m \in E /\ m.n = Item.n /\ msgs \in [Threads -> Seq(E)]
  BY <1>2, <1>4 DEF Places, TypeOK
<1> HIDE DEF o, m, E
<1>6. /\ Top.at = "event" /\ Len(Top.todo) = 1 /\ Item.n = Now
      /\ \A t \in Threads : \A l \in 1..Len(msgs[t]) : msgs[t][l].n < Now
  <2>1. PICK i \in 1..Len(stack) : i = Len(stack)
    BY <1>3
  <2>2. 1 \in 1..Len(stack[i].todo) /\ stack[i].todo[1].op = "post"
    BY <1>3, <2>1
  <2>3. PostsLast
    BY DEF PostInv
  <2>4. /\ stack[i].at = "event" /\ 1 = Len(stack[i].todo) /\ stack[i].todo[1].n = Now
        /\ \A t \in Threads : \A l \in 1..Len(msgs[t]) : msgs[t][l].n < Now
    BY <2>2, <2>3 DEF PostsLast
  <2> QED BY <1>3, <2>1, <2>4
<1>7. /\ Swapped(With(<<>>)) /\ With(<<>>).t = Top.t /\ With(<<>>).call = Top.call
      /\ With(<<>>).at = Top.at /\ Len(With(<<>>).todo) = 0
  <2>1. Then(<<>>) /\ <<>> \in Seq(Items) /\ Len(<<>>) = 0
    BY Seqs DEF Post
  <2>2. /\ Swapped(With(<<>>)) /\ With(<<>>).t = Top.t /\ With(<<>>).call = Top.call
        /\ With(<<>>).at = Top.at /\ Len(With(<<>>).todo) = Len(<<>>) + Len(Top.todo) - 1
    BY <1>2, <2>1, Thens DEF Busy
  <2> QED BY <1>6, <2>1, <2>2
<1>8. PostsOf(With(<<>>), Top) /\ NoPosts(With(<<>>))
  BY <1>7 DEF PostsOf, NoPosts
<1>9. Fits(With(<<>>))
  BY <1>2, <1>6, <1>7, TopFits DEF Fits, Busy, PostInv
<1>10. /\ msgs'[o] \in Seq(E) /\ Len(msgs'[o]) = Len(msgs[o]) + 1 /\ Len(msgs[o]) \in Nat
       /\ msgs'[o][Len(msgs[o]) + 1] = m
       /\ \A l \in 1..Len(msgs[o]) : msgs'[o][l] = msgs[o][l]
  BY <1>1, <1>5, AppendProperties
<1>11. \A t \in Threads : t # o => msgs'[t] = msgs[t]
  BY <1>1, <1>5
<1>12. TypeOK'
  <2>1. msgs' \in [Threads -> Seq(E)]
    BY <1>1, <1>5, <1>10
  <2>2. stack' \in Seq(Calls)
    BY <1>7, SwappedSeq
  <2> QED BY <1>1, <1>2, <2>1, <2>2 DEF TypeOK, E
<1>13. CalmStack
  BY <1>2, <1>7, <1>8, <1>9, <1>6, SwapCalm DEF PostInv, Busy
<1>14. EventsInOrder' /\ Now' = Now
  BY <1>1, SameEvents DEF PostInv
<1>15. CallsFit' /\ OneEvent'
  BY <1>13 DEF CalmStack, CallsFit, Fits, OneEvent, PostInv
<1>16. \A i \in 1..Len(stack') : NoPosts(stack'[i])
  <2> TAKE i \in 1..Len(stack')
  <2>1. Len(stack') = Len(stack) /\ Len(stack) \in Nat
    BY <1>2, <1>7 DEF Swapped, TypeOK
  <2>2. CASE i = Len(stack)
    BY <1>7, <1>8, <2>2 DEF Swapped
  <2>3. CASE i \in 1..(Len(stack) - 1)
    <3>1. stack'[i] = stack[i] /\ i # Len(stack) /\ i \in 1..Len(stack)
      BY <1>7, <2>1, <2>3 DEF Swapped, Same
    <3>2. stack[i].at # "event"
      BY <1>3, <1>6, <3>1 DEF PostInv, OneEvent
    <3> QED BY <3>1, <3>2 DEF PostInv, PostsLast, NoPosts
  <2> QED BY <2>1, <2>2, <2>3
<1>17. PostsLast'
  BY <1>16 DEF PostsLast, NoPosts
<1>18. \A t \in Threads : \A l \in 1..Len(msgs'[t]) :
         (t = o /\ l = Len(msgs[o]) + 1 /\ msgs'[t][l] = m) \/ (l \in 1..Len(msgs[t]) /\ msgs'[t][l] = msgs[t][l])
  BY <1>10, <1>11
<1>19. Now \in Nat
  BY <1>2, NowNat
<1>20. PostedBefore'
  BY SMTT(30), <1>5, <1>6, <1>14, <1>18, <1>19 DEF PostedBefore, PostInv
<1>21. PostedInOrder'
  <2> SUFFICES ASSUME NEW t \in Threads, NEW i \in 1..Len(msgs'[t]), NEW j \in 1..Len(msgs'[t]),
                      i < j
               PROVE  msgs'[t][i].n < msgs'[t][j].n
    BY DEF PostedInOrder
  <2>1. CASE t # o
    BY <1>11, <2>1 DEF PostInv, PostedInOrder
  <2>2. CASE t = o /\ j = Len(msgs[o]) + 1
    <3>1. i \in 1..Len(msgs[o])
      BY <1>10, <2>2
    <3> QED BY <1>5, <1>6, <1>10, <2>2, <3>1
  <2>3. CASE t = o /\ j \in 1..Len(msgs[o])
    BY SMTT(30), <1>10, <2>3 DEF PostInv, PostedInOrder
  <2> QED BY <1>10, <2>1, <2>2, <2>3
<1> QED BY <1>12, <1>14, <1>15, <1>17, <1>20, <1>21 DEF PostInv
LEMMA TakeEventKeeps ==
  ASSUME PostInv, TakeEvent
  PROVE  PostInv'
<1>1. TypeOK
  BY DEF PostInv
<1>2. /\ Between /\ Takes /\ Now' = Now + 1 /\ Len(input') <= made /\ EventsInOrder'
      /\ input' \in Seq([n : Nat, type : Types])
      /\ Head(input) \in [n : Nat, type : Types] /\ Head(input).n = Now + 1
  BY <1>1, TakeEventDoes DEF PostInv
<1>3. PICK w \in windows \cup {NoWindow}, f \in Calls :
        /\ Swapped(f) /\ f.at = "event" /\ f.t = Top.t /\ f.call = Top.call
        /\ f.todo = Todo(Head(input), w)
  BY <1>1, TakeEventDoes DEF PostInv
<1>4. /\ made' = made /\ frames' = frames /\ sent' = sent /\ msgs' = msgs
      /\ windows' = windows /\ active' = active /\ focused' = focused
  BY DEF TakeEvent, hostVars, gameVars
<1>5. stack # <<>> /\ Top.at \in {"pump", "event"} /\ Top.todo = <<>> /\ ~Pumping
  BY <1>2 DEF Between, Takes
<1>6. /\ Len(stack) \in Nat \ {0} /\ Top = stack[Len(stack)] /\ Len(stack) \in 1..Len(stack)
      /\ Len(stack') = Len(stack) /\ stack'[Len(stack)] = f
      /\ \A i \in 1..(Len(stack) - 1) : stack'[i] = stack[i] /\ i \in 1..Len(stack)
  BY <1>1, <1>3, <1>5, StackFacts DEF TypeOK, Swapped, Same
<1>7. \A i \in 1..(Len(stack) - 1) : stack[i].at # "event"
  BY <1>5 DEF Pumping
<1>8. TypeOK'
  <2>1. stack' \in Seq(Calls)
    BY <1>3, SwappedSeq
  <2> QED BY <1>1, <1>2, <1>4, <2>1 DEF TypeOK
<1>9. OneEvent'
  BY SMTT(30), <1>6, <1>7 DEF OneEvent
<1>10. CallsFit'
  <2> SUFFICES ASSUME NEW i \in 1..Len(stack')
               PROVE  /\ (stack'[i].call = "test") = (stack'[i].t = NoThread)
                      /\ stack'[i].call = "test" => stack'[i].at \in {"pump", "event"}
                      /\ stack'[i].at \in {"pump", "runs"} => stack'[i].todo = <<>>
                      /\ stack'[i].call = "proc" => stack'[i].at = "runs"
    BY DEF CallsFit
  <2>1. CASE i = Len(stack)
    BY <1>1, <1>3, <1>5, <1>6, <2>1, TopFits DEF PostInv
  <2>2. CASE i \in 1..(Len(stack) - 1)
    BY <1>6, <2>2 DEF PostInv, CallsFit
  <2> QED BY <1>6, <2>1, <2>2
<1>11. Now \in Nat
  BY <1>1, NowNat
<1>12. \A t \in Threads : \A m \in 1..Len(msgs[t]) : msgs[t][m].n < Now + 1 /\ msgs[t][m].n \in Nat
  <2> TAKE t \in Threads
  <2> TAKE m \in 1..Len(msgs[t])
  <2> DEFINE E == [n : Nat, w : Windows]
  <2>1. msgs[t][m].n \in Nat
    <3>1. msgs \in [Threads -> Seq(E)]
      BY <1>1 DEF TypeOK
    <3> HIDE DEF E
    <3>2. msgs[t][m] \in E
      BY <3>1
    <3> QED BY <3>2 DEF E
  <2>2. msgs[t][m].n <= Now
    BY DEF PostInv, PostedBefore
  <2> QED BY <1>11, <2>1, <2>2
<1>13. PostsLast'
  <2> SUFFICES ASSUME NEW i \in 1..Len(stack'), NEW k \in 1..Len(stack'[i].todo),
                      stack'[i].todo[k].op = "post"
               PROVE  /\ stack'[i].at = "event" /\ k = Len(stack'[i].todo)
                      /\ stack'[i].todo[k].n = Now + 1
    BY <1>2, <1>4, <1>12 DEF PostsLast
  <2>1. CASE i = Len(stack)
    <3>1. w \in Windows \cup {NoWindow}
      BY <1>1, <1>3 DEF TypeOK
    <3>2. k \in 1..Len(Todo(Head(input), w)) /\ Todo(Head(input), w)[k].op = "post"
      BY <1>3, <1>6, <2>1
    <3>3. /\ Todo(Head(input), w)[k].n = Head(input).n
          /\ k = Len(Todo(Head(input), w))
      BY <1>2, <3>1, <3>2, TodoFacts
    <3> QED BY <1>2, <1>3, <1>6, <2>1, <3>3
  <2>2. CASE i \in 1..(Len(stack) - 1)
    <3>1. stack'[i] = stack[i] /\ i \in 1..Len(stack) /\ stack[i].at # "event"
      BY <1>6, <1>7, <2>2
    <3> QED BY <3>1 DEF PostInv, PostsLast
  <2> QED BY <1>6, <2>1, <2>2
<1>14. PostedBefore'
  BY <1>2, <1>4, <1>11, <1>12 DEF PostedBefore
<1>15. PostedInOrder'
  BY <1>4 DEF PostInv, PostedInOrder
<1> QED BY <1>2, <1>8, <1>9, <1>10, <1>13, <1>14, <1>15 DEF PostInv

LEMMA PumpedKeeps ==
  ASSUME PostInv, Pumped
  PROVE  PostInv'
<1>1. TypeOK /\ CallsFit /\ PostsLast
  BY DEF PostInv
<1>2. /\ made' = made /\ input' = input /\ frames' = frames /\ sent' = sent /\ msgs' = msgs
      /\ windows' = windows /\ active' = active /\ focused' = focused
  BY DEF Pumped, hostVars
<1>3. stack # <<>> /\ Top.todo = <<>>
  BY <1>1, PumpedDoes
<1>4. CASE Popped
  <2>1. CalmStack
    BY <1>1, <1>3, <1>4, PopCalm
  <2>2. TypeOK'
    BY <1>1, <1>2, <1>4, TypedSame DEF typed, Popped
  <2> QED BY <1>1, <1>2, <2>1, <2>2, SameEvents, SameMessages, CalmKeeps DEF PostInv
<1>5. CASE Top.call = "peek" /\ Swapped(Delivers) /\ Delivers \in Calls
  <2>1. /\ Delivers.at = "delivers" /\ Delivers.t = Top.t /\ Delivers.call = Top.call
        /\ Delivers.todo = Top.todo
    <3>1. Top \in Calls
      BY <1>1, <1>3, TopFits
    <3> QED BY <3>1 DEF Delivers, Calls
  <2>2. Fits(Delivers)
    <3>1. (Top.call = "test") = (Top.t = NoThread)
      BY <1>1, <1>3, TopFits
    <3> QED BY <1>5, <2>1, <3>1 DEF Fits
  <2>3. PostsOf(Delivers, Top)
    BY <1>3, <2>1 DEF PostsOf
  <2>4. CalmStack
    <3>1. Swapped(Delivers) /\ Delivers.at # "event"
      BY <1>5, <2>1
    <3> QED BY <1>1, <1>3, <2>2, <2>3, <3>1, SwapCalm
  <2>5. TypeOK'
    BY <1>1, <1>2, <1>5, SwappedSeq, TypedSame DEF typed
  <2> QED BY <1>1, <1>2, <2>4, <2>5, SameEvents, SameMessages, CalmKeeps DEF PostInv
<1> QED BY <1>1, <1>4, <1>5, PumpedDoes

LEMMA DeliverKeeps ==
  ASSUME PostInv, Deliver
  PROVE  PostInv'
<1>1. TypeOK
  BY DEF PostInv
<1>2. /\ made' = made /\ input' = input /\ frames' = frames /\ msgs' = msgs
      /\ windows' = windows /\ active' = active /\ focused' = focused
  BY DEF Deliver, hostVars, gameVars
<1>3. /\ stack # <<>> /\ Top.at = "delivers" /\ Top.t \in Threads
      /\ sent[Top.t] # <<>> /\ sent[Top.t] \in Seq(Waiting)
      /\ sent' = [sent EXCEPT ![Top.t] = Tail(@)]
      /\ Head(sent[Top.t]) \in Waiting /\ Head(sent[Top.t]) = sent[Top.t][1]
      /\ Delivered \in Calls /\ Swapped(Delivered)
      /\ Delivered.todo = <<sent[Top.t][1]>> /\ Delivered.at = "delivers"
      /\ Delivered.t = Top.t /\ Delivered.call = Top.call
  BY <1>1, DeliverDoes DEF PostInv
<1>4. sent' \in [Threads -> Seq(Waiting)]
  <2>1. sent \in [Threads -> Seq(Waiting)]
    BY <1>1 DEF TypeOK
  <2>2. Tail(sent[Top.t]) \in Seq(Waiting)
    BY <1>3, HeadTailProperties
  <2> QED BY <1>3, <2>1, <2>2
<1>5. sent[Top.t][1].op # "post"
  BY <1>3 DEF Waiting
<1>6. PostsOf(Delivered, Top)
  BY <1>3, <1>5 DEF PostsOf
<1>7. Fits(Delivered)
  BY <1>1, <1>3, TopFits DEF Fits, PostInv
<1>8. CalmStack
  BY <1>1, <1>3, <1>6, <1>7, SwapCalm DEF PostInv
<1>9. TypeOK'
  <2>1. stack' \in Seq(Calls)
    BY <1>3, SwappedSeq
  <2> QED BY <1>1, <1>2, <1>4, <2>1 DEF TypeOK
<1> QED BY <1>1, <1>2, <1>8, <1>9, SameEvents, SameMessages, CalmKeeps DEF PostInv

LEMMA ReturnKeeps ==
  ASSUME PostInv, TakeMessage \/ Return
  PROVE  PostInv'
<1>1. TypeOK
  BY DEF PostInv
<1>2. /\ made' = made /\ input' = input /\ frames' = frames /\ sent' = sent
      /\ windows' = windows /\ active' = active /\ focused' = focused
  BY DEF TakeMessage, Return, hostVars, gameVars
<1>3. stack # <<>> /\ Popped
  BY <1>1, ReturnDoes
<1>4. CalmStack
  BY <1>1, <1>3, PopCalm DEF PostInv
<1>5. stack' \in Seq(Calls)
  BY <1>3 DEF Popped
<1> DEFINE E == [n : Nat, w : Windows]
<1>6. msgs \in [Threads -> Seq(E)]
  BY <1>1 DEF TypeOK
<1> HIDE DEF E
<1>7. msgs' \in [Threads -> Seq(E)] /\ \A t \in Threads : LeftOf(msgs'[t], msgs[t])
  <2>1. CASE msgs' = msgs
    BY <1>1, <1>6, <2>1, SameMessages
  <2>2. CASE TakeMessage /\ msgs' # msgs
    <3>1. PICK i \in Taken(msgs[Top.t]) : msgs' = [msgs EXCEPT ![Top.t] = RemoveAt(@, i)]
      BY <2>2 DEF TakeMessage
    <3>2. Top.t \in Threads
      BY <1>1, <1>3, <2>2, TopFits DEF TakeMessage, PostInv
    <3>3. i \in 1..Len(msgs[Top.t]) /\ msgs[Top.t] \in Seq(E)
      BY <1>6, <3>2 DEF Taken
    <3>4. RemoveAt(msgs[Top.t], i) \in Seq(E) /\ LeftOf(RemoveAt(msgs[Top.t], i), msgs[Top.t])
      BY <3>3, RemoveAtFacts, LeftOfRemoved
    <3>5. msgs' \in [Threads -> Seq(E)]
      BY <1>6, <3>1, <3>4
    <3>6. \A t \in Threads : LeftOf(msgs'[t], msgs[t])
      <4> TAKE t \in Threads
      <4>1. CASE t = Top.t
        BY <1>6, <3>1, <3>4, <4>1
      <4>2. CASE t # Top.t
        <5>1. msgs'[t] = msgs[t] /\ msgs[t] \in Seq(E)
          BY <1>6, <3>1, <4>2
        <5> QED BY <5>1, LeftOfSame
      <4> QED BY <4>1, <4>2
    <3> QED BY <3>5, <3>6
  <2>3. Return => msgs' = msgs
    BY DEF Return
  <2> QED BY <2>1, <2>2, <2>3
<1>8. TypeOK'
  BY <1>1, <1>2, <1>5, <1>7 DEF TypeOK, E
<1> QED BY <1>1, <1>2, <1>4, <1>7, <1>8, SameEvents, CalmKeeps DEF PostInv

LEMMA PostFirst ==
  ASSUME Places, Init
  PROVE  PostInv
<1>1. /\ made = 0 /\ input = <<>> /\ stack = <<>> /\ windows = Windows /\ active \in Windows
      /\ sent = [t \in Threads |-> <<>>] /\ msgs = [t \in Threads |-> <<>>]
      /\ frames = 1 /\ focused = TRUE
  BY DEF Init
<1>2. TypeOK
  <2>1. Len(input) = 0 /\ input \in Seq([n : Nat, type : Types]) /\ stack \in Seq(Calls)
    BY <1>1
  <2>2. sent \in [Threads -> Seq(Waiting)] /\ msgs \in [Threads -> Seq([n : Nat, w : Windows])]
    BY <1>1
  <2> QED BY <1>1, <2>1, <2>2 DEF TypeOK
<1>3. EventsInOrder /\ CallsFit /\ OneEvent /\ PostsLast
  BY <1>1 DEF EventsInOrder, CallsFit, OneEvent, PostsLast
<1>4. PostedBefore /\ PostedInOrder
  BY <1>1 DEF PostedBefore, PostedInOrder
<1> QED BY <1>2, <1>3, <1>4 DEF PostInv

LEMMA PostStep ==
  ASSUME Places, PostInv, [Next]_vars
  PROVE  PostInv'
<1>1. CASE UNCHANGED vars
  BY <1>1, IdleKeeps
<1>2. ASSUME NEW type \in Types, Host(type) PROVE PostInv'
  BY <1>2, HostKeeps
<1>3. CASE Age
  BY <1>3, IdleKeeps
<1>4. ASSUME NEW t \in Threads, Call(t, "peek") \/ Call(t, "read") PROVE PostInv'
  BY <1>4, BeginKeeps
<1>5. ASSUME NEW t \in Threads, Present(t) \/ Reset(t) PROVE PostInv'
  BY <1>5, IdleKeeps
<1>6. CASE Call(NoThread, "test")
  BY <1>6, BeginKeeps
<1>7. ASSUME NEW w \in Windows, Show(w) \/ Destroy(w) PROVE PostInv'
  BY <1>7, BeginKeeps
<1>8. CASE Does
  <2>1. Busy
    BY <1>8 DEF Does, Busy
  <2>2. CASE Send
    BY <2>1, <2>2, SendKeeps
  <2>3. CASE Activate
    BY <2>1, <2>3, ActivateKeeps
  <2>4. CASE FocusTaken \/ ActivateWindow \/ Activated \/ Gone
    BY <2>1, <2>4, TellKeeps
  <2>5. CASE Post
    BY <2>1, <2>5, PostKeeps
  <2>6. CASE Drop
    BY <2>1, <2>6, DropKeeps
  <2> QED BY <1>8, <2>2, <2>3, <2>4, <2>5, <2>6 DEF Does
<1>9. CASE TakeEvent
  BY <1>9, TakeEventKeeps
<1>10. CASE Pumped
  BY <1>10, PumpedKeeps
<1>11. CASE Deliver
  BY <1>11, DeliverKeeps
<1>12. CASE TakeMessage \/ Return
  BY <1>12, ReturnKeeps
<1> QED BY <1>1, <1>2, <1>3, <1>4, <1>5, <1>6, <1>7, <1>8, <1>9, <1>10, <1>11, <1>12 DEF Next

(* Messages posted for the host's events stand in their order, each once,  *)
(* whatever is called for them and however many threads pump: one event is *)
(* handled at a time, and its message is the last thing done for it        *)
(* (user32.js pump).                                                       *)
THEOREM PostedInOrderAlways ==
  ASSUME Places
  PROVE  Spec => []PostedInOrder
<1>1. Init => PostInv
  BY PostFirst
<1>2. PostInv /\ [Next]_vars => PostInv'
  BY PostStep
<1>3. PostInv => PostedInOrder
  BY DEF PostInv
<1> QED BY <1>1, <1>2, <1>3, PTL DEF Spec
------------------------------------------------------------------------------
(* The messages sent *)

(* what the call f does, it does for the event being handled *)
Timed == {"send", "focus", "activate", "activated"}
NowOnly(f) == \A k \in 1..Len(f.todo) : f.todo[k].op \in Timed => f.todo[k].n = Now

(* f may lie on top of the event's handling at i. *)
Above(f, i) ==
  stack[i].t \in Threads /\ sent[stack[i].t] = <<>> /\ f.t \in {stack[i].t, NoThread}

LEMMA UnderFacts ==
  ASSUME UnderEvent, NEW i \in 1..Len(stack), NEW j \in 1..Len(stack),
         stack[i].at = "event", i <= j
  PROVE  NowOnly(stack[j]) /\ (i < j => Above(stack[j], i))
BY DEF UnderEvent, NowOnly, Above, Timed

(* Every call of the new stack fits on what is below it. *)
Under(i, j) ==
  /\ \A k \in 1..Len(stack'[j].todo) :
       stack'[j].todo[k].op \in Timed => stack'[j].todo[k].n = Now
  /\ i < j => /\ stack'[i].t \in Threads /\ sent'[stack'[i].t] = <<>>
              /\ stack'[j].t \in {stack'[i].t, NoThread}

LEMMA UnderOf ==
  ASSUME Now' = Now,
         \A i, j \in 1..Len(stack') : stack'[i].at = "event" /\ i <= j => Under(i, j)
  PROVE  UnderEvent'
BY DEF UnderEvent, Under, Timed

LEMMA SameUnder ==
  ASSUME UnderEvent, Now' = Now, stack' = stack, sent' = sent
  PROVE  UnderEvent'
BY DEF UnderEvent

LEMMA PushUnder ==
  ASSUME TypeOK, UnderEvent, Now' = Now, sent' = sent,
         NEW f, Pushed(f), f.at # "event", NowOnly(f),
         \A i \in 1..Len(stack) : stack[i].at = "event" => Above(f, i)
  PROVE  UnderEvent'
<1>1. Len(stack) \in Nat /\ Len(stack') = Len(stack) + 1 /\ stack'[Len(stack) + 1] = f
      /\ \A i \in 1..Len(stack) : stack'[i] = stack[i]
  BY DEF Pushed, Same, TypeOK
<1> SUFFICES ASSUME NEW i \in 1..Len(stack'), NEW j \in 1..Len(stack'),
                    stack'[i].at = "event", i <= j
             PROVE  Under(i, j)
  BY UnderOf
<1>2. i \in 1..Len(stack) /\ stack'[i] = stack[i]
  BY <1>1
<1>3. CASE j = Len(stack) + 1
  BY <1>1, <1>2, <1>3 DEF Under, Above, NowOnly
<1>4. CASE j \in 1..Len(stack)
  BY <1>1, <1>2, <1>4, UnderFacts DEF Under, Above, NowOnly
<1> QED BY <1>1, <1>3, <1>4

LEMMA SwapUnder ==
  ASSUME TypeOK, UnderEvent, Now' = Now, stack # <<>>,
         NEW f, Swapped(f), f.t = Top.t, f.at = "event" => Top.at = "event",
         Deferring => NowOnly(f),
         \A i \in 1..(Len(stack) - 1) : stack[i].at = "event" => sent'[stack[i].t] = <<>>
  PROVE  UnderEvent'
<1>1. Len(stack) \in Nat \ {0} /\ Len(stack') = Len(stack) /\ stack'[Len(stack)] = f
      /\ (\A i \in 1..(Len(stack) - 1) : stack'[i] = stack[i]) /\ Top = stack[Len(stack)]
  BY StackFacts DEF Swapped, Same, TypeOK
<1> SUFFICES ASSUME NEW i \in 1..Len(stack'), NEW j \in 1..Len(stack'),
                    stack'[i].at = "event", i <= j
             PROVE  Under(i, j)
  BY UnderOf
<1>2. i \in 1..Len(stack) /\ j \in 1..Len(stack) /\ stack[i].at = "event"
      /\ stack'[i].t = stack[i].t /\ stack'[j].t = stack[j].t
  BY <1>1
<1>3. Deferring
  BY <1>2 DEF Deferring
<1>4. NowOnly(stack[j]) /\ (i < j => Above(stack[j], i))
  BY <1>2, UnderFacts
<1>5. NowOnly(stack'[j])
  BY <1>1, <1>3, <1>4
<1>6. i < j => sent'[stack[i].t] = <<>>
  BY <1>1, <1>2
<1> QED BY <1>2, <1>4, <1>5, <1>6 DEF Under, Above, NowOnly

LEMMA PopUnder ==
  ASSUME TypeOK, UnderEvent, Now' = Now, sent' = sent, stack # <<>>, Popped
  PROVE  UnderEvent'
<1>1. Len(stack) \in Nat \ {0} /\ Len(stack') = Len(stack) - 1
      /\ (\A i \in 1..(Len(stack) - 1) : stack'[i] = stack[i])
  BY StackFacts DEF Popped, Same, TypeOK
<1> SUFFICES ASSUME NEW i \in 1..Len(stack'), NEW j \in 1..Len(stack'),
                    stack'[i].at = "event", i <= j
             PROVE  Under(i, j)
  BY UnderOf
<1>2. i \in 1..Len(stack) /\ j \in 1..Len(stack) /\ stack'[i] = stack[i] /\ stack'[j] = stack[j]
  BY <1>1
<1> QED BY <1>2, UnderFacts DEF Under, Above, NowOnly

LEMMA CallUnder ==
  ASSUME TypeOK, UnderEvent, Now' = Now, sent' = sent, stack # <<>>,
         NEW f, NEW g, Called(f, g), f.t = Top.t, f.at = Top.at,
         Deferring => NowOnly(f), NowOnly(g), g.at # "event",
         \A i \in 1..Len(stack) : stack[i].at = "event" => Above(g, i)
  PROVE  UnderEvent'
<1>1. Len(stack) \in Nat \ {0} /\ Len(stack') = Len(stack) + 1
      /\ stack'[Len(stack)] = f /\ stack'[Len(stack) + 1] = g
      /\ (\A i \in 1..(Len(stack) - 1) : stack'[i] = stack[i]) /\ Top = stack[Len(stack)]
  BY StackFacts DEF Called, Same, TypeOK
<1> SUFFICES ASSUME NEW i \in 1..Len(stack'), NEW j \in 1..Len(stack'),
                    stack'[i].at = "event", i <= j
             PROVE  Under(i, j)
  BY UnderOf
<1>2. i \in 1..Len(stack) /\ stack[i].at = "event" /\ stack'[i].t = stack[i].t
  BY <1>1
<1>3. Deferring
  BY <1>2 DEF Deferring
<1>4. CASE j = Len(stack) + 1
  BY <1>1, <1>2, <1>4 DEF Under, Above, NowOnly
<1>5. CASE j \in 1..Len(stack)
  <2>1. NowOnly(stack[j]) /\ (i < j => Above(stack[j], i)) /\ stack'[j].t = stack[j].t
    BY <1>1, <1>2, <1>5, UnderFacts
  <2>2. NowOnly(stack'[j])
    BY <1>1, <1>3, <1>5, <2>1
  <2> QED BY <1>2, <2>1, <2>2 DEF Under, Above, NowOnly
<1> QED BY <1>1, <1>4, <1>5

(* What is left of those that wait is in order. *)
LEMMA LeftSent ==
  ASSUME SentBefore, SentInOrder, Now' = Now, \A t \in Threads : LeftOf(sent'[t], sent[t])
  PROVE  SentBefore' /\ SentInOrder'
<1>1. SentBefore'
  <2> SUFFICES ASSUME NEW t \in Threads, NEW m \in 1..Len(sent'[t])
               PROVE  sent'[t][m].n <= Now /\ Owner[sent'[t][m].w] = t
    BY DEF SentBefore
  <2>1. PICK h \in [1..Len(sent'[t]) -> 1..Len(sent[t])] :
          \A k \in 1..Len(sent'[t]) : sent'[t][k] = sent[t][h[k]]
    BY DEF LeftOf
  <2>2. h[m] \in 1..Len(sent[t]) /\ sent'[t][m] = sent[t][h[m]]
    BY <2>1
  <2> QED BY <2>2 DEF SentBefore
<1>2. SentInOrder'
  <2> SUFFICES ASSUME NEW t \in Threads, NEW i \in 1..Len(sent'[t]), NEW j \in 1..Len(sent'[t]),
                      i < j
               PROVE  sent'[t][i].n <= sent'[t][j].n
    BY DEF SentInOrder
  <2>1. PICK h \in [1..Len(sent'[t]) -> 1..Len(sent[t])] :
          /\ \A k, l \in 1..Len(sent'[t]) : k < l => h[k] < h[l]
          /\ \A k \in 1..Len(sent'[t]) : sent'[t][k] = sent[t][h[k]]
    BY DEF LeftOf
  <2>2. h[i] < h[j] /\ h[i] \in 1..Len(sent[t]) /\ h[j] \in 1..Len(sent[t])
    BY <2>1
  <2> QED BY <2>1, <2>2 DEF SentInOrder
<1> QED BY <1>1, <1>2

LEMMA SameSent ==
  ASSUME TypeOK, SentBefore, SentInOrder, Now' = Now, sent' = sent
  PROVE  SentBefore' /\ SentInOrder'
<1>1. \A t \in Threads : LeftOf(sent'[t], sent[t])
  BY LeftOfSame DEF TypeOK
<1> QED BY <1>1, LeftSent

(* A message of this event is put off: after those of the events before. *)
LEMMA PutOffSent ==
  ASSUME Places, TypeOK, SentBefore, SentInOrder, Now' = Now, PutOff, Item.n = Now
  PROVE  SentBefore' /\ SentInOrder'
<1> DEFINE o == Owner[Item.w]
<1>1. Item \in Waiting /\ Item.w \in Windows /\ sent' = Deferred(Item.w, Item) /\ o \in Threads
  BY DEF PutOff, Places
<1>2. /\ \A t \in Threads : t # o => sent'[t] = sent[t]
      /\ sent'[o] \in Seq(Waiting) /\ sent'[o] # <<>> /\ sent'[o][Len(sent'[o])] = Item
  BY SMTT(30), <1>1, DeferredFacts
<1>3. PICK c \in Seq(Waiting) :
        /\ LeftOf(c, sent[o]) /\ Len(c) = Len(sent'[o]) - 1
        /\ \A k \in 1..Len(c) : sent'[o][k] = c[k]
  <2>1. PICK w \in Windows, item \in Waiting : w = Item.w /\ item = Item
    BY <1>1
  <2>2. \E c \in Seq(Waiting) :
          /\ LeftOf(c, sent[Owner[w]]) /\ Len(c) = Len(Deferred(w, item)[Owner[w]]) - 1
          /\ \A k \in 1..Len(c) : Deferred(w, item)[Owner[w]][k] = c[k]
    BY DeferredFacts
  <2>3. Deferred(w, item)[Owner[w]] = sent'[o] /\ Owner[w] = o
    BY <1>1, <2>1
  <2> QED BY <2>2, <2>3
<1>4. PICK h \in [1..Len(c) -> 1..Len(sent[o])] :
        /\ \A k, l \in 1..Len(c) : k < l => h[k] < h[l]
        /\ \A k \in 1..Len(c) : c[k] = sent[o][h[k]]
  BY <1>3 DEF LeftOf
<1>5. /\ Len(sent'[o]) \in Nat \ {0} /\ Len(c) \in Nat
      /\ \A m \in 1..Len(sent'[o]) : m = Len(sent'[o]) \/ m \in 1..Len(c)
  BY <1>2, <1>3, EmptySeq
<1>6. \A m \in 1..Len(c) : h[m] \in 1..Len(sent[o]) /\ sent'[o][m] = sent[o][h[m]]
  BY <1>3, <1>4
<1>7. Now \in Nat
  BY NowNat
<1>8. Owner[Item.w] = o
  OBVIOUS
<1> HIDE DEF o
<1>9. SentBefore'
  <2> SUFFICES ASSUME NEW t \in Threads, NEW m \in 1..Len(sent'[t])
               PROVE  sent'[t][m].n <= Now /\ Owner[sent'[t][m].w] = t
    BY DEF SentBefore
  <2>1. CASE t # o
    BY <1>2, <2>1 DEF SentBefore
  <2>2. CASE t = o /\ m = Len(sent'[o])
    BY <1>2, <1>7, <1>8, <2>2
  <2>3. CASE t = o /\ m \in 1..Len(c)
    <3>1. h[m] \in 1..Len(sent[o]) /\ sent'[t][m] = sent[o][h[m]]
      BY <1>6, <2>3
    <3> QED BY <1>1, <2>3, <3>1 DEF SentBefore
  <2> QED BY <1>5, <2>1, <2>2, <2>3
<1>10. SentInOrder'
  <2> SUFFICES ASSUME NEW t \in Threads, NEW i \in 1..Len(sent'[t]), NEW j \in 1..Len(sent'[t]),
                      i < j
               PROVE  sent'[t][i].n <= sent'[t][j].n
    BY DEF SentInOrder
  <2>1. CASE t # o
    BY <1>2, <2>1 DEF SentInOrder
  <2>2. CASE t = o /\ j = Len(sent'[o])
    <3>1. i \in 1..Len(c)
      BY <1>5, <2>2
    <3>2. sent'[o][i] = sent[o][h[i]] /\ h[i] \in 1..Len(sent[o])
      BY <1>6, <3>1
    <3>3. sent[o][h[i]].n <= Now
      BY <1>1, <3>2 DEF SentBefore
    <3> QED BY <1>2, <2>2, <3>2, <3>3
  <2>3. CASE t = o /\ j \in 1..Len(c)
    <3>1. i \in 1..Len(c)
      BY <1>5, <2>3
    <3>2. /\ sent'[o][i] = sent[o][h[i]] /\ h[i] \in 1..Len(sent[o])
          /\ sent'[o][j] = sent[o][h[j]] /\ h[j] \in 1..Len(sent[o]) /\ h[i] < h[j]
      BY <1>4, <1>6, <2>3, <3>1
    <3> QED BY <1>1, <2>3, <3>2 DEF SentInOrder
  <2> QED BY <1>5, <2>1, <2>2, <2>3
<1> QED BY <1>9, <1>10
(* Calls are begun by the program, or by the procedure that runs on top. *)
LEMMA RunsAbove ==
  ASSUME SentInv, Places, ~ProcsWait, NEW t \in Threads, Runs(t),
         NEW i \in 1..Len(stack), stack[i].at = "event"
  PROVE  stack[i].t = t /\ sent[t] = <<>>
<1>1. TypeOK /\ CallsFit /\ UnderEvent
  BY DEF SentInv, PostInv
<1>2. stack # <<>> /\ Top.call = "proc" /\ Top.t = t
  <2>1. stack # <<>>
    OBVIOUS
  <2> QED BY <2>1 DEF Runs
<1>3. Top.at = "runs" /\ Len(stack) \in 1..Len(stack) /\ Top = stack[Len(stack)]
  <2>1. Top.at = "runs"
    BY <1>1, <1>2, TopFits
  <2> QED BY <1>1, <1>2, <2>1, StackFacts DEF TypeOK
<1>4. i < Len(stack)
  BY <1>1, <1>3 DEF TypeOK
<1>5. Above(stack[Len(stack)], i)
  BY <1>1, <1>3, <1>4, UnderFacts
<1> QED BY <1>2, <1>3, <1>5 DEF Above, Places

(* A step that neither takes an event nor sends *)
LEMMA SentQuiet ==
  ASSUME SentInv, PostInv', UnderEvent', Now' = Now, sent' = sent
  PROVE  SentInv'
<1>1. SentBefore' /\ SentInOrder'
  BY SameSent DEF SentInv, PostInv
<1> QED BY <1>1 DEF SentInv

LEMMA SentHost ==
  ASSUME SentInv, Places, PostInv',
         \/ \E type \in Types : Host(type)
         \/ Age \/ UNCHANGED vars
         \/ \E t \in Threads : Present(t) \/ Reset(t)
  PROVE  SentInv'
<1>1. TypeOK
  BY DEF SentInv, PostInv
<1>2. stack' = stack /\ sent' = sent
  BY DEF Host, Age, Present, Reset, vars
<1>3. Now' = Now
  <2>1. CASE \E type \in Types : Host(type)
    <3> DEFINE E == [n : Nat, type : Types]
    <3>1. PICK type \in Types : Host(type)
      BY <2>1
    <3>2. made' = made + 1 /\ input' = Append(input, [n |-> made + 1, type |-> type])
      BY <3>1 DEF Host
    <3>3. [n |-> made + 1, type |-> type] \in E /\ input \in Seq(E) /\ made \in Nat
      BY <1>1 DEF TypeOK
    <3> HIDE DEF E
    <3>4. Len(input') = Len(input) + 1 /\ Len(input) \in Nat
      BY <3>2, <3>3, AppendProperties
    <3> QED BY <3>2, <3>3, <3>4 DEF Now
  <2>2. CASE made' = made /\ input' = input
    BY <2>2 DEF Now
  <2>3. Age \/ UNCHANGED vars \/ (\E t \in Threads : Present(t) \/ Reset(t))
        => made' = made /\ input' = input
    BY DEF Age, Present, Reset, vars, hostVars
  <2> QED BY <2>1, <2>2, <2>3
<1>4. UnderEvent'
  BY <1>2, <1>3, SameUnder DEF SentInv
<1> QED BY <1>2, <1>3, <1>4, SentQuiet

LEMMA SentBegin ==
  ASSUME SentInv, Places, ~ProcsWait, PostInv',
         \/ \E t \in Threads : Call(t, "peek") \/ Call(t, "read")
         \/ Call(NoThread, "test")
         \/ \E w \in Windows : Show(w) \/ Destroy(w)
  PROVE  SentInv'
<1>1. TypeOK /\ UnderEvent
  BY DEF SentInv, PostInv
<1>2. made' = made /\ input' = input /\ sent' = sent
  BY DEF Call, Show, Destroy, Begin, hostVars
<1>3. Now' = Now
  BY <1>2 DEF Now
<1>4. \E f : /\ Pushed(f) /\ f.at # "event" /\ NowOnly(f)
             /\ \A i \in 1..Len(stack) : stack[i].at = "event" => Above(f, i)
  <2>1. ASSUME NEW t \in Threads, NEW call \in {"peek", "read"}, Call(t, call)
        PROVE  /\ Pushed(Pumps(t, call)) /\ Pumps(t, call).at # "event" /\ NowOnly(Pumps(t, call))
               /\ \A i \in 1..Len(stack) : stack[i].at = "event" => Above(Pumps(t, call), i)
    <3>1. Pushed(Pumps(t, call))
      BY <1>1, <2>1, CallDoes
    <3>2. Pumps(t, call).t = t /\ Pumps(t, call).at = "pump" /\ Pumps(t, call).todo = <<>>
      BY DEF Pumps, Frame
    <3>3. Runs(t)
      BY <2>1 DEF Call
    <3> QED BY <3>1, <3>2, <3>3, RunsAbove DEF Above, NowOnly
  <2>2. ASSUME Call(NoThread, "test")
        PROVE  /\ Pushed(Pumps(NoThread, "test")) /\ Pumps(NoThread, "test").at # "event"
               /\ NowOnly(Pumps(NoThread, "test"))
               /\ \A i \in 1..Len(stack) : stack[i].at = "event" => Above(Pumps(NoThread, "test"), i)
    <3>1. Pushed(Pumps(NoThread, "test"))
      BY <1>1, <2>2, CallDoes
    <3>2. /\ Pumps(NoThread, "test").t = NoThread /\ Pumps(NoThread, "test").at = "pump"
          /\ Pumps(NoThread, "test").todo = <<>>
      BY DEF Pumps, Frame
    <3>3. PICK x \in Threads : Runs(x)
      BY <2>2 DEF Call
    <3> QED BY <3>1, <3>2, <3>3, RunsAbove DEF Above, NowOnly
  <2>3. ASSUME NEW w \in Windows, Show(w)
        PROVE  /\ Pushed(Shows(w)) /\ Shows(w).at # "event" /\ NowOnly(Shows(w))
               /\ \A i \in 1..Len(stack) : stack[i].at = "event" => Above(Shows(w), i)
    <3>1. Pushed(Shows(w))
      BY <1>1, <2>3, ShowDoes
    <3>2. /\ Shows(w).t = Owner[w] /\ Shows(w).at = "does"
          /\ Shows(w).todo = <<[op |-> "activate", w |-> w, n |-> Now]>>
      BY DEF Shows, Frame
    <3>3. Runs(Owner[w]) /\ Owner[w] \in Threads
      BY <2>3 DEF Show, Places
    <3>4. NowOnly(Shows(w))
      BY <3>2 DEF NowOnly
    <3> QED BY <3>1, <3>2, <3>3, <3>4, RunsAbove DEF Above
  <2>4. ASSUME NEW w \in Windows, Destroy(w)
        PROVE  /\ Pushed(Destroyed(w)) /\ Destroyed(w).at # "event" /\ NowOnly(Destroyed(w))
               /\ \A i \in 1..Len(stack) : stack[i].at = "event" => Above(Destroyed(w), i)
    <3>1. Pushed(Destroyed(w))
      BY <1>1, <2>4, DestroyDoes
    <3>2. /\ Destroyed(w).t = Owner[w] /\ Destroyed(w).at = "does"
          /\ Destroyed(w).todo = <<[op |-> "send", msg |-> "destroy", w |-> w, n |-> Now],
                                   [op |-> "gone", w |-> w]>>
      BY DEF Destroyed, Frame
    <3>3. Runs(Owner[w]) /\ Owner[w] \in Threads
      BY <2>4 DEF Destroy, Places
    <3>4. NowOnly(Destroyed(w))
      BY <3>2 DEF NowOnly, Timed
    <3> QED BY <3>1, <3>2, <3>3, <3>4, RunsAbove DEF Above
  <2> QED BY <2>1, <2>2, <2>3, <2>4
<1>5. UnderEvent'
  BY <1>1, <1>2, <1>3, <1>4, PushUnder
<1> QED BY <1>2, <1>3, <1>5, SentQuiet

(* While an event is handled, the call on top does all for this event. *)
LEMMA ItemNow ==
  ASSUME SentInv, Busy, Deferring, Item.op \in Timed
  PROVE  Item.n = Now
<1>1. TypeOK /\ UnderEvent
  BY DEF SentInv, PostInv
<1>2. PICK i \in 1..Len(stack) : stack[i].at = "event"
  BY DEF Deferring
<1>3. Len(stack) \in 1..Len(stack) /\ Top = stack[Len(stack)] /\ i <= Len(stack)
  BY <1>1, StackFacts DEF Busy, TypeOK
<1>4. NowOnly(Top)
  BY <1>1, <1>2, <1>3, UnderFacts
<1>5. Item = Top.todo[1] /\ 1 \in 1..Len(Top.todo)
  BY <1>1, RestFacts DEF Busy
<1> QED BY <1>4, <1>5 DEF NowOnly

(* The rest of what the call does is for the event being handled too. *)
LEMMA WithNow ==
  ASSUME SentInv, Busy, NEW items \in Seq(Items), Then(items), Deferring,
         \A k \in 1..Len(items) : items[k].op \in Timed => items[k].n = Now
  PROVE  NowOnly(With(items))
<1>1. TypeOK /\ UnderEvent
  BY DEF SentInv, PostInv
<1>2. PICK i \in 1..Len(stack) : stack[i].at = "event"
  BY DEF Deferring
<1>3. Len(stack) \in 1..Len(stack) /\ Top = stack[Len(stack)] /\ i <= Len(stack)
  BY <1>1, StackFacts DEF Busy, TypeOK
<1>4. NowOnly(Top)
  BY <1>1, <1>2, <1>3, UnderFacts
<1>5. Len(Top.todo) \in Nat \ {0} /\ Len(items) \in Nat
  BY <1>1, RestFacts DEF Busy
<1> DEFINE f == With(items)
<1>6. /\ Len(f.todo) = Len(items) + Len(Top.todo) - 1
      /\ \A k \in 1..Len(items) : f.todo[k] = items[k]
      /\ \A k \in (Len(items) + 1)..(Len(items) + Len(Top.todo) - 1) :
           f.todo[k] = Top.todo[k - Len(items) + 1]
  BY <1>1, Thens DEF Busy
<1> HIDE DEF f
<1>7. ASSUME NEW k \in 1..Len(f.todo), f.todo[k].op \in Timed PROVE f.todo[k].n = Now
  <2>1. CASE k \in 1..Len(items)
    BY <1>6, <1>7, <2>1
  <2>2. CASE k \in (Len(items) + 1)..(Len(items) + Len(Top.todo) - 1)
    <3>1. k - Len(items) + 1 \in 1..Len(Top.todo) /\ f.todo[k] = Top.todo[k - Len(items) + 1]
      BY <1>5, <1>6, <2>2
    <3> QED BY <1>4, <1>7, <3>1 DEF NowOnly
  <2> QED BY <1>5, <1>6, <2>1, <2>2
<1> QED BY <1>7 DEF NowOnly, f
(* A message sent is put off, by a call or by the event's handling. *)
LEMMA SentPutOff ==
  ASSUME SentInv, Places, PostInv', Busy, PutOff, Deferring, MustDefer(Item.w), Now' = Now
  PROVE  SentInv'
<1>1. TypeOK /\ UnderEvent /\ CallsFit /\ OneEvent /\ SentBefore /\ SentInOrder
  BY DEF SentInv, PostInv
<1>2. /\ Item \in Waiting /\ Item.w \in Windows /\ sent' = Deferred(Item.w, Item)
      /\ Then(<<>>) /\ Swapped(With(<<>>))
  BY DEF PutOff
<1>3. Item.op \in Timed
  BY <1>2 DEF Waiting, Timed
<1>4. Item.n = Now
  BY <1>3, ItemNow
<1>5. /\ <<>> \in Seq(Items) /\ \A k \in 1..Len(<<>>) : <<>>[k].op \in Timed => <<>>[k].n = Now
  BY Seqs
<1>6. NowOnly(With(<<>>))
  BY <1>2, <1>5, WithNow
<1>7. With(<<>>).t = Top.t /\ With(<<>>).at = Top.at
  BY <1>1, <1>2, <1>5, Thens DEF Busy
<1>8. ASSUME NEW i \in 1..(Len(stack) - 1), stack[i].at = "event"
      PROVE  sent'[stack[i].t] = <<>>
  <2>1. Len(stack) \in 1..Len(stack) /\ Top = stack[Len(stack)] /\ i < Len(stack)
    BY <1>1, StackFacts DEF Busy, TypeOK
  <2>2. Above(Top, i)
    BY <1>1, <1>8, <2>1, UnderFacts
  <2>3. Top.at # "event"
    BY <1>1, <1>8, <2>1 DEF OneEvent
  <2>4. Top.t # NoThread
    <3>1. /\ (Top.call = "test") = (Top.t = NoThread)
          /\ Top.call = "test" => Top.at \in {"pump", "event"}
          /\ Top.at \in {"pump", "runs"} => Top.todo = <<>>
      BY <1>1, TopFits DEF Busy
    <3> QED BY <2>3, <3>1 DEF Busy
  <2>5. Owner[Item.w] # stack[i].t
    BY <2>2, <2>4 DEF MustDefer, Above
  <2>6. \A t \in Threads : t # Owner[Item.w] => Deferred(Item.w, Item)[t] = sent[t]
    BY <1>1, <1>2, DeferredFacts
  <2> QED BY <1>2, <2>2, <2>5, <2>6 DEF Above
<1>9. UnderEvent'
  BY <1>1, <1>2, <1>6, <1>7, <1>8, SwapUnder DEF Busy
<1>10. SentBefore' /\ SentInOrder'
  BY <1>1, <1>4, PutOffSent
<1> QED BY <1>9, <1>10 DEF SentInv

(* What a call does next of its own *)
LEMMA SentThen ==
  ASSUME SentInv, PostInv', Busy, NEW items \in Seq(Items), Then(items),
         Deferring => \A k \in 1..Len(items) : items[k].op \in Timed => items[k].n = Now,
         Now' = Now, sent' = sent
  PROVE  SentInv'
<1>1. TypeOK /\ UnderEvent
  BY DEF SentInv, PostInv
<1>2. Deferring => NowOnly(With(items))
  BY WithNow
<1>3. Swapped(With(items)) /\ With(items).t = Top.t /\ With(items).at = Top.at
  BY <1>1, Thens DEF Busy
<1>4. \A i \in 1..(Len(stack) - 1) : stack[i].at = "event" => sent'[stack[i].t] = <<>>
  <2> SUFFICES ASSUME NEW i \in 1..(Len(stack) - 1), stack[i].at = "event"
               PROVE  sent[stack[i].t] = <<>>
    OBVIOUS
  <2>1. Len(stack) \in 1..Len(stack) /\ i < Len(stack) /\ i \in 1..Len(stack)
    BY <1>1, StackFacts DEF Busy, TypeOK
  <2> QED BY <1>1, <2>1, UnderFacts DEF Above
<1>5. UnderEvent'
  BY <1>1, <1>2, <1>3, <1>4, SwapUnder DEF Busy
<1> QED BY <1>5, SentQuiet

LEMMA SentSend ==
  ASSUME SentInv, Places, PostInv', Busy, Send
  PROVE  SentInv'
<1>1. TypeOK /\ UnderEvent /\ CallsFit /\ OneEvent
  BY DEF SentInv, PostInv
<1>2. Now' = Now
  BY DEF Send, hostVars, Now
<1>3. CASE Deferring /\ MustDefer(Item.w) /\ PutOff
  BY <1>2, <1>3, SentPutOff
<1>4. CASE Dropped
  <2>1. /\ <<>> \in Seq(Items) /\ \A k \in 1..Len(<<>>) : <<>>[k].op \in Timed => <<>>[k].n = Now
    BY Seqs
  <2> QED BY <1>2, <1>4, <2>1, SentThen DEF Dropped
<1>5. CASE ~(Deferring /\ MustDefer(Item.w)) /\ Called(Rest, Proc) /\ sent' = sent
  <2>1. Item.w \in Windows
    BY <1>1, SendDoes DEF Waiting
  <2>2. Rest.t = Top.t /\ Rest.at = Top.at /\ Rest.todo = Tail(Top.todo)
    BY <1>1, RestFacts, StackFacts DEF Busy, TypeOK, Calls
  <2>3. Proc.t = Top.t /\ Proc.at = "runs" /\ Proc.todo = <<>>
    BY DEF Proc, Frame
  <2>4. NowOnly(Proc)
    BY <2>3 DEF NowOnly
  <2>5. Len(stack) \in 1..Len(stack) /\ Top = stack[Len(stack)]
    BY <1>1, StackFacts DEF Busy, TypeOK
  <2>6. Deferring => NowOnly(Rest)
    <3> SUFFICES ASSUME Deferring, NEW k \in 1..Len(Rest.todo), Rest.todo[k].op \in Timed
                 PROVE  Rest.todo[k].n = Now
      BY DEF NowOnly
    <3>1. PICK i \in 1..Len(stack) : stack[i].at = "event"
      BY DEF Deferring
    <3>2. NowOnly(Top)
      BY <1>1, <2>5, <3>1, UnderFacts
    <3>3. /\ Len(Tail(Top.todo)) = Len(Top.todo) - 1 /\ Len(Top.todo) \in Nat \ {0}
          /\ \A l \in 1..(Len(Top.todo) - 1) : Tail(Top.todo)[l] = Top.todo[l + 1]
      BY <1>1, RestFacts DEF Busy
    <3>4. k + 1 \in 1..Len(Top.todo) /\ Rest.todo[k] = Top.todo[k + 1]
      BY <2>2, <3>3
    <3> QED BY <3>2, <3>4 DEF NowOnly
  <2>7. ASSUME NEW i \in 1..Len(stack), stack[i].at = "event"
        PROVE  Above(Proc, i)
    <3>1. Deferring
      BY <2>7 DEF Deferring
    <3>2. Top.t = Owner[Item.w] /\ sent[Owner[Item.w]] = <<>>
      BY <1>5, <3>1 DEF MustDefer
    <3>3. Top.t \in Threads
      BY <2>1, <3>2 DEF Places
    <3>4. CASE i = Len(stack)
      BY <2>3, <2>5, <3>2, <3>3, <3>4 DEF Above
    <3>5. CASE i < Len(stack)
      <4>1. Above(Top, i)
        BY <1>1, <2>5, <2>7, <3>5, UnderFacts
      <4> QED BY <2>3, <4>1 DEF Above
    <3>6. i <= Len(stack) /\ i \in Nat /\ Len(stack) \in Nat
      BY <1>1 DEF TypeOK
    <3> QED BY <3>4, <3>5, <3>6
  <2>8. UnderEvent'
    <3>1. Called(Rest, Proc) /\ sent' = sent
      BY <1>5
    <3>2. Proc.at # "event"
      BY <2>3
    <3> QED BY <1>1, <1>2, <2>2, <2>4, <2>6, <2>7, <3>1, <3>2, CallUnder DEF Busy
  <2> QED BY <1>2, <1>5, <2>8, SentQuiet
<1> QED BY <1>1, <1>3, <1>4, <1>5, SendDoes

LEMMA SentActivate ==
  ASSUME SentInv, Places, PostInv', Busy, Activate
  PROVE  SentInv'
<1>1. TypeOK
  BY DEF SentInv, PostInv
<1>2. Now' = Now
  BY DEF Activate, hostVars, Now
<1>3. CASE Top.at = "event" /\ MustDefer(Item.w) /\ PutOff
  <2>1. Deferring
    <3>1. Len(stack) \in 1..Len(stack) /\ Top = stack[Len(stack)]
      BY <1>1, StackFacts DEF Busy, TypeOK
    <3> QED BY <1>3, <3>1 DEF Deferring
  <2> QED BY <1>2, <1>3, <2>1, SentPutOff
<1>4. CASE sent' = sent /\ Then(AppTold) /\ AppTold \in Seq(Items)
  <2>1. Item.op \in Timed
    BY DEF Activate, Timed
  <2>2. \A k \in 1..Len(AppTold) : AppTold[k].n = Item.n
    BY DEF AppTold, Send1
  <2>3. Deferring => Item.n = Now
    BY <2>1, ItemNow
  <2> QED BY <1>2, <1>4, <2>2, <2>3, SentThen
<1> QED BY <1>1, <1>3, <1>4, ActivateDoes

LEMMA SentTell ==
  ASSUME SentInv, Places, PostInv', Busy,
         FocusTaken \/ ActivateWindow \/ Activated \/ Gone \/ Post \/ Drop
  PROVE  SentInv'
<1>1. TypeOK
  BY DEF SentInv, PostInv
<1>2. made' = made /\ input' = input /\ sent' = sent
  BY DEF FocusTaken, ActivateWindow, Activated, Gone, Post, Drop, hostVars
<1>3. Now' = Now
  BY <1>2 DEF Now
<1>4. CASE FocusTaken \/ Post \/ Drop
  <2>1. /\ <<>> \in Seq(Items) /\ \A k \in 1..Len(<<>>) : <<>>[k].op \in Timed => <<>>[k].n = Now
    BY Seqs
  <2>2. Then(<<>>)
    BY <1>1, <1>4, PlainDoes
  <2> QED BY <1>2, <1>3, <2>1, <2>2, SentThen
<1>5. ASSUME NEW items, Tells(items), Then(items),
             (\E k \in 1..Len(items) : items[k].op \in {"send", "activated"}) => Item.op \in Timed
      PROVE  SentInv'
  <2>1. items \in Seq(Items)
    BY <1>5 DEF Tells
  <2>2. ASSUME Deferring, NEW k \in 1..Len(items), items[k].op \in Timed
        PROVE  items[k].n = Now
    <3>1. CASE items[k].op \in {"send", "activated"}
      <4>1. Item.n = Now
        BY <1>5, <2>2, <3>1, ItemNow
      <4> QED BY <1>5, <3>1, <4>1 DEF Tells
    <3>2. CASE items[k].op = "activate"
      BY <1>5, <3>2 DEF Tells
    <3>3. items[k].op \in {"send", "activated", "activate", "drop"}
      BY <1>5 DEF Tells
    <3> QED BY <2>2, <3>1, <3>2, <3>3 DEF Timed
  <2> QED BY <1>2, <1>3, <1>5, <2>1, <2>2, SentThen
<1>6. CASE ActivateWindow
  <2>1. Item.op \in Timed
    BY <1>6 DEF ActivateWindow, Timed
  <2> QED BY <1>1, <1>5, <1>6, <2>1, ActivateWindowDoes
<1>7. CASE Activated
  <2>1. Item.op \in Timed
    BY <1>7 DEF Activated, Timed
  <2> QED BY <1>1, <1>5, <1>7, <2>1, ActivatedDoes
<1>8. CASE Gone
  <2>1. PICK items : /\ Tells(items) /\ Then(items)
                     /\ \A k \in 1..Len(items) : items[k].op \in {"activate", "drop"}
    BY <1>1, <1>8, GoneDoes
  <2> QED BY <1>5, <2>1
<1> QED BY <1>4, <1>6, <1>7, <1>8

LEMMA SentTakeEvent ==
  ASSUME SentInv, Places, PostInv', TakeEvent
  PROVE  SentInv'
<1>1. TypeOK /\ UnderEvent /\ EventsInOrder /\ SentBefore /\ SentInOrder
  BY DEF SentInv, PostInv
<1>2. /\ Between /\ Takes /\ Now' = Now + 1
      /\ Head(input) \in [n : Nat, type : Types] /\ Head(input).n = Now + 1
  BY <1>1, TakeEventDoes
<1>3. PICK w \in windows \cup {NoWindow}, f \in Calls :
        /\ Swapped(f) /\ f.at = "event" /\ f.t = Top.t /\ f.call = Top.call
        /\ f.todo = Todo(Head(input), w)
  BY <1>1, TakeEventDoes
<1>4. sent' = sent
  BY DEF TakeEvent
<1>5. stack # <<>> /\ ~Pumping
  BY <1>2 DEF Between, Takes
<1>6. /\ Len(stack) \in Nat \ {0} /\ Len(stack') = Len(stack) /\ stack'[Len(stack)] = f
      /\ \A i \in 1..(Len(stack) - 1) : stack'[i] = stack[i]
  BY <1>1, <1>3, <1>5, StackFacts DEF TypeOK, Swapped, Same
<1>7. \A i \in 1..(Len(stack) - 1) : stack[i].at # "event"
  BY <1>5 DEF Pumping
<1>8. w \in Windows \cup {NoWindow}
  BY <1>1, <1>3 DEF TypeOK
<1>9. \A k \in 1..Len(f.todo) : f.todo[k].op \in Timed => f.todo[k].n = Now + 1
  <2> TAKE k \in 1..Len(f.todo)
  <2>1. Todo(Head(input), w)[k].op # "taken" => Todo(Head(input), w)[k].n = Head(input).n
    <3>1. k \in 1..Len(Todo(Head(input), w))
      BY <1>3
    <3> QED BY <1>2, <1>8, <3>1, TodoFacts
  <2> QED BY <1>2, <1>3, <2>1 DEF Timed
<1>10. UnderEvent'
  <2> SUFFICES ASSUME NEW i \in 1..Len(stack'), NEW j \in 1..Len(stack'),
                      stack'[i].at = "event", i <= j
               PROVE  i = Len(stack) /\ j = Len(stack)
    BY <1>2, <1>6, <1>9 DEF UnderEvent, Timed
  <2> QED BY <1>6, <1>7
<1>11. SentBefore' /\ SentInOrder'
  <2>1. Now \in Nat
    BY <1>1, NowNat
  <2>2. ASSUME NEW t \in Threads, NEW m \in 1..Len(sent[t]) PROVE sent[t][m].n <= Now + 1
    <3>1. sent[t] \in Seq(Waiting)
      BY <1>1 DEF TypeOK
    <3>2. sent[t][m] \in Waiting
      BY <3>1
    <3>3. sent[t][m].n \in Nat /\ sent[t][m].n <= Now
      BY <1>1, <3>2 DEF Waiting, SentBefore
    <3> QED BY <2>1, <3>3
  <2> QED BY <1>1, <1>2, <1>4, <2>2 DEF SentBefore, SentInOrder
<1> QED BY <1>10, <1>11 DEF SentInv

LEMMA SentPumped ==
  ASSUME SentInv, PostInv', Pumped \/ TakeMessage \/ Return
  PROVE  SentInv'
<1>1. TypeOK /\ UnderEvent
  BY DEF SentInv, PostInv
<1>2. made' = made /\ input' = input /\ sent' = sent
  BY DEF Pumped, TakeMessage, Return, hostVars
<1>3. Now' = Now
  BY <1>2 DEF Now
<1>4. stack # <<>> /\ Top.todo = <<>>
  BY <1>1, PumpedDoes, ReturnDoes
<1>5. CASE Popped
  <2>1. UnderEvent'
    BY <1>1, <1>2, <1>3, <1>4, <1>5, PopUnder
  <2> QED BY <1>2, <1>3, <2>1, SentQuiet
<1>6. CASE Swapped(Delivers)
  <2>1. /\ Delivers.at = "delivers" /\ Delivers.t = Top.t /\ Delivers.todo = Top.todo
    <3>1. Top \in Calls
      BY <1>1, <1>4, StackFacts DEF TypeOK
    <3> QED BY <3>1 DEF Delivers, Calls
  <2>2. NowOnly(Delivers)
    BY <1>4, <2>1 DEF NowOnly
  <2>3. \A i \in 1..(Len(stack) - 1) : stack[i].at = "event" => sent'[stack[i].t] = <<>>
    <3> SUFFICES ASSUME NEW i \in 1..(Len(stack) - 1), stack[i].at = "event"
                 PROVE  sent[stack[i].t] = <<>>
      BY <1>2
    <3>1. Len(stack) \in 1..Len(stack) /\ i < Len(stack) /\ i \in 1..Len(stack)
      BY <1>1, <1>4, StackFacts DEF TypeOK
    <3> QED BY <1>1, <3>1, UnderFacts DEF Above
  <2>4. UnderEvent'
    <3>1. Delivers.at # "event"
      BY <2>1
    <3> QED BY <1>1, <1>3, <1>4, <1>6, <2>1, <2>2, <2>3, <3>1, SwapUnder
  <2> QED BY <1>2, <1>3, <2>4, SentQuiet
<1> QED BY <1>1, <1>5, <1>6, PumpedDoes, ReturnDoes

(* Nothing is delivered while an event is handled. *)
LEMMA NoEventUnder ==
  ASSUME SentInv, Places, Deliver
  PROVE  \A i \in 1..Len(stack) : stack[i].at # "event"
<1>1. TypeOK /\ CallsFit /\ UnderEvent
  BY DEF SentInv, PostInv
<1>2. stack # <<>> /\ Top.at = "delivers" /\ Top.t \in Threads /\ sent[Top.t] # <<>>
  BY <1>1, DeliverDoes
<1>3. Len(stack) \in 1..Len(stack) /\ Top = stack[Len(stack)]
  BY <1>1, <1>2, StackFacts DEF TypeOK
<1> SUFFICES ASSUME NEW i \in 1..Len(stack), stack[i].at = "event" PROVE FALSE
  OBVIOUS
<1>4. i < Len(stack)
  BY <1>1, <1>2, <1>3 DEF TypeOK
<1>5. Above(Top, i)
  BY <1>1, <1>3, <1>4, UnderFacts
<1> QED BY <1>2, <1>5 DEF Above, Places

LEMMA SentDeliver ==
  ASSUME SentInv, Places, PostInv', Deliver
  PROVE  SentInv'
<1>1. TypeOK /\ CallsFit /\ SentBefore /\ SentInOrder
  BY DEF SentInv, PostInv
<1>2. made' = made /\ input' = input
  BY DEF Deliver, hostVars
<1>3. Now' = Now
  BY <1>2 DEF Now
<1>4. /\ stack # <<>> /\ Top.t \in Threads /\ sent[Top.t] # <<>> /\ sent[Top.t] \in Seq(Waiting)
      /\ sent' = [sent EXCEPT ![Top.t] = Tail(@)]
      /\ Swapped(Delivered) /\ Delivered.at = "delivers"
  BY <1>1, DeliverDoes
<1>5. \A i \in 1..Len(stack') : stack'[i].at # "event"
  <2>1. /\ Len(stack) \in Nat \ {0} /\ Len(stack') = Len(stack) /\ stack'[Len(stack)] = Delivered
        /\ \A i \in 1..(Len(stack) - 1) : stack'[i] = stack[i]
    BY <1>1, <1>4, StackFacts DEF TypeOK, Swapped, Same
  <2>2. \A i \in 1..Len(stack) : stack[i].at # "event"
    BY NoEventUnder
  <2> QED BY <1>4, <2>1, <2>2
<1>6. UnderEvent'
  BY <1>5 DEF UnderEvent
<1>7. \A t \in Threads : LeftOf(sent'[t], sent[t])
  <2> TAKE t \in Threads
  <2>1. sent \in [Threads -> Seq(Waiting)]
    BY <1>1 DEF TypeOK
  <2>2. CASE t = Top.t
    <3>1. sent'[t] = Tail(sent[t]) /\ sent[t] \in Seq(Waiting) /\ sent[t] # <<>>
      BY <1>4, <2>1, <2>2
    <3>2. LeftOf(sent[t], sent[t])
      BY <3>1, LeftOfSame
    <3> QED BY <3>1, <3>2, LeftOfTail
  <2>3. CASE t # Top.t
    <3>1. sent'[t] = sent[t] /\ sent[t] \in Seq(Waiting)
      BY <1>4, <2>1, <2>3
    <3> QED BY <3>1, LeftOfSame
  <2> QED BY <2>2, <2>3
<1>8. SentBefore' /\ SentInOrder'
  BY <1>1, <1>3, <1>7, LeftSent
<1> QED BY <1>6, <1>8 DEF SentInv

LEMMA SentStep ==
  ASSUME Places, ~ProcsWait, SentInv, [Next]_vars
  PROVE  SentInv'
<1>0. PostInv'
  BY PostStep DEF SentInv
<1>1. CASE UNCHANGED vars
  BY <1>0, <1>1, SentHost
<1>2. ASSUME NEW type \in Types, Host(type) PROVE SentInv'
  BY <1>0, <1>2, SentHost
<1>3. CASE Age
  BY <1>0, <1>3, SentHost
<1>4. ASSUME NEW t \in Threads, Call(t, "peek") \/ Call(t, "read") PROVE SentInv'
  BY <1>0, <1>4, SentBegin
<1>5. ASSUME NEW t \in Threads, Present(t) \/ Reset(t) PROVE SentInv'
  BY <1>0, <1>5, SentHost
<1>6. CASE Call(NoThread, "test")
  BY <1>0, <1>6, SentBegin
<1>7. ASSUME NEW w \in Windows, Show(w) \/ Destroy(w) PROVE SentInv'
  BY <1>0, <1>7, SentBegin
<1>8. CASE Does
  <2>1. Busy
    BY <1>8 DEF Does, Busy
  <2>2. CASE Send
    BY <1>0, <2>1, <2>2, SentSend
  <2>3. CASE Activate
    BY <1>0, <2>1, <2>3, SentActivate
  <2>4. CASE FocusTaken \/ ActivateWindow \/ Activated \/ Gone \/ Post \/ Drop
    BY <1>0, <2>1, <2>4, SentTell
  <2> QED BY <1>8, <2>2, <2>3, <2>4 DEF Does
<1>9. CASE TakeEvent
  BY <1>0, <1>9, SentTakeEvent
<1>10. CASE Pumped \/ TakeMessage \/ Return
  BY <1>0, <1>10, SentPumped
<1>11. CASE Deliver
  BY <1>0, <1>11, SentDeliver
<1> QED BY <1>1, <1>2, <1>3, <1>4, <1>5, <1>6, <1>7, <1>8, <1>9, <1>10, <1>11 DEF Next

LEMMA SentFirst ==
  ASSUME Places, Init
  PROVE  SentInv
<1>1. PostInv
  BY PostFirst
<1>2. stack = <<>> /\ sent = [t \in Threads |-> <<>>]
  BY DEF Init
<1>3. UnderEvent
  BY <1>2 DEF UnderEvent
<1>4. SentBefore /\ SentInOrder
  BY <1>2 DEF SentBefore, SentInOrder
<1> QED BY <1>1, <1>3, <1>4 DEF SentInv

(* Messages sent by the host's events reach a window's thread in the order *)
(* of the events: what is put off while an event is handled is of that     *)
(* event, and no event is taken while it is handled (user32.js send,       *)
(* deferToThread, deliverSent).  Procedures called for an event do not     *)
(* wait.                                                                   *)
THEOREM SentInOrderAlways ==
  ASSUME Places, ~ProcsWait
  PROVE  Spec => []SentInOrder
<1>1. Init => SentInv
  BY SentFirst
<1>2. SentInv /\ [Next]_vars => SentInv'
  BY SentStep
<1>3. SentInv => SentInOrder
  BY DEF SentInv
<1> QED BY <1>1, <1>2, <1>3, PTL DEF Spec
------------------------------------------------------------------------------
(* The focus *)

LEMMA FocusRemoved ==
  ASSUME NEW S, NEW q \in Seq(S), NEW i \in 1..Len(q), q[i].op # "focus", NEW v
  PROVE  /\ HasFocus(RemoveAt(q, i)) <=> HasFocus(q)
         /\ NewestSays(q, v) => NewestSays(RemoveAt(q, i), v)
<1> DEFINE r == RemoveAt(q, i)
<1>1. /\ r \in Seq(S) /\ Len(r) = Len(q) - 1 /\ Len(q) \in Nat
      /\ \A k \in 1..(Len(q) - 1) : r[k] = q[IF k < i THEN k ELSE k + 1]
  <2>1. /\ RemoveAt(q, i) \in Seq(S) /\ Len(RemoveAt(q, i)) = Len(q) - 1
        /\ \A k \in 1..(Len(q) - 1) : RemoveAt(q, i)[k] = q[IF k < i THEN k ELSE k + 1]
    BY RemoveAtFacts
  <2> QED BY <2>1
<1> HIDE DEF r
<1>2. \A m \in 1..Len(q) : q[m].op = "focus" =>
        \E k \in 1..Len(r) : r[k] = q[m] /\ m = IF k < i THEN k ELSE k + 1
  <2> SUFFICES ASSUME NEW m \in 1..Len(q), q[m].op = "focus"
               PROVE  \E k \in 1..Len(r) : r[k] = q[m] /\ m = IF k < i THEN k ELSE k + 1
    OBVIOUS
  <2>1. m # i
    OBVIOUS
  <2>2. CASE m < i
    <3>1. m \in 1..Len(r) /\ r[m] = q[m]
      BY <1>1, <2>2
    <3> QED BY <2>2, <3>1
  <2>3. CASE m > i
    <3>1. m - 1 \in 1..Len(r) /\ ~(m - 1 < i) /\ (m - 1) + 1 = m
      BY <1>1, <2>3
    <3>2. r[m - 1] = q[m]
      BY <1>1, <3>1
    <3> QED BY <3>1, <3>2
  <2> QED BY <2>1, <2>2, <2>3
<1>3. \A k \in 1..Len(r) : (IF k < i THEN k ELSE k + 1) \in 1..Len(q)
  BY <1>1
<1>4. HasFocus(r) <=> HasFocus(q)
  BY <1>1, <1>2, <1>3 DEF HasFocus
<1>5. ASSUME NewestSays(q, v), NEW k \in 1..Len(r), r[k].op = "focus",
             \A l \in 1..Len(r) : r[l].op = "focus" => l <= k
      PROVE  r[k].on = v
  <2>1. PICK m \in 1..Len(q) : m = (IF k < i THEN k ELSE k + 1) /\ r[k] = q[m]
    BY <1>1, <1>3
  <2>2. ASSUME NEW l \in 1..Len(q), q[l].op = "focus" PROVE l <= m
    <3>1. PICK j \in 1..Len(r) : r[j] = q[l] /\ l = IF j < i THEN j ELSE j + 1
      BY <1>2, <2>2
    <3>2. j <= k
      BY <1>5, <2>2, <3>1
    <3> QED BY <2>1, <3>1, <3>2
  <2> QED BY <1>5, <2>1, <2>2 DEF NewestSays
<1> QED BY <1>4, <1>5 DEF NewestSays, r

LEMMA FocusAppended ==
  ASSUME NEW S, NEW c \in Seq(S), NEW d \in Seq(S), Len(d) = Len(c) + 1,
         \A k \in 1..Len(c) : d[k] = c[k], d[Len(d)].op # "focus", NEW v
  PROVE  (HasFocus(d) <=> HasFocus(c)) /\ (NewestSays(c, v) => NewestSays(d, v))
<1>1. Len(c) \in Nat /\ \A k \in 1..Len(d) : k \in 1..Len(c) \/ k = Len(d)
  OBVIOUS
<1>2. \A k \in 1..Len(c) : k \in 1..Len(d)
  BY <1>1
<1> QED BY <1>1, <1>2 DEF HasFocus, NewestSays

LEMMA FocusLast ==
  ASSUME NEW S, NEW d \in Seq(S), d # <<>>, d[Len(d)].op = "focus"
  PROVE  HasFocus(d) /\ NewestSays(d, d[Len(d)].on)
<1>1. Len(d) \in Nat \ {0} /\ Len(d) \in 1..Len(d)
  BY EmptySeq
<1>2. HasFocus(d)
  BY <1>1 DEF HasFocus
<1>3. ASSUME NEW m \in 1..Len(d), \A l \in 1..Len(d) : d[l].op = "focus" => l <= m
      PROVE  m = Len(d)
  BY <1>1, <1>3
<1> QED BY <1>2, <1>3 DEF NewestSays

LEMMA FocusTail ==
  ASSUME NEW S, NEW q \in Seq(S), q # <<>>, NEW v, NewestSays(q, v)
  PROVE  /\ NewestSays(Tail(q), v)
         /\ HasFocus(Tail(q)) => HasFocus(q)
         /\ q[1].op # "focus" => (HasFocus(Tail(q)) <=> HasFocus(q))
         /\ q[1].op = "focus" /\ ~HasFocus(Tail(q)) => q[1].on = v
<1> DEFINE r == Tail(q)
<1>1. /\ Len(q) \in Nat \ {0} /\ Len(r) = Len(q) - 1
      /\ \A k \in 1..Len(r) : r[k] = q[k + 1] /\ k + 1 \in 1..Len(q)
  BY EmptySeq, HeadTailProperties
<1> HIDE DEF r
<1>2. \A m \in 1..Len(q) : m = 1 \/ (\E k \in 1..Len(r) : m = k + 1 /\ r[k] = q[m])
  <2> TAKE m \in 1..Len(q)
  <2>1. CASE m # 1
    <3>1. m - 1 \in 1..Len(r) /\ (m - 1) + 1 = m
      BY <1>1, <2>1
    <3> QED BY <1>1, <3>1
  <2> QED BY <2>1
<1>3. HasFocus(r) => HasFocus(q)
  BY <1>1 DEF HasFocus
<1>4. q[1].op # "focus" => (HasFocus(q) => HasFocus(r))
  BY <1>2 DEF HasFocus
<1>5. ASSUME NEW k \in 1..Len(r), r[k].op = "focus",
             \A l \in 1..Len(r) : r[l].op = "focus" => l <= k
      PROVE  r[k].on = v
  <2>1. k + 1 \in 1..Len(q) /\ r[k] = q[k + 1]
    BY <1>1
  <2>2. ASSUME NEW l \in 1..Len(q), q[l].op = "focus" PROVE l <= k + 1
    <3>1. CASE l = 1
      BY <1>1, <3>1
    <3>2. CASE \E j \in 1..Len(r) : l = j + 1 /\ r[j] = q[l]
      <4>1. PICK j \in 1..Len(r) : l = j + 1 /\ r[j] = q[l]
        BY <3>2
      <4>2. j <= k
        BY <1>5, <2>2, <4>1
      <4> QED BY <1>1, <4>1, <4>2
    <3> QED BY <1>2, <3>1, <3>2
  <2> QED BY <1>5, <2>1, <2>2 DEF NewestSays
<1>6. ASSUME q[1].op = "focus", ~HasFocus(r) PROVE q[1].on = v
  <2>1. \A l \in 1..Len(q) : q[l].op = "focus" => l <= 1
    BY <1>2, <1>6 DEF HasFocus
  <2> QED BY <1>1, <1>6, <2>1 DEF NewestSays
<1> QED BY <1>3, <1>4, <1>5, <1>6 DEF NewestSays, r

(* A message put off adds no change of focus and loses none. *)
LEMMA FocusPutOff ==
  ASSUME Places, TypeOK, NeverFull, PutOff, Item.op = "send", NEW t \in Threads, NEW v
  PROVE  (HasFocus(sent'[t]) <=> HasFocus(sent[t])) /\ (NewestSays(sent[t], v) => NewestSays(sent'[t], v))
<1>1. PICK w \in Windows, item \in Waiting :
        w = Item.w /\ item = Item /\ sent' = Deferred(w, item)
  BY DEF PutOff
<1>2. AddedTo(sent'[Owner[w]], sent[Owner[w]], item)
      /\ \A x \in Threads : x # Owner[w] => sent'[x] = sent[x]
  BY <1>1, DeferredAdds
<1> DEFINE o == Owner[w]
           d == sent'[o]
<1>3. o \in Threads /\ sent[o] \in Seq(Waiting) /\ Len(sent[o]) < MaxSent
      /\ AddedTo(d, sent[o], item) /\ \A x \in Threads : x # o => sent'[x] = sent[x]
  BY <1>2 DEF Places, NeverFull, TypeOK
<1> HIDE DEF o, d
<1>4. PICK c \in Seq(Waiting) :
        /\ Len(c) = Len(d) - 1 /\ \A k \in 1..Len(c) : d[k] = c[k]
        /\ c = sent[o] \/ \E i \in 1..Len(sent[o]) : sent[o][i].op = "send" /\ c = RemoveAt(sent[o], i)
  BY <1>3 DEF AddedTo
<1>5. (HasFocus(c) <=> HasFocus(sent[o])) /\ (NewestSays(sent[o], v) => NewestSays(c, v))
  <2>1. CASE c = sent[o]
    BY <2>1
  <2>2. ASSUME NEW i \in 1..Len(sent[o]), sent[o][i].op = "send", c = RemoveAt(sent[o], i)
        PROVE  (HasFocus(c) <=> HasFocus(sent[o])) /\ (NewestSays(sent[o], v) => NewestSays(c, v))
    <3>1. sent[o][i].op # "focus"
      BY <2>2
    <3>2. /\ HasFocus(RemoveAt(sent[o], i)) <=> HasFocus(sent[o])
          /\ NewestSays(sent[o], v) => NewestSays(RemoveAt(sent[o], i), v)
      BY <1>3, <3>1, FocusRemoved
    <3> QED BY <2>2, <3>2
  <2> QED BY <1>4, <2>1, <2>2
<1>6. (HasFocus(d) <=> HasFocus(c)) /\ (NewestSays(c, v) => NewestSays(d, v))
  <2>1. d \in Seq(Waiting) /\ d # <<>> /\ d[Len(d)] = item
    BY <1>3 DEF AddedTo
  <2>2. Len(d) = Len(c) + 1 /\ d[Len(d)].op # "focus"
    BY <1>1, <1>4, <2>1, EmptySeq
  <2> QED BY <1>4, <2>1, <2>2, FocusAppended
<1>7. t # o => sent'[t] = sent[t]
  BY <1>3
<1> QED BY <1>5, <1>6, <1>7 DEF d
(* No change of focus lies on the stack but on its top. *)
Plain(f) ==
  /\ TakenLast(f)
  /\ \A k \in 1..Len(f.todo) : f.todo[k].op \notin {"focus", "gone", "drop"}
SameTaken(f, g) ==
  (Waits(f) <=> Waits(g)) /\ (Waits(f) => f.todo[Len(f.todo)] = g.todo[Len(g.todo)])

LEMMA FocusFacts ==
  ASSUME TypeOK, FocusFirst, NEW i \in 1..Len(stack)
  PROVE  /\ i # Len(stack) => Plain(stack[i])
         /\ i = Len(stack) /\ stack[i].todo = <<>> => Plain(stack[i])
         /\ TakenLast(stack[i]) /\ (Waits(stack[i]) => stack[i].at = "event")
<1>1. TakenLast(stack[i])
      /\ \A k \in 1..Len(stack[i].todo) :
           /\ stack[i].todo[k].op \notin {"gone", "drop"}
           /\ stack[i].todo[k].op = "focus" => i = Len(stack)
  BY DEF FocusFirst
<1>2. stack[i] \in Calls
  BY DEF TypeOK
<1>3. stack[i].todo \in Seq(Items)
  BY <1>2 DEF Calls
<1>4. Waits(stack[i]) => stack[i].at = "event"
  <2> SUFFICES ASSUME Waits(stack[i]) PROVE stack[i].at = "event"
    OBVIOUS
  <2>1. Len(stack[i].todo) \in 1..Len(stack[i].todo)
    BY <1>3, EmptySeq DEF Waits
  <2> QED BY <1>1, <2>1 DEF Waits, TakenLast
<1>5. i # Len(stack) => Plain(stack[i])
  BY <1>1 DEF Plain
<1>6. stack[i].todo = <<>> => Plain(stack[i])
  BY <1>1 DEF Plain
<1> QED BY <1>1, <1>4, <1>5, <1>6

(* A step that moves no change of focus, neither on the stack ... *)
StackCalm ==
  /\ \A i \in 1..Len(stack') :
       /\ Plain(stack'[i])
       /\ i \in 1..Len(stack) => SameTaken(stack'[i], stack[i])
       /\ i \notin 1..Len(stack) => ~Waits(stack'[i])
  /\ \A i \in 1..Len(stack) : i \notin 1..Len(stack') => ~Waits(stack[i])

(* ... nor among those that wait *)
QueuesCalm ==
  \A t \in Threads :
    /\ HasFocus(sent'[t]) <=> HasFocus(sent[t])
    /\ \A v \in BOOLEAN : NewestSays(sent[t], v) => NewestSays(sent'[t], v)

LEMMA AimCalm ==
  ASSUME StackCalm, focused' = focused, NEW v, Aim(v)'
  PROVE  Aim(v)
<1>1. CASE \E i \in 1..Len(stack') : Waits(stack'[i]) /\ v = Says(stack'[i])
  <2>1. PICK i \in 1..Len(stack') : Waits(stack'[i]) /\ v = Says(stack'[i])
    BY <1>1
  <2>2. i \in 1..Len(stack) /\ SameTaken(stack'[i], stack[i])
    BY <2>1 DEF StackCalm
  <2>3. Waits(stack[i]) /\ v = Says(stack[i])
    BY <2>1, <2>2 DEF SameTaken, Says
  <2> QED BY <2>2, <2>3 DEF Aim
<1>2. CASE (\A i \in 1..Len(stack') : ~Waits(stack'[i])) /\ v = focused'
  <2>1. \A i \in 1..Len(stack) : ~Waits(stack[i])
    BY <1>2 DEF StackCalm, SameTaken
  <2> QED BY <1>2, <2>1 DEF Aim
<1>3. \/ \E i \in 1..Len(stack') : Waits(stack'[i]) /\ v = Says(stack'[i])
      \/ (\A i \in 1..Len(stack') : ~Waits(stack'[i])) /\ v = focused'
  BY DEF Aim, Waits, Says
<1> QED BY <1>1, <1>2, <1>3

LEMMA PlainTop ==
  ASSUME TypeOK', \A i \in 1..Len(stack') : Plain(stack'[i])
  PROVE  FocusFirst' /\ ~FocusOnTop'
<1>1. FocusFirst'
  BY DEF FocusFirst, Plain, TakenLast
<1>2. stack' # <<>> => Top' = stack'[Len(stack')] /\ Top' \in Calls /\ Len(stack') \in 1..Len(stack')
  <2>1. stack' \in Seq(Calls)
    BY DEF TypeOK
  <2>2. stack' # <<>> => Len(stack') \in Nat \ {0}
    BY <2>1, EmptySeq
  <2> QED BY <2>1, <2>2 DEF Top, Last
<1>3. ASSUME FocusOnTop' PROVE FALSE
  <2>1. stack' # <<>> /\ Top'.todo # <<>> /\ Top'.todo[1].op = "focus"
    BY <1>3 DEF FocusOnTop
  <2>2. Plain(Top') /\ Top'.todo \in Seq(Items)
    BY <1>2, <2>1 DEF Calls
  <2>3. 1 \in 1..Len(Top'.todo)
    BY <2>1, <2>2, EmptySeq
  <2> QED BY <2>1, <2>2, <2>3 DEF Plain
<1> QED BY <1>1, <1>3

(* Then what is aimed at stays what the newest change says. *)
LEMMA FocusCalm ==
  ASSUME FocusInv, SentInv', StackCalm, QueuesCalm, ~FocusOnTop,
         focused' = focused, (device' = "lost") = (device = "lost"),
         windows' = windows, active' \in Windows
  PROVE  FocusInv'
<1>1. TypeOK'
  BY DEF SentInv, PostInv
<1>2. FocusFirst' /\ ~FocusOnTop'
  BY <1>1, PlainTop DEF StackCalm
<1>3. InQueue' <=> InQueue
  BY DEF QueuesCalm, InQueue, HasFocus
<1>4. ASSUME NEW v \in BOOLEAN, Aim(v)'
      PROVE  /\ \A t \in Threads : NewestSays(sent'[t], v)
             /\ ~InQueue' => (device' = "lost") = ~v
  <2>1. Aim(v)
    BY <1>4, AimCalm
  <2>2. /\ \A t \in Threads : NewestSays(sent[t], v)
        /\ ~InQueue => (device = "lost") = ~v
    BY <2>1 DEF FocusInv, NewestWins, InEvent
  <2> QED BY <1>3, <2>2 DEF QueuesCalm
<1>5. NewestWins'
  BY <1>2, <1>4 DEF NewestWins, NewestSays
<1> QED BY <1>2, <1>5 DEF FocusInv
LEMMA TopPlain ==
  ASSUME TypeOK, FocusFirst, ~FocusOnTop, NEW i \in 1..Len(stack)
  PROVE  Plain(stack[i])
<1>1. CASE i # Len(stack)
  BY <1>1, FocusFacts
<1>2. CASE i = Len(stack)
  <2>1. stack # <<>> /\ Top = stack[i]
    <3>1. stack # <<>>
      OBVIOUS
    <3> QED BY <1>2, <3>1, StackFacts DEF TypeOK
  <2>2. \A k \in 1..Len(Top.todo) :
          /\ Top.todo[k].op \notin {"gone", "drop"}
          /\ Top.todo[k].op = "focus" => k = 1
    BY <2>1 DEF FocusFirst
  <2>3. \A k \in 1..Len(Top.todo) : Top.todo # <<>>
    OBVIOUS
  <2>4. \A k \in 1..Len(Top.todo) : Top.todo[k].op # "focus"
    BY <2>1, <2>2, <2>3 DEF FocusOnTop
  <2>5. TakenLast(Top)
    BY <2>1, FocusFacts
  <2> QED BY <2>1, <2>2, <2>4, <2>5 DEF Plain
<1> QED BY <1>1, <1>2

LEMMA PushFocus ==
  ASSUME TypeOK, FocusFirst, ~FocusOnTop, NEW f, Pushed(f), Plain(f), ~Waits(f)
  PROVE  StackCalm
<1>1. /\ Len(stack) \in Nat /\ Len(stack') = Len(stack) + 1 /\ stack'[Len(stack) + 1] = f
      /\ \A i \in 1..Len(stack) : stack'[i] = stack[i]
  BY DEF Pushed, Same, TypeOK
<1>2. \A i \in 1..Len(stack') : i \in 1..Len(stack) \/ i = Len(stack) + 1
  BY <1>1
<1>3. \A i \in 1..Len(stack) : i \in 1..Len(stack') /\ Plain(stack[i]) /\ SameTaken(stack[i], stack[i])
  BY <1>1, TopPlain DEF SameTaken
<1> QED BY <1>1, <1>2, <1>3 DEF StackCalm

LEMMA SwapFocus ==
  ASSUME TypeOK, FocusFirst, stack # <<>>, NEW f, Swapped(f), Plain(f), SameTaken(f, Top)
  PROVE  StackCalm
<1>1. /\ Len(stack) \in Nat \ {0} /\ Len(stack') = Len(stack) /\ stack'[Len(stack)] = f
      /\ \A i \in 1..(Len(stack) - 1) : stack'[i] = stack[i]
      /\ Top = stack[Len(stack)]
  BY StackFacts DEF Swapped, Same, TypeOK
<1>2. \A i \in 1..Len(stack) : i \in 1..(Len(stack) - 1) \/ i = Len(stack)
  BY <1>1
<1>3. \A i \in 1..(Len(stack) - 1) : i \in 1..Len(stack) /\ i # Len(stack)
  BY <1>1
<1>4. \A i \in 1..(Len(stack) - 1) : Plain(stack[i]) /\ SameTaken(stack[i], stack[i])
  BY <1>3, FocusFacts DEF SameTaken
<1> QED BY <1>1, <1>2, <1>4 DEF StackCalm

LEMMA PopFocus ==
  ASSUME TypeOK, FocusFirst, stack # <<>>, Popped, ~Waits(Top)
  PROVE  StackCalm
<1>1. /\ Len(stack) \in Nat \ {0} /\ Len(stack') = Len(stack) - 1
      /\ \A i \in 1..(Len(stack) - 1) : stack'[i] = stack[i]
      /\ Top = stack[Len(stack)]
  BY StackFacts DEF Popped, Same, TypeOK
<1>2. \A i \in 1..Len(stack) : i \in 1..(Len(stack) - 1) \/ i = Len(stack)
  BY <1>1
<1>3. \A i \in 1..(Len(stack) - 1) : i \in 1..Len(stack) /\ i # Len(stack)
  BY <1>1
<1>4. \A i \in 1..(Len(stack) - 1) : Plain(stack[i]) /\ SameTaken(stack[i], stack[i])
  BY <1>3, FocusFacts DEF SameTaken
<1> QED BY <1>1, <1>2, <1>4 DEF StackCalm

LEMMA CallFocus ==
  ASSUME TypeOK, FocusFirst, stack # <<>>, NEW f, NEW g, Called(f, g),
         Plain(f), SameTaken(f, Top), Plain(g), ~Waits(g)
  PROVE  StackCalm
<1>1. /\ Len(stack) \in Nat \ {0} /\ Len(stack') = Len(stack) + 1
      /\ stack'[Len(stack)] = f /\ stack'[Len(stack) + 1] = g
      /\ \A i \in 1..(Len(stack) - 1) : stack'[i] = stack[i]
      /\ Top = stack[Len(stack)]
  BY StackFacts DEF Called, Same, TypeOK
<1>2. /\ \A i \in 1..Len(stack') : i \in 1..(Len(stack) - 1) \/ i = Len(stack) \/ i = Len(stack) + 1
      /\ \A i \in 1..Len(stack) : i \in 1..Len(stack') /\ (i \in 1..(Len(stack) - 1) \/ i = Len(stack))
      /\ Len(stack) + 1 \notin 1..Len(stack)
  BY <1>1
<1>3. \A i \in 1..(Len(stack) - 1) : i \in 1..Len(stack) /\ i # Len(stack)
  BY <1>1
<1>4. \A i \in 1..(Len(stack) - 1) : Plain(stack[i]) /\ SameTaken(stack[i], stack[i])
  BY <1>3, FocusFacts DEF SameTaken
<1> QED BY <1>1, <1>2, <1>4 DEF StackCalm

(* The first step of the call on top, and those after it *)
LEMMA FirstFacts ==
  ASSUME TypeOK, FocusFirst, Busy
  PROVE  /\ FocusOnTop <=> Item.op = "focus"
         /\ Item.op \notin {"gone", "drop"}
         /\ Item.op = "focus" => FirstOf(Top)
         /\ Item.op = "taken" => Top.at = "event" /\ Len(Top.todo) = 1
         /\ \A k \in 2..Len(Top.todo) : Top.todo[k].op \notin {"focus", "gone", "drop"}
         /\ TakenLast(Top) /\ Len(Top.todo) \in Nat \ {0} /\ Item = Top.todo[1]
<1>1. Item = Top.todo[1] /\ Len(Top.todo) \in Nat \ {0} /\ Top.todo # <<>> /\ stack # <<>>
  BY RestFacts DEF Busy
<1>2. Len(stack) \in 1..Len(stack) /\ Top = stack[Len(stack)]
  BY <1>1, StackFacts DEF TypeOK
<1>3. /\ TakenLast(Top)
      /\ \A k \in 1..Len(Top.todo) :
           /\ Top.todo[k].op \notin {"gone", "drop"}
           /\ Top.todo[k].op = "focus" => k = 1 /\ FirstOf(Top)
  BY <1>2 DEF FocusFirst
<1>4. 1 \in 1..Len(Top.todo) /\ \A k \in 2..Len(Top.todo) : k \in 1..Len(Top.todo) /\ k # 1
  BY <1>1
<1>5. Item.op = "taken" => Top.at = "event" /\ Len(Top.todo) = 1
  BY <1>1, <1>3, <1>4 DEF TakenLast
<1>6. FocusOnTop <=> Item.op = "focus"
  BY <1>1 DEF FocusOnTop
<1> QED BY <1>1, <1>3, <1>4, <1>5, <1>6

(* What takes the place of the first step is no change of focus. *)
LEMMA WithFocus ==
  ASSUME TypeOK, FocusFirst, Busy, NEW items \in Seq(Items), Then(items), Item.op # "taken",
         \A k \in 1..Len(items) : items[k].op \notin {"focus", "taken", "gone", "drop"}
  PROVE  Plain(With(items)) /\ SameTaken(With(items), Top)
<1> DEFINE f == With(items)
           n == Len(items)
           m == Len(Top.todo)
<1>1. /\ f \in Calls /\ f.at = Top.at /\ Len(f.todo) = n + m - 1
      /\ \A k \in 1..n : f.todo[k] = items[k]
      /\ \A k \in (n + 1)..(n + m - 1) : f.todo[k] = Top.todo[k - n + 1]
  BY Thens DEF Busy
<1>2. /\ \A k \in 2..m : Top.todo[k].op \notin {"focus", "gone", "drop"}
      /\ TakenLast(Top) /\ m \in Nat \ {0} /\ Item = Top.todo[1] /\ n \in Nat
  BY FirstFacts
<1>3. f.todo \in Seq(Items) /\ Top.todo \in Seq(Items)
  BY <1>1, RestFacts DEF Busy, Calls
<1>4. (f.todo # <<>>) <=> Len(f.todo) > 0
  BY <1>3, EmptySeq
<1>5. Top.todo # <<>>
  BY DEF Busy
<1> HIDE DEF f, n, m
<1>6. ASSUME NEW k \in 1..Len(f.todo)
      PROVE  \/ k \in 1..n /\ f.todo[k] = items[k]
             \/ k - n + 1 \in 2..m /\ f.todo[k] = Top.todo[k - n + 1]
  BY <1>1, <1>2
<1>7. ASSUME NEW k \in 1..Len(f.todo)
      PROVE  /\ f.todo[k].op \notin {"focus", "gone", "drop"}
             /\ f.todo[k].op = "taken" => f.at = "event" /\ k = Len(f.todo)
  <2>1. CASE k \in 1..n /\ f.todo[k] = items[k]
    BY <2>1 DEF n
  <2>2. CASE k - n + 1 \in 2..m /\ f.todo[k] = Top.todo[k - n + 1]
    <3>1. k - n + 1 \in 1..Len(Top.todo)
      BY <1>2, <2>2 DEF m
    <3>2. f.todo[k].op = "taken" => Top.at = "event" /\ k - n + 1 = m
      BY <1>2, <2>2, <3>1 DEF TakenLast, m
    <3> QED BY <1>1, <1>2, <2>2, <3>2
  <2> QED BY <1>6, <2>1, <2>2
<1>8. Plain(f)
  BY <1>7 DEF Plain, TakenLast
<1>9. SameTaken(f, Top)
  <2>1. CASE m = 1
    <3>1. ~Waits(Top)
      BY <1>2, <2>1 DEF Waits, m
    <3>2. ~Waits(f)
      <4> SUFFICES ASSUME Waits(f) PROVE FALSE
        OBVIOUS
      <4>1. Len(f.todo) = n /\ n \in 1..n
        BY <1>1, <1>2, <1>4, <2>1 DEF Waits
      <4>2. f.todo[n].op = "taken" /\ f.todo[n] = items[n]
        BY <1>1, <4>1 DEF Waits
      <4> QED BY <4>1, <4>2 DEF n
    <3> QED BY <3>1, <3>2 DEF SameTaken
  <2>2. CASE m > 1
    <3>1. n + m - 1 \in (n + 1)..(n + m - 1) /\ (n + m - 1) - n + 1 = m
      BY <1>2, <2>2
    <3>2. f.todo[Len(f.todo)] = Top.todo[m] /\ f.todo # <<>>
      BY <1>1, <1>2, <1>4, <2>2, <3>1
    <3> QED BY <1>5, <3>2 DEF SameTaken, Waits, m
  <2> QED BY <1>2, <2>1, <2>2
<1> QED BY <1>8, <1>9 DEF f
LEMMA QueuesSame ==
  ASSUME sent' = sent PROVE QueuesCalm
BY DEF QueuesCalm

LEMMA FocusHost ==
  ASSUME FocusInv, SentInv',
         \/ \E type \in Types : Host(type)
         \/ Age \/ UNCHANGED vars
         \/ \E t \in Threads : Present(t) \/ Reset(t)
  PROVE  FocusInv'
<1>1. /\ stack' = stack /\ sent' = sent /\ focused' = focused
      /\ windows' = windows /\ active' = active /\ (device' = "lost") = (device = "lost")
  BY DEF Host, Age, Present, Reset, vars, gameVars
<1>2. FocusFirst'
  BY <1>1 DEF FocusInv, FocusFirst
<1>3. /\ Top' = Top /\ (FocusOnTop' <=> FocusOnTop) /\ (InEvent' <=> InEvent)
      /\ (InQueue' <=> InQueue)
  BY <1>1 DEF FocusOnTop, Top, InEvent, InQueue
<1>4. \A v : Aim(v)' => Aim(v)
  BY <1>1 DEF Aim
<1>5. NewestWins'
  <2> SUFFICES ASSUME ~InEvent', NEW v \in BOOLEAN, Aim(v)'
               PROVE  /\ \A t \in Threads : NewestSays(sent'[t], v)
                      /\ ~InQueue' /\ FocusOnTop' => Top'.todo[1].on = v
                      /\ ~InQueue' /\ ~FocusOnTop' => (device' = "lost") = ~v
    BY DEF NewestWins, NewestSays
  <2>1. /\ \A t \in Threads : NewestSays(sent[t], v)
        /\ ~InQueue /\ FocusOnTop => Top.todo[1].on = v
        /\ ~InQueue /\ ~FocusOnTop => (device = "lost") = ~v
    BY <1>3, <1>4 DEF FocusInv, NewestWins
  <2> QED BY <1>1, <1>3, <2>1
<1> QED BY <1>1, <1>2, <1>5 DEF FocusInv

(* Nothing waits on top while the program runs. *)
LEMMA RunsPlain ==
  ASSUME TypeOK, CallsFit, NEW t \in Threads, Runs(t), ~ProcsWait
  PROVE  ~FocusOnTop
<1>1. CASE stack = <<>>
  BY <1>1 DEF FocusOnTop
<1>2. CASE stack # <<>> /\ Top.call = "proc"
  <2>1. Top.at = "runs"
    BY <1>2, TopFits
  <2>2. Top.todo = <<>>
    BY <1>2, <2>1, TopFits
  <2> QED BY <2>2 DEF FocusOnTop
<1> QED BY <1>1, <1>2 DEF Runs

LEMMA FocusBegin ==
  ASSUME FocusInv, Places, ~ProcsWait, ~Destroys, SentInv',
         \/ \E t \in Threads : Call(t, "peek") \/ Call(t, "read")
         \/ Call(NoThread, "test")
         \/ \E w \in Windows : Show(w) \/ Destroy(w)
  PROVE  FocusInv'
<1>1. TypeOK /\ CallsFit /\ FocusFirst
  BY DEF FocusInv, SentInv, PostInv
<1>2. /\ sent' = sent /\ focused' = focused /\ device' = device
      /\ windows' = windows /\ active' = active /\ active \in Windows
  BY DEF Call, Show, Destroy, Begin, FocusInv
<1>3. \E f : Pushed(f) /\ Plain(f) /\ ~Waits(f)
  <2>1. ASSUME NEW t \in Threads \cup {NoThread}, NEW call \in {"peek", "read", "test"},
               Call(t, call)
        PROVE  Pushed(Pumps(t, call)) /\ Plain(Pumps(t, call)) /\ ~Waits(Pumps(t, call))
    <3>1. Pushed(Pumps(t, call))
      BY <1>1, <2>1, CallDoes
    <3>2. Pumps(t, call).todo = <<>>
      BY DEF Pumps, Frame
    <3> QED BY <3>1, <3>2 DEF Plain, TakenLast, Waits
  <2>2. ASSUME NEW w \in Windows, Show(w)
        PROVE  Pushed(Shows(w)) /\ Plain(Shows(w)) /\ ~Waits(Shows(w))
    <3>1. Pushed(Shows(w))
      BY <1>1, <2>2, ShowDoes
    <3>2. Shows(w).todo = <<[op |-> "activate", w |-> w, n |-> Now]>>
      BY DEF Shows, Frame
    <3> QED BY <3>1, <3>2 DEF Plain, TakenLast, Waits
  <2>3. ASSUME NEW w \in Windows PROVE ~Destroy(w)
    BY DEF Destroy
  <2> QED BY <2>1, <2>2, <2>3
<1>4. ~FocusOnTop
  <2>1. \E t \in Threads : Runs(t)
    <3>1. ASSUME NEW w \in Windows, Show(w) \/ Destroy(w) PROVE Runs(Owner[w]) /\ Owner[w] \in Threads
      BY <3>1 DEF Show, Destroy, Places
    <3>2. ASSUME NEW t \in Threads, Call(t, "peek") \/ Call(t, "read") PROVE Runs(t)
      BY <3>2 DEF Call
    <3>3. Call(NoThread, "test") => \E t \in Threads : Runs(t)
      BY DEF Call
    <3> QED BY <3>1, <3>2, <3>3
  <2> QED BY <1>1, <2>1, RunsPlain
<1>5. StackCalm
  BY <1>1, <1>3, <1>4, PushFocus
<1> QED BY <1>2, <1>4, <1>5, QueuesSame, FocusCalm

LEMMA FocusSend ==
  ASSUME FocusInv, Places, NeverFull, SentInv', Busy, Send
  PROVE  FocusInv'
<1>1. TypeOK /\ FocusFirst
  BY DEF FocusInv, SentInv, PostInv
<1>2. /\ focused' = focused /\ device' = device
      /\ windows' = windows /\ active' = active /\ active \in Windows /\ Item.op = "send"
  BY DEF Send, FocusInv, gameVars
<1>3. ~FocusOnTop /\ Item.op # "taken"
  BY <1>1, <1>2, FirstFacts
<1>4. /\ <<>> \in Seq(Items)
      /\ \A k \in 1..Len(<<>>) : <<>>[k].op \notin {"focus", "taken", "gone", "drop"}
  BY Seqs
<1>5. Then(<<>>) /\ Swapped(With(<<>>)) => StackCalm
  <2> SUFFICES ASSUME Then(<<>>), Swapped(With(<<>>)) PROVE StackCalm
    OBVIOUS
  <2>1. Plain(With(<<>>)) /\ SameTaken(With(<<>>), Top)
    BY <1>1, <1>3, <1>4, WithFocus
  <2> QED BY <1>1, <2>1, SwapFocus DEF Busy
<1>6. CASE Dropped
  BY <1>2, <1>3, <1>5, <1>6, QueuesSame, FocusCalm DEF Dropped
<1>7. CASE PutOff
  <2>1. QueuesCalm
    BY <1>1, <1>2, <1>7, FocusPutOff DEF QueuesCalm
  <2> QED BY <1>2, <1>3, <1>5, <1>7, <2>1, FocusCalm DEF PutOff
<1>8. CASE Called(Rest, Proc) /\ sent' = sent
  <2>1. Rest.at = Top.at /\ Rest.todo = Tail(Top.todo)
    BY <1>1, RestFacts, StackFacts DEF Busy, TypeOK, Calls
  <2>2. Proc.todo = <<>>
    BY DEF Proc, Frame
  <2>3. Plain(Proc) /\ ~Waits(Proc)
    BY <2>2 DEF Plain, TakenLast, Waits
  <2>4. /\ \A k \in 2..Len(Top.todo) : Top.todo[k].op \notin {"focus", "gone", "drop"}
        /\ TakenLast(Top) /\ Len(Top.todo) \in Nat \ {0} /\ Item = Top.todo[1]
    BY <1>1, FirstFacts
  <2>5. /\ Len(Rest.todo) = Len(Top.todo) - 1 /\ Rest.todo \in Seq(Items)
        /\ \A k \in 1..(Len(Top.todo) - 1) : Rest.todo[k] = Top.todo[k + 1]
    BY <1>1, <2>1, RestFacts DEF Busy
  <2>6. \A k \in 1..Len(Rest.todo) : k + 1 \in 2..Len(Top.todo) /\ k + 1 \in 1..Len(Top.todo)
    BY <2>4, <2>5
  <2>7. ASSUME NEW k \in 1..Len(Rest.todo), Rest.todo[k].op = "taken"
        PROVE  Top.at = "event" /\ k = Len(Rest.todo)
    <3>1. Top.todo[k + 1].op = "taken" /\ k + 1 \in 1..Len(Top.todo)
      BY <2>5, <2>6, <2>7
    <3>2. Top.at = "event" /\ k + 1 = Len(Top.todo)
      BY <2>4, <3>1 DEF TakenLast
    <3> QED BY <2>4, <2>5, <3>2
  <2>8. Plain(Rest)
    BY <2>1, <2>4, <2>5, <2>6, <2>7 DEF Plain, TakenLast
  <2>9. SameTaken(Rest, Top)
    <3>1. CASE Len(Top.todo) = 1
      <4>1. ~Waits(Top)
        BY <1>3, <2>4, <3>1 DEF Waits
      <4>2. Rest.todo = <<>>
        BY <2>5, <3>1, EmptySeq
      <4> QED BY <4>1, <4>2 DEF SameTaken, Waits
    <3>2. CASE Len(Top.todo) > 1
      <4>1. Len(Rest.todo) \in 1..(Len(Top.todo) - 1) /\ Len(Rest.todo) + 1 = Len(Top.todo)
        BY <2>4, <2>5, <3>2
      <4>2. Rest.todo[Len(Rest.todo)] = Top.todo[Len(Top.todo)]
        BY <2>5, <4>1
      <4>3. Rest.todo # <<>> /\ Top.todo # <<>>
        BY <2>4, <2>5, <4>1, EmptySeq DEF Busy
      <4> QED BY <4>2, <4>3 DEF SameTaken, Waits
    <3>3. Len(Top.todo) \in Nat \ {0}
      BY <2>4
    <3>4. Len(Top.todo) = 1 \/ Len(Top.todo) > 1
      <4>1. PICK m \in Nat \ {0} : m = Len(Top.todo)
        BY <3>3
      <4>2. m = 1 \/ m > 1
        OBVIOUS
      <4> QED BY <4>1, <4>2
    <3> QED BY <3>1, <3>2, <3>4
  <2>10. StackCalm
    BY <1>1, <1>8, <2>3, <2>8, <2>9, CallFocus DEF Busy
  <2> QED BY <1>2, <1>3, <1>8, <2>10, QueuesSame, FocusCalm
<1> QED BY <1>1, <1>6, <1>7, <1>8, SendDoes

(* What tells windows something, or posts, changes no focus. *)
LEMMA FocusTell ==
  ASSUME FocusInv, Places, SentInv', Busy,
         ActivateWindow \/ Activated \/ Gone \/ Post \/ Drop
  PROVE  FocusInv'
<1>1. TypeOK /\ FocusFirst
  BY DEF FocusInv, SentInv, PostInv
<1>2. Item.op \notin {"gone", "drop"}
  BY <1>1, FirstFacts
<1>3. ActivateWindow \/ Activated \/ Post
  BY <1>2 DEF Gone, Drop
<1>4. sent' = sent /\ focused' = focused /\ device' = device /\ windows' = windows
      /\ active \in Windows /\ Item.op \in {"activate", "activated", "post"}
  BY <1>3 DEF ActivateWindow, Activated, Post, gameVars, FocusInv
<1>5. active' \in Windows
  <2>1. CASE Activated
    BY <1>1, <2>1, ActivatedDoes DEF Activated
  <2>2. CASE ActivateWindow \/ Post
    BY <1>4, <2>2 DEF ActivateWindow, Post, gameVars
  <2> QED BY <1>3, <2>1, <2>2
<1>6. ~FocusOnTop /\ Item.op # "taken"
  BY <1>1, <1>4, FirstFacts
<1>7. \E items \in Seq(Items) :
        /\ Then(items) /\ Swapped(With(items))
        /\ \A k \in 1..Len(items) : items[k].op \notin {"focus", "taken", "gone", "drop"}
  <2>1. CASE ActivateWindow
    <3>1. /\ WindowsTold \in Seq(Items) /\ Then(WindowsTold) /\ Swapped(With(WindowsTold))
          /\ \A k \in 1..Len(WindowsTold) : WindowsTold[k].op \in {"send", "activated"}
      BY <1>1, <2>1, ActivateWindowDoes DEF Tells
    <3> QED BY <3>1
  <2>2. CASE Activated
    <3> DEFINE told == <<Told(Item.w, Item.n)>>
    <3>1. Then(told) /\ Swapped(With(told)) /\ told \in Seq(Items)
      BY <1>1, <2>2, ActivatedDoes DEF Tells
    <3>2. \A k \in 1..Len(told) : told[k].op = "send"
      BY DEF Told
    <3> QED BY <3>1, <3>2
  <2>3. CASE Post
    <3>1. Then(<<>>) /\ Swapped(With(<<>>))
      BY <1>1, <2>3, PlainDoes
    <3>2. /\ <<>> \in Seq(Items)
          /\ \A k \in 1..Len(<<>>) : <<>>[k].op \notin {"focus", "taken", "gone", "drop"}
      BY Seqs
    <3> QED BY <3>1, <3>2
  <2> QED BY <1>3, <2>1, <2>2, <2>3
<1>8. PICK items \in Seq(Items) :
        /\ Then(items) /\ Swapped(With(items))
        /\ \A k \in 1..Len(items) : items[k].op \notin {"focus", "taken", "gone", "drop"}
  BY <1>7
<1>9. Plain(With(items)) /\ SameTaken(With(items), Top)
  BY <1>1, <1>6, <1>8, WithFocus
<1>10. StackCalm
  BY <1>1, <1>8, <1>9, SwapFocus DEF Busy
<1> QED BY <1>4, <1>5, <1>6, <1>10, QueuesSame, FocusCalm
(* One thread owns the windows: changes of focus wait for no other. *)
LEMMA OneQueue ==
  ASSUME TypeOK, SentBefore, OneThread, NEW w \in Windows, NEW t \in Threads, t # Owner[w]
  PROVE  ~HasFocus(sent[t])
<1> SUFFICES ASSUME NEW m \in 1..Len(sent[t]) PROVE sent[t][m].op # "focus"
  BY DEF HasFocus
<1>1. sent[t] \in Seq(Waiting)
  BY DEF TypeOK
<1>2. sent[t][m].w \in Windows
  <2>1. sent[t][m] \in Waiting
    BY <1>1
  <2> QED BY <2>1 DEF Waiting
<1>3. Owner[sent[t][m].w] = t
  BY DEF SentBefore
<1> QED BY <1>2, <1>3 DEF OneThread

(* What the event being handled says is aimed at. *)
LEMMA AimTop ==
  ASSUME TypeOK, FocusFirst, OneEvent, stack # <<>>, Waits(Top), NEW v, Aim(v)
  PROVE  v = Says(Top)
<1>1. Len(stack) \in 1..Len(stack) /\ Top = stack[Len(stack)]
  BY StackFacts DEF TypeOK
<1>2. PICK i \in 1..Len(stack) : Waits(stack[i]) /\ v = Says(stack[i])
  BY <1>1 DEF Aim
<1>3. stack[i].at = "event" /\ stack[Len(stack)].at = "event"
  BY <1>1, <1>2, FocusFacts
<1>4. i = Len(stack)
  BY <1>1, <1>3 DEF OneEvent
<1> QED BY <1>1, <1>2, <1>4

LEMMA FocusActivate ==
  ASSUME FocusInv, Places, OneThread, SentInv', Busy, Activate
  PROVE  FocusInv'
<1>1. /\ TypeOK /\ TypeOK' /\ FocusFirst /\ OneEvent /\ SentBefore
      /\ NewestWins /\ windows = Windows /\ active \in Windows
  BY DEF FocusInv, SentInv, PostInv
<1>2. /\ focused' = focused /\ windows' = windows /\ active' = active /\ Item.op = "focus"
  BY DEF Activate, gameVars
<1>3. /\ FirstOf(Top) /\ FocusOnTop /\ Item = Top.todo[1] /\ Item.op # "taken"
  BY <1>1, <1>2, FirstFacts
<1>4. /\ Item.w \in Windows /\ Item.w # NoWindow /\ Item.on \in BOOLEAN
      /\ Top.at \in {"event", "delivers"}
      /\ Top.at = "event" => Waits(Top) /\ Says(Top) = Item.on
  <2>1. Item \in Items
    BY <1>1, RestFacts DEF Busy
  <2>2. Item.on \in BOOLEAN
    BY <1>2, <2>1 DEF Items, Waiting
  <2> QED BY <1>3, <2>2 DEF FirstOf, Places
<1>5. ASSUME NEW items \in Seq(Items), Then(items), Swapped(With(items)),
             \A k \in 1..Len(items) : items[k].op \notin {"focus", "taken", "gone", "drop"}
      PROVE  StackCalm /\ FocusFirst' /\ ~FocusOnTop'
  <2>1. Plain(With(items)) /\ SameTaken(With(items), Top)
    BY <1>1, <1>3, <1>5, WithFocus
  <2>2. StackCalm
    BY <1>1, <1>5, <2>1, SwapFocus DEF Busy
  <2> QED BY <1>1, <2>2, PlainTop DEF StackCalm
<1>6. ASSUME NEW v, Aim(v), Top.at = "event" PROVE v = Item.on
  <2>1. Waits(Top) /\ Says(Top) = Item.on
    BY <1>4, <1>6
  <2>2. stack # <<>>
    BY DEF Busy
  <2> QED BY <1>1, <1>6, <2>1, <2>2, AimTop
<1>7. CASE Top.at = "event" /\ MustDefer(Item.w) /\ PutOff
  <2>1. /\ <<>> \in Seq(Items)
        /\ \A k \in 1..Len(<<>>) : <<>>[k].op \notin {"focus", "taken", "gone", "drop"}
    BY Seqs
  <2>2. StackCalm /\ FocusFirst' /\ ~FocusOnTop'
    BY <1>5, <1>7, <2>1 DEF PutOff
  <2>3. PICK w \in Windows, item \in Waiting :
          w = Item.w /\ item = Item /\ sent' = Deferred(w, item)
    BY <1>7 DEF PutOff
  <2>4. AddedTo(sent'[Owner[w]], sent[Owner[w]], item)
        /\ \A t \in Threads : t # Owner[w] => sent'[t] = sent[t]
    BY <1>1, <2>3, DeferredAdds
  <2> DEFINE d == sent'[Owner[w]]
  <2>5. d \in Seq(Waiting) /\ d # <<>> /\ d[Len(d)] = item
    BY <2>4 DEF AddedTo
  <2>6. HasFocus(d) /\ NewestSays(d, Item.on)
    <3>1. d[Len(d)].op = "focus" /\ d[Len(d)].on = Item.on
      BY <1>2, <2>3, <2>5
    <3> HIDE DEF d
    <3> QED BY <2>5, <3>1, FocusLast
  <2>7. InQueue'
    BY <2>6 DEF InQueue, Places, HasFocus
  <2>8. ASSUME NEW t \in Threads PROVE NewestSays(sent'[t], Item.on)
    <3>1. CASE t = Owner[w]
      BY <2>6, <3>1
    <3>2. CASE t # Owner[w]
      <4>1. ~HasFocus(sent[t])
        BY <1>1, <3>2, OneQueue
      <4> QED BY <2>4, <3>2, <4>1 DEF NewestSays, HasFocus
    <3> QED BY <3>1, <3>2
  <2>9. ASSUME NEW v \in BOOLEAN, Aim(v)' PROVE v = Item.on
    <3>1. Aim(v)
      BY <1>2, <2>2, <2>9, AimCalm
    <3> QED BY <1>6, <1>7, <3>1
  <2>10. NewestWins'
    BY <2>7, <2>8, <2>9 DEF NewestWins, NewestSays
  <2> QED BY <1>1, <1>2, <2>2, <2>10 DEF FocusInv
<1>8. CASE /\ ~(Item.w # NoWindow /\ Top.at = "event" /\ MustDefer(Item.w)) /\ sent' = sent
           /\ Swapped(With(AppTold)) /\ Then(AppTold) /\ AppTold \in Seq(Items)
           /\ device' = IF ~Item.on THEN "lost" ELSE IF device = "lost" THEN "notreset" ELSE device
  <2>1. \A k \in 1..Len(AppTold) : AppTold[k].op \notin {"focus", "taken", "gone", "drop"}
    BY DEF AppTold, Send1
  <2>2. StackCalm /\ FocusFirst' /\ ~FocusOnTop'
    BY <1>5, <1>8, <2>1
  <2>3. (device' = "lost") = ~Item.on
    BY <1>4, <1>8
  <2>4. InQueue' <=> InQueue
    BY <1>8 DEF InQueue
  <2>5. ASSUME NEW v \in BOOLEAN, Aim(v)'
        PROVE  /\ \A t \in Threads : NewestSays(sent'[t], v)
               /\ ~InQueue' => (device' = "lost") = ~v
    <3>1. Aim(v)
      BY <1>2, <2>2, <2>5, AimCalm
    <3>2. CASE Top.at = "event"
      <4>1. v = Item.on
        BY <1>6, <3>1, <3>2
      <4>2. sent[Owner[Item.w]] = <<>>
        <5>1. ~MustDefer(Item.w)
          BY <1>4, <1>8, <3>2
        <5> QED BY <5>1 DEF MustDefer
      <4>3. ~HasFocus(<<>>)
        BY DEF HasFocus
      <4>4. ASSUME NEW t \in Threads PROVE ~HasFocus(sent[t])
        <5>1. CASE t = Owner[Item.w]
          BY <4>2, <4>3, <5>1
        <5>2. CASE t # Owner[Item.w]
          <6>1. PICK w \in Windows : w = Item.w
            BY <1>4
          <6> QED BY <1>1, <5>2, <6>1, OneQueue
        <5> QED BY <5>1, <5>2
      <4> QED BY <1>8, <2>3, <4>1, <4>4 DEF HasFocus, NewestSays
    <3>3. CASE Top.at = "delivers"
      <4>1. ~InEvent
        BY <3>3 DEF InEvent
      <4>2. /\ \A t \in Threads : NewestSays(sent[t], v)
            /\ ~InQueue => Item.on = v
        BY <1>1, <1>3, <3>1, <4>1 DEF NewestWins
      <4> QED BY <1>8, <2>3, <2>4, <4>2
    <3>4. Top.at = "event" \/ Top.at = "delivers"
      BY <1>4
    <3> QED BY <3>2, <3>3, <3>4
  <2>6. NewestWins'
    BY <2>2, <2>5 DEF NewestWins, NewestSays
  <2> QED BY <1>1, <1>2, <2>2, <2>6 DEF FocusInv
<1> QED BY <1>1, <1>7, <1>8, ActivateDoes

LEMMA FocusTakenDoes ==
  ASSUME FocusInv, Places, SentInv', Busy, FocusTaken
  PROVE  FocusInv'
<1>1. /\ TypeOK /\ TypeOK' /\ FocusFirst /\ OneEvent
      /\ NewestWins /\ windows = Windows /\ active \in Windows
  BY DEF FocusInv, SentInv, PostInv
<1>2. /\ focused' = Item.on /\ windows' = windows /\ active' = active /\ Item.op = "taken"
      /\ sent' = sent /\ device' = device
  BY DEF FocusTaken, gameVars
<1>3. ~FocusOnTop /\ Top.at = "event" /\ Len(Top.todo) = 1 /\ Item = Top.todo[1]
  BY <1>1, <1>2, FirstFacts
<1>4. Len(stack) \in 1..Len(stack) /\ Len(stack) \in Nat /\ Top = stack[Len(stack)] /\ Top.todo # <<>>
  BY <1>1, StackFacts DEF Busy, TypeOK
<1>5. Aim(Item.on)
  <2>1. Waits(Top) /\ Item.on = Says(Top)
    BY <1>2, <1>3, <1>4 DEF Waits, Says
  <2> QED BY <1>4, <2>1 DEF Aim
<1> DEFINE f == With(<<>>)
<1>6. Swapped(f) /\ Len(f.todo) = 0 /\ f.todo = <<>>
  <2>1. Then(<<>>) /\ <<>> \in Seq(Items) /\ Len(<<>>) = 0
    BY Seqs DEF FocusTaken
  <2>2. Swapped(f) /\ f \in Calls /\ Len(f.todo) = Len(<<>>) + Len(Top.todo) - 1
    BY <1>1, <2>1, Thens DEF Busy
  <2>3. f.todo \in Seq(Items)
    BY <2>2 DEF Calls
  <2> QED BY <1>3, <2>1, <2>2, <2>3, EmptySeq
<1> HIDE DEF f
<1>7. /\ Len(stack') = Len(stack) /\ stack'[Len(stack)] = f
      /\ \A i \in 1..(Len(stack) - 1) : stack'[i] = stack[i]
  BY <1>6 DEF Swapped, Same
<1>8. \A i \in 1..Len(stack') : Plain(stack'[i]) /\ ~Waits(stack'[i])
  <2> TAKE i \in 1..Len(stack')
  <2>1. CASE i = Len(stack)
    BY <1>6, <1>7, <2>1 DEF Plain, TakenLast, Waits
  <2>2. CASE i \in 1..(Len(stack) - 1)
    <3>1. stack'[i] = stack[i] /\ i \in 1..Len(stack) /\ i # Len(stack)
      BY <1>4, <1>7, <2>2
    <3>2. stack[i].at # "event"
      BY <1>1, <1>3, <1>4, <3>1 DEF OneEvent
    <3> QED BY <1>1, <3>1, <3>2, FocusFacts
  <2> QED BY <1>4, <1>7, <2>1, <2>2
<1>9. FocusFirst' /\ ~FocusOnTop'
  BY <1>1, <1>8, PlainTop
<1>10. ASSUME NEW v \in BOOLEAN, Aim(v)' PROVE v = Item.on
  <2>1. \/ \E i \in 1..Len(stack') : Waits(stack'[i]) /\ v = Says(stack'[i])
        \/ v = focused'
    BY <1>10 DEF Aim, Waits, Says
  <2> QED BY <1>2, <1>8, <2>1
<1>11. Item.on \in BOOLEAN
  <2>1. Item \in Items
    BY <1>1, RestFacts DEF Busy
  <2> QED BY <1>2, <2>1 DEF Items, Waiting
<1>12. /\ \A t \in Threads : NewestSays(sent[t], Item.on)
       /\ ~InQueue => (device = "lost") = ~Item.on
  BY <1>1, <1>3, <1>5, <1>11 DEF NewestWins, InEvent
<1>13. InQueue' <=> InQueue
  BY <1>2 DEF InQueue
<1>14. NewestWins'
  <2> SUFFICES ASSUME NEW v \in BOOLEAN, Aim(v)'
               PROVE  /\ \A t \in Threads : NewestSays(sent'[t], v)
                      /\ ~InQueue' => (device' = "lost") = ~v
    BY <1>9 DEF NewestWins, NewestSays
  <2> QED BY <1>2, <1>10, <1>12, <1>13
<1> QED BY <1>1, <1>2, <1>9, <1>14 DEF FocusInv

LEMMA FocusTakeEvent ==
  ASSUME FocusInv, Places, SentInv', TakeEvent
  PROVE  FocusInv'
<1>1. /\ TypeOK /\ TypeOK' /\ FocusFirst /\ EventsInOrder
      /\ windows = Windows /\ active \in Windows
  BY DEF FocusInv, SentInv, PostInv
<1>2. Between /\ Takes /\ Head(input) \in [n : Nat, type : Types]
  BY <1>1, TakeEventDoes
<1>3. PICK w \in windows \cup {NoWindow}, f \in Calls :
        /\ Swapped(f) /\ f.at = "event" /\ f.todo = Todo(Head(input), w)
        /\ Head(input).type \in {"blur", "focus"} => w = Active
  BY <1>1, TakeEventDoes
<1>4. /\ sent' = sent /\ device' = device /\ focused' = focused
      /\ windows' = windows /\ active' = active
  BY DEF TakeEvent, gameVars
<1>5. stack # <<>> /\ Top.todo = <<>> /\ ~FocusOnTop /\ ~Waits(Top)
  BY <1>2 DEF Between, FocusOnTop, Waits
<1>6. w \in Windows \cup {NoWindow}
  BY <1>1, <1>3
<1>7. CASE Head(input).type \notin {"blur", "focus"}
  <2>1. \A k \in 1..Len(f.todo) : f.todo[k].op \in {"send", "activate", "post"}
    <3>1. \A k \in 1..Len(Todo(Head(input), w)) :
            /\ Todo(Head(input), w)[k].op \in {"send", "activate", "post", "focus", "taken"}
            /\ Todo(Head(input), w)[k].op \notin {"focus", "taken"}
      BY <1>2, <1>6, <1>7, TodoFacts
    <3> QED BY <1>3, <3>1
  <2>2. f.todo \in Seq(Items)
    BY <1>3 DEF Calls
  <2>3. ~Waits(f)
    <3> SUFFICES ASSUME f.todo # <<>> PROVE f.todo[Len(f.todo)].op # "taken"
      BY DEF Waits
    <3>1. Len(f.todo) \in 1..Len(f.todo)
      BY <2>2, EmptySeq
    <3> QED BY <2>1, <3>1
  <2>4. Plain(f) /\ SameTaken(f, Top)
    BY <1>5, <2>1, <2>3 DEF Plain, TakenLast, SameTaken
  <2>5. StackCalm
    BY <1>1, <1>3, <1>5, <2>4, SwapFocus
  <2> QED BY <1>1, <1>4, <1>5, <2>5, QueuesSame, FocusCalm
<1>8. CASE Head(input).type \in {"blur", "focus"}
  <2> DEFINE on == Head(input).type = "focus"
             x == [op |-> "focus", on |-> on, w |-> w, n |-> Head(input).n]
             y == [op |-> "taken", on |-> on]
  <2>1. f.todo = <<x, y>>
    BY <1>2, <1>3, <1>6, <1>8, TodoFacts
  <2>2. w \in Windows
    BY <1>1, <1>3, <1>8 DEF Active
  <2>3. x.op = "focus" /\ x.on = on /\ x.w \in Windows /\ y.op = "taken" /\ y.on = on
    BY <2>2
  <2> HIDE DEF on, x, y
  <2>4. /\ Len(f.todo) = 2 /\ f.todo[1] = x /\ f.todo[2] = y /\ f.todo # <<>>
        /\ \A k \in 1..Len(f.todo) : k = 1 \/ k = 2
    BY <2>1
  <2>5. Waits(f) /\ Says(f) = on
    BY <2>3, <2>4 DEF Waits, Says
  <2>6. FirstOf(f)
    BY <1>3, <2>3, <2>4, <2>5 DEF FirstOf
  <2>7. TakenLast(f)
    BY <1>3, <2>3, <2>4 DEF TakenLast
  <2>8. /\ Len(stack) \in Nat \ {0} /\ Len(stack') = Len(stack) /\ stack'[Len(stack)] = f
        /\ \A i \in 1..(Len(stack) - 1) : stack'[i] = stack[i] /\ i \in 1..Len(stack) /\ i # Len(stack)
    BY <1>1, <1>3, <1>5, StackFacts DEF TypeOK, Swapped, Same
  <2>9. FocusFirst'
    <3> SUFFICES ASSUME NEW i \in 1..Len(stack')
                 PROVE  /\ TakenLast(stack'[i])
                        /\ \A k \in 1..Len(stack'[i].todo) :
                             /\ stack'[i].todo[k].op \notin {"gone", "drop"}
                             /\ stack'[i].todo[k].op = "focus" =>
                                  i = Len(stack') /\ k = 1 /\ FirstOf(stack'[i])
      BY DEF FocusFirst, TakenLast, FirstOf, Waits, Says
    <3>1. CASE i = Len(stack)
      BY <2>3, <2>4, <2>6, <2>7, <2>8, <3>1
    <3>2. CASE i \in 1..(Len(stack) - 1)
      <4>1. Plain(stack'[i])
        BY <1>1, <2>8, <3>2, FocusFacts
      <4> QED BY <4>1 DEF Plain
    <3> QED BY <2>8, <3>1, <3>2
  <2>10. InEvent'
    <3>1. stack' # <<>> /\ Top' = f
      <4>1. stack' \in Seq(Calls)
        BY <1>3, SwappedSeq
      <4> QED BY <2>8, <4>1, EmptySeq DEF Top, Last
    <3> QED BY <1>3, <2>3, <2>4, <3>1 DEF InEvent, FocusOnTop
  <2>11. NewestWins'
    BY <2>10 DEF NewestWins
  <2> QED BY <1>1, <1>4, <2>9, <2>11 DEF FocusInv
<1> QED BY <1>7, <1>8

LEMMA FocusPumped ==
  ASSUME FocusInv, Places, SentInv', Pumped \/ TakeMessage \/ Return
  PROVE  FocusInv'
<1>1. TypeOK /\ FocusFirst /\ windows = Windows /\ active \in Windows
  BY DEF FocusInv, SentInv, PostInv
<1>2. /\ sent' = sent /\ device' = device /\ focused' = focused
      /\ windows' = windows /\ active' = active
  BY DEF Pumped, TakeMessage, Return, gameVars
<1>3. stack # <<>> /\ Top.todo = <<>>
  BY <1>1, PumpedDoes, ReturnDoes
<1>4. ~FocusOnTop /\ ~Waits(Top)
  BY <1>3 DEF FocusOnTop, Waits
<1>5. CASE Popped
  <2>1. StackCalm
    BY <1>1, <1>3, <1>4, <1>5, PopFocus
  <2> QED BY <1>1, <1>2, <1>4, <2>1, QueuesSame, FocusCalm
<1>6. CASE Swapped(Delivers)
  <2>1. Delivers.todo = <<>>
    <3>1. Top \in Calls
      BY <1>1, <1>3, StackFacts DEF TypeOK
    <3> QED BY <1>3, <3>1 DEF Delivers, Calls
  <2>2. Plain(Delivers) /\ SameTaken(Delivers, Top)
    BY <1>4, <2>1 DEF Plain, TakenLast, SameTaken, Waits
  <2>3. StackCalm
    BY <1>1, <1>3, <1>6, <2>2, SwapFocus
  <2> QED BY <1>1, <1>2, <1>4, <2>3, QueuesSame, FocusCalm
<1> QED BY <1>1, <1>5, <1>6, PumpedDoes, ReturnDoes

LEMMA FocusDeliver ==
  ASSUME FocusInv, Places, SentInv', Deliver
  PROVE  FocusInv'
<1>1. /\ TypeOK /\ TypeOK' /\ FocusFirst /\ CallsFit /\ SentInv
      /\ NewestWins /\ windows = Windows /\ active \in Windows
  BY DEF FocusInv, SentInv, PostInv
<1>2. /\ device' = device /\ focused' = focused /\ windows' = windows /\ active' = active
  BY DEF Deliver, gameVars
<1>3. /\ stack # <<>> /\ Top.at = "delivers" /\ Top.t \in Threads /\ Top.todo = <<>>
      /\ sent[Top.t] # <<>> /\ sent[Top.t] \in Seq(Waiting)
      /\ sent' = [sent EXCEPT ![Top.t] = Tail(@)]
      /\ Head(sent[Top.t]) \in Waiting /\ Head(sent[Top.t]) = sent[Top.t][1]
      /\ Swapped(Delivered) /\ Delivered.todo = <<sent[Top.t][1]>> /\ Delivered.at = "delivers"
  BY <1>1, DeliverDoes
<1> DEFINE h == sent[Top.t][1]
           f == Delivered
           o == Top.t
<1>4. h \in Waiting /\ h.op \in {"send", "focus"} /\ h.w \in Windows
  BY <1>3 DEF Waiting
<1>5. /\ f.at = "delivers" /\ Len(f.todo) = 1 /\ f.todo[1] = h /\ f.todo # <<>>
      /\ \A k \in 1..Len(f.todo) : k = 1
  BY <1>3
<1>6. /\ Len(stack) \in Nat \ {0} /\ Len(stack') = Len(stack) /\ stack'[Len(stack)] = f
      /\ \A i \in 1..(Len(stack) - 1) : stack'[i] = stack[i] /\ i \in 1..Len(stack) /\ i # Len(stack)
  BY <1>1, <1>3, StackFacts DEF TypeOK, Swapped, Same
<1>7. o \in Threads /\ sent \in [Threads -> Seq(Waiting)] /\ sent[o] # <<>>
      /\ sent'[o] = Tail(sent[o]) /\ \A t \in Threads : t # o => sent'[t] = sent[t]
  BY <1>1, <1>3 DEF TypeOK
<1> HIDE DEF h, f, o
<1>8. \A i \in 1..Len(stack) : ~Waits(stack[i])
  BY <1>1, FocusFacts, NoEventUnder
<1>9. ~Waits(f) /\ TakenLast(f) /\ (h.op = "focus" => FirstOf(f))
  BY <1>4, <1>5 DEF Waits, TakenLast, FirstOf
<1>10. \A i \in 1..Len(stack') : ~Waits(stack'[i])
  BY <1>6, <1>8, <1>9
<1>11. FocusFirst'
  <2> SUFFICES ASSUME NEW i \in 1..Len(stack')
               PROVE  /\ TakenLast(stack'[i])
                      /\ \A k \in 1..Len(stack'[i].todo) :
                           /\ stack'[i].todo[k].op \notin {"gone", "drop"}
                           /\ stack'[i].todo[k].op = "focus" =>
                                i = Len(stack') /\ k = 1 /\ FirstOf(stack'[i])
    BY DEF FocusFirst, TakenLast, FirstOf, Waits, Says
  <2>1. CASE i = Len(stack)
    BY <1>4, <1>5, <1>6, <1>9, <2>1
  <2>2. CASE i \in 1..(Len(stack) - 1)
    <3>1. Plain(stack'[i])
      BY <1>1, <1>6, <2>2, FocusFacts
    <3> QED BY <3>1 DEF Plain
  <2> QED BY <1>6, <2>1, <2>2
<1>12. FocusOnTop' <=> h.op = "focus"
  <2>1. stack' # <<>> /\ Top' = f
    <3>1. stack' \in Seq(Calls)
      BY <1>3, SwappedSeq
    <3> QED BY <1>6, <3>1, EmptySeq DEF Top, Last
  <2> QED BY <1>5, <2>1 DEF FocusOnTop
<1>13. FocusOnTop' => Top'.todo[1] = h
  <2>1. stack' \in Seq(Calls)
    BY <1>3, SwappedSeq
  <2>2. Top' = f
    BY <1>6, <2>1 DEF Top, Last
  <2> QED BY <1>5, <2>2
<1>14. ~FocusOnTop /\ ~InEvent
  BY <1>3 DEF FocusOnTop, InEvent
<1>15. NewestWins'
  <2> SUFFICES ASSUME NEW v \in BOOLEAN, Aim(v)'
               PROVE  /\ \A t \in Threads : NewestSays(sent'[t], v)
                      /\ ~InQueue' /\ h.op = "focus" => h.on = v
                      /\ ~InQueue' /\ h.op # "focus" => (device = "lost") = ~v
    BY <1>2, <1>12, <1>13 DEF NewestWins, NewestSays
  <2>1. v = focused
    BY <1>2, <1>10 DEF Aim, Waits, Says
  <2>2. Aim(v)
    BY <1>8, <2>1 DEF Aim
  <2>3. /\ \A t \in Threads : NewestSays(sent[t], v)
        /\ ~InQueue => (device = "lost") = ~v
    BY <1>1, <1>14, <2>2 DEF NewestWins
  <2>4. sent[o] \in Seq(Waiting) /\ NewestSays(sent[o], v) /\ h = sent[o][1]
    BY <1>7, <2>3 DEF h, o
  <2>5. /\ NewestSays(Tail(sent[o]), v)
        /\ h.op # "focus" => (HasFocus(Tail(sent[o])) <=> HasFocus(sent[o]))
        /\ h.op = "focus" /\ ~HasFocus(Tail(sent[o])) => h.on = v
    BY <1>7, <2>4, FocusTail
  <2>6. \A t \in Threads : NewestSays(sent'[t], v)
    BY <1>7, <2>3, <2>5
  <2>7. ~InQueue' => ~HasFocus(Tail(sent[o])) /\ \A t \in Threads : t # o => ~HasFocus(sent[t])
    BY <1>7 DEF InQueue, HasFocus
  <2>8. ~InQueue' /\ h.op # "focus" => ~InQueue
    BY <1>7, <2>5, <2>7 DEF InQueue
  <2> QED BY <2>3, <2>5, <2>6, <2>7, <2>8
<1> QED BY <1>1, <1>2, <1>11, <1>15 DEF FocusInv
LEMMA FocusStep ==
  ASSUME Places, ~ProcsWait, ~Destroys, OneThread, NeverFull, FocusInv, [Next]_vars
  PROVE  FocusInv'
<1>0. SentInv'
  BY SentStep DEF FocusInv
<1>1. CASE UNCHANGED vars
  BY <1>0, <1>1, FocusHost
<1>2. ASSUME NEW type \in Types, Host(type) PROVE FocusInv'
  BY <1>0, <1>2, FocusHost
<1>3. CASE Age
  BY <1>0, <1>3, FocusHost
<1>4. ASSUME NEW t \in Threads, Call(t, "peek") \/ Call(t, "read") PROVE FocusInv'
  BY <1>0, <1>4, FocusBegin
<1>5. ASSUME NEW t \in Threads, Present(t) \/ Reset(t) PROVE FocusInv'
  BY <1>0, <1>5, FocusHost
<1>6. CASE Call(NoThread, "test")
  BY <1>0, <1>6, FocusBegin
<1>7. ASSUME NEW w \in Windows, Show(w) \/ Destroy(w) PROVE FocusInv'
  BY <1>0, <1>7, FocusBegin
<1>8. CASE Does
  <2>1. Busy
    BY <1>8 DEF Does, Busy
  <2>2. CASE Send
    BY <1>0, <2>1, <2>2, FocusSend
  <2>3. CASE Activate
    BY <1>0, <2>1, <2>3, FocusActivate
  <2>4. CASE FocusTaken
    BY <1>0, <2>1, <2>4, FocusTakenDoes
  <2>5. CASE ActivateWindow \/ Activated \/ Gone \/ Post \/ Drop
    BY <1>0, <2>1, <2>5, FocusTell
  <2> QED BY <1>8, <2>2, <2>3, <2>4, <2>5 DEF Does
<1>9. CASE TakeEvent
  BY <1>0, <1>9, FocusTakeEvent
<1>10. CASE Pumped \/ TakeMessage \/ Return
  BY <1>0, <1>10, FocusPumped
<1>11. CASE Deliver
  BY <1>0, <1>11, FocusDeliver
<1> QED BY <1>1, <1>2, <1>3, <1>4, <1>5, <1>6, <1>7, <1>8, <1>9, <1>10, <1>11 DEF Next

LEMMA FocusAtFirst ==
  ASSUME Places, Init
  PROVE  FocusInv
<1>1. SentInv
  BY SentFirst
<1>2. /\ stack = <<>> /\ sent = [t \in Threads |-> <<>>] /\ windows = Windows
      /\ active \in Windows /\ device = "ok" /\ focused = TRUE
  BY DEF Init
<1>3. FocusFirst
  BY <1>2 DEF FocusFirst
<1>4. \A v : Aim(v) => v = TRUE
  BY <1>2 DEF Aim
<1>5. NewestWins
  <2>1. \A t \in Threads : sent[t] = <<>>
    BY <1>2
  <2>2. \A v : NewestSays(<<>>, v)
    BY DEF NewestSays
  <2> QED BY <1>2, <1>4, <2>1, <2>2 DEF NewestWins, FocusOnTop
<1> QED BY <1>1, <1>2, <1>3, <1>5 DEF FocusInv

LEMMA FocusFollows ==
  ASSUME FocusInv
  PROVE  DeviceFollowsFocus
<1> SUFFICES ASSUME \A t \in Threads : FocusItems(sent[t]) = {},
                    \A i \in 1..Len(stack) : FocusItems(stack[i].todo) = {}
             PROVE  (device = "lost") = ~focused
  BY DEF DeviceFollowsFocus
<1>1. TypeOK /\ NewestWins /\ focused \in BOOLEAN
  BY DEF FocusInv, SentInv, PostInv, TypeOK
<1>2. ~InQueue
  BY DEF InQueue, HasFocus, FocusItems
<1>3. ASSUME NEW i \in 1..Len(stack), stack[i].todo # <<>>
      PROVE  /\ stack[i].todo[1].op \notin {"focus", "taken"}
             /\ stack[i].todo[Len(stack[i].todo)].op \notin {"focus", "taken"}
  <2>1. stack[i].todo \in Seq(Items)
    <3>1. stack[i] \in Calls
      BY <1>1 DEF TypeOK
    <3> QED BY <3>1 DEF Calls
  <2>2. 1 \in 1..Len(stack[i].todo) /\ Len(stack[i].todo) \in 1..Len(stack[i].todo)
    BY <1>3, <2>1, EmptySeq
  <2>3. \A k \in 1..Len(stack[i].todo) : stack[i].todo[k].op \notin {"focus", "taken"}
    BY DEF FocusItems
  <2> QED BY <2>2, <2>3
<1>4. ~FocusOnTop
  <2> SUFFICES ASSUME FocusOnTop PROVE FALSE
    OBVIOUS
  <2>1. Len(stack) \in 1..Len(stack) /\ Top = stack[Len(stack)] /\ Top.todo # <<>>
    BY <1>1, StackFacts DEF FocusOnTop, TypeOK
  <2> QED BY <1>3, <2>1 DEF FocusOnTop
<1>5. Aim(focused)
  BY <1>3 DEF Aim, Waits
<1> QED BY <1>1, <1>2, <1>4, <1>5 DEF NewestWins, InEvent

(* Once no change of focus waits, the fullscreen device is lost exactly    *)
(* while the page is not focused: the newest change is the last to be      *)
(* done, whether by the pump that took it or by the window's thread        *)
(* (user32.js inputEvent1, d3d8 onActivate).  One thread owns the windows, *)
(* none is destroyed, and what waits for it never fills its queue, whose   *)
(* oldest message would be dropped: the change of focus perhaps.           *)
THEOREM FocusFollowed ==
  ASSUME Places, ~ProcsWait, ~Destroys, OneThread
  PROVE  Spec /\ []NeverFull => []DeviceFollowsFocus
<1>1. Init => FocusInv
  BY FocusAtFirst
<1>2. FocusInv /\ NeverFull /\ [Next]_vars => FocusInv'
  BY FocusStep
<1>3. FocusInv => DeviceFollowsFocus
  BY FocusFollows
<1> QED BY <1>1, <1>2, <1>3, PTL DEF Spec
==============================================================================
