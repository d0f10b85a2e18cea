--------------------------- MODULE RenderLinkProofs ---------------------------
(***************************************************************************)
(* Theorems about module RenderLink, for any resources, blocks of memory,  *)
(* ring size and number of frames: the guest never runs more than          *)
(* MaxFrames frames ahead of the screen, and every block of memory has     *)
(* exactly one owner, whether the worker lives, falls behind or dies.      *)
(*                                                                         *)
(* The invariant of these has four parts.  ShapeInv says what the commands *)
(* of a call that are not put yet look like: a present or a release comes  *)
(* last, and a call that waits has put all of them.  CursorInv orders the  *)
(* ring's positions.  FrameInv counts the presents on their way.           *)
(* MemoryInv gives each allocated block its one owner.                     *)
(*                                                                         *)
(* The rest prepares RenderLinkDrawsProofs: DataInv, the invariant of what *)
(* the commands on their way will show, the commands that each call adds,  *)
(* and the parts of DataInv that speak of records and commands alone.      *)
(***************************************************************************)
EXTENDS RenderLink, TLAPS, FiniteSetTheorems, SequenceTheorems, WellFoundedInduction

IsSequence(s) == s \in Seq({s[i] : i \in 1..Len(s)})

CallShape(s) ==
  \A i \in 1..Len(s) :
    /\ s[i].op \in {"FREE", "PRESENT"} => i = Len(s)
    /\ s[i].op = "FREE" => s[i].block \in Blocks \cup {NoBlock}

ShapeInv ==
  /\ IsSequence(todo) /\ CallShape(todo)
  /\ wait # NoWait => todo = <<>>
  /\ sync \subseteq Resources /\ bound \subseteq Resources

CursorInv ==
  /\ IsSequence(ring)
  /\ tail \in Nat /\ produced \in Nat /\ published \in Nat
  /\ produced <= tail + Size /\ published <= produced
  /\ ~failed => tail <= Consumed /\ Consumed <= published
  /\ failed => stalled

FrameWait == wait # NoWait /\ wait.kind = "frame"

FrameInv ==
  /\ frames \in Nat /\ shown \in Nat
  /\ ~failed => frames = shown + Cardinality(RingOps("PRESENT"))
  /\ FrameWait => wait.until = frames - MaxFrames
  /\ ~failed /\ ~FrameWait => frames <= shown + MaxFrames

Owned(b) == \E r \in live : addr[r] = b
Deferred(b) == \E d \in deferred : d[1] = b
FreesIn(s, b) == \E i \in 1..Len(s) : s[i].op = "FREE" /\ s[i].block = b

MemoryTypes ==
  /\ mem \in [Blocks -> Contents \cup {NoBytes}]
  /\ addr \in [Resources -> Blocks \cup {NoBlock}]
  /\ locked \in [Resources -> SUBSET Parts]
  /\ live \subseteq Resources
  /\ \A r \in Resources \ live : addr[r] = NoBlock
  /\ \A d \in deferred : d[1] \in Blocks

(* What is locked, or will be when a fence is passed, has memory.          *)
LocksHaveMemory ==
  /\ \A r \in Resources : locked[r] # {} => r \in live /\ addr[r] # NoBlock
  /\ \A r \in Buffers \cap live : addr[r] # NoBlock
  /\ wait # NoWait /\ wait.kind = "fence" =>
       wait.r \in live /\ addr[wait.r] # NoBlock /\ wait.parts \subseteq Parts

OneOwner ==
  /\ \A q, r \in live : addr[q] = addr[r] /\ addr[r] # NoBlock => q = r
  /\ \A d, e \in deferred : d[1] = e[1] => d = e
  /\ \A b \in Blocks : ~(Owned(b) /\ Deferred(b))
  /\ \A b \in Blocks : FreesIn(todo, b) => ~Owned(b) /\ ~Deferred(b)
  /\ \A b \in Blocks : mem[b] # NoBytes <=> Owned(b) \/ Deferred(b) \/ FreesIn(todo, b)

MemoryInv == MemoryTypes /\ LocksHaveMemory /\ OneOwner

IInv == ShapeInv /\ CursorInv /\ FrameInv /\ MemoryInv

----------------------------------------------------------------------------
LEMMA ContentsApart == NoBytes \notin Contents
  BY RenderLinkAssumption DEF Contents

(* Sequences.                                                              *)

LEMMA SequenceOfSet ==
  ASSUME NEW S, NEW s \in Seq(S)
  PROVE  IsSequence(s) /\ Len(s) \in Nat
  BY DEF IsSequence

LEMMA FunctionIsSequence ==
  ASSUME NEW n \in Nat, NEW S, NEW f \in [1..n -> S]
  PROVE  IsSequence(f) /\ Len(f) = n
  BY DEF IsSequence

LEMMA EmptyIsSequence == IsSequence(<<>>) /\ Len(<<>>) = 0
  BY DEF IsSequence

LEMMA OneIsSequence ==
  ASSUME NEW c
  PROVE  IsSequence(<<c>>) /\ Len(<<c>>) = 1 /\ <<c>>[1] = c
<1>1. <<c>> \in Seq({c}) /\ Len(<<c>>) = 1 /\ <<c>>[1] = c
  OBVIOUS
<1> QED BY <1>1, SequenceOfSet

LEMMA ConcatSequence ==
  ASSUME NEW s, NEW t, IsSequence(s), IsSequence(t)
  PROVE  /\ IsSequence(s \o t)
         /\ Len(s) \in Nat /\ Len(t) \in Nat /\ Len(s \o t) = Len(s) + Len(t)
         /\ \A i \in 1..Len(s \o t) :
              (s \o t)[i] = IF i <= Len(s) THEN s[i] ELSE t[i - Len(s)]
<1> DEFINE S == {s[i] : i \in 1..Len(s)} \cup {t[i] : i \in 1..Len(t)}
<1>1. s \in Seq(S) /\ t \in Seq(S)
  BY SeqMonotonic DEF IsSequence
<1>2. Len(s) \in Nat /\ Len(t) \in Nat
  BY <1>1
<1>3. s \o t \in Seq(S) /\ Len(s \o t) = Len(s) + Len(t)
  BY <1>1, ConcatProperties
<1>4. \A i \in 1..Len(s) + Len(t) :
        (s \o t)[i] = IF i <= Len(s) THEN s[i] ELSE t[i - Len(s)]
  BY <1>1, ConcatProperties
<1> QED BY <1>2, <1>3, <1>4, SequenceOfSet

LEMMA AppendSequence ==
  ASSUME NEW s, NEW c, IsSequence(s)
  PROVE  /\ IsSequence(Append(s, c))
         /\ Len(s) \in Nat /\ Len(Append(s, c)) = Len(s) + 1
         /\ Append(s, c)[Len(s) + 1] = c
         /\ \A i \in 1..Len(s) : Append(s, c)[i] = s[i]
<1> DEFINE S == {s[i] : i \in 1..Len(s)} \cup {c}
<1>1. s \in Seq(S) /\ c \in S
  BY SeqMonotonic DEF IsSequence
<1>2. /\ Append(s, c) \in Seq(S) /\ Len(Append(s, c)) = Len(s) + 1
      /\ Append(s, c)[Len(s) + 1] = c
      /\ \A i \in 1..Len(s) : Append(s, c)[i] = s[i]
  BY <1>1, AppendProperties
<1> QED BY <1>1, <1>2, SequenceOfSet

LEMMA TailSequence ==
  ASSUME NEW s, IsSequence(s), s # <<>>
  PROVE  /\ IsSequence(Tail(s))
         /\ Len(s) \in Nat \ {0} /\ Len(Tail(s)) = Len(s) - 1
         /\ Head(s) = s[1]
         /\ \A i \in 1..Len(Tail(s)) : Tail(s)[i] = s[i + 1]
<1> DEFINE S == {s[i] : i \in 1..Len(s)}
<1>1. s \in Seq(S)
  BY DEF IsSequence
<1>2. Tail(s) \in Seq(S) /\ Len(Tail(s)) = Len(s) - 1 /\ Len(s) \in Nat \ {0}
  BY <1>1, HeadTailProperties, EmptySeq
<1>3. Head(s) = s[1] /\ \A i \in 1..Len(Tail(s)) : Tail(s)[i] = s[i + 1]
  BY <1>1, <1>2
<1> QED BY <1>2, <1>3, SequenceOfSet

(* Presents counted: one more at the end, none or one less at the front.   *)
PresentsIn(s) == {i \in 1..Len(s) : s[i].op = "PRESENT"}

LEMMA PresentsFinite ==
  ASSUME NEW s, IsSequence(s)
  PROVE  IsFiniteSet(PresentsIn(s)) /\ Cardinality(PresentsIn(s)) \in Nat
<1>1. IsFiniteSet(1..Len(s))
  BY FS_Interval DEF IsSequence
<1>2. PresentsIn(s) \in SUBSET (1..Len(s))
  BY DEF PresentsIn
<1> QED BY <1>1, <1>2, FS_Subset, FS_CardinalityType

LEMMA PresentsAppended ==
  ASSUME NEW s, NEW c, IsSequence(s)
  PROVE  Cardinality(PresentsIn(Append(s, c)))
           = Cardinality(PresentsIn(s)) + (IF c.op = "PRESENT" THEN 1 ELSE 0)
<1> DEFINE n == Len(s) + 1
<1>1. IsFiniteSet(PresentsIn(s)) /\ Cardinality(PresentsIn(s)) \in Nat
  BY PresentsFinite
<1>2. /\ Len(s) \in Nat /\ Len(Append(s, c)) = n /\ Append(s, c)[n] = c
      /\ \A i \in 1..Len(s) : Append(s, c)[i] = s[i]
  BY AppendSequence
<1>3. n \notin PresentsIn(s)
  BY <1>2 DEF PresentsIn
<1>4. CASE c.op = "PRESENT"
  <2>1. PresentsIn(Append(s, c)) = PresentsIn(s) \cup {n}
    BY <1>2, <1>4 DEF PresentsIn
  <2> QED BY <2>1, <1>1, <1>3, <1>4, FS_AddElement
<1>5. CASE c.op # "PRESENT"
  <2>1. PresentsIn(Append(s, c)) = PresentsIn(s)
    BY <1>2, <1>5 DEF PresentsIn
  <2> QED BY <2>1, <1>1, <1>5
<1> QED BY <1>4, <1>5

LEMMA PresentsReplayed ==
  ASSUME NEW s, IsSequence(s), s # <<>>
  PROVE  Cardinality(PresentsIn(Tail(s)))
           = Cardinality(PresentsIn(s)) - (IF Head(s).op = "PRESENT" THEN 1 ELSE 0)
<1> DEFINE f == [i \in PresentsIn(Tail(s)) |-> i + 1]
           rest == PresentsIn(s) \ {1}
<1>1. IsFiniteSet(PresentsIn(s)) /\ Cardinality(PresentsIn(s)) \in Nat
  BY PresentsFinite
<1>2. /\ IsSequence(Tail(s)) /\ Len(s) \in Nat \ {0} /\ Len(Tail(s)) = Len(s) - 1
      /\ Head(s) = s[1] /\ \A i \in 1..Len(Tail(s)) : Tail(s)[i] = s[i + 1]
  BY TailSequence
<1>3. IsFiniteSet(PresentsIn(Tail(s)))
  BY <1>2, PresentsFinite
<1>4. f \in Bijection(PresentsIn(Tail(s)), rest)
  <2>1. f \in [PresentsIn(Tail(s)) -> rest]
    BY <1>2 DEF PresentsIn
  <2>2. \A i, j \in PresentsIn(Tail(s)) : f[i] = f[j] => i = j
    BY <1>2 DEF PresentsIn
  <2>3. \A j \in rest : \E i \in PresentsIn(Tail(s)) : f[i] = j
    <3> TAKE j \in rest
    <3>1. j - 1 \in PresentsIn(Tail(s)) /\ f[j - 1] = j
      BY <1>2 DEF PresentsIn
    <3> QED BY <3>1
  <2> QED BY <2>1, <2>2, <2>3 DEF Bijection, Injection, Surjection, IsInjective
<1>5. Cardinality(rest) = Cardinality(PresentsIn(Tail(s)))
  BY <1>3, <1>4, FS_Bijection DEF ExistsBijection
<1>6. 1 \in PresentsIn(s) <=> Head(s).op = "PRESENT"
  BY <1>2 DEF PresentsIn
<1>7. Cardinality(rest)
        = IF 1 \in PresentsIn(s) THEN Cardinality(PresentsIn(s)) - 1
                                 ELSE Cardinality(PresentsIn(s))
  BY <1>1, FS_RemoveElement
<1> QED BY <1>1, <1>5, <1>6, <1>7

----------------------------------------------------------------------------
(* The commands of a call.                                                 *)

Quiet(s) == IsSequence(s) /\ \A i \in 1..Len(s) : s[i].op \notin {"FREE", "PRESENT"}
FreeOf(s) == \A b \in Blocks : ~FreesIn(s, b)

LEMMA QuietConcat ==
  ASSUME NEW s, NEW t, Quiet(s), Quiet(t)
  PROVE  Quiet(s \o t)
<1>1. /\ IsSequence(s \o t)
      /\ Len(s) \in Nat /\ Len(t) \in Nat /\ Len(s \o t) = Len(s) + Len(t)
      /\ \A i \in 1..Len(s \o t) :
           (s \o t)[i] = IF i <= Len(s) THEN s[i] ELSE t[i - Len(s)]
  BY ConcatSequence DEF Quiet
<1> QED BY <1>1 DEF Quiet

LEMMA QuietCall ==
  ASSUME NEW s, Quiet(s)
  PROVE  CallShape(s) /\ FreeOf(s)
  BY DEF Quiet, CallShape, FreeOf, FreesIn

LEMMA QuietAppend ==
  ASSUME NEW s, NEW c, Quiet(s), c.op = "FREE" => c.block \in Blocks \cup {NoBlock}
  PROVE  /\ IsSequence(Append(s, c)) /\ CallShape(Append(s, c))
         /\ c.op # "FREE" => FreeOf(Append(s, c))
<1>1. /\ IsSequence(Append(s, c))
      /\ Len(s) \in Nat /\ Len(Append(s, c)) = Len(s) + 1
      /\ Append(s, c)[Len(s) + 1] = c
      /\ \A i \in 1..Len(s) : Append(s, c)[i] = s[i]
  BY AppendSequence DEF Quiet
<1>2. \A i \in 1..Len(Append(s, c)) :
        i # Len(s) + 1 => Append(s, c)[i].op \notin {"FREE", "PRESENT"}
  BY <1>1 DEF Quiet
<1>3. CallShape(Append(s, c))
  BY <1>1, <1>2 DEF CallShape
<1>4. c.op # "FREE" => FreeOf(Append(s, c))
  BY <1>1, <1>2 DEF FreeOf, FreesIn
<1> QED BY <1>1, <1>3, <1>4

LEMMA QuietOne ==
  ASSUME NEW c, c.op \notin {"FREE", "PRESENT"}
  PROVE  Quiet(<<c>>)
  BY OneIsSequence DEF Quiet

LEMMA QuietEmpty == Quiet(<<>>)
  BY EmptyIsSequence DEF Quiet

LEMMA FlushIsQuiet ==
  ASSUME sync \subseteq Resources, bound \subseteq Resources
  PROVE  Quiet(FlushCommands)
<1> DEFINE m == Cardinality(Ending)
           n == Cardinality(Starting)
           u == [i \in 1..m |-> [op |-> "UNBIND", r |-> SetToSeq(Ending)[i]]]
           v == [i \in 1..n |-> BindCommand(SetToSeq(Starting)[i])]
<1>1. m \in Nat /\ n \in Nat
  BY RenderLinkAssumption, FS_Subset, FS_CardinalityType DEF Ending, Starting
<1>2. Quiet(u)
  <2>1. u \in [1..m -> {u[i] : i \in 1..m}]
    OBVIOUS
  <2>2. IsSequence(u) /\ Len(u) = m
    BY <1>1, <2>1, FunctionIsSequence
  <2>3. \A i \in 1..m : u[i].op = "UNBIND"
    OBVIOUS
  <2> QED BY <2>2, <2>3 DEF Quiet
<1>3. Quiet(v)
  <2>1. v \in [1..n -> {v[i] : i \in 1..n}]
    OBVIOUS
  <2>2. IsSequence(v) /\ Len(v) = n
    BY <1>1, <2>1, FunctionIsSequence
  <2>3. \A i \in 1..n : v[i].op = "BIND"
    BY DEF BindCommand
  <2> QED BY <2>2, <2>3 DEF Quiet
<1>4. Quiet(u \o v)
  BY <1>2, <1>3, QuietConcat
<1> QED BY <1>4 DEF FlushCommands

LEMMA DrawIsQuiet ==
  ASSUME NEW use, NEW all, sync \subseteq Resources, bound \subseteq Resources,
         Draw(use, all)
  PROVE  Quiet(todo')
<1> DEFINE T == Taken(use, all)
           n == Cardinality(T)
           d == [i \in 1..n |->
                   Data(SetToSeq(T)[i], Take(SetToSeq(T)[i], use, all), TRUE)]
           w == [op |-> "DRAW", use |-> use, want |-> Seen(use)]
<1>1. n \in Nat
  BY RenderLinkAssumption, FS_Subset, FS_CardinalityType DEF Taken
<1>2. Quiet(d)
  <2>1. d \in [1..n -> {d[i] : i \in 1..n}]
    OBVIOUS
  <2>2. IsSequence(d) /\ Len(d) = n
    BY <1>1, <2>1, FunctionIsSequence
  <2>3. \A i \in 1..n : d[i].op = "DATA"
    BY DEF Data
  <2> QED BY <2>2, <2>3 DEF Quiet
<1>3. Quiet(<<w>>)
  BY QuietOne
<1>4. Quiet(FlushCommands)
  BY FlushIsQuiet
<1>5. Quiet(FlushCommands \o d \o <<w>>)
  BY <1>2, <1>3, <1>4, QuietConcat
<1>6. todo' = FlushCommands \o d \o <<w>>
  BY DEF Draw, Call
<1> QED BY <1>5, <1>6

(* The rest of a call's commands, and what a release does.                 *)
LEMMA TailOfCall ==
  ASSUME NEW s, IsSequence(s), s # <<>>, CallShape(s)
  PROVE  /\ IsSequence(Tail(s)) /\ CallShape(Tail(s))
         /\ Head(s).op \in {"FREE", "PRESENT"} => Tail(s) = <<>>
         /\ Head(s).op # "FREE" => \A b \in Blocks : FreesIn(Tail(s), b) <=> FreesIn(s, b)
<1>1. /\ IsSequence(Tail(s)) /\ Len(s) \in Nat \ {0} /\ Len(Tail(s)) = Len(s) - 1
      /\ Head(s) = s[1] /\ \A i \in 1..Len(Tail(s)) : Tail(s)[i] = s[i + 1]
  BY TailSequence
<1>2. CallShape(Tail(s))
  <2> SUFFICES ASSUME NEW i \in 1..Len(Tail(s)), Tail(s)[i].op \in {"FREE", "PRESENT"}
               PROVE  /\ i = Len(Tail(s))
                      /\ Tail(s)[i].op = "FREE" => Tail(s)[i].block \in Blocks \cup {NoBlock}
    BY DEF CallShape
  <2>1. /\ i + 1 \in 1..Len(s) /\ s[i + 1].op \in {"FREE", "PRESENT"}
        /\ Tail(s)[i] = s[i + 1]
    BY <1>1
  <2>2. /\ i + 1 = Len(s)
        /\ s[i + 1].op = "FREE" => s[i + 1].block \in Blocks \cup {NoBlock}
    BY <2>1 DEF CallShape
  <2>3. i \in Int /\ Len(s) \in Int /\ Len(Tail(s)) = Len(s) - 1
    BY <1>1
  <2> QED BY <2>1, <2>2, <2>3
<1>3. ASSUME Head(s).op \in {"FREE", "PRESENT"}
      PROVE  Tail(s) = <<>>
  <2>1. 1 \in 1..Len(s) /\ s[1].op \in {"FREE", "PRESENT"}
    BY <1>1, <1>3
  <2>2. Len(s) = 1
    BY <2>1 DEF CallShape
  <2>3. Len(Tail(s)) = 0
    BY <1>1, <2>2
  <2> QED BY <1>1, <2>3, EmptySeq DEF IsSequence
<1>4. ASSUME Head(s).op # "FREE", NEW b \in Blocks
      PROVE  FreesIn(Tail(s), b) <=> FreesIn(s, b)
  <2>1. ASSUME NEW i \in 1..Len(Tail(s)), Tail(s)[i].op = "FREE", Tail(s)[i].block = b
        PROVE  FreesIn(s, b)
    <3>1. i + 1 \in 1..Len(s) /\ s[i + 1] = Tail(s)[i]
      BY <1>1
    <3> QED BY <2>1, <3>1 DEF FreesIn
  <2>2. ASSUME NEW i \in 1..Len(s), s[i].op = "FREE", s[i].block = b
        PROVE  FreesIn(Tail(s), b)
    <3>1. i # 1
      BY <1>1, <1>4, <2>2
    <3>2. i - 1 \in 1..Len(Tail(s)) /\ Tail(s)[i - 1] = s[i]
      BY <1>1, <3>1
    <3> QED BY <2>2, <3>2 DEF FreesIn
  <2> QED BY <2>1, <2>2 DEF FreesIn
<1> QED BY <1>1, <1>2, <1>3, <1>4

LEMMA OneCommand ==
  ASSUME NEW c, c.op = "FREE" => c.block \in Blocks \cup {NoBlock}
  PROVE  /\ IsSequence(<<c>>) /\ CallShape(<<c>>)
         /\ \A b \in Blocks : FreesIn(<<c>>, b) <=> c.op = "FREE" /\ c.block = b
  BY OneIsSequence DEF CallShape, FreesIn

LEMMA NoCommand == IsSequence(<<>>) /\ CallShape(<<>>) /\ FreeOf(<<>>)
  BY QuietEmpty, QuietCall DEF Quiet

LEMMA LastCommand ==
  ASSUME NEW s, IsSequence(s), CallShape(s), s # <<>>
  PROVE  /\ Last(s).op = "FREE" => Last(s).block \in Blocks \cup {NoBlock}
         /\ \A b \in Blocks :
              FreesIn(s, b) <=> Last(s).op = "FREE" /\ Last(s).block = b
<1>1. Len(s) \in 1..Len(s)
  BY TailSequence
<1> QED BY <1>1 DEF CallShape, FreesIn, Last

----------------------------------------------------------------------------
(* The commands of a call: every step keeps ShapeInv.                      *)

LEMMA ShapeGuest ==
  ASSUME ShapeInv, MemoryTypes, NEW r \in Resources, GuestCall(r)
  PROVE  ShapeInv'
<1> USE DEF ShapeInv
<1>1. CASE Create(r)
  BY <1>1 DEF Create, recordVars, emulatorVars
<1>2. CASE LockCopied(r)
  <2>1. IsSequence(todo') /\ CallShape(todo')
    BY <1>2, OneCommand, NoCommand DEF LockCopied, GiveMemory, Call
  <2> QED BY <1>2, <2>1 DEF LockCopied, Unlocked, Guest, recordVars
<1>3. CASE LockFenced(r)
  BY <1>3 DEF LockFenced, StartFence, Unlocked, Guest, recordVars
<1>4. CASE LockFree(r)
  <2>1. IsSequence(todo') /\ CallShape(todo')
    BY <1>4, OneCommand, NoCommand DEF LockFree, GiveMemory, Call
  <2> QED BY <1>4, <2>1 DEF LockFree, Unlocked, Guest, recordVars
<1>5. ASSUME NEW S \in (SUBSET Parts) \ {{}}, NEW b \in BOOLEAN, LockBuffer(r, S, b)
      PROVE  ShapeInv'
  BY <1>5 DEF LockBuffer, StartFence, Unlocked, Guest, recordVars, emulatorVars
<1>6. ASSUME NEW x \in Parts, Write(r, x)
      PROVE  ShapeInv'
  BY <1>6 DEF Write, recordVars, emulatorVars
<1>7. CASE Unlock(r)
  <2>1. IsSequence(todo') /\ CallShape(todo')
    BY <1>7, OneCommand DEF Unlock, Call
  <2> QED BY <1>7, <2>1 DEF Unlock, Guest
<1>8. CASE Destroy(r)
  <2>1. IsSequence(todo') /\ CallShape(todo')
    <3>1. CASE Recording(r)
      <4> DEFINE d == [op |-> "DESTROY", r |-> r]
                 f == [op |-> "FREE", r |-> r, block |-> addr[r], rec |-> rec[r],
                       until |-> LastRefOf(r)]
      <4>1. todo' = Append(<<d>>, f)
        BY <1>8, <3>1 DEF Destroy, Call
      <4>2. Quiet(<<d>>)
        BY QuietOne
      <4>3. addr[r] \in Blocks \cup {NoBlock}
        BY DEF MemoryTypes
      <4> QED BY <4>1, <4>2, <4>3, QuietAppend
    <3>2. CASE ~Recording(r)
      BY <1>8, <3>2 DEF Destroy
    <3> QED BY <3>1, <3>2
  <2> QED BY <1>8, <2>1 DEF Destroy, Guest
<1>9. CASE Bind(r)
  BY <1>9 DEF Bind, MemoryTypes, recordVars, emulatorVars
<1> QED BY <1>1, <1>2, <1>3, <1>4, <1>5, <1>6, <1>7, <1>8, <1>9 DEF GuestCall

LEMMA ShapePut ==
  ASSUME ShapeInv, PutNext
  PROVE  /\ IsSequence(todo') /\ CallShape(todo')
         /\ Head(todo).op = "PRESENT" => todo' = <<>>
         /\ wait = NoWait
  BY TailOfCall DEF ShapeInv, PutNext, Putting

LEMMA ShapeGiveUp ==
  ASSUME ShapeInv, GiveUp
  PROVE  ShapeInv'
<1>1. IsSequence(todo') /\ CallShape(todo')
  BY OneCommand, NoCommand, LastCommand DEF GiveUp, ShapeInv
<1> QED BY <1>1 DEF ShapeInv, GiveUp, recordVars

LEMMA ShapeEmulator ==
  ASSUME ShapeInv, CursorInv, EmulatorStep
  PROVE  ShapeInv'
<1> USE DEF ShapeInv
<1>1. ASSUME NEW use \in [bound -> SUBSET Parts], NEW all \in BOOLEAN, Draw(use, all)
      PROVE  ShapeInv'
  <2>1. IsSequence(todo') /\ CallShape(todo')
    BY <1>1, DrawIsQuiet, QuietCall DEF Quiet
  <2> QED BY <1>1, <2>1 DEF Draw, CanRecord, Guest, Flush, guestVars
<1>2. CASE Present
  <2>1. IsSequence(todo') /\ CallShape(todo')
    BY <1>2, FlushIsQuiet, QuietAppend DEF Present, Call
  <2> QED BY <1>2, <2>1 DEF Present, CanRecord, Guest, Flush, guestVars
<1>3. CASE AfterSlice
  BY <1>3 DEF AfterSlice, recordVars
<1>4. CASE EndFence
  <2>1. IsSequence(todo') /\ CallShape(todo')
    <3>1. \/ todo' = todo
          \/ todo' = <<Data(wait.r, Parts, FALSE)>>
      BY <1>4 DEF EndFence, Call
    <3>2. Data(wait.r, Parts, FALSE).op # "FREE"
      BY DEF Data
    <3> QED BY <3>1, <3>2, OneCommand
  <2> QED BY <1>4, <2>1 DEF EndFence
<1>5. CASE Free
  BY <1>5, TailOfCall DEF Free, Freeing, recordVars
<1>6. CASE PutState
  BY <1>6, ShapePut DEF PutState, PutNext, recordVars
<1>7. CASE PutDraw
  BY <1>7, ShapePut DEF PutDraw, PutNext, recordVars
<1>8. CASE PutPresent
  <2>1. Head(todo).op = "PRESENT"
    BY <1>8, AppendSequence DEF PutPresent, PutNext, CursorInv
  <2> QED BY <1>8, <2>1, ShapePut DEF PutPresent, PutNext, recordVars
<1>9. CASE EndFrame
  BY <1>9 DEF EndFrame, guestVars, recordVars
<1>10. CASE RingFull
  BY <1>10 DEF RingFull, recordVars
<1>11. CASE Fail \/ WorkerError
  BY <1>11, ShapeGiveUp DEF Fail, WorkerError
<1> QED BY <1>1, <1>2, <1>3, <1>4, <1>5, <1>6, <1>7, <1>8, <1>9, <1>10, <1>11 DEF EmulatorStep

(* A step of the worker leaves the guest and the recorder alone.           *)
WorkerStep == Replay \/ PublishTail \/ Stall

LEMMA WorkerLeaves ==
  ASSUME WorkerStep
  PROVE  UNCHANGED <<guestVars, recordVars, emulatorVars>>
<1>1. CASE Replay
  BY <1>1 DEF Replay, ReplayBind, ReplayUnbind, ReplayMemory, ReplayDirty, ReplayData,
              ReplayDestroy, ReplayDraw, ReplayPresent, Replaying
<1> QED BY <1>1 DEF WorkerStep, PublishTail, Stall

LEMMA ShapeStep ==
  ASSUME IInv, [Next]_vars
  PROVE  ShapeInv'
<1> USE DEF IInv
<1>1. CASE \E r \in Resources : GuestCall(r)
  BY <1>1, ShapeGuest DEF MemoryInv
<1>2. CASE EmulatorStep
  BY <1>2, ShapeEmulator
<1>3. CASE WorkerStep
  BY <1>3, WorkerLeaves DEF ShapeInv, guestVars, recordVars, emulatorVars
<1>4. CASE UNCHANGED vars
  BY <1>4 DEF ShapeInv, vars, guestVars, recordVars, emulatorVars
<1> QED BY <1>1, <1>2, <1>3, <1>4 DEF Next, WorkerStep

----------------------------------------------------------------------------
(* The ring: every step keeps CursorInv.                                   *)

LEMMA CursorPublish ==
  ASSUME CursorInv, published' \in {published, produced},
         UNCHANGED <<ring, tail, produced, failed, stalled>>
  PROVE  CursorInv'
<1>1. Len(ring) \in Nat
  BY DEF CursorInv, IsSequence
<1> QED BY <1>1 DEF CursorInv, Consumed

LEMMA CursorPut ==
  ASSUME CursorInv, PutNext, published' \in {published, produced'}
  PROVE  CursorInv'
<1>1. /\ IsSequence(ring') /\ Len(ring) \in Nat /\ Len(ring') = Len(ring) + 1
      /\ ~failed /\ ~failed' /\ produced' = produced + 1 /\ tail' = tail
      /\ produced + 1 - tail <= Size
  BY AppendSequence DEF CursorInv, PutNext, Room, workerVars
<1> QED BY <1>1, RenderLinkAssumption DEF CursorInv, Consumed

LEMMA CursorGiveUp ==
  ASSUME CursorInv, GiveUp
  PROVE  CursorInv'
  BY EmptyIsSequence DEF CursorInv, GiveUp, cursorVars

LEMMA CursorGuest ==
  ASSUME CursorInv, NEW r \in Resources, GuestCall(r)
  PROVE  CursorInv'
<1>1. published' \in {published, produced} /\ UNCHANGED <<ring, tail, produced, failed, stalled>>
  BY DEF GuestCall, Create, LockCopied, LockFenced, LockFree, LockBuffer, StartFence, Publish,
         Write, Unlock, Destroy, Bind, emulatorVars, cursorVars, workerVars
<1> QED BY <1>1, CursorPublish

LEMMA CursorEmulator ==
  ASSUME CursorInv, EmulatorStep
  PROVE  CursorInv'
<1>1. ASSUME NEW use \in [bound -> SUBSET Parts], NEW all \in BOOLEAN, Draw(use, all)
      PROVE  CursorInv'
  BY <1>1, CursorPublish DEF Draw, cursorVars, workerVars
<1>2. CASE Present
  BY <1>2, CursorPublish DEF Present, cursorVars, workerVars
<1>3. CASE AfterSlice \/ RingFull
  BY <1>3, CursorPublish DEF AfterSlice, RingFull, Publish, workerVars
<1>4. CASE EndFence \/ EndFrame \/ Free
  BY <1>4, CursorPublish DEF EndFence, EndFrame, Free, cursorVars, workerVars
<1>5. CASE PutState
  BY <1>5, CursorPut DEF PutState
<1>6. CASE PutDraw \/ PutPresent
  BY <1>6, CursorPut DEF PutDraw, PutPresent, PutNext
<1>7. CASE Fail \/ WorkerError
  BY <1>7, CursorGiveUp DEF Fail, WorkerError
<1> QED BY <1>1, <1>2, <1>3, <1>4, <1>5, <1>6, <1>7 DEF EmulatorStep

(* A command replayed: the front of the ring is gone.                      *)
LEMMA Replayed ==
  ASSUME CursorInv, NEW op, Replaying(op)
  PROVE  /\ IsSequence(ring) /\ ring # <<>> /\ Head(ring).op = op /\ ring' = Tail(ring)
         /\ ~failed /\ ~failed' /\ CursorInv'
<1>1. Len(ring) \in Nat
  BY DEF CursorInv, IsSequence
<1>2. ring # <<>>
  BY <1>1 DEF Replaying, Consumed, CursorInv
<1>3. /\ IsSequence(ring') /\ Len(ring') = Len(ring) - 1
      /\ UNCHANGED <<tail, produced, published, failed, stalled>>
  BY <1>2, TailSequence DEF CursorInv, Replaying, emulatorVars, cursorVars
<1>4. ~failed
  BY DEF CursorInv, Replaying
<1> QED BY <1>1, <1>2, <1>3, <1>4 DEF CursorInv, Consumed, Replaying

LEMMA CursorWorker ==
  ASSUME CursorInv, WorkerStep
  PROVE  CursorInv'
<1>1. CASE Replay
  BY <1>1, Replayed DEF Replay, ReplayBind, ReplayUnbind, ReplayMemory, ReplayDirty, ReplayData,
                        ReplayDestroy, ReplayDraw, ReplayPresent
<1>2. CASE PublishTail
  <2>1. ~failed /\ tail' = Consumed /\ tail <= Consumed /\ Consumed <= published
    BY <1>2 DEF CursorInv, PublishTail
  <2>2. UNCHANGED <<ring, produced, published, failed, stalled>>
    BY <1>2 DEF PublishTail, emulatorVars, cursorVars
  <2>3. Consumed' = Consumed /\ Consumed \in Int
    BY <2>2 DEF CursorInv, IsSequence, Consumed
  <2>4. tail' \in Nat /\ produced <= tail' + Size
    BY <2>1, <2>3, RenderLinkAssumption DEF CursorInv
  <2> QED BY <2>1, <2>2, <2>3, <2>4 DEF CursorInv
<1>3. CASE Stall
  BY <1>3 DEF CursorInv, Stall, Consumed, emulatorVars, cursorVars
<1> QED BY <1>1, <1>2, <1>3 DEF WorkerStep

LEMMA CursorStep ==
  ASSUME IInv, [Next]_vars
  PROVE  CursorInv'
<1> USE DEF IInv
<1>1. CASE \E r \in Resources : GuestCall(r)
  BY <1>1, CursorGuest
<1>2. CASE EmulatorStep
  BY <1>2, CursorEmulator
<1>3. CASE WorkerStep
  BY <1>3, CursorWorker
<1>4. CASE UNCHANGED vars
  BY <1>4, CursorPublish DEF vars, emulatorVars, cursorVars, workerVars
<1> QED BY <1>1, <1>2, <1>3, <1>4 DEF Next, WorkerStep

----------------------------------------------------------------------------
(* The presents on their way: every step keeps FrameInv.                   *)

LEMMA FrameKept ==
  ASSUME FrameInv, UNCHANGED <<ring, frames, shown, failed>>,
         wait' = wait \/ (~FrameWait /\ ~FrameWait')
  PROVE  FrameInv'
<1>1. RingOps("PRESENT")' = RingOps("PRESENT")
  BY DEF RingOps
<1>2. (FrameWait' <=> FrameWait) /\ (FrameWait => wait' = wait)
  BY DEF FrameWait
<1> QED BY <1>1, <1>2 DEF FrameInv

LEMMA FrameGuest ==
  ASSUME FrameInv, NEW r \in Resources, GuestCall(r)
  PROVE  FrameInv'
<1>1. UNCHANGED <<ring, frames, shown, failed>>
  BY DEF GuestCall, Create, LockCopied, LockFenced, LockFree, LockBuffer, StartFence,
         Write, Unlock, Destroy, Bind, emulatorVars, workerVars
<1>2. wait' = wait \/ (wait = NoWait /\ wait'.kind = "fence")
  <2>1. CASE LockFenced(r)
    BY <2>1 DEF LockFenced, StartFence, Unlocked, Guest
  <2>2. ASSUME NEW S \in (SUBSET Parts) \ {{}}, NEW b \in BOOLEAN, LockBuffer(r, S, b)
        PROVE  wait' = wait \/ (wait = NoWait /\ wait'.kind = "fence")
    BY <2>2 DEF LockBuffer, StartFence, Unlocked, Guest, emulatorVars
  <2> QED BY <2>1, <2>2 DEF GuestCall, Create, LockCopied, LockFree, Write, Unlock, Destroy, Bind,
                            emulatorVars
<1>3. wait' = wait \/ (~FrameWait /\ ~FrameWait')
  BY <1>2 DEF FrameWait
<1> QED BY <1>1, <1>3, FrameKept

LEMMA FramePut ==
  ASSUME CursorInv, FrameInv, PutNext
  PROVE  /\ ring'[Len(ring')] = Head(todo) /\ ~failed /\ ~failed' /\ shown' = shown
         /\ Cardinality(RingOps("PRESENT")) \in Nat
         /\ Cardinality(RingOps("PRESENT")')
              = Cardinality(RingOps("PRESENT"))
                + (IF ring'[Len(ring')].op = "PRESENT" THEN 1 ELSE 0)
<1>1. IsSequence(ring) /\ ring' = Append(ring, Head(todo))
  BY DEF CursorInv, PutNext
<1>2. ring'[Len(ring')] = Head(todo)
  BY <1>1, AppendSequence
<1>3. RingOps("PRESENT") = PresentsIn(ring) /\ RingOps("PRESENT")' = PresentsIn(ring')
  BY DEF RingOps, PresentsIn
<1>4. ~failed /\ ~failed' /\ shown' = shown
  BY DEF PutNext, workerVars
<1> QED BY <1>1, <1>2, <1>3, <1>4, PresentsAppended, PresentsFinite

LEMMA FrameEmulator ==
  ASSUME ShapeInv, CursorInv, FrameInv, EmulatorStep
  PROVE  FrameInv'
<1>1. ASSUME NEW use \in [bound -> SUBSET Parts], NEW all \in BOOLEAN, Draw(use, all)
      PROVE  FrameInv'
  BY <1>1, FrameKept DEF Draw, workerVars
<1>2. CASE Present
  BY <1>2, FrameKept DEF Present, workerVars
<1>3. CASE AfterSlice \/ RingFull \/ Free
  BY <1>3, FrameKept DEF AfterSlice, RingFull, Free, workerVars
<1>4. CASE EndFence
  BY <1>4, FrameKept DEF EndFence, FenceOver, FrameWait, workerVars
<1>5. CASE PutState
  <2>1. UNCHANGED <<frames, wait>> /\ ring'[Len(ring')].op # "PRESENT"
    BY <1>5 DEF PutState
  <2>2. PutNext
    BY <1>5 DEF PutState
  <2> QED BY <2>1, <2>2, FramePut DEF FrameInv, FrameWait
<1>6. CASE PutDraw
  <2>1. UNCHANGED <<frames, wait>> /\ ring'[Len(ring')].op # "PRESENT"
    BY <1>6 DEF PutDraw
  <2>2. PutNext
    BY <1>6 DEF PutDraw
  <2> QED BY <2>1, <2>2, FramePut DEF FrameInv, FrameWait
<1>7. CASE PutPresent
  <2>1. PutNext /\ ring'[Len(ring')].op = "PRESENT" /\ frames' = frames + 1
    BY <1>7 DEF PutPresent
  <2>2. wait' = [kind |-> "frame", until |-> frames' - MaxFrames]
    <3>1. wait' = [kind |-> "frame", until |-> frames + 1 - MaxFrames]
      BY <1>7 DEF PutPresent
    <3>2. frames' - MaxFrames = frames + 1 - MaxFrames
      BY <2>1, RenderLinkAssumption DEF FrameInv
    <3> QED BY <3>1, <3>2
  <2>3. frames' - MaxFrames \in Int
    BY <2>1, RenderLinkAssumption DEF FrameInv
  <2>4. FrameWait'
    BY <2>2, <2>3, RenderLinkAssumption DEF FrameWait
  <2> QED BY <2>1, <2>2, <2>4, FramePut DEF FrameInv
<1>8. CASE EndFrame
  <2>1. FrameWait /\ ~FrameWait' /\ UNCHANGED <<ring, frames, shown, failed>>
    BY <1>8 DEF EndFrame, FrameWait, workerVars
  <2>2. RingOps("PRESENT")' = RingOps("PRESENT")
    BY <2>1 DEF RingOps
  <2>3. failed \/ shown >= frames - MaxFrames
    BY <1>8, <2>1 DEF EndFrame, FrameInv
  <2> QED BY <2>1, <2>2, <2>3, RenderLinkAssumption DEF FrameInv
<1>9. CASE Fail \/ WorkerError
  BY <1>9 DEF Fail, WorkerError, GiveUp, FrameInv, FrameWait
<1> QED BY <1>1, <1>2, <1>3, <1>4, <1>5, <1>6, <1>7, <1>8, <1>9 DEF EmulatorStep

LEMMA FrameReplay ==
  ASSUME CursorInv, FrameInv, NEW op, Replaying(op),
         shown' = IF op = "PRESENT" THEN shown + 1 ELSE shown
  PROVE  FrameInv'
<1>1. /\ IsSequence(ring) /\ ring # <<>> /\ Head(ring).op = op /\ ring' = Tail(ring)
      /\ ~failed /\ ~failed'
  BY Replayed
<1>2. RingOps("PRESENT") = PresentsIn(ring) /\ RingOps("PRESENT")' = PresentsIn(ring')
  BY DEF RingOps, PresentsIn
<1>3. /\ Cardinality(RingOps("PRESENT")) \in Nat
      /\ Cardinality(RingOps("PRESENT")')
           = Cardinality(RingOps("PRESENT")) - (IF op = "PRESENT" THEN 1 ELSE 0)
  BY <1>1, <1>2, PresentsReplayed, PresentsFinite
<1>4. UNCHANGED <<frames, wait, failed>>
  BY DEF Replaying, emulatorVars
<1>5. FrameWait' <=> FrameWait
  BY <1>4 DEF FrameWait
<1>6. frames' \in Nat /\ shown' \in Nat /\ shown <= shown'
  BY <1>4 DEF FrameInv
<1>7. frames' = shown' + Cardinality(RingOps("PRESENT")')
  BY <1>1, <1>3, <1>4 DEF FrameInv
<1>8. FrameWait' => wait'.until = frames' - MaxFrames
  BY <1>4, <1>5 DEF FrameInv
<1>9. ~FrameWait' => frames' <= shown' + MaxFrames
  BY <1>1, <1>4, <1>5, <1>6, RenderLinkAssumption DEF FrameInv
<1> QED BY <1>6, <1>7, <1>8, <1>9 DEF FrameInv

LEMMA FrameWorker ==
  ASSUME CursorInv, FrameInv, WorkerStep
  PROVE  FrameInv'
<1>1. CASE ReplayPresent
  BY <1>1, FrameReplay DEF ReplayPresent
<1>2. CASE Replay /\ ~ReplayPresent
  BY <1>2, FrameReplay DEF Replay, ReplayBind, ReplayUnbind, ReplayMemory, ReplayDirty,
                           ReplayData, ReplayDestroy, ReplayDraw
<1>3. CASE PublishTail \/ Stall
  BY <1>3, FrameKept DEF PublishTail, Stall, emulatorVars
<1> QED BY <1>1, <1>2, <1>3 DEF WorkerStep

LEMMA FrameStep ==
  ASSUME IInv, [Next]_vars
  PROVE  FrameInv'
<1> USE DEF IInv
<1>1. CASE \E r \in Resources : GuestCall(r)
  BY <1>1, FrameGuest
<1>2. CASE EmulatorStep
  BY <1>2, FrameEmulator
<1>3. CASE WorkerStep
  BY <1>3, FrameWorker
<1>4. CASE UNCHANGED vars
  BY <1>4, FrameKept DEF vars, emulatorVars, workerVars
<1> QED BY <1>1, <1>2, <1>3, <1>4 DEF Next, WorkerStep

----------------------------------------------------------------------------
(* The memory: every step keeps MemoryInv.                                 *)

SameFrees == \A b \in Blocks : FreesIn(todo', b) <=> FreesIn(todo, b)

(* No wait for a fence begins.                                             *)
NoNewFence == wait' = wait \/ wait' = NoWait \/ wait'.kind = "frame"

LEMMA MemoryKept ==
  ASSUME MemoryInv, UNCHANGED <<mem, addr, live, locked, deferred>>, SameFrees, NoNewFence
  PROVE  MemoryInv'
<1>1. MemoryTypes'
  BY DEF MemoryInv, MemoryTypes
<1>2. LocksHaveMemory'
  BY DEF MemoryInv, LocksHaveMemory, NoNewFence
<1>3. OneOwner'
  BY DEF MemoryInv, OneOwner, SameFrees, Owned, Deferred
<1> QED BY <1>1, <1>2, <1>3 DEF MemoryInv

(* Some of the deferred releases done.                                     *)
LEMMA MemoryReleased ==
  ASSUME MemoryInv, NEW D \in SUBSET deferred,
         mem' = Released({d[1] : d \in D}), deferred' = deferred \ D,
         UNCHANGED <<addr, live, locked>>, SameFrees
  PROVE  MemoryTypes' /\ OneOwner'
<1> USE DEF MemoryInv
<1>1. \A b \in Blocks : mem'[b] = IF \E d \in D : d[1] = b THEN NoBytes ELSE mem[b]
  BY DEF Released
<1>2. MemoryTypes'
  <2>1. mem' \in [Blocks -> Contents \cup {NoBytes}]
    BY DEF Released, MemoryTypes
  <2> QED BY <2>1 DEF MemoryTypes
<1>3. \A b \in Blocks : Owned(b)' <=> Owned(b)
  BY DEF Owned
<1>4. \A b \in Blocks : Deferred(b)' <=> Deferred(b) /\ ~(\E d \in D : d[1] = b)
  BY DEF Deferred, OneOwner
<1>5. \A b \in Blocks : (\E d \in D : d[1] = b) => Deferred(b)
  BY DEF Deferred
<1>6. \A b \in Blocks :
        mem'[b] # NoBytes <=> Owned(b)' \/ Deferred(b)' \/ FreesIn(todo', b)
  BY <1>1, <1>3, <1>4, <1>5 DEF OneOwner, SameFrees
<1>7. /\ \A q, r \in live' : addr'[q] = addr'[r] /\ addr'[r] # NoBlock => q = r
      /\ \A d, e \in deferred' : d[1] = e[1] => d = e
  BY DEF OneOwner
<1>8. /\ \A b \in Blocks : ~(Owned(b)' /\ Deferred(b)')
      /\ \A b \in Blocks : FreesIn(todo', b) => ~Owned(b)' /\ ~Deferred(b)'
  BY <1>3, <1>4 DEF OneOwner, SameFrees
<1>9. OneOwner'
  BY <1>6, <1>7, <1>8 DEF OneOwner
<1> QED BY <1>2, <1>9

LEMMA LocksKept ==
  ASSUME LocksHaveMemory, UNCHANGED <<addr, live, locked>>, NoNewFence
  PROVE  LocksHaveMemory'
  BY DEF LocksHaveMemory, NoNewFence

LEMMA MemoryPassed ==
  ASSUME MemoryInv, ReleasePassed, UNCHANGED <<addr, live, locked>>, SameFrees
  PROVE  MemoryTypes' /\ OneOwner'
<1>1. Passed \in SUBSET deferred
  BY DEF Passed
<1> QED BY <1>1, MemoryReleased DEF ReleasePassed

(* A free block given to a resource, whose old one is kept for release.    *)
LEMMA MemoryGiven ==
  ASSUME MemoryInv, NEW r \in Resources, NEW b \in FreeBlocks, NEW c \in Contents, NEW u,
         mem' = [mem EXCEPT ![b] = c], addr' = [addr EXCEPT ![r] = b],
         live' = live \cup {r},
         deferred' = IF addr[r] = NoBlock THEN deferred ELSE deferred \cup {<<addr[r], u>>},
         FreeOf(todo), FreeOf(todo')
  PROVE  OneOwner' /\ mem' \in [Blocks -> Contents \cup {NoBytes}]
<1> USE RenderLinkAssumption DEF MemoryInv, MemoryTypes
<1>1. b \in Blocks /\ ~Owned(b) /\ ~Deferred(b) /\ mem[b] = NoBytes
  BY DEF FreeBlocks, OneOwner
<1>2. mem' \in [Blocks -> Contents \cup {NoBytes}]
  BY <1>1
<1>3. \A x \in Blocks : mem'[x] # NoBytes <=> x = b \/ mem[x] # NoBytes
  BY <1>1, ContentsApart
<1>4. addr[r] # NoBlock => r \in live /\ addr[r] \in Blocks /\ Owned(addr[r])
  BY DEF Owned
<1>5. \A x \in Blocks : Owned(x)' <=> x = b \/ (Owned(x) /\ x # addr[r])
  BY <1>1 DEF Owned, OneOwner
<1>6. \A x \in Blocks : Deferred(x)' <=> Deferred(x) \/ x = addr[r]
  <2>1. CASE addr[r] = NoBlock
    BY <2>1 DEF Deferred
  <2>2. CASE addr[r] # NoBlock
    <3>1. deferred' = deferred \cup {<<addr[r], u>>} /\ <<addr[r], u>>[1] = addr[r]
      BY <2>2
    <3> QED BY <3>1 DEF Deferred
  <2> QED BY <2>1, <2>2
<1>7. addr[r] # b
  BY <1>1, <1>4
<1>8. \A q, s \in live' : addr'[q] = addr'[s] /\ addr'[s] # NoBlock => q = s
  BY <1>1 DEF Owned, OneOwner
<1>9. \A d, e \in deferred' : d[1] = e[1] => d = e
  BY <1>4 DEF Deferred, OneOwner
<1>10. \A x \in Blocks : ~(Owned(x)' /\ Deferred(x)')
  BY <1>1, <1>5, <1>6, <1>7 DEF OneOwner
<1>11. \A x \in Blocks :
         mem'[x] # NoBytes <=> Owned(x)' \/ Deferred(x)' \/ FreesIn(todo', x)
  BY <1>3, <1>4, <1>5, <1>6 DEF OneOwner, FreeOf
<1>12. \A x \in Blocks : FreesIn(todo', x) => ~Owned(x)' /\ ~Deferred(x)'
  BY DEF FreeOf
<1> QED BY <1>2, <1>8, <1>9, <1>10, <1>11, <1>12 DEF OneOwner

LEMMA MemoryCreate ==
  ASSUME ShapeInv, MemoryInv, NEW r \in Resources, Create(r)
  PROVE  MemoryInv'
<1> USE RenderLinkAssumption DEF MemoryInv, MemoryTypes
<1>1. /\ todo = <<>> /\ todo' = <<>> /\ r \notin live /\ live' = live \cup {r}
      /\ addr[r] = NoBlock /\ UNCHANGED <<locked, deferred, wait>> /\ wait = NoWait
  BY DEF Create, Guest, emulatorVars
<1>2. FreeOf(todo) /\ FreeOf(todo')
  BY <1>1, NoCommand
<1>3. CASE r \in Buffers
  <2>1. PICK b \in FreeBlocks : mem' = [mem EXCEPT ![b] = Zero] /\ addr' = [addr EXCEPT ![r] = b]
    BY <1>3 DEF Create
  <2>2. Zero \in Contents
    BY DEF Zero, Contents
  <2>3. OneOwner' /\ mem' \in [Blocks -> Contents \cup {NoBytes}]
    BY <1>1, <1>2, <2>1, <2>2, MemoryGiven
  <2>4. b \in Blocks
    BY DEF FreeBlocks
  <2>5. MemoryTypes'
    BY <1>1, <2>1, <2>3, <2>4
  <2>6. LocksHaveMemory'
    BY <1>1, <2>1, <2>4 DEF LocksHaveMemory
  <2> QED BY <2>3, <2>5, <2>6
<1>4. CASE r \notin Buffers
  <2>1. UNCHANGED <<mem, addr>>
    BY <1>4 DEF Create
  <2>2. MemoryTypes'
    BY <1>1, <2>1
  <2>3. LocksHaveMemory'
    BY <1>1, <1>4, <2>1 DEF LocksHaveMemory
  <2>4. \A x \in Blocks : (Owned(x)' <=> Owned(x)) /\ (Deferred(x)' <=> Deferred(x))
    BY <1>1, <2>1 DEF Owned, Deferred
  <2>5. \A q, s \in live' : addr'[q] = addr'[s] /\ addr'[s] # NoBlock => q = s
    BY <1>1, <2>1 DEF OneOwner
  <2>6. OneOwner'
    BY <1>1, <2>1, <2>4, <2>5 DEF OneOwner
  <2> QED BY <2>2, <2>3, <2>6
<1> QED BY <1>3, <1>4

LEMMA MemoryLockCopied ==
  ASSUME ShapeInv, MemoryInv, NEW r \in Resources, LockCopied(r)
  PROVE  MemoryInv'
<1> USE RenderLinkAssumption DEF MemoryInv, MemoryTypes
<1>1. /\ todo = <<>> /\ wait = NoWait /\ r \in live /\ addr[r] \in Blocks
      /\ UNCHANGED <<live, wait>> /\ locked' = [locked EXCEPT ![r] = Parts]
      /\ deferred' = deferred \cup {<<addr[r], LastRefOf(r)>>}
  BY DEF LockCopied, Unlocked, Guest, InUse
<1>2. PICK b \in FreeBlocks : GiveMemory(r, b, mem[addr[r]])
  BY DEF LockCopied
<1>3. mem' = [mem EXCEPT ![b] = mem[addr[r]]] /\ addr' = [addr EXCEPT ![r] = b] /\ b \in Blocks
  BY <1>2 DEF GiveMemory, FreeBlocks
<1>4. FreeOf(todo) /\ FreeOf(todo')
  BY <1>1, <1>2, NoCommand, OneCommand DEF GiveMemory, Call, FreeOf
<1>5. mem[addr[r]] \in Contents
  BY <1>1 DEF OneOwner, Owned
<1>6. OneOwner' /\ mem' \in [Blocks -> Contents \cup {NoBytes}]
  <2>1. live' = live \cup {r} /\ addr[r] # NoBlock
    BY <1>1
  <2>2. deferred' = IF addr[r] = NoBlock THEN deferred
                    ELSE deferred \cup {<<addr[r], LastRefOf(r)>>}
    BY <1>1, <2>1
  <2> QED BY <1>3, <1>4, <1>5, <2>1, <2>2, MemoryGiven
<1>7. \A d \in deferred' : d[1] \in Blocks
  BY <1>1
<1>8. MemoryTypes'
  BY <1>1, <1>3, <1>6, <1>7
<1>9. LocksHaveMemory'
  BY <1>1, <1>3 DEF LocksHaveMemory
<1> QED BY <1>6, <1>8, <1>9

LEMMA MemoryLockFree ==
  ASSUME ShapeInv, MemoryInv, NEW r \in Resources, LockFree(r)
  PROVE  MemoryInv'
<1> USE RenderLinkAssumption DEF MemoryInv, MemoryTypes
<1>1. /\ todo = <<>> /\ wait = NoWait /\ r \in live
      /\ UNCHANGED <<live, wait, deferred>> /\ locked' = [locked EXCEPT ![r] = Parts]
  BY DEF LockFree, Unlocked, Guest
<1>2. CASE addr[r] = NoBlock
  <2>1. PICK b \in FreeBlocks : GiveMemory(r, b, Zero)
    BY <1>2 DEF LockFree
  <2>2. mem' = [mem EXCEPT ![b] = Zero] /\ addr' = [addr EXCEPT ![r] = b] /\ b \in Blocks
    BY <2>1 DEF GiveMemory, FreeBlocks
  <2>3. FreeOf(todo) /\ FreeOf(todo')
    BY <1>1, <2>1, NoCommand, OneCommand DEF GiveMemory, Call, FreeOf
  <2>4. Zero \in Contents /\ live' = live \cup {r}
    BY <1>1 DEF Zero, Contents
  <2>5. OneOwner' /\ mem' \in [Blocks -> Contents \cup {NoBytes}]
    BY <1>1, <1>2, <2>2, <2>3, <2>4, MemoryGiven
  <2>6. MemoryTypes'
    BY <1>1, <2>2, <2>5
  <2>7. LocksHaveMemory'
    BY <1>1, <2>2 DEF LocksHaveMemory
  <2> QED BY <2>5, <2>6, <2>7
<1>3. CASE addr[r] # NoBlock
  <2>1. UNCHANGED <<mem, addr, todo>>
    BY <1>3 DEF LockFree
  <2>2. MemoryTypes'
    BY <1>1, <2>1
  <2>3. LocksHaveMemory'
    BY <1>1, <1>3, <2>1 DEF LocksHaveMemory
  <2>4. OneOwner'
    BY <1>1, <2>1 DEF OneOwner, Owned, Deferred
  <2> QED BY <2>2, <2>3, <2>4
<1> QED BY <1>2, <1>3

(* Waiting for a fence, the call publishes: some releases are done.        *)
LEMMA MemoryFence ==
  ASSUME MemoryInv, NEW r \in live, NEW S \in SUBSET Parts, addr[r] # NoBlock, StartFence(r, S)
  PROVE  MemoryInv'
<1>1. ReleasePassed /\ UNCHANGED <<addr, live, locked, todo>>
  BY DEF StartFence, Publish
<1>2. MemoryTypes' /\ OneOwner'
  BY <1>1, MemoryPassed DEF SameFrees
<1>3. wait'.r = r /\ wait'.parts = S
  BY DEF StartFence
<1>4. LocksHaveMemory'
  BY <1>1, <1>3 DEF LocksHaveMemory, MemoryInv
<1> QED BY <1>2, <1>4 DEF MemoryInv

LEMMA MemoryLockBuffer ==
  ASSUME ShapeInv, MemoryInv, NEW r \in Resources, NEW S \in SUBSET Parts, NEW b,
         LockBuffer(r, S, b)
  PROVE  MemoryInv'
<1>1. r \in live /\ addr[r] # NoBlock
  BY DEF LockBuffer, Unlocked, MemoryInv, LocksHaveMemory
<1>2. CASE StartFence(r, S)
  BY <1>1, <1>2, MemoryFence
<1>3. CASE ~StartFence(r, S)
  <2>1. /\ locked' = [locked EXCEPT ![r] = S]
        /\ UNCHANGED <<mem, addr, live, deferred, todo, wait>>
    BY <1>3 DEF LockBuffer, emulatorVars
  <2>2. MemoryTypes'
    BY <2>1 DEF MemoryInv, MemoryTypes
  <2>3. LocksHaveMemory'
    BY <1>1, <2>1 DEF MemoryInv, MemoryTypes, LocksHaveMemory
  <2>4. OneOwner'
    BY <2>1 DEF MemoryInv, OneOwner, Owned, Deferred
  <2> QED BY <2>2, <2>3, <2>4 DEF MemoryInv
<1> QED BY <1>2, <1>3

LEMMA MemoryWrite ==
  ASSUME MemoryInv, NEW r \in Resources, NEW x \in Parts, Write(r, x)
  PROVE  MemoryInv'
<1> USE DEF MemoryInv
<1>1. /\ UNCHANGED <<addr, live, locked, deferred, todo, wait>>
      /\ mem' = [mem EXCEPT ![addr[r]] = [mem[addr[r]] EXCEPT ![x] = 1 - @]]
  BY DEF Write, emulatorVars
<1>2. r \in live /\ addr[r] \in Blocks
  BY DEF Write, LocksHaveMemory, MemoryTypes
<1>3. mem[addr[r]] # NoBytes
  BY <1>2 DEF OneOwner, Owned
<1>4. mem[addr[r]] \in [Parts -> 0..1]
  BY <1>2, <1>3 DEF MemoryTypes, Contents
<1>5. [mem[addr[r]] EXCEPT ![x] = 1 - @] \in Contents
  <2>1. 1 - mem[addr[r]][x] \in 0..1
    BY <1>4
  <2> QED BY <1>4, <2>1 DEF Contents
<1>6. mem' \in [Blocks -> Contents \cup {NoBytes}]
  BY <1>1, <1>2, <1>5 DEF MemoryTypes
<1>7. \A b \in Blocks : mem'[b] # NoBytes <=> mem[b] # NoBytes
  BY <1>1, <1>2, <1>3, <1>5, ContentsApart DEF MemoryTypes
<1>8. MemoryTypes'
  BY <1>1, <1>6 DEF MemoryTypes
<1>9. LocksHaveMemory'
  BY <1>1 DEF LocksHaveMemory
<1>10. OneOwner'
  BY <1>1, <1>7 DEF OneOwner, Owned, Deferred
<1> QED BY <1>8, <1>9, <1>10

LEMMA MemoryUnlock ==
  ASSUME ShapeInv, MemoryInv, NEW r \in Resources, Unlock(r)
  PROVE  MemoryInv'
<1> USE DEF MemoryInv
<1>1. /\ UNCHANGED <<mem, addr, live, deferred, wait>>
      /\ locked' = [locked EXCEPT ![r] = {}] /\ todo = <<>>
  BY DEF Unlock, Guest
<1>2. FreeOf(todo) /\ FreeOf(todo')
  BY <1>1, NoCommand, OneCommand DEF Unlock, Call, FreeOf
<1>3. MemoryTypes'
  BY <1>1 DEF MemoryTypes
<1>4. LocksHaveMemory'
  BY <1>1 DEF LocksHaveMemory, MemoryTypes
<1>5. OneOwner'
  BY <1>1, <1>2 DEF OneOwner, Owned, Deferred, FreeOf
<1> QED BY <1>3, <1>4, <1>5

LEMMA MemoryDestroy ==
  ASSUME ShapeInv, MemoryInv, NEW r \in Resources, Destroy(r)
  PROVE  MemoryInv'
<1> USE RenderLinkAssumption DEF MemoryInv, MemoryTypes
<1>1. /\ todo = <<>> /\ wait = NoWait /\ r \in live /\ locked[r] = {}
      /\ live' = live \ {r} /\ addr' = [addr EXCEPT ![r] = NoBlock]
      /\ UNCHANGED <<locked, deferred, wait>>
  BY DEF Destroy, Guest
<1>2. \A b \in Blocks : Owned(b)' <=> Owned(b) /\ b # addr[r]
  BY <1>1 DEF Owned, OneOwner
<1>3. \A b \in Blocks : Deferred(b)' <=> Deferred(b)
  BY <1>1 DEF Deferred
<1>4. \A b \in Blocks : b = addr[r] => Owned(b)
  BY <1>1 DEF Owned
<1>5. LocksHaveMemory'
  BY <1>1 DEF LocksHaveMemory
<1>6. \A q, s \in live' : addr'[q] = addr'[s] /\ addr'[s] # NoBlock => q = s
  BY <1>1 DEF OneOwner
<1>7. FreeOf(todo)
  BY <1>1, NoCommand
<1>8. CASE Recording(r)
  <2> DEFINE d == [op |-> "DESTROY", r |-> r]
             f == [op |-> "FREE", r |-> r, block |-> addr[r], rec |-> rec[r],
                   until |-> LastRefOf(r)]
  <2>1. todo' = <<d, f>> /\ mem' = mem
    BY <1>8 DEF Destroy, Call
  <2>2. \A b \in Blocks : FreesIn(todo', b) <=> b = addr[r]
    BY <2>1 DEF FreesIn
  <2>3. MemoryTypes'
    BY <1>1, <2>1
  <2>4. OneOwner'
    BY <1>1, <1>2, <1>3, <1>4, <1>6, <1>7, <2>1, <2>2 DEF OneOwner, FreeOf
  <2> QED BY <1>5, <2>3, <2>4
<1>9. CASE ~Recording(r)
  <2>1. todo' = todo /\ mem' = Released({addr[r]})
    BY <1>9 DEF Destroy
  <2>2. mem' \in [Blocks -> Contents \cup {NoBytes}]
    BY <2>1 DEF Released
  <2>3. \A b \in Blocks : mem'[b] = IF b = addr[r] THEN NoBytes ELSE mem[b]
    BY <2>1 DEF Released
  <2>4. MemoryTypes'
    BY <1>1, <2>2
  <2>5. OneOwner'
    BY <1>1, <1>2, <1>3, <1>4, <1>6, <1>7, <2>1, <2>3 DEF OneOwner, FreeOf
  <2> QED BY <1>5, <2>4, <2>5
<1> QED BY <1>8, <1>9

LEMMA MemoryGuest ==
  ASSUME ShapeInv, MemoryInv, NEW r \in Resources, GuestCall(r)
  PROVE  MemoryInv'
<1>1. CASE LockFenced(r)
  <2>1. r \in live /\ addr[r] # NoBlock /\ StartFence(r, Parts)
    BY <1>1 DEF LockFenced, Unlocked, InUse
  <2> QED BY <2>1, MemoryFence
<1>2. CASE Bind(r)
  BY <1>2, MemoryKept DEF Bind, emulatorVars, SameFrees, NoNewFence
<1> QED BY <1>1, <1>2, MemoryCreate, MemoryLockCopied, MemoryLockFree, MemoryLockBuffer,
           MemoryWrite, MemoryUnlock, MemoryDestroy DEF GuestCall

(* The release a call ends with, done or deferred.                         *)
LEMMA MemoryFree ==
  ASSUME ShapeInv, MemoryInv, Free
  PROVE  MemoryInv'
<1> USE RenderLinkAssumption DEF MemoryInv, MemoryTypes
<1> DEFINE f == Head(todo)
           o == f.block
<1>1. /\ todo # <<>> /\ f.op = "FREE" /\ todo' = Tail(todo)
      /\ UNCHANGED <<addr, live, locked, wait>>
  BY DEF Free, Freeing
<1>2. todo' = <<>>
  BY <1>1, TailOfCall DEF ShapeInv
<1>3. \A b \in Blocks : FreesIn(todo, b) <=> b = o
  <2>1. Len(todo) \in Nat \ {0} /\ todo[1] = f
    BY <1>1, TailSequence DEF ShapeInv
  <2>2. Len(todo) = 1
    <3>1. 1 \in 1..Len(todo) /\ todo[1].op = "FREE"
      BY <1>1, <2>1
    <3> QED BY <3>1 DEF ShapeInv, CallShape
  <2> QED BY <1>1, <2>1, <2>2 DEF FreesIn
<1>4. FreeOf(todo')
  BY <1>2, NoCommand
<1>5. LocksHaveMemory'
  BY <1>1, LocksKept DEF NoNewFence
<1>6. \A b \in Blocks : Owned(b)' <=> Owned(b)
  BY <1>1 DEF Owned
<1>7. \A q, s \in live' : addr'[q] = addr'[s] /\ addr'[s] # NoBlock => q = s
  BY <1>1 DEF OneOwner
<1>8. CASE deferred' = deferred \cup {<<o, f.until>>} /\ mem' = mem /\ o \in Blocks
  <2>1. <<o, f.until>>[1] = o
    OBVIOUS
  <2>2. \A b \in Blocks : Deferred(b)' <=> Deferred(b) \/ b = o
    BY <1>8, <2>1 DEF Deferred
  <2>3. ~Deferred(o) /\ ~Owned(o)
    BY <1>3, <1>8 DEF OneOwner
  <2>4. \A d, e \in deferred' : d[1] = e[1] => d = e
    BY <1>8, <2>1, <2>3 DEF Deferred, OneOwner
  <2>5. MemoryTypes'
    BY <1>1, <1>8, <2>1
  <2>6. OneOwner'
    BY <1>3, <1>4, <1>6, <1>7, <1>8, <2>2, <2>3, <2>4 DEF OneOwner, FreeOf
  <2> QED BY <1>5, <2>5, <2>6
<1>9. CASE deferred' = deferred /\ mem' = Released({o})
  <2>1. mem' \in [Blocks -> Contents \cup {NoBytes}]
    BY <1>9 DEF Released
  <2>2. \A b \in Blocks : mem'[b] = IF b = o THEN NoBytes ELSE mem[b]
    BY <1>9 DEF Released
  <2>3. \A b \in Blocks : Deferred(b)' <=> Deferred(b)
    BY <1>9 DEF Deferred
  <2>4. MemoryTypes'
    BY <1>1, <1>9, <2>1
  <2>5. OneOwner'
    BY <1>3, <1>4, <1>6, <1>7, <1>9, <2>2, <2>3 DEF OneOwner, FreeOf
  <2> QED BY <1>5, <2>4, <2>5
<1>10. o # NoBlock => o \in Blocks
  <2>1. 1 \in 1..Len(todo) /\ todo[1] = f
    BY <1>1, TailSequence DEF ShapeInv
  <2> QED BY <1>1, <2>1 DEF ShapeInv, CallShape
<1>11. \/ deferred' = deferred \cup {<<o, f.until>>} /\ mem' = mem /\ o # NoBlock
       \/ deferred' = deferred /\ mem' = Released({o})
  BY DEF Free
<1> QED BY <1>8, <1>9, <1>10, <1>11

LEMMA MemoryGiveUp ==
  ASSUME ShapeInv, MemoryInv, GiveUp
  PROVE  MemoryInv'
<1>1. /\ mem' = Released({d[1] : d \in deferred}) /\ deferred' = deferred \ deferred
      /\ UNCHANGED <<addr, live, locked, wait>>
  BY DEF GiveUp
<1>2. SameFrees
  <2>1. CASE todo # <<>> /\ Last(todo).op = "FREE"
    <3>1. todo' = <<Last(todo)>>
      BY <2>1 DEF GiveUp
    <3> QED BY <2>1, <3>1, LastCommand, OneCommand DEF SameFrees, ShapeInv
  <2>2. CASE todo # <<>> /\ Last(todo).op # "FREE"
    <3>1. todo' = <<>>
      BY <2>2 DEF GiveUp
    <3> QED BY <2>2, <3>1, LastCommand, NoCommand DEF SameFrees, ShapeInv, FreeOf
  <2>3. CASE todo = <<>>
    BY <2>3 DEF GiveUp, SameFrees
  <2> QED BY <2>1, <2>2, <2>3
<1>3. MemoryTypes' /\ OneOwner'
  BY <1>1, <1>2, MemoryReleased
<1>4. LocksHaveMemory'
  BY <1>1, LocksKept DEF MemoryInv, NoNewFence
<1> QED BY <1>3, <1>4 DEF MemoryInv

LEMMA MemoryPut ==
  ASSUME ShapeInv, PutNext
  PROVE  SameFrees /\ UNCHANGED <<addr, live, locked>>
  BY TailOfCall DEF ShapeInv, PutNext, Putting, SameFrees

LEMMA MemoryEmulator ==
  ASSUME ShapeInv, MemoryInv, EmulatorStep
  PROVE  MemoryInv'
<1>1. ASSUME NEW use \in [bound -> SUBSET Parts], NEW all \in BOOLEAN, Draw(use, all)
      PROVE  MemoryInv'
  <2>1. FreeOf(todo) /\ FreeOf(todo')
    BY <1>1, DrawIsQuiet, QuietCall, NoCommand DEF ShapeInv, Draw, CanRecord, Guest
  <2> QED BY <1>1, <2>1, MemoryKept DEF Draw, guestVars, SameFrees, NoNewFence, FreeOf
<1>2. CASE Present
  <2>1. FreeOf(todo) /\ FreeOf(todo')
    BY <1>2, FlushIsQuiet, QuietAppend, NoCommand DEF ShapeInv, Present, Call, CanRecord, Guest
  <2> QED BY <1>2, <2>1, MemoryKept DEF Present, guestVars, SameFrees, NoNewFence, FreeOf
<1>3. CASE AfterSlice \/ RingFull
  <2>1. ReleasePassed /\ UNCHANGED <<addr, live, locked, todo, wait>>
    BY <1>3 DEF AfterSlice, RingFull, Publish
  <2> QED BY <2>1, MemoryPassed, LocksKept DEF MemoryInv, SameFrees, NoNewFence
<1>4. CASE EndFence
  <2>1. /\ wait # NoWait /\ wait.kind = "fence" /\ wait' = NoWait
        /\ locked' = [locked EXCEPT ![wait.r] = wait.parts]
        /\ UNCHANGED <<mem, addr, live, deferred>> /\ todo = <<>>
    BY <1>4 DEF EndFence, FenceOver, ShapeInv
  <2>2. FreeOf(todo) /\ FreeOf(todo')
    BY <1>4, <2>1, NoCommand, OneCommand DEF EndFence, Call, Data, FreeOf
  <2>3. MemoryTypes'
    BY <2>1 DEF MemoryInv, MemoryTypes, LocksHaveMemory
  <2>4. LocksHaveMemory'
    BY <2>1 DEF MemoryInv, MemoryTypes, LocksHaveMemory
  <2>5. OneOwner'
    BY <2>1, <2>2 DEF MemoryInv, OneOwner, Owned, Deferred, FreeOf
  <2> QED BY <2>3, <2>4, <2>5 DEF MemoryInv
<1>5. CASE Free
  BY <1>5, MemoryFree
<1>6. CASE PutState
  BY <1>6, MemoryPut, MemoryKept DEF PutState, NoNewFence
<1>7. CASE PutDraw
  <2>1. SameFrees /\ NoNewFence /\ UNCHANGED <<addr, live, locked>>
    BY <1>7, MemoryPut DEF PutDraw, NoNewFence
  <2>2. CASE ReleasePassed
    BY <2>1, <2>2, MemoryPassed, LocksKept DEF MemoryInv
  <2>3. CASE UNCHANGED <<mem, deferred>>
    BY <2>1, <2>3, MemoryKept
  <2> QED BY <1>7, <2>2, <2>3 DEF PutDraw
<1>8. CASE PutPresent
  <2>1. SameFrees /\ NoNewFence /\ UNCHANGED <<addr, live, locked>> /\ ReleasePassed
    BY <1>8, MemoryPut DEF PutPresent, NoNewFence
  <2> QED BY <2>1, MemoryPassed, LocksKept DEF MemoryInv
<1>9. CASE EndFrame
  BY <1>9, MemoryKept DEF EndFrame, guestVars, SameFrees, NoNewFence
<1>10. CASE Fail \/ WorkerError
  BY <1>10, MemoryGiveUp DEF Fail, WorkerError
<1> QED BY <1>1, <1>2, <1>3, <1>4, <1>5, <1>6, <1>7, <1>8, <1>9, <1>10 DEF EmulatorStep

LEMMA MemoryStep ==
  ASSUME IInv, [Next]_vars
  PROVE  MemoryInv'
<1> USE DEF IInv
<1>1. CASE \E r \in Resources : GuestCall(r)
  BY <1>1, MemoryGuest
<1>2. CASE EmulatorStep
  BY <1>2, MemoryEmulator
<1>3. CASE WorkerStep
  BY <1>3, WorkerLeaves, MemoryKept DEF guestVars, emulatorVars, SameFrees, NoNewFence
<1>4. CASE UNCHANGED vars
  BY <1>4, MemoryKept DEF vars, guestVars, emulatorVars, SameFrees, NoNewFence
<1> QED BY <1>1, <1>2, <1>3, <1>4 DEF Next, WorkerStep

----------------------------------------------------------------------------
(* The theorems.                                                           *)

LEMMA InvInit ==
  ASSUME Init
  PROVE  IInv
<1> USE RenderLinkAssumption DEF Init
<1>1. ShapeInv
  BY NoCommand DEF ShapeInv
<1>2. CursorInv
  BY EmptyIsSequence DEF CursorInv, Consumed
<1>3. FrameInv
  <2>1. RingOps("PRESENT") = {}
    BY EmptyIsSequence DEF RingOps
  <2>2. Cardinality(RingOps("PRESENT")) = 0
    BY <2>1, FS_EmptySet
  <2> QED BY <2>2 DEF FrameInv, FrameWait
<1>4. MemoryInv
  <2>1. \A b \in Blocks : ~Owned(b) /\ ~Deferred(b) /\ ~FreesIn(todo, b)
    BY NoCommand DEF Owned, Deferred, FreeOf
  <2> QED BY <2>1 DEF MemoryInv, MemoryTypes, LocksHaveMemory, OneOwner
<1> QED BY <1>1, <1>2, <1>3, <1>4 DEF IInv

LEMMA InvStep ==
  ASSUME IInv, [Next]_vars
  PROVE  IInv'
  BY ShapeStep, CursorStep, FrameStep, MemoryStep DEF IInv

LEMMA InvFrames ==
  ASSUME IInv
  PROVE  FramesBounded
<1> SUFFICES ASSUME Guest, ~failed
             PROVE  Cardinality(RingOps("PRESENT")) <= MaxFrames
  BY DEF FramesBounded
<1>1. Cardinality(RingOps("PRESENT")) \in Nat
  BY PresentsFinite DEF IInv, CursorInv, RingOps, PresentsIn
<1>2. frames = shown + Cardinality(RingOps("PRESENT")) /\ frames <= shown + MaxFrames
  BY DEF IInv, FrameInv, FrameWait, Guest
<1> QED BY <1>1, <1>2, RenderLinkAssumption DEF IInv, FrameInv

(* A set of at most one element.                                           *)
LEMMA AtMostOne ==
  ASSUME NEW S, \A x, y \in S : x = y
  PROVE  Cardinality(S) = IF S = {} THEN 0 ELSE 1
<1>1. CASE S = {}
  BY <1>1, FS_EmptySet
<1>2. CASE S # {}
  <2>1. PICK x \in S : TRUE
    BY <1>2
  <2>2. S = {x}
    BY <2>1
  <2> QED BY <2>2, FS_Singleton
<1> QED BY <1>1, <1>2

LEMMA InvMemory ==
  ASSUME IInv
  PROVE  MemoryAccounted
<1> SUFFICES ASSUME NEW b \in Blocks
             PROVE  Cardinality({r \in live : addr[r] = b})
                      + Cardinality({d \in deferred : d[1] = b})
                      + Cardinality({i \in 1..Len(todo) :
                                       todo[i].op = "FREE" /\ todo[i].block = b})
                    = IF mem[b] = NoBytes THEN 0 ELSE 1
  BY DEF MemoryAccounted
<1> DEFINE R == {r \in live : addr[r] = b}
           D == {d \in deferred : d[1] = b}
           F == {i \in 1..Len(todo) : todo[i].op = "FREE" /\ todo[i].block = b}
<1> USE RenderLinkAssumption DEF IInv, MemoryInv
<1>1. Cardinality(R) = IF R = {} THEN 0 ELSE 1
  <2>1. \A q, r \in R : q = r
    BY DEF OneOwner
  <2> QED BY <2>1, AtMostOne
<1>2. Cardinality(D) = IF D = {} THEN 0 ELSE 1
  <2>1. \A d, e \in D : d = e
    BY DEF OneOwner
  <2> QED BY <2>1, AtMostOne
<1>3. Cardinality(F) = IF F = {} THEN 0 ELSE 1
  <2>1. \A i, j \in F : i = j
    BY DEF ShapeInv, CallShape
  <2> QED BY <2>1, AtMostOne
<1>4. (R # {} <=> Owned(b)) /\ (D # {} <=> Deferred(b)) /\ (F # {} <=> FreesIn(todo, b))
  BY DEF Owned, Deferred, FreesIn
<1>5. /\ ~(R # {} /\ D # {}) /\ (F # {} => R = {} /\ D = {})
      /\ mem[b] # NoBytes <=> R # {} \/ D # {} \/ F # {}
  BY <1>4 DEF OneOwner
<1> QED BY <1>1, <1>2, <1>3, <1>5

(* The order of the ring's positions, the presents on their way and the    *)
(* owner of each block are right in every reachable state, between calls   *)
(* and inside them.                                                        *)
THEOREM InvAlways == Spec => []IInv
<1>1. Init => IInv
  BY InvInit
<1>2. IInv /\ [Next]_vars => IInv'
  BY InvStep
<1> QED BY <1>1, <1>2, PTL DEF Spec

(* Whenever a call has returned, at most MaxFrames presents are on their   *)
(* way to the screen, for any ring and any program (d3d-recorder.js        *)
(* present, which waits for the frame MAX_FRAMES_IN_FLIGHT before).        *)
THEOREM FramesBoundedAlways == Spec => []FramesBounded
<1>1. IInv => FramesBounded
  BY InvFrames
<1> QED BY <1>1, InvAlways, PTL

(* Every block of memory the recorder handles has exactly one owner for as *)
(* long as it is allocated, whatever is locked, copied, released or        *)
(* deferred, and also when the worker dies (d3d-recorder.js beforeWrite,   *)
(* deferFree, releaseDeferred, fail).                                      *)
THEOREM MemoryAccountedAlways == Spec => []MemoryAccounted
<1>1. IInv => MemoryAccounted
  BY InvMemory
<1> QED BY <1>1, InvAlways, PTL

----------------------------------------------------------------------------
(* The contents.  Commands on their way have positions, Consumed + 1 to    *)
(* produced + Len(todo), that stay theirs until they are replayed.  Ahead  *)
(* says what the worker will have made of its resources when it reaches    *)
(* each of them, uploads apart: the invariants speak of that, at each draw *)
(* and at the end, where the program's next call adds its commands.        *)

Way == Consumed + 1 .. produced + Len(todo)
End == produced + Len(todo) + 1
Cmd == [p \in Way |-> IF p <= produced THEN ring[p - Consumed] ELSE todo[p - produced]]

(* The mirror's resource r after a command, but for uploads.               *)
Born(c) ==
  [block |-> c.block, slot |-> c.slot, gen |-> c.gen, acked |-> -1,
   dirty |-> {}, shadow |-> c.shadow, gpu |-> NoBytes]
Moved(m, c) == [m EXCEPT !.block = c.block]
Dirtied(m, r, c) ==
  [m EXCEPT !.gen = c.gen, !.dirty = @ \cup c.parts,
            !.block = IF r \in Buffers THEN c.block ELSE @]
Given(m, c) ==
  [m EXCEPT !.shadow = [x \in Parts |->
                          IF x \in c.parts THEN c.bytes[x]
                          ELSE IF m.shadow = NoBytes THEN 0 ELSE m.shadow[x]],
            !.dirty = IF c.written THEN @ \cup c.parts ELSE @]

Touches(c, r) == c.op \in {"BIND", "MEM", "DIRTY", "DATA", "DESTROY"} /\ c.r = r
After(m, r, c) ==
  IF ~Touches(c, r) \/ (c.op = "BIND" /\ ~c.new) THEN m
  ELSE IF c.op = "BIND" THEN Born(c)
  ELSE IF c.op = "DESTROY" \/ m = NoRec THEN NoRec
  ELSE IF c.op = "MEM" THEN Moved(m, c)
  ELSE IF c.op = "DIRTY" THEN Dirtied(m, r, c)
  ELSE Given(m, c)

StagedAfter(S, c) ==
  IF c.op = "BIND" THEN S \cup {c.r} ELSE IF c.op = "UNBIND" THEN S \ {c.r} ELSE S

Onward(w, c) ==
  [mirror |-> [r \in Resources |-> After(w.mirror[r], r, c)],
   staged |-> StagedAfter(w.staged, c)]

(* From w at position a, through the commands C, to position b.            *)
Course(w, a, b, C) ==
  LET f[p \in a..b] == IF p = a THEN w ELSE Onward(f[p - 1], C[p - 1]) IN f

Ahead == Course([mirror |-> mirror, staged |-> staged], Consumed + 1, End, Cmd)
At(p, r) == Ahead[p].mirror[r]
StagedAt(p) == Ahead[p].staged

----------------------------------------------------------------------------
(* The first of some integers, and what a course is.                       *)

LEMMA Least ==
  ASSUME NEW a \in Int, NEW T, \A x \in T : x \in Int /\ a <= x, T # {}
  PROVE  \E x \in T : \A y \in T : x <= y
<1> DEFINE N == {n \in Nat : a + n \in T}
           R == OpToRel(<, Nat)
<1>1. IsWellFoundedOn(R, Nat)
  BY NatLessThanWellFounded
<1>2. N # {} /\ N \in SUBSET Nat
  <2>1. PICK x \in T : TRUE
    OBVIOUS
  <2>2. x - a \in Nat /\ a + (x - a) = x
    BY <2>1
  <2> QED BY <2>1, <2>2
<1>3. \E n \in N : \A y \in N : ~(<<y, n>> \in R)
  <2> HIDE DEF R, N
  <2> QED BY <1>1, <1>2, WFMin
<1>4. \A x, y \in Nat : y < x => <<y, x>> \in R
  BY DEF OpToRel
<1>5. PICK n \in N : \A y \in N : ~(<<y, n>> \in R)
  BY <1>3
<1>6. \A y \in N : n <= y
  <2>1. \A y \in N : y \in Nat
    OBVIOUS
  <2>2. \A y \in N : ~(y < n)
    <3> HIDE DEF R, N
    <3> QED BY <1>4, <1>5, <2>1
  <2> HIDE DEF R, N
  <2> QED BY <2>1, <2>2
<1>7. \A y \in T : a + n <= y
  <2> TAKE y \in T
  <2>1. y - a \in N
    OBVIOUS
  <2> QED BY <2>1, <1>6
<1> QED BY <1>7

IsCourse(f, w, a, b, C) ==
  f = [p \in a..b |-> IF p = a THEN w ELSE Onward(f[p - 1], C[p - 1])]

LEMMA CourseExists ==
  ASSUME NEW w, NEW C, NEW a \in Int, NEW e \in Int, a <= e
  PROVE  \E f : IsCourse(f, w, a, e, C)
<1> DEFINE Bad == {n \in a..e : ~(\E f : IsCourse(f, w, a, n, C))}
<1> SUFFICES ASSUME Bad # {} PROVE FALSE
  OBVIOUS
<1>1. PICK b \in Bad : \A y \in Bad : b <= y
  <2>1. \A x \in Bad : x \in Int /\ a <= x
    OBVIOUS
  <2> HIDE DEF Bad
  <2> QED BY <2>1, Least
<1>2. b # a
  <2>1. IsCourse([p \in a..a |-> w], w, a, a, C)
    BY DEF IsCourse
  <2> QED BY <2>1
<1>3. b - 1 \in a..e /\ b \in Int
  BY <1>2
<1>4. PICK f : IsCourse(f, w, a, b - 1, C)
  BY <1>1, <1>3
<1> DEFINE g == [p \in a..b |-> IF p = b THEN Onward(f[b - 1], C[b - 1]) ELSE f[p]]
<1>5. \A p \in a..(b - 1) : g[p] = f[p]
  BY <1>3
<1>6. ASSUME NEW p \in a..b
      PROVE  g[p] = IF p = a THEN w ELSE Onward(g[p - 1], C[p - 1])
  <2>1. CASE p = b
    <3>1. g[b] = Onward(f[b - 1], C[b - 1])
      BY <1>3
    <3>2. g[b - 1] = f[b - 1]
      BY <1>3, <1>5
    <3> HIDE DEF g
    <3> QED BY <2>1, <1>2, <3>1, <3>2
  <2>2. CASE p \in a..(b - 1)
    <3>1. f[p] = IF p = a THEN w ELSE Onward(f[p - 1], C[p - 1])
      BY <1>4, <2>2 DEF IsCourse
    <3>2. p # a => p - 1 \in a..(b - 1)
      BY <1>3, <2>2
    <3> HIDE DEF g
    <3> QED BY <1>5, <2>2, <3>1, <3>2
  <2> QED BY <1>3, <2>1, <2>2
<1>7. IsCourse(g, w, a, b, C)
  <2>1. g = [p \in a..b |-> g[p]]
    OBVIOUS
  <2> HIDE DEF g
  <2> QED BY <1>6, <2>1 DEF IsCourse
<1> QED BY <1>7

LEMMA CourseFacts ==
  ASSUME NEW w, NEW C, NEW a \in Int, NEW b \in Int, a <= b
  PROVE  /\ Course(w, a, b, C)[a] = w
         /\ \A p \in a..(b - 1) : Course(w, a, b, C)[p + 1] = Onward(Course(w, a, b, C)[p], C[p])
<1> DEFINE f == CHOOSE x : IsCourse(x, w, a, b, C)
<1>1. Course(w, a, b, C) = f
  BY DEF Course, IsCourse
<1>2. IsCourse(f, w, a, b, C)
  BY CourseExists
<1> HIDE DEF f
<1>3. f[a] = w
  BY <1>2 DEF IsCourse
<1>4. ASSUME NEW p \in a..(b - 1)
      PROVE  f[p + 1] = Onward(f[p], C[p])
  <2>1. p + 1 \in a..b /\ p + 1 # a /\ (p + 1) - 1 = p
    OBVIOUS
  <2>2. f[p + 1] = IF p + 1 = a THEN w ELSE Onward(f[(p + 1) - 1], C[(p + 1) - 1])
    BY <1>2, <2>1 DEF IsCourse
  <2> QED BY <2>1, <2>2
<1> QED BY <1>1, <1>3, <1>4

----------------------------------------------------------------------------
(* The commands on their way, and how a step changes them.                 *)

LEMMA Lengths ==
  ASSUME NEW s, IsSequence(s)
  PROVE  Len(s) \in Nat
BY DEF IsSequence

LEMMA LengthsNext ==
  ASSUME ShapeInv', CursorInv'
  PROVE  Len(ring') \in Nat /\ Len(todo') \in Nat /\ produced' \in Nat
<1>1. IsSequence(ring') /\ IsSequence(todo') /\ produced' \in Nat
  BY DEF ShapeInv, CursorInv
<1> QED BY <1>1, Lengths

LEMMA WayFacts ==
  ASSUME ShapeInv, CursorInv
  PROVE  /\ Len(ring) \in Nat /\ Len(todo) \in Nat /\ produced \in Nat /\ Consumed \in Int
         /\ End \in Int /\ Consumed + 1 <= End /\ Consumed = produced - Len(ring)
         /\ Way = (Consumed + 1)..(End - 1)
         /\ \A p \in Way : /\ p \in Int /\ p + 1 \in (Consumed + 1)..End
                           /\ p \in (Consumed + 1)..End /\ p < End
         /\ \A p \in Way : Cmd[p] = IF p <= produced THEN ring[p - Consumed] ELSE todo[p - produced]
<1>1. Len(ring) \in Nat /\ Len(todo) \in Nat /\ produced \in Nat
  BY DEF ShapeInv, CursorInv, IsSequence
<1>2. Consumed \in Int /\ End \in Int /\ Consumed + 1 <= End /\ Consumed = produced - Len(ring)
  BY <1>1 DEF Consumed, End
<1>3. produced + Len(todo) = End - 1
  BY <1>1 DEF End
<1>4. Way = (Consumed + 1)..(End - 1)
  BY <1>3 DEF Way
<1>5. \A p \in Way : /\ p \in Int /\ p + 1 \in (Consumed + 1)..End
                     /\ p \in (Consumed + 1)..End /\ p < End
  BY <1>2, <1>4
<1>6. \A p \in Way : Cmd[p] = IF p <= produced THEN ring[p - Consumed] ELSE todo[p - produced]
  BY DEF Cmd
<1> QED BY <1>1, <1>2, <1>4, <1>5, <1>6

(* A course, resource by resource                                          *)
Journey(F, M, S, a, e, C) ==
  /\ F[a] = [mirror |-> M, staged |-> S]
  /\ \A p \in a..(e - 1) : F[p + 1] = Onward(F[p], C[p])

LEMMA JourneyFacts ==
  ASSUME NEW F, NEW M, NEW S, NEW a, NEW e, NEW C, Journey(F, M, S, a, e, C)
  PROVE  /\ F[a].mirror = M /\ F[a].staged = S
         /\ \A p \in a..(e - 1), r \in Resources :
              F[p + 1].mirror[r] = After(F[p].mirror[r], r, C[p])
         /\ \A p \in a..(e - 1) : F[p + 1].staged = StagedAfter(F[p].staged, C[p])
<1>1. F[a].mirror = M /\ F[a].staged = S
  BY DEF Journey
<1>2. ASSUME NEW p \in a..(e - 1)
      PROVE  /\ \A r \in Resources : F[p + 1].mirror[r] = After(F[p].mirror[r], r, C[p])
             /\ F[p + 1].staged = StagedAfter(F[p].staged, C[p])
  <2>1. F[p + 1] = Onward(F[p], C[p])
    BY DEF Journey
  <2> QED BY <2>1 DEF Onward
<1> QED BY <1>1, <1>2

LEMMA CourseJourney ==
  ASSUME NEW M, NEW S, NEW C, NEW a \in Int, NEW e \in Int, a <= e
  PROVE  Journey(Course([mirror |-> M, staged |-> S], a, e, C), M, S, a, e, C)
  BY CourseFacts DEF Journey

(* Two journeys through the same commands from the same place agree.       *)
LEMMA JourneysAgree ==
  ASSUME NEW F, NEW G, NEW M, NEW S, NEW C, NEW D, NEW a \in Int, NEW e \in Int,
         NEW b \in Int, NEW c \in Int, b <= e, b <= c,
         Journey(F, M, S, a, e, C), Journey(G, M, S, a, c, D),
         \A p \in a..(b - 1) : C[p] = D[p]
  PROVE  \A p \in a..b : F[p] = G[p]
<1> DEFINE Bad == {p \in a..b : F[p] # G[p]}
<1> SUFFICES ASSUME Bad # {} PROVE FALSE
  OBVIOUS
<1>1. PICK p \in Bad : \A y \in Bad : p <= y
  <2>1. \A x \in Bad : x \in Int /\ a <= x
    OBVIOUS
  <2> HIDE DEF Bad
  <2> QED BY <2>1, Least
<1>2. p \in a..b /\ F[p] # G[p] /\ p # a
  BY DEF Journey
<1>3. p - 1 \in a..(b - 1) /\ (p - 1) + 1 = p /\ p - 1 \in a..b /\ ~(p <= p - 1)
  BY <1>2
<1>4. F[p - 1] = G[p - 1]
  BY <1>1, <1>3
<1>5. p - 1 \in a..(e - 1) /\ p - 1 \in a..(c - 1)
  BY <1>3
<1>6. F[p] = Onward(F[p - 1], C[p - 1]) /\ G[p] = Onward(G[p - 1], D[p - 1])
  BY <1>3, <1>5 DEF Journey
<1> QED BY <1>2, <1>3, <1>4, <1>6

LEMMA AheadJourney ==
  ASSUME ShapeInv, CursorInv
  PROVE  Journey(Ahead, mirror, staged, Consumed + 1, End, Cmd)
  BY WayFacts, CourseJourney DEF Ahead

LEMMA AheadJourneyNext ==
  ASSUME ShapeInv', CursorInv'
  PROVE  Journey(Ahead', mirror', staged', Consumed' + 1, End', Cmd')
<1>1. Len(ring') \in Nat /\ Len(todo') \in Nat /\ produced' \in Nat
  BY LengthsNext
<1>2. Consumed' \in Int /\ End' \in Int /\ Consumed' + 1 <= End'
  BY <1>1 DEF Consumed, End
<1>3. Ahead' = Course([mirror |-> mirror', staged |-> staged'], Consumed' + 1, End', Cmd')
  BY DEF Ahead
<1>4. PICK a \in Int : a = Consumed' + 1
  <2>1. Consumed' + 1 \in Int
    BY <1>2
  <2> QED BY <2>1
<1> QED BY <1>2, <1>3, <1>4, CourseJourney

LEMMA AheadFacts ==
  ASSUME ShapeInv, CursorInv
  PROVE  /\ \A r \in Resources : At(Consumed + 1, r) = mirror[r]
         /\ StagedAt(Consumed + 1) = staged
         /\ \A p \in Way, r \in Resources : At(p + 1, r) = After(At(p, r), r, Cmd[p])
         /\ \A p \in Way : StagedAt(p + 1) = StagedAfter(StagedAt(p), Cmd[p])
  BY WayFacts, AheadJourney, JourneyFacts DEF At, StagedAt

LEMMA AheadFactsNext ==
  ASSUME ShapeInv', CursorInv'
  PROVE  /\ \A r \in Resources : At(Consumed + 1, r)' = mirror'[r]
         /\ StagedAt(Consumed + 1)' = staged'
         /\ \A p \in Way', r \in Resources : At(p + 1, r)' = After(At(p, r)', r, Cmd'[p])
         /\ \A p \in Way' : StagedAt(p + 1)' = StagedAfter(StagedAt(p)', Cmd'[p])
<1>1. Journey(Ahead', mirror', staged', Consumed' + 1, End', Cmd')
  BY AheadJourneyNext
<1>2. Way' = (Consumed' + 1)..(End' - 1)
  BY DEF Way, End, ShapeInv, CursorInv, IsSequence
<1> QED BY <1>1, <1>2, JourneyFacts DEF At, StagedAt

(* Nothing on its way changes: commands are put, positions published, ...  *)
Steady ==
  /\ Consumed' = Consumed /\ Way' = Way /\ End' = End /\ Cmd' = Cmd /\ Ahead' = Ahead
  /\ mirror' = mirror

LEMMA SteadyKept ==
  ASSUME UNCHANGED <<ring, todo, produced, mirror, staged>>
  PROVE  Steady
<1>1. Consumed' = Consumed /\ Way' = Way /\ End' = End
  BY DEF Consumed, Way, End
<1>2. Cmd' = Cmd
  BY <1>1 DEF Cmd
<1> QED BY <1>1, <1>2 DEF Steady, Ahead

LEMMA SteadyPut ==
  ASSUME ShapeInv, CursorInv, PutNext
  PROVE  Steady
<1>1. /\ Len(ring) \in Nat /\ Len(todo) \in Nat \ {0} /\ produced \in Nat
      /\ produced' = produced + 1 /\ mirror' = mirror /\ staged' = staged
      /\ Len(ring') = Len(ring) + 1 /\ ring'[Len(ring) + 1] = Head(todo)
      /\ \A i \in 1..Len(ring) : ring'[i] = ring[i]
      /\ Len(todo') = Len(todo) - 1 /\ Head(todo) = todo[1]
      /\ \A i \in 1..Len(todo') : todo'[i] = todo[i + 1]
  BY WayFacts, AppendSequence, TailSequence
     DEF ShapeInv, CursorInv, PutNext, Putting, workerVars
<1>2. Consumed' = Consumed /\ Way' = Way /\ End' = End
  BY <1>1 DEF Consumed, Way, End
<1>3. Consumed = produced - Len(ring)
  BY DEF Consumed
<1>4. ASSUME NEW p \in Way
      PROVE  (IF p <= produced' THEN ring'[p - Consumed'] ELSE todo'[p - produced'])
               = IF p <= produced THEN ring[p - Consumed] ELSE todo[p - produced]
  <2>1. p \in Int /\ p > Consumed /\ p <= produced + Len(todo)
    BY <1>1, <1>3 DEF Way
  <2>2. CASE p <= produced
    <3>1. p - Consumed \in 1..Len(ring) /\ p <= produced'
      BY <1>1, <1>3, <2>1, <2>2
    <3> QED BY <1>1, <1>2, <2>2, <3>1
  <2>3. CASE p = produced + 1
    <3>1. p - Consumed = Len(ring) + 1 /\ p - produced = 1 /\ p <= produced' /\ ~(p <= produced)
      BY <1>1, <1>3, <2>3
    <3> QED BY <1>1, <1>2, <3>1
  <2>4. CASE p > produced + 1
    <3>1. /\ ~(p <= produced') /\ ~(p <= produced) /\ p - produced' \in 1..Len(todo')
          /\ (p - produced') + 1 = p - produced
      BY <1>1, <2>1, <2>4
    <3> QED BY <1>1, <3>1
  <2> QED BY <1>1, <2>1, <2>2, <2>3, <2>4
<1>5. Cmd' = Cmd
  BY <1>2, <1>4 DEF Cmd
<1> QED BY <1>1, <1>2, <1>5 DEF Steady, Ahead

(* A call adds its commands.                                               *)
Longer ==
  /\ Consumed' = Consumed /\ End <= End' /\ End' \in Int /\ mirror' = mirror
  /\ End' = End + Len(todo') /\ Way' = (Consumed + 1)..(End' - 1)
  /\ \A p \in Way : p \in Way' /\ Cmd'[p] = Cmd[p]
  /\ \A p \in Way' : p \notin Way => p \in End..(End' - 1)
  /\ \A p \in End..(End' - 1) : p \in Way' /\ p \notin Way /\ Cmd'[p] = todo'[p - End + 1]
  /\ \A p \in (Consumed + 1)..End : Ahead'[p] = Ahead[p]
  /\ \A p \in Way', r \in Resources : At(p + 1, r)' = After(At(p, r)', r, Cmd'[p])
  /\ \A p \in Way' : StagedAt(p + 1)' = StagedAfter(StagedAt(p)', Cmd'[p])

LEMMA LongerCall ==
  ASSUME ShapeInv, CursorInv, ShapeInv', CursorInv', todo = <<>>,
         UNCHANGED <<ring, produced, mirror, staged>>
  PROVE  Longer
<1>1. /\ Len(ring) \in Nat /\ Len(todo) = 0 /\ Len(todo') \in Nat /\ produced \in Nat
      /\ Consumed \in Int /\ Consumed = produced - Len(ring) /\ Consumed' = Consumed
  BY WayFacts, EmptyIsSequence DEF ShapeInv, IsSequence, Consumed
<1>2. End = produced + 1 /\ End' = produced + Len(todo') + 1 /\ End' = End + Len(todo')
  BY <1>1 DEF End
<1>3. Way = (Consumed + 1)..produced /\ Way' = (Consumed + 1)..(End' - 1)
  BY <1>1, <1>2 DEF Way
<1>4. \A p \in Way : p \in Way' /\ Cmd'[p] = Cmd[p]
  <2>1. ASSUME NEW p \in Way
        PROVE  p \in Way' /\ p <= produced
    BY <1>1, <1>2, <1>3
  <2> QED BY <1>1, <2>1 DEF Cmd
<1>5. \A p \in End..(End' - 1) : p \in Way' /\ p \notin Way /\ Cmd'[p] = todo'[p - End + 1]
  <2>1. ASSUME NEW p \in End..(End' - 1)
        PROVE  /\ p \in Way' /\ p \notin Way /\ ~(p <= produced) /\ p - produced = p - End + 1
    BY <1>1, <1>2, <1>3
  <2> QED BY <1>1, <2>1 DEF Cmd
<1>6. \A p \in Way' : p \notin Way => p \in End..(End' - 1)
  BY <1>1, <1>2, <1>3
<1>7. \A p \in (Consumed + 1)..End : Ahead'[p] = Ahead[p]
  <2>1. Journey(Ahead, mirror, staged, Consumed + 1, End, Cmd)
    BY AheadJourney
  <2>2. Journey(Ahead', mirror, staged, Consumed + 1, End', Cmd')
    BY <1>1, AheadJourneyNext
  <2>3. PICK a \in Int : a = Consumed + 1
    <3>1. Consumed + 1 \in Int
      BY <1>1
    <3> QED BY <3>1
  <2>4. PICK e \in Int : e = End
    BY <1>2, <1>1
  <2>5. PICK c \in Int : c = End'
    BY <1>2, <1>1
  <2>6. \A p \in a..(e - 1) : Cmd[p] = Cmd'[p]
    BY <1>1, <1>2, <1>3, <1>4, <2>3, <2>4
  <2>7. e <= c
    BY <1>1, <1>2, <2>4, <2>5
  <2>8. \A p \in a..e : Ahead[p] = Ahead'[p]
    BY <2>1, <2>2, <2>3, <2>4, <2>5, <2>6, <2>7, JourneysAgree
  <2> QED BY <2>3, <2>4, <2>8
<1>8. /\ \A p \in Way', r \in Resources : At(p + 1, r)' = After(At(p, r)', r, Cmd'[p])
      /\ \A p \in Way' : StagedAt(p + 1)' = StagedAfter(StagedAt(p)', Cmd'[p])
  BY AheadFactsNext
<1>9. End <= End' /\ End' \in Int
  BY <1>1, <1>2
<1> QED BY <1>1, <1>2, <1>3, <1>4, <1>5, <1>6, <1>7, <1>8, <1>9 DEF Longer

(* The worker replays the first command.                                   *)
First == Consumed + 1
AtFront(op) ==
  /\ First \in Way /\ First \in Int /\ First <= produced /\ Cmd[First] = Head(ring)
  /\ Cmd[First].op = op
  /\ First' = First + 1 /\ Consumed' = First /\ End' = End /\ Way' = Way \ {First}
  /\ \A p \in Way' : p \in Way /\ Cmd'[p] = Cmd[p] /\ First < p

LEMMA FrontReplayed ==
  ASSUME ShapeInv, CursorInv, NEW op, Replaying(op)
  PROVE  AtFront(op)
<1>1. /\ IsSequence(ring) /\ ring # <<>> /\ Head(ring).op = op /\ ring' = Tail(ring)
      /\ UNCHANGED <<todo, produced>>
  BY Replayed DEF Replaying, emulatorVars, cursorVars
<1>2. /\ Len(ring) \in Nat \ {0} /\ Len(todo) \in Nat /\ produced \in Nat
      /\ Len(ring') = Len(ring) - 1 /\ Head(ring) = ring[1]
      /\ \A i \in 1..Len(ring') : ring'[i] = ring[i + 1]
  BY <1>1, TailSequence, WayFacts
<1>3. Consumed = produced - Len(ring) /\ Consumed' = Consumed + 1 /\ Consumed \in Int
  BY <1>1, <1>2 DEF Consumed
<1>4. /\ First = Consumed + 1 /\ First \in Int /\ First <= produced /\ First - Consumed = 1
      /\ First' = First + 1 /\ Consumed' = First
  BY <1>2, <1>3 DEF First
<1>5. Way = First..(produced + Len(todo)) /\ Way' = (First + 1)..(produced + Len(todo))
  BY <1>1, <1>3, <1>4 DEF Way
<1>6. First \in Way /\ Way' = Way \ {First} /\ End' = End
  BY <1>1, <1>2, <1>4, <1>5 DEF End
<1>7. Cmd[First] = Head(ring)
  BY <1>2, <1>4, <1>6 DEF Cmd
<1>8. ASSUME NEW p \in Way'
      PROVE  p \in Way /\ Cmd'[p] = Cmd[p] /\ First < p
  <2>1. p \in Way /\ First < p /\ p \in Int
    BY <1>2, <1>4, <1>5
  <2>2. p <= produced => p - Consumed' \in 1..Len(ring') /\ (p - Consumed') + 1 = p - Consumed
    BY <1>2, <1>3, <1>4, <2>1
  <2>3. Cmd'[p] = IF p <= produced THEN ring'[p - Consumed'] ELSE todo[p - produced]
    BY <1>1 DEF Cmd
  <2>4. Cmd[p] = IF p <= produced THEN ring[p - Consumed] ELSE todo[p - produced]
    BY <2>1 DEF Cmd
  <2> QED BY <1>2, <2>1, <2>2, <2>3, <2>4
<1> QED BY <1>1, <1>4, <1>6, <1>7, <1>8 DEF AtFront

Shorter ==
  /\ First \in Way /\ First \in Int /\ First' = First + 1 /\ Consumed' = First /\ End' = End
  /\ Way' = Way \ {First}
  /\ \A p \in Way' : p \in Way /\ Cmd'[p] = Cmd[p] /\ First < p
  /\ \A p \in (First + 1)..End : Ahead'[p] = Ahead[p]

LEMMA ShorterReplay ==
  ASSUME ShapeInv, CursorInv, ShapeInv', CursorInv', NEW op, AtFront(op),
         mirror' = [r \in Resources |-> After(mirror[r], r, Cmd[First])],
         staged' = StagedAfter(staged, Cmd[First])
  PROVE  Shorter
<1>1. /\ First \in Way /\ First \in Int /\ First' = First + 1 /\ Consumed' = First /\ End' = End
      /\ Way' = Way \ {First} /\ End \in Int /\ First <= End /\ First = Consumed + 1
      /\ \A p \in Way' : p \in Way /\ Cmd'[p] = Cmd[p] /\ First < p
      /\ Way = First..(End - 1)
  BY WayFacts DEF AtFront, First
<1>2. Journey(Ahead, mirror, staged, First, End, Cmd)
  BY <1>1, AheadJourney
<1>3. Journey(Ahead', mirror', staged', First', End, Cmd')
  BY <1>1, AheadJourneyNext DEF First
<1>4. PICK a \in Int : a = First + 1
  BY <1>1
<1>5. PICK e \in Int : e = End
  BY <1>1
<1>6. Ahead[a] = [mirror |-> mirror', staged |-> staged']
  <2>1. Ahead[First] = [mirror |-> mirror, staged |-> staged]
    BY <1>2 DEF Journey
  <2>2. Ahead[a] = Onward(Ahead[First], Cmd[First])
    BY <1>1, <1>2, <1>4 DEF Journey
  <2> QED BY <2>1, <2>2 DEF Onward
<1>7. Journey(Ahead, mirror', staged', a, e, Cmd)
  <2>1. \A p \in a..(e - 1) : p \in First..(End - 1)
    BY <1>1, <1>4, <1>5
  <2> QED BY <1>2, <1>6, <2>1 DEF Journey
<1>8. Journey(Ahead', mirror', staged', a, e, Cmd')
  BY <1>1, <1>3, <1>4, <1>5
<1>9. \A p \in a..(e - 1) : Cmd[p] = Cmd'[p]
  BY <1>1, <1>4, <1>5
<1>10. \A p \in a..e : Ahead[p] = Ahead'[p]
  BY <1>7, <1>8, <1>9, JourneysAgree
<1> QED BY <1>1, <1>4, <1>5, <1>10 DEF Shorter

(* A release decided, the last command of its call.                        *)
Freed ==
  /\ Consumed' = Consumed /\ End' = End - 1 /\ End' \in Int /\ Consumed + 1 <= End'
  /\ End' \in Way /\ Way' = Way \ {End'} /\ Cmd[End'] = Head(todo) /\ Cmd[End'].op = "FREE"
  /\ mirror' = mirror
  /\ \A p \in Way' : p \in Way /\ Cmd'[p] = Cmd[p]
  /\ \A p \in (Consumed + 1)..End' : Ahead'[p] = Ahead[p]
  /\ \A r \in Resources : At(End, r) = At(End', r)
  /\ StagedAt(End) = StagedAt(End')

LEMMA FreedFree ==
  ASSUME ShapeInv, CursorInv, ShapeInv', CursorInv', Free
  PROVE  Freed /\ Len(todo) = 1 /\ todo' = <<>>
<1>1. /\ todo # <<>> /\ Head(todo).op = "FREE" /\ todo' = Tail(todo)
      /\ UNCHANGED <<ring, produced, mirror, staged>>
  BY DEF Free, Freeing, cursorVars, workerVars
<1>2. /\ Len(ring) \in Nat /\ Len(todo) \in Nat \ {0} /\ produced \in Nat /\ Head(todo) = todo[1]
      /\ Consumed = produced - Len(ring) /\ Consumed' = Consumed /\ Consumed \in Int
      /\ Len(todo') = Len(todo) - 1
  BY <1>1, TailSequence, WayFacts DEF ShapeInv, Consumed
<1>3. Len(todo) = 1 /\ todo' = <<>> /\ Len(todo') = 0 /\ produced' = produced
  <2>1. todo' = <<>>
    BY <1>1, TailOfCall DEF ShapeInv
  <2>2. Len(todo') = 0
    BY <2>1, EmptyIsSequence
  <2>3. Len(todo) = 1
    BY <1>2, <2>2
  <2>4. produced' = produced
    BY <1>1
  <2> QED BY <2>1, <2>2, <2>3, <2>4
<1>4. /\ End = produced + 2 /\ End' = produced + 1 /\ End' = End - 1 /\ End' \in Int
      /\ Consumed + 1 <= End'
  BY <1>2, <1>3 DEF End
<1>5. Way = (Consumed + 1)..(produced + 1) /\ Way' = (Consumed + 1)..produced
  BY <1>2, <1>3 DEF Way
<1>6. End' \in Way /\ Way' = Way \ {End'}
  BY <1>2, <1>4, <1>5
<1>7. Cmd[End'] = Head(todo)
  <2>1. ~(End' <= produced) /\ End' - produced = 1
    BY <1>2, <1>4
  <2> QED BY <1>2, <1>6, <2>1 DEF Cmd
<1>8. \A p \in Way' : p \in Way /\ Cmd'[p] = Cmd[p]
  <2>1. ASSUME NEW p \in Way'
        PROVE  p \in Way /\ p <= produced
    BY <1>2, <1>5
  <2> QED BY <1>1, <1>2, <2>1 DEF Cmd
<1>9. \A p \in (Consumed + 1)..End' : Ahead'[p] = Ahead[p]
  <2>1. Journey(Ahead, mirror, staged, Consumed + 1, End, Cmd)
    BY AheadJourney
  <2>2. Journey(Ahead', mirror, staged, Consumed + 1, End', Cmd')
    BY <1>1, <1>2, AheadJourneyNext
  <2>3. PICK a \in Int : a = Consumed + 1
    <3>1. Consumed + 1 \in Int
      BY <1>2
    <3> QED BY <3>1
  <2>4. PICK e \in Int : e = End'
    BY <1>4
  <2>5. PICK c \in Int : c = End
    BY <1>4, <1>2
  <2>6. \A p \in a..(e - 1) : Cmd[p] = Cmd'[p]
    BY <1>2, <1>4, <1>5, <1>8, <2>3, <2>4
  <2>7. e <= c
    BY <1>4, <2>4, <2>5
  <2>8. /\ Journey(Ahead, mirror, staged, a, c, Cmd)
        /\ Journey(Ahead', mirror, staged, a, e, Cmd')
    BY <2>1, <2>2, <2>3, <2>4, <2>5
  <2>9. \A p \in a..e : Ahead[p] = Ahead'[p]
    BY <2>6, <2>7, <2>8, JourneysAgree
  <2> QED BY <2>3, <2>4, <2>9
<1>10. /\ \A r \in Resources : At(End, r) = At(End', r)
       /\ StagedAt(End) = StagedAt(End')
  <2>1. End' + 1 = End
    BY <1>4
  <2>2. /\ \A r \in Resources : At(End, r) = After(At(End', r), r, Cmd[End'])
        /\ StagedAt(End) = StagedAfter(StagedAt(End'), Cmd[End'])
    BY <1>6, <2>1, AheadFacts
  <2> QED BY <1>1, <1>7, <2>2 DEF After, Touches, StagedAfter
<1> QED BY <1>1, <1>2, <1>3, <1>4, <1>6, <1>7, <1>8, <1>9, <1>10 DEF Freed

----------------------------------------------------------------------------
(* The invariant.                                                          *)

MirrorOK(m) == m = NoRec \/ m \in MirrorRecords

(* Commands, of generations up to g and positions up to n                  *)
CommandOK(c, g, n) ==
  /\ c.op \in {"BIND", "UNBIND", "MEM", "DIRTY", "DATA", "DESTROY", "DRAW", "PRESENT", "FREE"}
  /\ c.op \notin {"DRAW", "PRESENT"} => c.r \in Resources
  /\ c.op = "BIND" =>
       /\ c.new \in BOOLEAN /\ c.block \in Blocks \cup {NoBlock} /\ c.slot \in Slots \cup {NoSlot}
       /\ c.gen \in Nat /\ c.gen <= g /\ c.shadow \in Contents \cup {NoBytes}
  /\ c.op = "MEM" => c.r \in Surfaces /\ c.block \in Blocks
  /\ c.op = "DIRTY" =>
       c.gen \in Nat /\ c.gen <= g /\ c.parts \subseteq Parts /\ c.block \in Blocks
  /\ c.op = "DATA" =>
       /\ c.r \in Buffers /\ c.parts \subseteq Parts /\ c.bytes \in Contents
       /\ c.written \in BOOLEAN /\ (~c.written => c.parts = Parts)
  /\ c.op = "DRAW" =>
       /\ DOMAIN c.use \subseteq Resources
       /\ c.want = [r \in DOMAIN c.use |-> c.want[r]]
       /\ \A r \in DOMAIN c.use : c.use[r] \subseteq Parts /\ c.want[r] \in [c.use[r] -> 0..1]
  /\ c.op = "FREE" => c.rec \in Records /\ c.rec.gen <= g /\ c.until \in Nat /\ c.until <= n

RecordInv ==
  \A r \in Resources : rec[r] # NoRec =>
    /\ r \in live /\ rec[r] \in Records
    /\ rec[r].gen <= gen /\ rec[r].lastRef <= lastWorkEnd /\ (rec[r].eager => r \in Buffers)

MirrorTypes ==
  /\ mirror = [r \in Resources |-> mirror[r]]
  /\ \A r \in Resources : MirrorOK(mirror[r]) /\ (mirror[r] # NoRec => mirror[r].gen <= gen)
  /\ staged \subseteq Resources
  /\ ack \in [Slots -> Int] /\ \A s \in Slots : -1 <= ack[s] /\ ack[s] <= gen

CommandTypes ==
  \A p \in Way : CommandOK(Cmd[p], gen, lastWorkEnd) /\ (Cmd[p].op = "FREE" => p > produced)

CountTypes ==
  /\ lastWorkEnd \in Nat /\ lastWorkEnd <= produced /\ gen \in Nat
  /\ \A d \in deferred : d[2] \in Nat /\ d[2] <= lastWorkEnd
  /\ shown <= frames /\ failed \in BOOLEAN /\ crashed \in BOOLEAN /\ stalled \in BOOLEAN

GuestTypes ==
  /\ bound \subseteq live /\ rec = [r \in Resources |-> rec[r]]
  /\ lazy \in [Resources -> SUBSET Parts]
  /\ \A r \in Resources : lazy[r] # {} => rec[r] # NoRec /\ rec[r].eager

TypesInv == RecordInv /\ MirrorTypes /\ CommandTypes /\ CountTypes /\ GuestTypes

Final(r) == At(End, r)
Is(p, op, r) == Cmd[p].op = op /\ Cmd[p].r = r
Bears(p, r) == Is(p, "BIND", r) /\ Cmd[p].new
Renews(p, r) == Bears(p, r) \/ Is(p, "DIRTY", r)
Reads(p, r) == Cmd[p].op = "DRAW" /\ r \in DOMAIN Cmd[p].use

(* Generations are used once; what is acknowledged is uploaded.  A record  *)
(* lives in its resource, and after its destruction in its release.        *)
Alive(r, c) == (c = rec[r] /\ c # NoRec) \/ \E p \in Way : Is(p, "FREE", r) /\ c = Cmd[p].rec
LastRenewal(p, r) == \A q \in Way : p < q => ~Renews(q, r)
UsedOnce(r, g) ==
  /\ \A p \in Way, q \in Resources : Renews(p, q) /\ Cmd[p].gen = g => q = r /\ LastRenewal(p, r)
  /\ \A q \in Resources : Known(q) /\ mirror[q].gen = g => q = r /\ \A p \in Way : ~Renews(p, r)
Uploads(r, c) ==
  c.slot # NoSlot /\ ack[c.slot] = c.gen =>
    /\ Known(r) /\ mirror[r].gen = c.gen /\ mirror[r].gpu # NoBytes
    /\ mirror[r].shadow = NoBytes => mirror[r].dirty = {}
GenInv == \A r \in Resources : \A c : Alive(r, c) => UsedOnce(r, c.gen) /\ Uploads(r, c)

(* What the worker will have at the end is what the recorder has.          *)
EndsAsRecorded ==
  /\ StagedAt(End) = sync
  /\ \A r \in Resources : rec[r] # NoRec =>
       /\ Final(r) # NoRec /\ Final(r).block = addr[r]
       /\ Final(r).shadow # NoBytes <=> rec[r].eager

(* What a command finds there                                              *)
Finds(p) ==
  /\ Cmd[p].op \in {"MEM", "DIRTY", "DATA", "DESTROY"} => At(p, Cmd[p].r) # NoRec
  /\ Cmd[p].op = "DRAW" => StagedAt(p) = DOMAIN Cmd[p].use
  /\ Cmd[p].op = "DIRTY" /\ Cmd[p].r \in Buffers => Cmd[p].block = At(p, Cmd[p].r).block
  /\ Cmd[p].op = "DATA" /\ Cmd[p].written => At(p, Cmd[p].r).shadow # NoBytes
WorldInv == EndsAsRecorded /\ \A p \in Way : Finds(p)

(* Memory that is moved is written as a whole before the next draw.        *)
Settles(d, r) == Bears(d, r) \/ (Is(d, "DIRTY", r) /\ Cmd[d].parts = Parts)
Settled(q, r, p) == \E d \in Way : q < d /\ d < p /\ Settles(d, r)
MoveInv ==
  \A q \in Way, r \in Resources : Is(q, "MEM", r) =>
    /\ rec[r] # NoRec => locked[r] = Parts \/ Settled(q, r, End)
    /\ \A p \in Way : q < p /\ Reads(p, r) /\ Cmd[p].use[r] # {} => Settled(q, r, p)

(* A buffer changes over when no draw on its way reads it.                 *)
ChangeInv ==
  \A q \in Way, r \in Resources : Is(q, "DATA", r) /\ ~Cmd[q].written =>
    \A p \in Way : p < q => ~Reads(p, r)

(* References cover the draws on their way.                                *)
RefInv ==
  /\ \A p \in Way : Cmd[p].op = "DRAW" /\ p <= produced => p <= lastWorkEnd
  /\ \A p \in Way, r \in Resources : Reads(p, r) /\ rec[r] # NoRec =>
       r \in sync \/ p <= rec[r].lastRef

FenceInv ==
  wait # NoWait /\ wait.kind = "fence" =>
    /\ rec[wait.r] # NoRec /\ (wait.r \in Surfaces => wait.parts = Parts)
    /\ ~rec[wait.r].eager /\ locked[wait.r] = {} /\ wait.until \in Nat
    /\ \A p \in Way : Reads(p, wait.r) => p <= wait.until

(* What resource m of the mirror shows of part x when it is drawn          *)
Stale(m, x) == m.gpu = NoBytes \/ x \in m.dirty
Shows(m, x) == IF Stale(m, x) THEN Source(m)[x] ELSE m.gpu[x]
Value(r, x) == IF addr[r] = NoBlock THEN 0 ELSE mem[addr[r]][x]

EndShows ==
  \A r \in Resources : rec[r] # NoRec =>
    \A x \in Parts \ (locked[r] \cup lazy[r]) : Shows(Final(r), x) = Value(r, x)

DrawShows ==
  \A p \in Way, r \in Resources : Reads(p, r) =>
    \A x \in Cmd[p].use[r] :
      At(p, r) # NoRec /\ Shows(At(p, r), x) = Cmd[p].want[r][x]

(* Guest memory that a draw on its way may upload is kept as it is: as the *)
(* resource's, not locked there, or by a release that comes after the draw.*)
Keeps(p, r, x, b) ==
  \/ rec[r] # NoRec /\ ~rec[r].eager /\ addr[r] = b /\ x \notin locked[r]
  \/ \E d \in deferred : d[1] = b /\ d[2] >= p
  \/ \E q \in Way : Is(q, "FREE", r) /\ Cmd[q].block = b /\ Cmd[q].until >= p /\ ~Cmd[q].rec.eager
MemoryKeeps ==
  \A p \in Way, r \in Resources : Reads(p, r) =>
    \A x \in Cmd[p].use[r] :
      /\ Stale(At(p, r), x) /\ At(p, r).shadow = NoBytes /\ At(p, r).block # NoBlock
      => Keeps(p, r, x, At(p, r).block)

(* A release is decided as soon as its destruction is put, and before that *)
(* is published.                                                           *)
FreeInv ==
  \A p \in Way : Cmd[p].op = "FREE" => published < p - 1 /\ Is(p - 1, "DESTROY", Cmd[p].r)

DataInv ==
  /\ TypesInv
  /\ ~failed => /\ FreeInv /\ GenInv /\ WorldInv /\ MoveInv /\ ChangeInv /\ RefInv /\ FenceInv
                /\ EndShows /\ DrawShows /\ MemoryKeeps

----------------------------------------------------------------------------
(* A resource of the mirror after a command.                               *)

LEMMA AfterOther ==
  ASSUME NEW m, NEW r, NEW c, ~Touches(c, r) \/ (c.op = "BIND" /\ ~c.new)
  PROVE  After(m, r, c) = m
  BY DEF After

LEMMA AfterBorn ==
  ASSUME NEW m, NEW r, NEW c, c.op = "BIND", c.r = r, c.new
  PROVE  After(m, r, c) = Born(c)
  BY DEF After, Touches

LEMMA AfterDestroy ==
  ASSUME NEW m, NEW r, NEW c, c.op = "DESTROY", c.r = r
  PROVE  After(m, r, c) = NoRec
  BY DEF After, Touches

LEMMA AfterMem ==
  ASSUME NEW m, NEW r, NEW c, c.op = "MEM", c.r = r
  PROVE  After(m, r, c) = IF m = NoRec THEN NoRec ELSE Moved(m, c)
  BY DEF After, Touches

LEMMA AfterDirty ==
  ASSUME NEW m, NEW r, NEW c, c.op = "DIRTY", c.r = r
  PROVE  After(m, r, c) = IF m = NoRec THEN NoRec ELSE Dirtied(m, r, c)
  BY DEF After, Touches

LEMMA AfterData ==
  ASSUME NEW m, NEW r, NEW c, c.op = "DATA", c.r = r
  PROVE  After(m, r, c) = IF m = NoRec THEN NoRec ELSE Given(m, c)
  BY DEF After, Touches

LEMMA BornTyped ==
  ASSUME NEW c, NEW g, NEW n, CommandOK(c, g, n), c.op = "BIND"
  PROVE  /\ Born(c) \in MirrorRecords /\ Born(c) # NoRec
         /\ Born(c).block = c.block /\ Born(c).slot = c.slot /\ Born(c).gen = c.gen
         /\ Born(c).dirty = {} /\ Born(c).shadow = c.shadow /\ Born(c).gpu = NoBytes
<1>1. Born(c) \in MirrorRecords
  BY DEF Born, MirrorRecords, CommandOK
<1> QED BY <1>1, RenderLinkAssumption DEF Born

LEMMA MovedTyped ==
  ASSUME NEW m \in MirrorRecords, NEW c, NEW g, NEW n, CommandOK(c, g, n), c.op = "MEM"
  PROVE  /\ Moved(m, c) \in MirrorRecords /\ Moved(m, c) # NoRec
         /\ Moved(m, c).block = c.block /\ Moved(m, c).slot = m.slot /\ Moved(m, c).gen = m.gen
         /\ Moved(m, c).dirty = m.dirty /\ Moved(m, c).shadow = m.shadow
         /\ Moved(m, c).gpu = m.gpu
<1>1. Moved(m, c) \in MirrorRecords
  BY DEF Moved, MirrorRecords, CommandOK
<1>2. /\ Moved(m, c).block = c.block /\ Moved(m, c).slot = m.slot /\ Moved(m, c).gen = m.gen
      /\ Moved(m, c).dirty = m.dirty /\ Moved(m, c).shadow = m.shadow
      /\ Moved(m, c).gpu = m.gpu
  BY DEF Moved, MirrorRecords
<1> QED BY <1>1, <1>2, RenderLinkAssumption

LEMMA DirtiedTyped ==
  ASSUME NEW m \in MirrorRecords, NEW r, NEW c, NEW g, NEW n, CommandOK(c, g, n), c.op = "DIRTY"
  PROVE  /\ Dirtied(m, r, c) \in MirrorRecords /\ Dirtied(m, r, c) # NoRec
         /\ Dirtied(m, r, c).block = (IF r \in Buffers THEN c.block ELSE m.block)
         /\ Dirtied(m, r, c).slot = m.slot /\ Dirtied(m, r, c).gen = c.gen
         /\ Dirtied(m, r, c).dirty = m.dirty \cup c.parts
         /\ Dirtied(m, r, c).shadow = m.shadow /\ Dirtied(m, r, c).gpu = m.gpu
<1>1. Dirtied(m, r, c) \in MirrorRecords
  BY DEF Dirtied, MirrorRecords, CommandOK
<1>2. /\ Dirtied(m, r, c).block = (IF r \in Buffers THEN c.block ELSE m.block)
      /\ Dirtied(m, r, c).slot = m.slot /\ Dirtied(m, r, c).gen = c.gen
      /\ Dirtied(m, r, c).dirty = m.dirty \cup c.parts
      /\ Dirtied(m, r, c).shadow = m.shadow /\ Dirtied(m, r, c).gpu = m.gpu
  BY DEF Dirtied, MirrorRecords
<1> QED BY <1>1, <1>2, RenderLinkAssumption

(* The shadow a DATA leaves                                                *)
Shadowed(m, c) ==
  [x \in Parts |-> IF x \in c.parts THEN c.bytes[x]
                   ELSE IF m.shadow = NoBytes THEN 0 ELSE m.shadow[x]]

LEMMA GivenTyped ==
  ASSUME NEW m \in MirrorRecords, NEW c, NEW g, NEW n, CommandOK(c, g, n), c.op = "DATA"
  PROVE  /\ Given(m, c) \in MirrorRecords /\ Given(m, c) # NoRec
         /\ Given(m, c).block = m.block /\ Given(m, c).slot = m.slot /\ Given(m, c).gen = m.gen
         /\ Given(m, c).dirty = (IF c.written THEN m.dirty \cup c.parts ELSE m.dirty)
         /\ Given(m, c).shadow = Shadowed(m, c) /\ Given(m, c).shadow # NoBytes
         /\ Given(m, c).gpu = m.gpu
<1>1. Shadowed(m, c) \in Contents
  <2>1. \A x \in Parts : x \in c.parts => c.bytes[x] \in 0..1
    BY DEF CommandOK, Contents
  <2>2. m.shadow # NoBytes => \A x \in Parts : m.shadow[x] \in 0..1
    BY DEF MirrorRecords, Contents
  <2> QED BY <2>1, <2>2 DEF Shadowed, Contents
<1>2. Given(m, c) = [m EXCEPT !.shadow = Shadowed(m, c),
                              !.dirty = IF c.written THEN @ \cup c.parts ELSE @]
  BY DEF Given, Shadowed
<1>3. c.written \in BOOLEAN /\ c.parts \subseteq Parts
  BY DEF CommandOK
<1> HIDE DEF Given
<1>4. Given(m, c) \in MirrorRecords
  BY <1>1, <1>2, <1>3 DEF MirrorRecords
<1>5. /\ Given(m, c).block = m.block /\ Given(m, c).slot = m.slot /\ Given(m, c).gen = m.gen
      /\ Given(m, c).dirty = (IF c.written THEN m.dirty \cup c.parts ELSE m.dirty)
      /\ Given(m, c).shadow = Shadowed(m, c) /\ Given(m, c).gpu = m.gpu
  BY <1>2 DEF MirrorRecords
<1>6. NoBytes \notin Contents
  BY RenderLinkAssumption DEF Contents
<1> QED BY <1>1, <1>4, <1>5, <1>6, RenderLinkAssumption

LEMMA AfterTyped ==
  ASSUME NEW m, NEW r, NEW c, NEW g, NEW n, CommandOK(c, g, n), MirrorOK(m)
  PROVE  MirrorOK(After(m, r, c))
<1>1. CASE ~Touches(c, r) \/ (c.op = "BIND" /\ ~c.new)
  BY <1>1, AfterOther
<1>2. CASE c.op = "BIND" /\ c.new /\ c.r = r
  BY <1>2, AfterBorn, BornTyped DEF MirrorOK
<1>3. CASE c.op = "DESTROY" /\ c.r = r
  BY <1>3, AfterDestroy DEF MirrorOK
<1>4. CASE c.op = "MEM" /\ c.r = r
  BY SMTT(30), <1>4, AfterMem, MovedTyped DEF MirrorOK
<1>5. CASE c.op = "DIRTY" /\ c.r = r
  BY <1>5, AfterDirty, DirtiedTyped DEF MirrorOK
<1>6. CASE c.op = "DATA" /\ c.r = r
  <2>1. m = NoRec => After(m, r, c) = NoRec
    BY <1>6, AfterData
  <2>2. m # NoRec => After(m, r, c) = Given(m, c) /\ m \in MirrorRecords
    BY <1>6, AfterData DEF MirrorOK
  <2>3. m \in MirrorRecords => Given(m, c) \in MirrorRecords
    BY <1>6, GivenTyped
  <2> QED BY <2>1, <2>2, <2>3 DEF MirrorOK
<1> QED BY <1>1, <1>2, <1>3, <1>4, <1>5, <1>6 DEF Touches

(* All along a journey                                                     *)
LEMMA JourneyTyped ==
  ASSUME NEW F, NEW M, NEW S, NEW a \in Int, NEW e \in Int, NEW C, NEW g, NEW n,
         Journey(F, M, S, a, e, C), \A p \in a..(e - 1) : CommandOK(C[p], g, n),
         NEW r \in Resources, MirrorOK(M[r])
  PROVE  \A p \in a..e : MirrorOK(F[p].mirror[r])
<1> DEFINE Bad == {p \in a..e : ~MirrorOK(F[p].mirror[r])}
<1> SUFFICES ASSUME Bad # {} PROVE FALSE
  OBVIOUS
<1>1. PICK p \in Bad : \A y \in Bad : p <= y
  <2>1. \A x \in Bad : x \in Int /\ a <= x
    OBVIOUS
  <2> HIDE DEF Bad
  <2> QED BY <2>1, Least
<1>2. p \in a..e /\ ~MirrorOK(F[p].mirror[r])
  OBVIOUS
<1>3. p # a
  BY <1>2, JourneyFacts
<1>4. p - 1 \in a..(e - 1) /\ (p - 1) + 1 = p /\ p - 1 \in a..e /\ ~(p <= p - 1)
  BY <1>2, <1>3
<1>5. MirrorOK(F[p - 1].mirror[r])
  BY <1>1, <1>4
<1>6. F[p].mirror[r] = After(F[p - 1].mirror[r], r, C[p - 1]) /\ CommandOK(C[p - 1], g, n)
  BY <1>4, JourneyFacts
<1> QED BY <1>2, <1>5, <1>6, AfterTyped

(* A resource that no command touches                                      *)
LEMMA JourneyUntouched ==
  ASSUME NEW F, NEW M, NEW S, NEW a \in Int, NEW e \in Int, NEW C,
         Journey(F, M, S, a, e, C), NEW b \in a..e, NEW d \in a..e, NEW r \in Resources,
         \A p \in b..(d - 1) : ~Touches(C[p], r) \/ (C[p].op = "BIND" /\ ~C[p].new)
  PROVE  \A p \in b..d : F[p].mirror[r] = F[b].mirror[r]
<1> DEFINE Bad == {p \in b..d : F[p].mirror[r] # F[b].mirror[r]}
<1> SUFFICES ASSUME Bad # {} PROVE FALSE
  OBVIOUS
<1>1. PICK p \in Bad : \A y \in Bad : p <= y
  <2>1. b \in Int /\ \A x \in Bad : x \in Int /\ b <= x
    OBVIOUS
  <2> HIDE DEF Bad
  <2> QED BY <2>1, Least
<1>2. p \in b..d /\ F[p].mirror[r] # F[b].mirror[r] /\ p # b
  OBVIOUS
<1>3. /\ p - 1 \in a..(e - 1) /\ (p - 1) + 1 = p /\ p - 1 \in b..d /\ ~(p <= p - 1)
      /\ p - 1 \in b..(d - 1)
  BY <1>2
<1>4. F[p - 1].mirror[r] = F[b].mirror[r]
  BY <1>1, <1>3
<1>5. F[p].mirror[r] = After(F[p - 1].mirror[r], r, C[p - 1])
  BY <1>3, JourneyFacts
<1>6. After(F[p - 1].mirror[r], r, C[p - 1]) = F[p - 1].mirror[r]
  BY <1>3, AfterOther
<1> QED BY <1>2, <1>4, <1>5, <1>6

(* ... that no command binds or unbinds                                    *)
LEMMA JourneyUnbound ==
  ASSUME NEW F, NEW M, NEW S, NEW a \in Int, NEW e \in Int, NEW C,
         Journey(F, M, S, a, e, C), NEW b \in a..e, NEW d \in a..e, NEW r,
         \A p \in b..(d - 1) : C[p].op \in {"BIND", "UNBIND"} => C[p].r # r
  PROVE  \A p \in b..d : r \in F[p].staged <=> r \in F[b].staged
<1> DEFINE Same(p) == r \in F[p].staged <=> r \in F[b].staged
           Bad == {p \in b..d : ~Same(p)}
<1> SUFFICES ASSUME Bad # {} PROVE FALSE
  OBVIOUS
<1>1. PICK p \in Bad : \A y \in Bad : p <= y
  <2>1. b \in Int /\ \A x \in Bad : x \in Int /\ b <= x
    OBVIOUS
  <2> HIDE DEF Bad
  <2> QED BY <2>1, Least
<1>2. p \in b..d /\ ~Same(p) /\ p # b
  OBVIOUS
<1>3. /\ p - 1 \in a..(e - 1) /\ (p - 1) + 1 = p /\ p - 1 \in b..d /\ ~(p <= p - 1)
      /\ p - 1 \in b..(d - 1)
  BY <1>2
<1>4. Same(p - 1)
  BY <1>1, <1>3
<1>5. F[p].staged = StagedAfter(F[p - 1].staged, C[p - 1])
  BY <1>3, JourneyFacts
<1>6. r \in StagedAfter(F[p - 1].staged, C[p - 1]) <=> r \in F[p - 1].staged
  <2>1. C[p - 1].op \in {"BIND", "UNBIND"} => C[p - 1].r # r
    BY <1>3
  <2> QED BY <2>1 DEF StagedAfter
<1> QED BY <1>2, <1>4, <1>5, <1>6

----------------------------------------------------------------------------
(* The commands of a draw or present: SetToSeq puts a set in some order.   *)

LEMMA Enumerated ==
  ASSUME NEW S, IsFiniteSet(S)
  PROVE  /\ Cardinality(S) \in Nat
         /\ SetToSeq(S) \in [1..Cardinality(S) -> S]
         /\ \A i, j \in 1..Cardinality(S) : SetToSeq(S)[i] = SetToSeq(S)[j] => i = j
         /\ \A x \in S : \E i \in 1..Cardinality(S) : SetToSeq(S)[i] = x
<1> DEFINE n == Cardinality(S)
           s == SetToSeq(S)
<1>1. n \in Nat /\ ExistsBijection(1..n, S)
  BY FS_CardinalityType
<1>2. PICK f \in Bijection(1..n, S) : TRUE
  BY <1>1 DEF ExistsBijection
<1>3. f \in [1..n -> S] /\ IsInjective(f)
  BY <1>2 DEF Bijection, Injection
<1>4. s \in [1..n -> S] /\ IsInjective(s)
  BY <1>3 DEF SetToSeq
<1>5. IsFiniteSet(1..n) /\ Cardinality(1..n) = n
  BY <1>1, FS_Interval
<1>6. s \in Injection(1..n, S)
  BY <1>4 DEF Injection
<1>7. s \in Surjection(1..n, S)
  BY <1>5, <1>6, FS_Injection
<1>8. \A i, j \in 1..n : s[i] = s[j] => i = j
  BY <1>4 DEF IsInjective
<1>9. \A x \in S : \E i \in 1..n : s[i] = x
  BY <1>7 DEF Surjection
<1> QED BY <1>1, <1>4, <1>8, <1>9

LEMMA FiniteParts ==
  ASSUME bound \subseteq Resources, sync \subseteq Resources
  PROVE  /\ IsFiniteSet(Fresh) /\ IsFiniteSet(Starting) /\ IsFiniteSet(Ending)
         /\ Fresh \subseteq Starting /\ Starting \subseteq bound /\ Ending \cap bound = {}
         /\ Ending \subseteq sync
<1>1. IsFiniteSet(bound) /\ IsFiniteSet(sync)
  BY RenderLinkAssumption, FS_Subset
<1> QED BY <1>1, FS_Subset DEF Fresh, Starting, Ending

(* The record of a resource first used has a generation of its own.        *)
LEMMA NewRecFacts ==
  ASSUME bound \subseteq Resources, sync \subseteq Resources, gen \in Nat
  PROVE  /\ Cardinality(Fresh) \in Nat
         /\ \A r \in Fresh :
              /\ NewRec(r) \in Records /\ NewRec(r).lastRef = 0 /\ NewRec(r).pend = {}
              /\ NewRec(r).eager <=> r \in Dynamic
              /\ NewRec(r).first = NewRec(r).gen
              /\ gen < NewRec(r).gen /\ NewRec(r).gen <= gen + Cardinality(Fresh)
         /\ \A q, r \in Fresh : NewRec(q).gen = NewRec(r).gen => q = r
<1> DEFINE n == Cardinality(Fresh)
           s == SetToSeq(Fresh)
           I(r) == CHOOSE i \in 1..n : s[i] = r
           used == {rec[q].slot : q \in {q \in Resources : rec[q] # NoRec}}
           free == Slots \ used
           open == SetToSeq(free)
<1>1. IsFiniteSet(Fresh)
  BY FiniteParts
<1>2. n \in Nat /\ \A x \in Fresh : \E i \in 1..n : s[i] = x
  BY <1>1, Enumerated
<1>3. \A r \in Fresh : I(r) \in 1..n /\ s[I(r)] = r
  BY <1>2
<1>4. IsFiniteSet(free)
  BY RenderLinkAssumption, FS_Subset
<1>5. Cardinality(free) \in Nat /\ open \in [1..Cardinality(free) -> free]
  BY <1>4, Enumerated
<1>6. Len(open) = Cardinality(free)
  BY <1>5
<1> DEFINE P(i) == IF i <= Len(open) THEN open[i] ELSE NoSlot
<1>7. \A i \in 1..n : P(i) \in Slots \cup {NoSlot}
  BY <1>2, <1>5, <1>6
<1>8. \A r : NewRec(r) = [slot |-> P(I(r)), gen |-> gen + I(r), first |-> gen + I(r),
                          lastRef |-> 0, eager |-> r \in Dynamic, pend |-> {}]
  BY DEF NewRec
<1> HIDE DEF P, I, n
<1>9. ASSUME NEW r \in Fresh
      PROVE  /\ NewRec(r) \in Records /\ NewRec(r).lastRef = 0 /\ NewRec(r).pend = {}
             /\ NewRec(r).eager <=> r \in Dynamic
             /\ NewRec(r).first = NewRec(r).gen
             /\ gen < NewRec(r).gen /\ NewRec(r).gen <= gen + n
             /\ NewRec(r).gen = gen + I(r)
  <2>1. I(r) \in 1..n /\ P(I(r)) \in Slots \cup {NoSlot} /\ n \in Nat
    BY <1>2, <1>3, <1>7
  <2>2. NewRec(r) = [slot |-> P(I(r)), gen |-> gen + I(r), first |-> gen + I(r),
                     lastRef |-> 0, eager |-> r \in Dynamic, pend |-> {}]
    BY <1>8
  <2>3. gen + I(r) \in Nat /\ gen < gen + I(r) /\ gen + I(r) <= gen + n
    BY <2>1
  <2>4. (r \in Dynamic) \in BOOLEAN /\ {} \in SUBSET [gen : Nat, parts : SUBSET Parts]
    OBVIOUS
  <2> HIDE DEF NewRec
  <2>5. NewRec(r) \in Records
    BY <2>1, <2>2, <2>3, <2>4 DEF Records
  <2>6. /\ NewRec(r).lastRef = 0 /\ NewRec(r).pend = {} /\ NewRec(r).gen = gen + I(r)
        /\ NewRec(r).first = gen + I(r) /\ NewRec(r).eager = (r \in Dynamic)
    BY <2>2
  <2>7. gen < NewRec(r).gen /\ NewRec(r).gen <= gen + n
    BY <2>3, <2>6
  <2> QED BY <2>5, <2>6, <2>7
<1>10. ASSUME NEW q \in Fresh, NEW r \in Fresh, NewRec(q).gen = NewRec(r).gen
       PROVE  q = r
  <2>1. I(q) \in 1..n /\ I(r) \in 1..n /\ n \in Nat
    BY <1>2, <1>3
  <2>2. gen + I(q) = gen + I(r)
    BY <1>9, <1>10
  <2>3. I(q) = I(r)
    BY <2>1, <2>2
  <2> QED BY <1>3, <2>3
<1> QED BY <1>2, <1>9, <1>10 DEF n

(* The commands of X in some order, each once                              *)
Lists(s, X) ==
  /\ IsSequence(s)
  /\ \A i \in 1..Len(s) : s[i] \in X
  /\ \A c \in X : \E i \in 1..Len(s) : s[i] = c
  /\ \A i, j \in 1..Len(s) : s[i] = s[j] => i = j

LEMMA ListsSet ==
  ASSUME NEW S, IsFiniteSet(S), NEW K, \A x, y \in S : K[x] = K[y] => x = y
  PROVE  Lists([i \in 1..Cardinality(S) |-> K[SetToSeq(S)[i]]], {K[x] : x \in S})
<1> DEFINE n == Cardinality(S)
           s == SetToSeq(S)
           f == [i \in 1..n |-> K[s[i]]]
<1>1. /\ n \in Nat /\ s \in [1..n -> S]
      /\ \A i, j \in 1..n : s[i] = s[j] => i = j
      /\ \A x \in S : \E i \in 1..n : s[i] = x
  BY Enumerated
<1>2. f \in [1..n -> {K[x] : x \in S}]
  BY <1>1
<1>3. IsSequence(f) /\ Len(f) = n
  BY <1>1, <1>2, FunctionIsSequence
<1> HIDE DEF n, s
<1>4. \A i \in 1..n : f[i] = K[s[i]] /\ s[i] \in S
  BY <1>1
<1>5. \A i, j \in 1..n : f[i] = f[j] => i = j
  BY <1>1, <1>4
<1>6. \A c \in {K[x] : x \in S} : \E i \in 1..n : f[i] = c
  BY <1>1, <1>4
<1>7. Lists(f, {K[x] : x \in S})
  BY <1>3, <1>4, <1>5, <1>6 DEF Lists
<1> QED BY <1>7 DEF n, s

LEMMA ListsBoth ==
  ASSUME NEW s, NEW t, NEW X, NEW Y, Lists(s, X), Lists(t, Y), X \cap Y = {}
  PROVE  Lists(s \o t, X \cup Y)
<1>1. /\ IsSequence(s \o t)
      /\ Len(s) \in Nat /\ Len(t) \in Nat /\ Len(s \o t) = Len(s) + Len(t)
      /\ \A i \in 1..Len(s \o t) :
           (s \o t)[i] = IF i <= Len(s) THEN s[i] ELSE t[i - Len(s)]
  BY ConcatSequence DEF Lists
<1> DEFINE u == s \o t
<1> HIDE DEF u
<1>2. \A i \in 1..Len(u) : \/ i \in 1..Len(s) /\ u[i] = s[i]
                           \/ i - Len(s) \in 1..Len(t) /\ u[i] = t[i - Len(s)] /\ i \in Int
  BY <1>1 DEF u
<1>3. \A i \in 1..Len(u) : u[i] \in X \cup Y
  BY <1>2 DEF Lists
<1>4. ASSUME NEW c \in X \cup Y
      PROVE  \E i \in 1..Len(u) : u[i] = c
  <2>1. CASE c \in X
    <3>1. PICK i \in 1..Len(s) : s[i] = c
      BY <2>1 DEF Lists
    <3> QED BY <1>1, <3>1 DEF u
  <2>2. CASE c \in Y
    <3>1. PICK i \in 1..Len(t) : t[i] = c
      BY <2>2 DEF Lists
    <3>2. i + Len(s) \in 1..Len(u) /\ (i + Len(s)) - Len(s) = i /\ ~(i + Len(s) <= Len(s))
      BY <1>1 DEF u
    <3> QED BY <1>1, <3>1, <3>2 DEF u
  <2> QED BY <2>1, <2>2
<1>5. ASSUME NEW i \in 1..Len(u), NEW j \in 1..Len(u), u[i] = u[j]
      PROVE  i = j
  <2>1. CASE i \in 1..Len(s) /\ u[i] = s[i]
    <3>1. u[i] \in X
      BY <2>1 DEF Lists
    <3>2. j \in 1..Len(s) /\ u[j] = s[j]
      BY <1>2, <1>5, <3>1 DEF Lists
    <3> QED BY <1>5, <2>1, <3>2 DEF Lists
  <2>2. CASE i - Len(s) \in 1..Len(t) /\ u[i] = t[i - Len(s)] /\ i \in Int
    <3>1. u[i] \in Y
      BY <2>2 DEF Lists
    <3>2. j - Len(s) \in 1..Len(t) /\ u[j] = t[j - Len(s)] /\ j \in Int
      BY <1>2, <1>5, <3>1 DEF Lists
    <3>3. i - Len(s) = j - Len(s)
      BY <1>5, <2>2, <3>2 DEF Lists
    <3> QED BY <1>1, <2>2, <3>2, <3>3
  <2> QED BY <1>2, <2>1, <2>2
<1>6. Lists(u, X \cup Y)
  BY <1>1, <1>3, <1>4, <1>5 DEF Lists, u
<1> QED BY <1>6 DEF u

Unbinds == {[op |-> "UNBIND", r |-> r] : r \in Ending}
Binds == {BindCommand(r) : r \in Starting}
Datas(use, all) == {Data(r, Take(r, use, all), TRUE) : r \in Taken(use, all)}

LEMMA FlushLists ==
  ASSUME bound \subseteq Resources, sync \subseteq Resources
  PROVE  Lists(FlushCommands, Unbinds \cup Binds)
<1> DEFINE K == [r \in Ending |-> [op |-> "UNBIND", r |-> r]]
           L == [r \in Starting |-> BindCommand(r)]
           u == [i \in 1..Cardinality(Ending) |-> [op |-> "UNBIND", r |-> SetToSeq(Ending)[i]]]
           v == [i \in 1..Cardinality(Starting) |-> BindCommand(SetToSeq(Starting)[i])]
<1>1. IsFiniteSet(Ending) /\ IsFiniteSet(Starting)
  BY FiniteParts
<1>2. Lists([i \in 1..Cardinality(Ending) |-> K[SetToSeq(Ending)[i]]], {K[x] : x \in Ending})
  <2>1. \A x, y \in Ending : K[x] = K[y] => x = y
    OBVIOUS
  <2> HIDE DEF K
  <2> QED BY <1>1, <2>1, ListsSet
<1>3. /\ SetToSeq(Ending) \in [1..Cardinality(Ending) -> Ending]
      /\ SetToSeq(Starting) \in [1..Cardinality(Starting) -> Starting]
  BY <1>1, Enumerated
<1>4. u = [i \in 1..Cardinality(Ending) |-> K[SetToSeq(Ending)[i]]]
  BY <1>3
<1>5. Unbinds = {K[x] : x \in Ending}
  BY DEF Unbinds
<1>6. Lists(u, Unbinds)
  BY <1>2, <1>4, <1>5
<1>7. Lists([i \in 1..Cardinality(Starting) |-> L[SetToSeq(Starting)[i]]],
            {L[x] : x \in Starting})
  <2>1. \A x, y \in Starting : L[x] = L[y] => x = y
    BY DEF BindCommand
  <2> HIDE DEF L
  <2> QED BY <1>1, <2>1, ListsSet
<1>8. v = [i \in 1..Cardinality(Starting) |-> L[SetToSeq(Starting)[i]]]
  BY <1>3
<1>9. Binds = {L[x] : x \in Starting}
  BY DEF Binds
<1>10. Lists(v, Binds)
  BY <1>7, <1>8, <1>9
<1>11. Unbinds \cap Binds = {}
  BY DEF Unbinds, Binds, BindCommand
<1> QED BY <1>6, <1>10, <1>11, ListsBoth DEF FlushCommands

LEMMA DrawLists ==
  ASSUME bound \subseteq Resources, sync \subseteq Resources, NEW use, NEW all,
         Draw(use, all)
  PROVE  \E s : /\ Lists(s, Unbinds \cup Binds \cup Datas(use, all))
                /\ todo' = Append(s, [op |-> "DRAW", use |-> use, want |-> Seen(use)])
<1> DEFINE T == Taken(use, all)
           K == [r \in T |-> Data(r, Take(r, use, all), TRUE)]
           d == [i \in 1..Cardinality(T) |->
                   Data(SetToSeq(T)[i], Take(SetToSeq(T)[i], use, all), TRUE)]
           w == [op |-> "DRAW", use |-> use, want |-> Seen(use)]
<1>1. IsFiniteSet(T)
  BY RenderLinkAssumption, FS_Subset DEF Taken
<1>2. SetToSeq(T) \in [1..Cardinality(T) -> T]
  BY <1>1, Enumerated
<1>3. Lists([i \in 1..Cardinality(T) |-> K[SetToSeq(T)[i]]], {K[x] : x \in T})
  <2>1. \A x, y \in T : K[x] = K[y] => x = y
    BY DEF Data
  <2> HIDE DEF K, T
  <2> QED BY <1>1, <2>1, ListsSet
<1>4. d = [i \in 1..Cardinality(T) |-> K[SetToSeq(T)[i]]]
  BY <1>2
<1>5. Datas(use, all) = {K[x] : x \in T}
  BY DEF Datas
<1>6. Lists(d, Datas(use, all))
  BY <1>3, <1>4, <1>5
<1>7. (Unbinds \cup Binds) \cap Datas(use, all) = {}
  BY DEF Unbinds, Binds, BindCommand, Datas, Data
<1>8. Lists(FlushCommands \o d, Unbinds \cup Binds \cup Datas(use, all))
  BY <1>6, <1>7, FlushLists, ListsBoth
<1>9. todo' = (FlushCommands \o d) \o <<w>>
  BY DEF Draw, Call
<1>10. IsSequence(FlushCommands \o d)
  BY <1>8 DEF Lists
<1>11. (FlushCommands \o d) \o <<w>> = Append(FlushCommands \o d, w)
  <2>1. FlushCommands \o d \in Seq({(FlushCommands \o d)[i] : i \in 1..Len(FlushCommands \o d)})
    BY <1>10 DEF IsSequence
  <2> HIDE DEF d, w
  <2> QED BY <2>1, AppendIsConcat
<1> QED BY <1>8, <1>9, <1>11

----------------------------------------------------------------------------
(* Types of what the calls record.                                         *)

LEMMA TypesFacts ==
  ASSUME IInv, TypesInv
  PROVE  /\ gen \in Nat /\ lastWorkEnd \in Nat /\ produced \in Nat /\ lastWorkEnd <= produced
         /\ tail \in Nat /\ sync \subseteq Resources /\ bound \subseteq live
         /\ live \subseteq Resources /\ addr \in [Resources -> Blocks \cup {NoBlock}]
         /\ mem \in [Blocks -> Contents \cup {NoBytes}]
         /\ locked \in [Resources -> SUBSET Parts] /\ lazy \in [Resources -> SUBSET Parts]
         /\ bound \subseteq Resources
  BY DEF IInv, ShapeInv, CursorInv, MemoryInv, MemoryTypes, TypesInv, CountTypes, GuestTypes

LEMMA ContentOf ==
  ASSUME MemoryInv, NEW r \in live, addr[r] # NoBlock
  PROVE  addr[r] \in Blocks /\ mem[addr[r]] \in Contents /\ mem[addr[r]] # NoBytes
<1>1. addr[r] \in Blocks
  BY DEF MemoryInv, MemoryTypes
<1>2. mem[addr[r]] # NoBytes
  BY <1>1 DEF MemoryInv, OneOwner, Owned
<1> QED BY <1>1, <1>2 DEF MemoryInv, MemoryTypes

LEMMA BufferContent ==
  ASSUME MemoryInv, NEW r \in live, r \in Buffers
  PROVE  addr[r] \in Blocks /\ mem[addr[r]] \in Contents /\ mem[addr[r]] # NoBytes
<1>1. addr[r] # NoBlock
  BY DEF MemoryInv, LocksHaveMemory
<1> QED BY <1>1, ContentOf

LEMMA LastRefFacts ==
  ASSUME IInv, TypesInv, NEW r \in Resources, rec[r] # NoRec
  PROVE  /\ LastRefOf(r) \in Nat /\ LastRefOf(r) <= lastWorkEnd /\ rec[r].lastRef <= LastRefOf(r)
         /\ r \in sync => lastWorkEnd <= LastRefOf(r)
<1>1. rec[r].lastRef \in Nat /\ rec[r].lastRef <= lastWorkEnd
  BY DEF TypesInv, RecordInv, Records
<1>2. lastWorkEnd \in Nat
  BY TypesFacts
<1> QED BY <1>1, <1>2 DEF LastRefOf

LEMMA CommandGrows ==
  ASSUME NEW c, NEW g \in Nat, NEW h \in Nat, NEW n \in Nat, NEW k \in Nat, g <= h, n <= k,
         CommandOK(c, g, n)
  PROVE  CommandOK(c, h, k)
<1>1. c.op = "FREE" => c.rec.gen \in Nat
  BY DEF CommandOK, Records
<1>2. /\ c.op = "BIND" => c.gen <= h
      /\ c.op = "DIRTY" => c.gen <= h
      /\ c.op = "FREE" => c.rec.gen <= h /\ c.until <= k
  BY <1>1 DEF CommandOK
<1> QED BY <1>2 DEF CommandOK

LEMMA MemoryOK ==
  ASSUME NEW r \in Surfaces, NEW b \in Blocks, NEW g, NEW n
  PROVE  CommandOK([op |-> "MEM", r |-> r, block |-> b], g, n)
  BY DEF CommandOK, Resources

LEMMA DirtyOK ==
  ASSUME NEW r \in Resources, NEW b \in Blocks, NEW g \in Nat, NEW S \in SUBSET Parts, NEW n
  PROVE  CommandOK([op |-> "DIRTY", r |-> r, gen |-> g, parts |-> S, block |-> b], g, n)
  BY DEF CommandOK

LEMMA DestroyOK ==
  ASSUME NEW r \in Resources, NEW g, NEW n
  PROVE  CommandOK([op |-> "DESTROY", r |-> r], g, n)
  BY DEF CommandOK

LEMMA FreeOK ==
  ASSUME NEW r \in Resources, NEW b, NEW d \in Records, NEW g, d.gen <= g,
         NEW u \in Nat, NEW n, u <= n
  PROVE  CommandOK([op |-> "FREE", r |-> r, block |-> b, rec |-> d, until |-> u], g, n)
  BY DEF CommandOK

LEMMA UnbindOK ==
  ASSUME NEW r \in Resources, NEW g, NEW n
  PROVE  CommandOK([op |-> "UNBIND", r |-> r], g, n)
  BY DEF CommandOK

LEMMA DataOK ==
  ASSUME MemoryInv, NEW r \in live, r \in Buffers, NEW S \in SUBSET Parts, NEW w \in BOOLEAN,
         ~w => S = Parts, NEW g, NEW n
  PROVE  CommandOK(Data(r, S, w), g, n)
  BY BufferContent DEF CommandOK, Data, Resources

LEMMA RecordedFacts ==
  ASSUME IInv, TypesInv
  PROVE  /\ Recorded = [r \in Resources |-> Recorded[r]]
         /\ Cardinality(Fresh) \in Nat
         /\ \A r \in Fresh : r \in bound /\ rec[r] = NoRec /\ Recorded[r] = NewRec(r)
         /\ \A r \in Resources : rec[r] # NoRec =>
              /\ Recorded[r] = [rec[r] EXCEPT !.lastRef = Recorded[r].lastRef]
              /\ Recorded[r] \in Records
              /\ Recorded[r].slot = rec[r].slot /\ Recorded[r].gen = rec[r].gen
              /\ Recorded[r].first = rec[r].first /\ Recorded[r].pend = rec[r].pend
              /\ Recorded[r].eager = rec[r].eager
              /\ Recorded[r].lastRef = (IF r \in Ending /\ lastWorkEnd > rec[r].lastRef
                                          THEN lastWorkEnd ELSE rec[r].lastRef)
              /\ Recorded[r].lastRef <= lastWorkEnd
         /\ \A r \in Resources : rec[r] = NoRec /\ r \notin bound => Recorded[r] = NoRec
<1> HIDE DEF NewRec
<1>1. Recorded = [r \in Resources |-> Recorded[r]]
  BY DEF Recorded
<1>2. Cardinality(Fresh) \in Nat
  BY TypesFacts, FiniteParts, FS_CardinalityType
<1>3. \A r \in Fresh : r \in bound /\ rec[r] = NoRec /\ r \in Resources
  BY TypesFacts DEF Fresh
<1>4. \A r \in Fresh : Recorded[r] = NewRec(r)
  BY <1>3 DEF Recorded
<1>5. ASSUME NEW r \in Resources, rec[r] # NoRec
      PROVE  /\ Recorded[r] = [rec[r] EXCEPT !.lastRef = Recorded[r].lastRef]
             /\ Recorded[r] \in Records
             /\ Recorded[r].slot = rec[r].slot /\ Recorded[r].gen = rec[r].gen
             /\ Recorded[r].first = rec[r].first /\ Recorded[r].pend = rec[r].pend
             /\ Recorded[r].eager = rec[r].eager
             /\ Recorded[r].lastRef = (IF r \in Ending /\ lastWorkEnd > rec[r].lastRef
                                         THEN lastWorkEnd ELSE rec[r].lastRef)
             /\ Recorded[r].lastRef <= lastWorkEnd
  <2>1. r \notin Fresh /\ rec[r] \in Records /\ lastWorkEnd \in Nat
    BY <1>3, <1>5, TypesFacts DEF TypesInv, RecordInv
  <2>2. Recorded[r] = IF r \in Ending /\ lastWorkEnd > rec[r].lastRef
                        THEN [rec[r] EXCEPT !.lastRef = lastWorkEnd] ELSE rec[r]
    BY <1>5, <2>1 DEF Recorded
  <2>3. rec[r].lastRef \in Nat /\ rec[r].lastRef <= lastWorkEnd
    BY <1>5, <2>1 DEF TypesInv, RecordInv, Records
  <2>4. CASE r \in Ending /\ lastWorkEnd > rec[r].lastRef
    <3>1. Recorded[r] = [rec[r] EXCEPT !.lastRef = lastWorkEnd]
      BY <2>2, <2>4
    <3>2. /\ Recorded[r] \in Records /\ Recorded[r].lastRef = lastWorkEnd
          /\ Recorded[r].slot = rec[r].slot /\ Recorded[r].gen = rec[r].gen
          /\ Recorded[r].first = rec[r].first /\ Recorded[r].pend = rec[r].pend
          /\ Recorded[r].eager = rec[r].eager
      BY <2>1, <3>1 DEF Records
    <3> QED BY <2>1, <2>4, <3>1, <3>2
  <2>5. CASE ~(r \in Ending /\ lastWorkEnd > rec[r].lastRef)
    <3>1. Recorded[r] = rec[r]
      BY <2>2, <2>5
    <3>2. rec[r] = [rec[r] EXCEPT !.lastRef = rec[r].lastRef]
      BY <2>1 DEF Records
    <3> QED BY <2>1, <2>3, <2>5, <3>1, <3>2
  <2> QED BY <2>4, <2>5
<1>6. \A r \in Resources : rec[r] = NoRec /\ r \notin bound => Recorded[r] = NoRec
  BY DEF Recorded, Fresh
<1> QED BY <1>1, <1>2, <1>3, <1>4, <1>5, <1>6

LEMMA BindOK ==
  ASSUME IInv, TypesInv, NEW r \in Starting, NEW n
  PROVE  /\ CommandOK(BindCommand(r), gen + Cardinality(Fresh), n)
         /\ BindCommand(r).new <=> r \in Fresh
         /\ BindCommand(r).op = "BIND" /\ BindCommand(r).r = r
         /\ BindCommand(r).block = addr[r]
         /\ BindCommand(r).slot = Recorded[r].slot /\ BindCommand(r).gen = Recorded[r].gen
         /\ r \in Fresh /\ r \in Dynamic => BindCommand(r).shadow = mem[addr[r]]
         /\ ~(r \in Fresh /\ r \in Dynamic) => BindCommand(r).shadow = NoBytes
<1>1. r \in bound /\ r \in live /\ r \in Resources
  BY TypesFacts DEF Starting
<1>2. /\ gen \in Nat /\ Cardinality(Fresh) \in Nat
      /\ Recorded[r] \in Records /\ Recorded[r].gen <= gen + Cardinality(Fresh)
  <2>1. gen \in Nat /\ Cardinality(Fresh) \in Nat
    BY TypesFacts, RecordedFacts
  <2>2. CASE rec[r] = NoRec
    <3>1. r \in Fresh
      BY <1>1, <2>2 DEF Fresh
    <3> QED BY <2>1, <3>1, TypesFacts, RecordedFacts, NewRecFacts
  <2>3. CASE rec[r] # NoRec
    <3>1. Recorded[r] \in Records /\ Recorded[r].gen = rec[r].gen
      BY <1>1, <2>3, RecordedFacts
    <3>2. rec[r].gen <= gen /\ rec[r].gen \in Nat
      BY <1>1, <2>3 DEF TypesInv, RecordInv, Records
    <3> QED BY <2>1, <3>1, <3>2
  <2> QED BY <2>2, <2>3
<1>3. r \in Dynamic => mem[addr[r]] \in Contents
  BY <1>1, BufferContent, RenderLinkAssumption DEF IInv
<1> DEFINE c == BindCommand(r)
<1>4. c = [op |-> "BIND", r |-> r, new |-> r \in Fresh, block |-> addr[r],
           slot |-> Recorded[r].slot, gen |-> Recorded[r].gen,
           shadow |-> IF r \in Fresh \cap Dynamic THEN mem[addr[r]] ELSE NoBytes]
  BY DEF BindCommand
<1> HIDE DEF c
<1>5. /\ c.op = "BIND" /\ c.r = r /\ c.new = (r \in Fresh) /\ c.block = addr[r]
      /\ c.slot = Recorded[r].slot /\ c.gen = Recorded[r].gen
      /\ c.shadow = IF r \in Fresh \cap Dynamic THEN mem[addr[r]] ELSE NoBytes
  BY <1>4
<1>6. /\ c.new \in BOOLEAN /\ c.block \in Blocks \cup {NoBlock} /\ c.slot \in Slots \cup {NoSlot}
      /\ c.gen \in Nat
  BY <1>1, <1>2, <1>5, TypesFacts DEF Records
<1>7. c.shadow \in Contents \cup {NoBytes}
  BY <1>3, <1>5
<1>8. CommandOK(c, gen + Cardinality(Fresh), n)
  BY <1>1, <1>2, <1>5, <1>6, <1>7 DEF CommandOK
<1> QED BY <1>5, <1>8 DEF c

LEMMA TakenFacts ==
  ASSUME IInv, TypesInv, NEW use \in Uses, NEW all
  PROVE  /\ \A r \in Taken(use, all) :
              /\ r \in bound /\ r \in live /\ r \in Buffers /\ r \in Resources
              /\ rec[r] # NoRec /\ rec[r].eager /\ r \notin Fresh
              /\ Take(r, use, all) \subseteq lazy[r] /\ lazy[r] \cap use[r] \subseteq Take(r, use, all)
              /\ Take(r, use, all) \subseteq Parts
         /\ \A r \in bound : r \notin Taken(use, all) => use[r] \cap lazy[r] = {}
<1>1. ASSUME NEW r \in bound, use[r] \cap lazy[r] # {}
      PROVE  /\ r \in live /\ r \in Buffers /\ r \in Resources
             /\ rec[r] # NoRec /\ rec[r].eager /\ r \notin Fresh /\ Recorded[r].eager
  <2>1. r \in live /\ r \in Resources
    BY TypesFacts
  <2>2. rec[r] # NoRec /\ rec[r].eager
    BY <1>1, <2>1 DEF TypesInv, GuestTypes
  <2> QED BY <2>1, <2>2, RecordedFacts DEF TypesInv, RecordInv, Fresh
<1>2. \A r : Take(r, use, all) \subseteq lazy[r] /\ lazy[r] \cap use[r] \subseteq Take(r, use, all)
  BY DEF Take
<1>3. \A r \in Resources : lazy[r] \subseteq Parts
  BY TypesFacts
<1> QED BY <1>1, <1>2, <1>3 DEF Taken

DrawCommand(use) == [op |-> "DRAW", use |-> use, want |-> Seen(use)]

LEMMA DrawOK ==
  ASSUME IInv, TypesInv, NEW use \in Uses, NEW g, NEW n
  PROVE  /\ CommandOK(DrawCommand(use), g, n)
         /\ DOMAIN use = bound /\ DOMAIN Seen(use) = bound
         /\ \A r \in bound : /\ use[r] \subseteq Parts /\ use[r] \cap locked[r] = {}
                             /\ \A x \in use[r] : Seen(use)[r][x] = Value(r, x)
<1>1. DOMAIN use = bound /\ \A r \in bound : use[r] \subseteq Parts /\ use[r] \cap locked[r] = {}
  BY DEF Uses
<1>2. Seen(use) = [r \in bound |-> [x \in use[r] |-> Value(r, x)]]
  BY DEF Seen, Value
<1>3. ASSUME NEW r \in bound, NEW x \in use[r]
      PROVE  Value(r, x) \in 0..1
  <2>1. r \in live /\ x \in Parts
    BY <1>1, TypesFacts
  <2>2. CASE addr[r] = NoBlock
    BY <2>2 DEF Value
  <2>3. CASE addr[r] # NoBlock
    <3>1. mem[addr[r]] \in [Parts -> 0..1]
      BY <2>1, <2>3, ContentOf DEF IInv, Contents
    <3> QED BY <2>1, <2>3, <3>1 DEF Value
  <2> QED BY <2>2, <2>3
<1>4. \A r \in bound : Seen(use)[r] = [x \in use[r] |-> Value(r, x)]
  BY <1>2
<1>5. \A r \in bound : Seen(use)[r] \in [use[r] -> 0..1]
  BY <1>3, <1>4
<1> DEFINE c == DrawCommand(use)
<1>6. c.op = "DRAW" /\ c.use = use /\ c.want = Seen(use)
  BY DEF DrawCommand
<1>7. DOMAIN c.use \subseteq Resources /\ c.want = [r \in DOMAIN c.use |-> c.want[r]]
  BY <1>1, <1>2, <1>6, TypesFacts
<1>8. CommandOK(c, g, n)
  <2> HIDE DEF c
  <2> QED BY <1>1, <1>5, <1>6, <1>7 DEF CommandOK
<1> QED BY <1>1, <1>2, <1>4, <1>8 DEF c

(* The commands of a draw or present, and those before its last            *)
LEMMA BatchOK ==
  ASSUME IInv, TypesInv, NEW n, NEW c \in Unbinds \cup Binds
  PROVE  CommandOK(c, gen + Cardinality(Fresh), n) /\ c.op \in {"UNBIND", "BIND"}
<1>1. CASE c \in Unbinds
  <2>1. PICK r \in Ending : c = [op |-> "UNBIND", r |-> r]
    BY <1>1 DEF Unbinds
  <2>2. r \in Resources
    BY TypesFacts DEF Ending
  <2> QED BY <2>1, <2>2, UnbindOK
<1>2. CASE c \in Binds
  BY <1>2, BindOK DEF Binds
<1> QED BY <1>1, <1>2

LEMMA DatasOK ==
  ASSUME IInv, TypesInv, NEW use \in Uses, NEW all, NEW n, NEW g, NEW c \in Datas(use, all)
  PROVE  CommandOK(c, g, n) /\ c.op = "DATA"
<1>1. PICK r \in Taken(use, all) : c = Data(r, Take(r, use, all), TRUE)
  BY DEF Datas
<1>2. CommandOK(c, g, n)
  BY <1>1, TakenFacts, DataOK DEF IInv
<1> QED BY <1>1, <1>2 DEF Data

LEMMA CommandsSteady ==
  ASSUME IInv, TypesInv, Steady, gen' \in Nat, lastWorkEnd' \in Nat,
         gen <= gen', lastWorkEnd <= lastWorkEnd',
         \A p \in Way : Cmd[p].op = "FREE" => p > produced'
  PROVE  CommandTypes'
<1>1. gen \in Nat /\ lastWorkEnd \in Nat
  BY TypesFacts
<1>2. Way' = Way /\ Cmd' = Cmd
  BY DEF Steady
<1>3. \A p \in Way : CommandOK(Cmd[p], gen', lastWorkEnd')
  BY <1>1, CommandGrows DEF TypesInv, CommandTypes
<1> QED BY <1>2, <1>3 DEF CommandTypes

LEMMA CommandsLonger ==
  ASSUME IInv, TypesInv, Longer, gen' \in Nat, lastWorkEnd' = lastWorkEnd, produced' = produced,
         gen <= gen', todo = <<>>, \A i \in 1..Len(todo') : CommandOK(todo'[i], gen', lastWorkEnd')
  PROVE  CommandTypes'
<1>1. gen \in Nat /\ lastWorkEnd \in Nat /\ produced \in Nat
  BY TypesFacts
<1>2. End = produced + 1 /\ End' = End + Len(todo') /\ End' \in Int
  BY <1>1, EmptyIsSequence DEF End, Longer
<1>3. ASSUME NEW p \in Way'
      PROVE  CommandOK(Cmd'[p], gen', lastWorkEnd') /\ (Cmd'[p].op = "FREE" => p > produced')
  <2>1. CASE p \in Way
    <3>1. Cmd'[p] = Cmd[p] /\ CommandOK(Cmd[p], gen, lastWorkEnd) /\ (Cmd[p].op = "FREE" => p > produced)
      BY <2>1 DEF Longer, TypesInv, CommandTypes
    <3> QED BY <1>1, <3>1, CommandGrows
  <2>2. CASE p \notin Way
    <3>1. p \in End..(End' - 1) /\ Cmd'[p] = todo'[p - End + 1]
      BY <2>2 DEF Longer
    <3>2. p - End + 1 \in 1..Len(todo') /\ p > produced
      BY <1>1, <1>2, <3>1
    <3> QED BY <3>1, <3>2
  <2> QED BY <2>1, <2>2
<1> QED BY <1>3 DEF CommandTypes

LEMMA CommandsFewer ==
  ASSUME IInv, TypesInv, \A p \in Way' : p \in Way /\ Cmd'[p] = Cmd[p],
         UNCHANGED <<gen, lastWorkEnd, produced>>
  PROVE  CommandTypes'
  BY DEF TypesInv, CommandTypes

(* A call that gives up keeps at most its last command, a release.         *)
LEMMA CommandsGivenUp ==
  ASSUME IInv, IInv', TypesInv, GiveUp
  PROVE  CommandTypes'
<1>1. /\ ring' = <<>> /\ UNCHANGED <<gen, lastWorkEnd, produced>>
      /\ todo' = IF todo # <<>> /\ Last(todo).op = "FREE" THEN <<Last(todo)>> ELSE <<>>
  BY DEF GiveUp, recordVars, cursorVars
<1>2. Len(ring') = 0 /\ produced \in Nat /\ Consumed' = produced
  BY <1>1, EmptyIsSequence, TypesFacts DEF Consumed
<1>3. CASE todo' = <<>>
  <2>1. Way' = {}
    BY <1>1, <1>2, <1>3, EmptyIsSequence DEF Way
  <2> QED BY <2>1 DEF CommandTypes
<1>4. CASE todo' # <<>>
  <2>1. todo # <<>> /\ Last(todo).op = "FREE" /\ todo' = <<Last(todo)>>
    BY <1>1, <1>4
  <2>2. Len(todo) \in Nat \ {0} /\ Last(todo) = todo[Len(todo)]
    BY <2>1, TailSequence DEF IInv, ShapeInv, Last
  <2>3. Len(todo') = 1 /\ todo'[1] = Last(todo)
    BY <2>1, OneIsSequence
  <2>4. Way' = {produced + 1} /\ Cmd'[produced + 1] = Last(todo)
    <3>1. Way' = (produced + 1)..(produced + 1)
      BY <1>1, <1>2, <2>3 DEF Way
    <3>2. Way' = {produced + 1} /\ ~(produced + 1 <= produced) /\ (produced + 1) - produced = 1
      BY <1>2, <3>1
    <3> QED BY <1>1, <2>3, <3>2 DEF Cmd
  <2>5. produced + Len(todo) \in Way /\ Cmd[produced + Len(todo)] = Last(todo)
    <3>1. produced + Len(todo) \in Way
      BY <1>2, <2>2, WayFacts DEF IInv, End
    <3>2. ~(produced + Len(todo) <= produced) /\ (produced + Len(todo)) - produced = Len(todo)
      BY <1>2, <2>2
    <3> QED BY <2>2, <3>1, <3>2 DEF Cmd
  <2>6. CommandOK(Last(todo), gen, lastWorkEnd)
    BY <2>5 DEF TypesInv, CommandTypes
  <2> QED BY <1>1, <1>2, <2>4, <2>6 DEF CommandTypes
<1> QED BY <1>3, <1>4

(* Types step by step.                                                     *)

LEMMA TypesKept ==
  ASSUME IInv, IInv', TypesInv, CommandTypes',
         UNCHANGED <<rec, lazy, mirror, staged, ack, gen, shown>>, live \subseteq live',
         bound' \subseteq live', deferred' \subseteq deferred,
         lastWorkEnd' \in Nat, lastWorkEnd <= lastWorkEnd', lastWorkEnd' <= produced',
         frames <= frames', failed' \in BOOLEAN, crashed' \in BOOLEAN, stalled' \in BOOLEAN
  PROVE  TypesInv'
<1>1. gen \in Nat /\ lastWorkEnd \in Nat
  BY TypesFacts
<1>2. RecordInv'
  <2>1. ASSUME NEW r \in Resources, rec[r] # NoRec
        PROVE  /\ r \in live' /\ rec[r] \in Records /\ rec[r].gen <= gen
               /\ rec[r].lastRef <= lastWorkEnd' /\ (rec[r].eager => r \in Buffers)
    <3>1. rec[r].lastRef \in Nat
      BY <2>1 DEF TypesInv, RecordInv, Records
    <3> QED BY <1>1, <2>1, <3>1 DEF TypesInv, RecordInv
  <2> QED BY <2>1 DEF RecordInv
<1>3. MirrorTypes'
  BY DEF TypesInv, MirrorTypes
<1>4. CountTypes'
  <2>1. \A d \in deferred' : d[2] \in Nat /\ d[2] <= lastWorkEnd'
    BY <1>1 DEF TypesInv, CountTypes
  <2>2. shown' <= frames'
    <3>1. shown \in Nat /\ frames \in Nat /\ frames' \in Nat /\ shown <= frames
      BY DEF IInv, FrameInv, TypesInv, CountTypes
    <3> QED BY <3>1
  <2> QED BY <1>1, <2>1, <2>2 DEF CountTypes
<1>5. GuestTypes'
  BY DEF TypesInv, GuestTypes
<1> QED BY <1>2, <1>3, <1>4, <1>5 DEF TypesInv

LEMMA ReleasedTypes ==
  ASSUME ReleasePassed
  PROVE  deferred' \subseteq deferred
  BY DEF ReleasePassed

(* Steps that add no command and touch no record                           *)
LEMMA TypesSteady ==
  ASSUME IInv, IInv', TypesInv,
         UNCHANGED <<ring, todo, produced, rec, lazy, mirror, staged, ack, gen, shown, lastWorkEnd,
                     frames, failed, crashed>>,
         live \subseteq live', bound' \subseteq live', deferred' \subseteq deferred,
         stalled' \in BOOLEAN
  PROVE  TypesInv'
<1>1. Steady
  BY SteadyKept
<1>2. gen \in Nat /\ lastWorkEnd \in Nat /\ lastWorkEnd <= produced
  BY TypesFacts
<1>3. CommandTypes'
  <2>1. \A p \in Way : Cmd[p].op = "FREE" => p > produced'
    BY DEF TypesInv, CommandTypes
  <2> QED BY <1>1, <1>2, <2>1, CommandsSteady
<1>4. frames \in Nat /\ failed' \in BOOLEAN /\ crashed' \in BOOLEAN
  BY DEF IInv, FrameInv, TypesInv, CountTypes
<1> QED BY <1>2, <1>3, <1>4, TypesKept

LEMMA TypesPut ==
  ASSUME IInv, IInv', TypesInv, PutNext, lastWorkEnd' \in {lastWorkEnd, produced + 1},
         deferred' \subseteq deferred, frames <= frames'
  PROVE  TypesInv'
<1>1. Steady
  BY SteadyPut DEF IInv
<1>2. gen \in Nat /\ lastWorkEnd \in Nat /\ produced \in Nat /\ lastWorkEnd <= produced
  BY TypesFacts
<1>3. /\ produced' = produced + 1 /\ UNCHANGED <<rec, lazy, mirror, staged, ack, gen, shown>>
      /\ UNCHANGED <<live, bound, failed, crashed, stalled>>
  BY DEF PutNext, recordVars, workerVars
<1>4. lastWorkEnd' \in Nat /\ lastWorkEnd <= lastWorkEnd' /\ lastWorkEnd' <= produced'
  BY <1>2, <1>3
<1>5. ASSUME NEW p \in Way, Cmd[p].op = "FREE"
      PROVE  p > produced'
  <2>1. p > produced /\ p \in Int
    BY <1>5, WayFacts DEF TypesInv, CommandTypes, IInv
  <2>2. p # produced + 1
    <3> SUFFICES ASSUME p = produced + 1 PROVE FALSE
      OBVIOUS
    <3>1. Cmd[p] = todo[1]
      <4>1. ~(p <= produced) /\ p - produced = 1
        BY <1>2
      <4> QED BY <4>1, WayFacts DEF IInv
    <3>2. todo # <<>> /\ Head(todo).op # "FREE"
      BY DEF PutNext, Putting
    <3>3. Head(todo) = todo[1]
      BY <3>2, TailSequence DEF IInv, ShapeInv
    <3> QED BY <1>5, <3>1, <3>2, <3>3
  <2> QED BY <1>2, <1>3, <2>1, <2>2
<1>6. CommandTypes'
  BY <1>1, <1>2, <1>3, <1>4, <1>5, CommandsSteady
<1>7. /\ failed' \in BOOLEAN /\ crashed' \in BOOLEAN /\ stalled' \in BOOLEAN
      /\ bound' \subseteq live'
  BY <1>3, TypesFacts DEF TypesInv, CountTypes
<1> QED BY <1>3, <1>4, <1>6, <1>7, TypesKept

(* Calls that record                                                       *)
LEMMA TypesCalls ==
  ASSUME IInv, IInv', TypesInv, UNCHANGED <<ring, produced, mirror, staged, ack, shown, lastWorkEnd,
           frames, failed, crashed, stalled>>, todo = <<>>,
         gen' \in Nat, gen <= gen',
         \A i \in 1..Len(todo') : CommandOK(todo'[i], gen', lastWorkEnd'),
         RecordInv', GuestTypes', \A d \in deferred' \ deferred : d[2] \in Nat /\ d[2] <= lastWorkEnd
  PROVE  TypesInv' /\ Longer
<1>1. Longer
  BY LongerCall DEF IInv
<1>2. gen \in Nat /\ lastWorkEnd \in Nat /\ produced \in Nat /\ lastWorkEnd <= produced
  BY TypesFacts
<1>3. CommandTypes'
  BY <1>1, <1>2, CommandsLonger
<1>4. MirrorTypes'
  <2>1. ASSUME NEW r \in Resources
        PROVE  MirrorOK(mirror[r]) /\ (mirror[r] # NoRec => mirror[r].gen <= gen')
    <3>1. mirror[r] # NoRec => mirror[r].gen \in Nat
      BY DEF TypesInv, MirrorTypes, MirrorOK, MirrorRecords
    <3> QED BY <1>2, <3>1 DEF TypesInv, MirrorTypes
  <2>2. \A s \in Slots : ack[s] \in Int /\ -1 <= ack[s] /\ ack[s] <= gen'
    BY <1>2 DEF TypesInv, MirrorTypes
  <2> QED BY <2>1, <2>2 DEF TypesInv, MirrorTypes
<1>5. CountTypes'
  <2>1. \A d \in deferred' : d[2] \in Nat /\ d[2] <= lastWorkEnd'
    BY DEF TypesInv, CountTypes
  <2> QED BY <1>2, <2>1 DEF TypesInv, CountTypes
<1> QED BY <1>1, <1>3, <1>4, <1>5 DEF TypesInv

LEMMA RecordsKept ==
  ASSUME IInv, TypesInv, UNCHANGED <<rec, live, lazy, bound, gen, lastWorkEnd>>
  PROVE  RecordInv' /\ GuestTypes'
  BY DEF TypesInv, RecordInv, GuestTypes

LEMMA OneSent ==
  ASSUME NEW c, NEW g, NEW n, CommandOK(c, g, n)
  PROVE  \A i \in 1..Len(<<c>>) : CommandOK(<<c>>[i], g, n)
  BY OneIsSequence

LEMMA NoneSent == \A g, n : \A i \in 1..Len(<<>>) : CommandOK(<<>>[i], g, n)
  BY EmptyIsSequence

LEMMA TypesLockCopied ==
  ASSUME IInv, IInv', TypesInv, NEW r \in Resources, LockCopied(r)
  PROVE  TypesInv' /\ Longer
<1>1. /\ todo = <<>> /\ r \in Surfaces /\ rec[r] # NoRec /\ ~failed
      /\ deferred' = deferred \cup {<<addr[r], LastRefOf(r)>>}
      /\ UNCHANGED <<ring, produced, mirror, staged, ack, shown, lastWorkEnd, frames, failed, crashed,
                     stalled, rec, live, lazy, bound, gen>>
  BY DEF LockCopied, Unlocked, Guest, InUse, Recording, recordVars, cursorVars, workerVars
<1>2. PICK b \in FreeBlocks : GiveMemory(r, b, mem[addr[r]])
  BY DEF LockCopied
<1>3. todo' = <<[op |-> "MEM", r |-> r, block |-> b]>> /\ b \in Blocks
  BY <1>1, <1>2 DEF GiveMemory, Call, Recording, FreeBlocks
<1>4. gen \in Nat /\ lastWorkEnd \in Nat /\ LastRefOf(r) \in Nat /\ LastRefOf(r) <= lastWorkEnd
  BY <1>1, TypesFacts, LastRefFacts
<1>5. \A i \in 1..Len(todo') : CommandOK(todo'[i], gen', lastWorkEnd')
  BY <1>1, <1>3, MemoryOK, OneSent
<1> QED BY <1>1, <1>4, <1>5, RecordsKept, TypesCalls

LEMMA TypesLockFree ==
  ASSUME IInv, IInv', TypesInv, NEW r \in Resources, LockFree(r)
  PROVE  TypesInv' /\ Longer
<1>1. /\ todo = <<>> /\ r \in Surfaces
      /\ UNCHANGED <<ring, produced, mirror, staged, ack, shown, lastWorkEnd, frames, failed, crashed,
                     stalled, rec, live, lazy, bound, gen, deferred>>
  BY DEF LockFree, Unlocked, Guest, recordVars, cursorVars, workerVars
<1>2. gen \in Nat
  BY TypesFacts
<1>3. \A i \in 1..Len(todo') : CommandOK(todo'[i], gen', lastWorkEnd')
  <2>1. CASE addr[r] = NoBlock
    <3>1. PICK b \in FreeBlocks : GiveMemory(r, b, Zero)
      BY <2>1 DEF LockFree
    <3>2. /\ b \in Blocks
          /\ \/ todo' = <<[op |-> "MEM", r |-> r, block |-> b]>>
             \/ todo' = <<>>
      BY <3>1 DEF GiveMemory, Call, FreeBlocks
    <3> QED BY <1>1, <3>2, MemoryOK, OneSent, NoneSent
  <2>2. CASE addr[r] # NoBlock
    <3>1. todo' = <<>>
      BY <1>1, <2>2 DEF LockFree
    <3> QED BY <3>1, NoneSent
  <2> QED BY <2>1, <2>2
<1> QED BY <1>1, <1>2, <1>3, RecordsKept, TypesCalls

LEMMA TypesUnlock ==
  ASSUME IInv, IInv', TypesInv, NEW r \in Resources, Unlock(r)
  PROVE  TypesInv' /\ Longer
<1>1. /\ todo = <<>> /\ locked[r] # {}
      /\ UNCHANGED <<ring, produced, mirror, staged, ack, shown, lastWorkEnd, frames, failed, crashed,
                     stalled, live, bound, deferred, addr>>
  BY DEF Unlock, Guest, cursorVars, workerVars
<1>2. gen \in Nat /\ locked[r] \in SUBSET Parts /\ r \in live /\ addr[r] \in Blocks
  <2>1. r \in live /\ addr[r] # NoBlock
    BY <1>1 DEF IInv, MemoryInv, LocksHaveMemory
  <2> QED BY <2>1, TypesFacts
<1>3. CASE ~Recording(r)
  <2>1. UNCHANGED <<rec, lazy, gen, todo>>
    BY <1>3 DEF Unlock
  <2>2. \A i \in 1..Len(todo') : CommandOK(todo'[i], gen', lastWorkEnd')
    BY <1>1, <2>1, NoneSent
  <2> QED BY <1>1, <1>2, <2>1, <2>2, RecordsKept, TypesCalls
<1>4. CASE Recording(r) /\ rec[r].eager
  <2>1. /\ lazy' = [lazy EXCEPT ![r] = @ \cup locked[r]] /\ UNCHANGED <<rec, gen, todo>>
        /\ rec[r] # NoRec
    BY <1>4 DEF Unlock, Recording
  <2>2. \A i \in 1..Len(todo') : CommandOK(todo'[i], gen', lastWorkEnd')
    BY <1>1, <2>1, NoneSent
  <2>3. RecordInv'
    BY <1>1, <2>1 DEF TypesInv, RecordInv
  <2>4. GuestTypes'
    BY <1>1, <1>2, <1>4, <2>1 DEF TypesInv, GuestTypes
  <2> QED BY <1>1, <1>2, <2>1, <2>2, <2>3, <2>4, TypesCalls
<1>5. CASE Recording(r) /\ ~rec[r].eager
  <2> DEFINE d == [rec[r] EXCEPT !.gen = gen + 1,
                     !.pend = IF r \in Buffers
                                THEN @ \cup {[gen |-> gen + 1, parts |-> locked[r]]} ELSE @]
  <2>1. /\ rec' = [rec EXCEPT ![r].gen = gen + 1,
                     ![r].pend = IF r \in Buffers
                                   THEN @ \cup {[gen |-> gen + 1, parts |-> locked[r]]} ELSE @]
        /\ todo' = <<[op |-> "DIRTY", r |-> r, gen |-> gen + 1, parts |-> locked[r],
                      block |-> addr[r]]>>
        /\ gen' = gen + 1 /\ lazy' = lazy /\ rec[r] # NoRec
    BY <1>5 DEF Unlock, Recording, Call
  <2>2. rec' = [rec EXCEPT ![r] = d]
    BY <2>1
  <2>3. rec[r] \in Records
    BY <2>1 DEF TypesInv, RecordInv
  <2>4. d \in Records /\ d.gen = gen + 1 /\ d.lastRef = rec[r].lastRef /\ d.eager = rec[r].eager
    <3>1. (IF r \in Buffers THEN rec[r].pend \cup {[gen |-> gen + 1, parts |-> locked[r]]}
                            ELSE rec[r].pend) \in SUBSET [gen : Nat, parts : SUBSET Parts]
      BY <1>2, <2>3 DEF Records
    <3>2. PICK P \in SUBSET [gen : Nat, parts : SUBSET Parts] :
            P = IF r \in Buffers THEN rec[r].pend \cup {[gen |-> gen + 1, parts |-> locked[r]]}
                                 ELSE rec[r].pend
      BY <3>1
    <3>3. PICK g \in Nat : g = gen + 1
      BY <1>2
    <3>4. d = [rec[r] EXCEPT !.gen = g, !.pend = P]
      BY <3>2, <3>3
    <3> HIDE DEF d
    <3>5. PICK e \in Records : e = rec[r]
      BY <2>3
    <3>6. d = [e EXCEPT !.gen = g, !.pend = P]
      BY <3>4, <3>5
    <3>7. d \in Records /\ d.gen = g /\ d.lastRef = e.lastRef /\ d.eager = e.eager
      BY <3>6 DEF Records
    <3> QED BY <3>3, <3>5, <3>7
  <2> HIDE DEF d
  <2>5. RecordInv'
    <3>1. ASSUME NEW q \in Resources, rec'[q] # NoRec
          PROVE  /\ q \in live' /\ rec'[q] \in Records
                 /\ rec'[q].gen <= gen' /\ rec'[q].lastRef <= lastWorkEnd'
                 /\ (rec'[q].eager => q \in Buffers)
      <4>1. CASE q = r
        <5>1. rec'[q] = d
          BY <2>2, <4>1 DEF TypesInv, GuestTypes
        <5> QED BY <1>1, <1>2, <2>1, <2>4, <4>1, <5>1 DEF TypesInv, RecordInv
      <4>2. CASE q # r
        <5>1. rec'[q] = rec[q]
          BY <2>2, <4>2 DEF TypesInv, GuestTypes
        <5>2. rec[q].gen \in Nat /\ rec[q].gen <= gen
          BY <3>1, <5>1 DEF TypesInv, RecordInv, Records
        <5> QED BY <1>1, <1>2, <2>1, <3>1, <5>1, <5>2 DEF TypesInv, RecordInv
      <4> QED BY <4>1, <4>2
    <3> QED BY <3>1 DEF RecordInv
  <2>6. GuestTypes'
    <3>1. rec' = [q \in Resources |-> rec'[q]]
      BY <2>2 DEF TypesInv, GuestTypes
    <3>2. \A q \in Resources : rec[q] # NoRec /\ rec[q].eager => rec'[q] # NoRec /\ rec'[q].eager
      BY <1>5, <2>2 DEF TypesInv, GuestTypes
    <3> QED BY <1>1, <2>1, <3>1, <3>2 DEF TypesInv, GuestTypes
  <2>7. \A i \in 1..Len(todo') : CommandOK(todo'[i], gen', lastWorkEnd')
    BY <1>2, <2>1, DirtyOK, OneSent
  <2> QED BY <1>1, <1>2, <2>1, <2>5, <2>6, <2>7, TypesCalls
<1> QED BY <1>3, <1>4, <1>5

LEMMA TypesDestroy ==
  ASSUME IInv, IInv', TypesInv, NEW r \in Resources, Destroy(r)
  PROVE  TypesInv' /\ Longer
<1>1. /\ todo = <<>> /\ r \in live /\ r \notin bound /\ live' = live \ {r}
      /\ rec' = [rec EXCEPT ![r] = NoRec] /\ lazy' = [lazy EXCEPT ![r] = {}]
      /\ UNCHANGED <<ring, produced, mirror, staged, ack, shown, lastWorkEnd, frames, failed, crashed,
                     stalled, bound, deferred, gen>>
  BY DEF Destroy, Guest, cursorVars, workerVars
<1>2. gen \in Nat /\ lastWorkEnd \in Nat
  BY TypesFacts
<1>3. rec'[r] = NoRec /\ lazy'[r] = {} /\ \A q \in Resources : q # r => rec'[q] = rec[q] /\ lazy'[q] = lazy[q]
  BY <1>1, TypesFacts DEF TypesInv, GuestTypes
<1>4. RecordInv'
  BY <1>1, <1>3 DEF TypesInv, RecordInv
<1>5. GuestTypes'
  <2>1. lazy' \in [Resources -> SUBSET Parts] /\ rec' = [q \in Resources |-> rec'[q]]
    BY <1>1 DEF TypesInv, GuestTypes
  <2> QED BY <1>1, <1>3, <2>1 DEF TypesInv, GuestTypes
<1>6. \A i \in 1..Len(todo') : CommandOK(todo'[i], gen', lastWorkEnd')
  <2>1. CASE ~Recording(r)
    <3>1. todo' = <<>>
      BY <1>1, <2>1 DEF Destroy
    <3> QED BY <3>1, NoneSent
  <2>2. CASE Recording(r)
    <3> DEFINE d == [op |-> "DESTROY", r |-> r]
               f == [op |-> "FREE", r |-> r, block |-> addr[r], rec |-> rec[r],
                     until |-> LastRefOf(r)]
    <3>1. todo' = <<d, f>> /\ rec[r] # NoRec
      BY <2>2 DEF Destroy, Call, Recording
    <3>2. CommandOK(d, gen, lastWorkEnd)
      BY DestroyOK
    <3>3. CommandOK(f, gen, lastWorkEnd)
      <4>1. rec[r] \in Records /\ rec[r].gen <= gen
        BY <3>1 DEF TypesInv, RecordInv
      <4> QED BY <4>1, <3>1, LastRefFacts, FreeOK
    <3> HIDE DEF d, f
    <3> QED BY <1>1, <3>1, <3>2, <3>3
  <2> QED BY <2>1, <2>2
<1> QED BY <1>1, <1>2, <1>4, <1>5, <1>6, TypesCalls

LEMMA TypesEndFence ==
  ASSUME IInv, IInv', DataInv, EndFence
  PROVE  TypesInv' /\ Longer
<1> DEFINE r == wait.r
<1>1. /\ wait # NoWait /\ wait.kind = "fence" /\ todo = <<>>
      /\ UNCHANGED <<ring, produced, mirror, staged, ack, shown, lastWorkEnd, frames, failed, crashed,
                     stalled, live, lazy, bound, deferred, gen>>
  BY DEF EndFence, FenceOver, cursorVars, workerVars, IInv, ShapeInv
<1>2. gen \in Nat /\ r \in live /\ r \in Resources /\ TypesInv
  BY <1>1, TypesFacts DEF IInv, MemoryInv, LocksHaveMemory, DataInv
<1>3. CASE ~(r \in Buffers /\ ~failed)
  <2>1. rec' = rec /\ todo' = <<>>
    BY <1>1, <1>3 DEF EndFence
  <2> QED BY <1>1, <1>2, <2>1, NoneSent, RecordsKept, TypesCalls
<1>4. CASE r \in Buffers /\ ~failed
  <2>1. rec' = [rec EXCEPT ![r].eager = TRUE] /\ todo' = <<Data(r, Parts, FALSE)>>
    BY <1>4 DEF EndFence, Call
  <2>2. rec[r] # NoRec
    BY <1>1, <1>4 DEF DataInv, FenceInv
  <2>3. \A i \in 1..Len(todo') : CommandOK(todo'[i], gen', lastWorkEnd')
    <3>1. CommandOK(Data(r, Parts, FALSE), gen', lastWorkEnd')
      BY <1>2, <1>4, DataOK DEF IInv
    <3> QED BY <2>1, <3>1, OneSent
  <2>4. /\ rec'[r] = [rec[r] EXCEPT !.eager = TRUE] /\ rec' = [q \in Resources |-> rec'[q]]
        /\ \A q \in Resources : q # r => rec'[q] = rec[q]
    BY <1>2, <2>1 DEF TypesInv, GuestTypes
  <2>5. /\ rec'[r] \in Records /\ rec'[r].gen = rec[r].gen /\ rec'[r].lastRef = rec[r].lastRef
        /\ rec'[r].eager
    <3>1. rec[r] \in Records
      BY <1>2, <2>2 DEF TypesInv, RecordInv
    <3> QED BY <2>4, <3>1 DEF Records
  <2>6. rec'[r] # NoRec /\ rec[r].gen <= gen /\ rec[r].lastRef <= lastWorkEnd
    <3>1. rec[r].gen <= gen /\ rec[r].lastRef <= lastWorkEnd
      BY <1>2, <2>2 DEF TypesInv, RecordInv
    <3> QED BY <2>5, <3>1, RenderLinkAssumption
  <2>7. RecordInv'
    <3>1. ASSUME NEW q \in Resources, rec'[q] # NoRec
          PROVE  /\ q \in live' /\ rec'[q] \in Records
                 /\ rec'[q].gen <= gen' /\ rec'[q].lastRef <= lastWorkEnd'
                 /\ (rec'[q].eager => q \in Buffers)
      <4>1. CASE q = r
        BY <4>1, <1>1, <1>2, <1>4, <2>5, <2>6
      <4>2. CASE q # r
        BY <4>2, <3>1, <1>1, <1>2, <2>4 DEF TypesInv, RecordInv
      <4> QED BY <4>1, <4>2
    <3> QED BY <3>1 DEF RecordInv
  <2>8. GuestTypes'
    BY <1>1, <1>2, <2>2, <2>4, <2>5, <2>6 DEF TypesInv, GuestTypes
  <2> QED BY <1>1, <1>2, <2>3, <2>7, <2>8, TypesCalls
<1> QED BY <1>3, <1>4

LEMMA RecordedRecords ==
  ASSUME IInv, TypesInv, Flush, UNCHANGED <<live, bound, lastWorkEnd>>,
         lazy' \in [Resources -> SUBSET Parts], \A r \in Resources : lazy'[r] \subseteq lazy[r]
  PROVE  RecordInv' /\ GuestTypes' /\ gen' \in Nat /\ gen <= gen' /\ gen' = gen + Cardinality(Fresh)
<1>1. rec' = Recorded /\ gen' = gen + Cardinality(Fresh) /\ gen \in Nat /\ Cardinality(Fresh) \in Nat
  BY TypesFacts, RecordedFacts DEF Flush
<1>2. gen' \in Nat /\ gen <= gen'
  BY <1>1
<1>3. RecordInv'
  <2>1. ASSUME NEW r \in Resources, rec'[r] # NoRec
        PROVE  /\ r \in live' /\ rec'[r] \in Records
               /\ rec'[r].gen <= gen' /\ rec'[r].lastRef <= lastWorkEnd'
               /\ (rec'[r].eager => r \in Buffers)
    <3>1. CASE rec[r] # NoRec
      <4>1. /\ rec'[r] \in Records /\ rec'[r].gen = rec[r].gen /\ rec'[r].eager = rec[r].eager
            /\ rec'[r].lastRef <= lastWorkEnd
        BY <1>1, <3>1, RecordedFacts
      <4>2. r \in live /\ rec[r].gen <= gen /\ (rec[r].eager => r \in Buffers) /\ rec[r].gen \in Nat
        BY <3>1 DEF TypesInv, RecordInv, Records
      <4> QED BY <1>1, <1>2, <4>1, <4>2
    <3>2. CASE rec[r] = NoRec
      <4>1. r \in bound
        BY <1>1, <2>1, <3>2, RecordedFacts
      <4>2. r \in Fresh /\ r \in live
        BY <3>2, <4>1, TypesFacts DEF Fresh
      <4>3. rec'[r] = NewRec(r)
        BY <1>1, <4>2, RecordedFacts
      <4>4. /\ NewRec(r) \in Records /\ NewRec(r).lastRef = 0
            /\ NewRec(r).eager <=> r \in Dynamic
            /\ NewRec(r).gen <= gen + Cardinality(Fresh)
        BY <4>2, TypesFacts, NewRecFacts
      <4>5. lastWorkEnd \in Nat
        BY TypesFacts
      <4> HIDE DEF NewRec
      <4> QED BY <1>1, <4>2, <4>3, <4>4, <4>5, RenderLinkAssumption
    <3> QED BY <3>1, <3>2
  <2> QED BY <2>1 DEF RecordInv
<1>4. GuestTypes'
  <2>1. rec' = [r \in Resources |-> rec'[r]]
    BY <1>1, RecordedFacts
  <2>2. ASSUME NEW r \in Resources, lazy'[r] # {}
        PROVE  rec'[r] # NoRec /\ rec'[r].eager
    <3>1. lazy[r] # {}
      BY <2>2
    <3>2. rec[r] # NoRec /\ rec[r].eager
      BY <3>1 DEF TypesInv, GuestTypes
    <3>3. rec'[r] \in Records /\ rec'[r].eager = rec[r].eager
      BY <1>1, <3>2, RecordedFacts
    <3> QED BY <3>2, <3>3, RenderLinkAssumption
  <2> QED BY <2>1, <2>2 DEF TypesInv, GuestTypes
<1> QED BY <1>1, <1>2, <1>3, <1>4

LEMMA ListedOK ==
  ASSUME NEW s, NEW X, NEW w, NEW g, NEW n, Lists(s, X), \A c \in X : CommandOK(c, g, n),
         CommandOK(w, g, n)
  PROVE  \A i \in 1..Len(Append(s, w)) : CommandOK(Append(s, w)[i], g, n)
<1>1. /\ Len(s) \in Nat /\ Len(Append(s, w)) = Len(s) + 1 /\ Append(s, w)[Len(s) + 1] = w
      /\ \A i \in 1..Len(s) : Append(s, w)[i] = s[i]
  BY AppendSequence DEF Lists
<1>2. \A i \in 1..Len(s) : CommandOK(s[i], g, n)
  BY DEF Lists
<1>3. \A i \in 1..(Len(s) + 1) : i \in 1..Len(s) \/ i = Len(s) + 1
  BY <1>1
<1> QED BY <1>1, <1>2, <1>3

LEMMA TypesDraw ==
  ASSUME IInv, IInv', TypesInv, NEW use, NEW all, Draw(use, all)
  PROVE  TypesInv' /\ Longer
<1>1. /\ todo = <<>> /\ Flush /\ use \in Uses
      /\ lazy' = [r \in Resources |->
                    IF r \in Taken(use, all) THEN lazy[r] \ Take(r, use, all) ELSE lazy[r]]
      /\ UNCHANGED <<ring, produced, mirror, staged, ack, shown, lastWorkEnd, frames, failed, crashed,
                     stalled, live, bound, deferred>>
  BY DEF Draw, CanRecord, Guest, guestVars, cursorVars, workerVars
<1>2. lazy' \in [Resources -> SUBSET Parts] /\ \A r \in Resources : lazy'[r] \subseteq lazy[r]
  <2>1. \A r \in Resources : lazy'[r] = IF r \in Taken(use, all) THEN lazy[r] \ Take(r, use, all) ELSE lazy[r]
    BY <1>1
  <2>2. \A r \in Resources : lazy'[r] \subseteq lazy[r] /\ lazy'[r] \subseteq Parts
    BY <2>1, TypesFacts
  <2>3. lazy' = [r \in Resources |-> lazy'[r]]
    BY <1>1
  <2> QED BY <2>2, <2>3
<1>3. RecordInv' /\ GuestTypes' /\ gen' \in Nat /\ gen <= gen' /\ gen' = gen + Cardinality(Fresh)
  BY <1>1, <1>2, RecordedRecords
<1>4. PICK s : /\ Lists(s, Unbinds \cup Binds \cup Datas(use, all))
               /\ todo' = Append(s, DrawCommand(use))
  BY TypesFacts, DrawLists DEF DrawCommand
<1>5. \A c \in Unbinds \cup Binds \cup Datas(use, all) : CommandOK(c, gen', lastWorkEnd')
  BY <1>1, <1>3, BatchOK, DatasOK
<1>6. CommandOK(DrawCommand(use), gen', lastWorkEnd')
  BY <1>1, DrawOK
<1>7. \A i \in 1..Len(todo') : CommandOK(todo'[i], gen', lastWorkEnd')
  BY <1>4, <1>5, <1>6, ListedOK
<1> QED BY <1>1, <1>3, <1>7, TypesCalls

LEMMA TypesPresent ==
  ASSUME IInv, IInv', TypesInv, Present
  PROVE  TypesInv' /\ Longer
<1>1. /\ todo = <<>> /\ Flush /\ todo' = Append(FlushCommands, [op |-> "PRESENT"])
      /\ UNCHANGED <<ring, produced, mirror, staged, ack, shown, lastWorkEnd, frames, failed, crashed,
                     stalled, live, bound, deferred, lazy>>
  BY DEF Present, CanRecord, Guest, guestVars, cursorVars, workerVars, Call
<1>2. lazy' \in [Resources -> SUBSET Parts] /\ \A r \in Resources : lazy'[r] \subseteq lazy[r]
  BY <1>1, TypesFacts
<1>3. RecordInv' /\ GuestTypes' /\ gen' \in Nat /\ gen <= gen' /\ gen' = gen + Cardinality(Fresh)
  BY <1>1, <1>2, RecordedRecords
<1>4. Lists(FlushCommands, Unbinds \cup Binds)
  BY TypesFacts, FlushLists
<1>5. \A c \in Unbinds \cup Binds : CommandOK(c, gen', lastWorkEnd')
  BY <1>1, <1>3, BatchOK
<1>6. CommandOK([op |-> "PRESENT"], gen', lastWorkEnd')
  BY DEF CommandOK
<1>7. \A i \in 1..Len(todo') : CommandOK(todo'[i], gen', lastWorkEnd')
  BY <1>1, <1>4, <1>5, <1>6, ListedOK
<1> QED BY <1>1, <1>3, <1>7, TypesCalls

LEMMA TypesFree ==
  ASSUME IInv, IInv', TypesInv, Free
  PROVE  TypesInv' /\ Freed
<1>1. Freed /\ Len(todo) = 1 /\ todo' = <<>>
  BY FreedFree DEF IInv
<1>2. UNCHANGED <<ring, produced, mirror, staged, ack, shown, lastWorkEnd, frames, failed, crashed,
                  stalled, live, bound, gen, rec, lazy>>
  BY DEF Free, recordVars, cursorVars, workerVars
<1>3. CommandTypes'
  BY <1>1, <1>2, CommandsFewer DEF Freed
<1>4. RecordInv' /\ GuestTypes'
  BY <1>2, RecordsKept
<1>5. MirrorTypes'
  BY <1>2 DEF TypesInv, MirrorTypes
<1>6. CountTypes'
  <2>1. CommandOK(Head(todo), gen, lastWorkEnd) /\ Head(todo).op = "FREE"
    BY <1>1 DEF Freed, TypesInv, CommandTypes
  <2>2. Head(todo).until \in Nat /\ Head(todo).until <= lastWorkEnd
    BY <2>1 DEF CommandOK
  <2>3. \A d \in deferred' : d \in deferred \/ d[2] = Head(todo).until
    BY DEF Free
  <2> QED BY <1>2, <2>2, <2>3 DEF TypesInv, CountTypes
<1> QED BY <1>1, <1>3, <1>4, <1>5, <1>6 DEF TypesInv

LEMMA TypesGiveUp ==
  ASSUME IInv, IInv', TypesInv, GiveUp
  PROVE  TypesInv'
<1>1. /\ failed' = TRUE /\ deferred' = {} /\ crashed' = WaitingForRoom /\ stalled' = TRUE
      /\ staged' = {} /\ mirror' = [r \in Resources |-> NoRec]
      /\ UNCHANGED <<produced, ack, shown, lastWorkEnd, frames, live, bound, gen, rec, lazy>>
  BY DEF GiveUp, recordVars, cursorVars
<1>2. CommandTypes'
  BY CommandsGivenUp
<1>3. RecordInv' /\ GuestTypes'
  BY <1>1, RecordsKept
<1>4. MirrorTypes'
  BY <1>1 DEF TypesInv, MirrorTypes, MirrorOK
<1>5. CountTypes'
  BY <1>1 DEF TypesInv, CountTypes, WaitingForRoom
<1> QED BY <1>2, <1>3, <1>4, <1>5 DEF TypesInv

(* A replayed command other than a draw does to the mirror what Ahead says.*)

PlainReplay ==
  \/ ReplayBind \/ ReplayUnbind \/ ReplayMemory \/ ReplayDirty \/ ReplayData
  \/ ReplayDestroy \/ ReplayPresent
Plain == {"BIND", "UNBIND", "MEM", "DIRTY", "DATA", "DESTROY", "PRESENT"}

LEMMA ReplayLives ==
  ASSUME IInv, NEW op, Replaying(op)
  PROVE  ~failed
  BY DEF Replaying, IInv, CursorInv

LEMMA MirrorUpdated ==
  ASSUME MirrorTypes, NEW c, c.r \in Resources,
         mirror' = [mirror EXCEPT ![c.r] = After(mirror[c.r], c.r, c)]
  PROVE  mirror' = [r \in Resources |-> After(mirror[r], r, c)]
<1>1. \A r \in Resources : r # c.r => After(mirror[r], r, c) = mirror[r]
  BY AfterOther DEF Touches
<1>2. mirror = [r \in Resources |-> mirror[r]]
  BY DEF MirrorTypes
<1>3. \A r \in Resources : mirror'[r] = After(mirror[r], r, c)
  BY <1>1, <1>2
<1>4. mirror' = [r \in Resources |-> mirror'[r]]
  BY <1>2
<1> QED BY <1>3, <1>4

LEMMA MirrorLeft ==
  ASSUME MirrorTypes, NEW c, c.op \in {"UNBIND", "PRESENT", "DRAW", "FREE"}, mirror' = mirror
  PROVE  mirror' = [r \in Resources |-> After(mirror[r], r, c)]
<1>1. \A r \in Resources : After(mirror[r], r, c) = mirror[r]
  BY AfterOther DEF Touches
<1> QED BY <1>1 DEF MirrorTypes

LEMMA ReplayAfter ==
  ASSUME IInv, DataInv, NEW op \in Plain, Replaying(op), PlainReplay
  PROVE  /\ mirror' = [r \in Resources |-> After(mirror[r], r, Cmd[First])]
         /\ staged' = StagedAfter(staged, Cmd[First])
<1> DEFINE c == Head(ring)
<1>1. AtFront(op) /\ c = Cmd[First] /\ c.op = op /\ First \in Way
  BY FrontReplayed DEF IInv, AtFront
<1>2. ~failed /\ TypesInv /\ MirrorTypes /\ WorldInv
  BY ReplayLives DEF DataInv, TypesInv
<1>3. CommandOK(c, gen, lastWorkEnd) /\ Finds(First)
  BY <1>1, <1>2 DEF TypesInv, CommandTypes, WorldInv
<1>4. c.op # "PRESENT" => c.r \in Resources
  BY <1>1, <1>3 DEF CommandOK, Plain
<1>5. c.op \in {"MEM", "DIRTY", "DATA"} => mirror[c.r] \in MirrorRecords /\ mirror[c.r] # NoRec
  <2>1. c.op \in {"MEM", "DIRTY", "DATA"} => At(First, c.r) # NoRec
    BY <1>1, <1>3 DEF Finds
  <2>2. c.op # "PRESENT" => At(First, c.r) = mirror[c.r]
    BY <1>4, AheadFacts DEF IInv, First
  <2> QED BY <1>2, <1>4, <2>1, <2>2 DEF MirrorTypes, MirrorOK
<1>6. CASE ReplayBind
  <2>1. c.op = "BIND" /\ staged' = staged \cup {c.r}
        /\ mirror' = IF ~c.new THEN mirror ELSE [mirror EXCEPT ![c.r] = Born(c)]
    BY <1>6 DEF ReplayBind, Replaying, Born
  <2>2. CASE c.new
    <3>1. After(mirror[c.r], c.r, c) = Born(c)
      BY <2>1, <2>2, AfterBorn
    <3>2. mirror' = [mirror EXCEPT ![c.r] = After(mirror[c.r], c.r, c)]
      BY <2>1, <2>2, <3>1
    <3> QED BY <1>1, <1>2, <1>4, <2>1, <3>2, MirrorUpdated DEF StagedAfter
  <2>3. CASE ~c.new
    <3>1. \A r \in Resources : After(mirror[r], r, c) = mirror[r]
      BY <2>1, <2>3, AfterOther
    <3> QED BY <1>1, <1>2, <2>1, <2>3, <3>1 DEF StagedAfter, MirrorTypes
  <2> QED BY <2>2, <2>3
<1>7. CASE ReplayUnbind
  <2>1. c.op = "UNBIND" /\ staged' = staged \ {c.r} /\ mirror' = mirror
    BY <1>7 DEF ReplayUnbind, Replaying
  <2> QED BY <1>1, <1>2, <2>1, MirrorLeft DEF StagedAfter
<1>8. CASE ReplayMemory
  <2>1. c.op = "MEM" /\ staged' = staged /\ mirror' = [mirror EXCEPT ![c.r].block = c.block]
    BY <1>8 DEF ReplayMemory, Replaying
  <2>2. mirror' = [mirror EXCEPT ![c.r] = Moved(mirror[c.r], c)]
    BY <2>1 DEF Moved
  <2>3. After(mirror[c.r], c.r, c) = Moved(mirror[c.r], c)
    BY <1>5, <2>1, AfterMem
  <2>5. mirror' = [mirror EXCEPT ![c.r] = After(mirror[c.r], c.r, c)]
    BY <2>2, <2>3
  <2>6. c.op # "PRESENT" /\ staged' = StagedAfter(staged, c)
    BY <2>1 DEF StagedAfter
  <2>7. mirror' = [r \in Resources |-> After(mirror[r], r, c)]
    BY <1>2, <1>4, <2>5, <2>6, MirrorUpdated
  <2> QED BY <1>1, <2>6, <2>7
<1>9. CASE ReplayDirty
  <2>1. /\ c.op = "DIRTY" /\ staged' = staged
        /\ mirror' = [mirror EXCEPT ![c.r].gen = c.gen, ![c.r].dirty = @ \cup c.parts,
                                    ![c.r].block = IF c.r \in Buffers THEN c.block ELSE @]
    BY <1>9 DEF ReplayDirty, Replaying
  <2>2. mirror' = [mirror EXCEPT ![c.r] = Dirtied(mirror[c.r], c.r, c)]
    BY <1>2, <1>4, <1>5, <2>1 DEF Dirtied, MirrorTypes
  <2>3. After(mirror[c.r], c.r, c) = Dirtied(mirror[c.r], c.r, c)
    BY <1>5, <2>1, AfterDirty
  <2>5. mirror' = [mirror EXCEPT ![c.r] = After(mirror[c.r], c.r, c)]
    BY <2>2, <2>3
  <2>6. c.op # "PRESENT" /\ staged' = StagedAfter(staged, c)
    BY <2>1 DEF StagedAfter
  <2>7. mirror' = [r \in Resources |-> After(mirror[r], r, c)]
    BY <1>2, <1>4, <2>5, <2>6, MirrorUpdated
  <2> QED BY <1>1, <2>6, <2>7
<1>10. CASE ReplayData
  <2> DEFINE old == IF mirror[c.r].shadow = NoBytes THEN Zero ELSE mirror[c.r].shadow
             new == [x \in Parts |-> IF x \in c.parts THEN c.bytes[x] ELSE old[x]]
  <2>1. /\ c.op = "DATA" /\ staged' = staged
        /\ mirror' = [mirror EXCEPT ![c.r].shadow = new,
                                    ![c.r].dirty = IF c.written THEN @ \cup c.parts ELSE @]
    BY <1>10 DEF ReplayData, Replaying
  <2>2. new = Shadowed(mirror[c.r], c)
    BY DEF Shadowed, Zero
  <2> HIDE DEF new
  <2>3. mirror' = [mirror EXCEPT ![c.r] = Given(mirror[c.r], c)]
    <3>1. Given(mirror[c.r], c) = [mirror[c.r] EXCEPT !.shadow = new,
                                     !.dirty = IF c.written THEN @ \cup c.parts ELSE @]
      BY <2>2 DEF Given, Shadowed
    <3> HIDE DEF Given
    <3> QED BY <1>2, <1>4, <1>5, <2>1, <3>1 DEF MirrorTypes
  <2>4. After(mirror[c.r], c.r, c) = Given(mirror[c.r], c)
    BY <1>5, <2>1, AfterData
  <2>5. mirror' = [mirror EXCEPT ![c.r] = After(mirror[c.r], c.r, c)]
    BY <2>3, <2>4
  <2>6. c.op # "PRESENT" /\ staged' = StagedAfter(staged, c)
    BY <2>1 DEF StagedAfter
  <2>7. mirror' = [r \in Resources |-> After(mirror[r], r, c)]
    BY <1>2, <1>4, <2>5, <2>6, MirrorUpdated
  <2> QED BY <1>1, <2>6, <2>7
<1>11. CASE ReplayDestroy
  <2>1. c.op = "DESTROY" /\ staged' = staged /\ mirror' = [mirror EXCEPT ![c.r] = NoRec]
    BY <1>11 DEF ReplayDestroy, Replaying
  <2>2. After(mirror[c.r], c.r, c) = NoRec
    BY <2>1, AfterDestroy
  <2>3. mirror' = [mirror EXCEPT ![c.r] = After(mirror[c.r], c.r, c)]
    BY <2>1, <2>2
  <2>6. c.op # "PRESENT" /\ staged' = StagedAfter(staged, c)
    BY <2>1 DEF StagedAfter
  <2>7. mirror' = [r \in Resources |-> After(mirror[r], r, c)]
    BY <1>2, <1>4, <2>3, <2>6, MirrorUpdated
  <2> QED BY <1>1, <2>6, <2>7
<1>12. CASE ReplayPresent
  <2>1. c.op = "PRESENT" /\ staged' = staged /\ mirror' = mirror
    BY <1>12 DEF ReplayPresent, Replaying
  <2> QED BY <1>1, <1>2, <2>1, MirrorLeft DEF StagedAfter
<1> QED BY <1>6, <1>7, <1>8, <1>9, <1>10, <1>11, <1>12 DEF PlainReplay

LEMMA AfterGen ==
  ASSUME NEW m, MirrorOK(m), NEW r, NEW c, NEW g, NEW n, CommandOK(c, g, n),
         m # NoRec => m.gen <= g
  PROVE  After(m, r, c) # NoRec => After(m, r, c).gen <= g
<1>1. CASE ~Touches(c, r) \/ (c.op = "BIND" /\ ~c.new)
  BY <1>1, AfterOther
<1>2. CASE c.op = "BIND" /\ c.new /\ c.r = r
  <2>1. After(m, r, c) = Born(c) /\ c.gen <= g
    BY <1>2, AfterBorn DEF CommandOK
  <2> QED BY <2>1 DEF Born
<1>3. CASE c.op = "DESTROY" /\ c.r = r
  BY <1>3, AfterDestroy
<1>4. CASE m = NoRec /\ c.op \in {"MEM", "DIRTY", "DATA"} /\ c.r = r
  BY <1>4, AfterMem, AfterDirty, AfterData
<1>5. CASE m # NoRec /\ c.op = "MEM" /\ c.r = r
  BY <1>5, AfterMem, MovedTyped DEF MirrorOK
<1>6. CASE m # NoRec /\ c.op = "DIRTY" /\ c.r = r
  <2>1. After(m, r, c) = Dirtied(m, r, c) /\ Dirtied(m, r, c).gen = c.gen
    BY <1>6, AfterDirty, DirtiedTyped DEF MirrorOK
  <2> QED BY <1>6, <2>1 DEF CommandOK
<1>7. CASE m # NoRec /\ c.op = "DATA" /\ c.r = r
  <2>1. After(m, r, c) = Given(m, c)
    BY <1>7, AfterData
  <2>2. Given(m, c).gen = m.gen
    <3>1. m \in MirrorRecords
      BY <1>7 DEF MirrorOK
    <3> QED BY <1>7, <3>1, GivenTyped
  <2> QED BY <1>7, <2>1, <2>2
<1> QED BY <1>1, <1>2, <1>3, <1>4, <1>5, <1>6, <1>7 DEF Touches

LEMMA TypesReplay ==
  ASSUME IInv, IInv', DataInv, NEW op \in Plain, Replaying(op), PlainReplay
  PROVE  TypesInv' /\ Shorter
<1>1. /\ mirror' = [r \in Resources |-> After(mirror[r], r, Cmd[First])]
      /\ staged' = StagedAfter(staged, Cmd[First])
  BY ReplayAfter
<1>2. AtFront(op) /\ Cmd[First].op = op /\ First \in Way
  BY FrontReplayed DEF IInv, AtFront
<1>3. Shorter
  BY <1>1, <1>2, ShorterReplay DEF IInv
<1>4. /\ TypesInv /\ MirrorTypes /\ ~failed
      /\ UNCHANGED <<rec, live, lazy, bound, gen, lastWorkEnd, produced, deferred, frames, failed,
                     crashed, stalled, ack>>
  BY ReplayLives
     DEF DataInv, TypesInv, Replaying, PlainReplay, guestVars, recordVars, emulatorVars, cursorVars,
         ReplayBind, ReplayUnbind, ReplayMemory, ReplayDirty, ReplayData, ReplayDestroy, ReplayPresent
<1>5. CommandOK(Cmd[First], gen, lastWorkEnd)
  BY <1>2, <1>4 DEF TypesInv, CommandTypes
<1>6. CommandTypes'
  BY <1>3, <1>4, CommandsFewer DEF Shorter
<1>7. RecordInv' /\ GuestTypes'
  BY <1>4, RecordsKept
<1>8. MirrorTypes'
  <2>1. mirror' = [r \in Resources |-> mirror'[r]]
    BY <1>1
  <2>2. ASSUME NEW r \in Resources
        PROVE  MirrorOK(mirror'[r]) /\ (mirror'[r] # NoRec => mirror'[r].gen <= gen)
    <3>1. mirror'[r] = After(mirror[r], r, Cmd[First])
      BY <1>1
    <3>2. MirrorOK(mirror[r]) /\ (mirror[r] # NoRec => mirror[r].gen <= gen)
      BY <1>4 DEF MirrorTypes
    <3> QED BY <1>5, <3>1, <3>2, AfterTyped, AfterGen
  <2>3. staged' \subseteq Resources
    BY <1>1, <1>4, <1>5 DEF StagedAfter, MirrorTypes, CommandOK
  <2> QED BY <1>4, <2>1, <2>2, <2>3 DEF MirrorTypes
<1>9. CountTypes'
  <2>1. shown' <= frames'
    <3>1. FrameInv' /\ failed' = FALSE
      BY <1>4 DEF IInv, TypesInv, CountTypes
    <3>2. Cardinality(RingOps("PRESENT")') \in Nat
      <4>1. IsSequence(ring')
        BY DEF IInv, CursorInv
      <4>2. RingOps("PRESENT")' = PresentsIn(ring')
        BY DEF RingOps, PresentsIn
      <4> QED BY <4>1, <4>2, PresentsFinite
    <3> QED BY <3>1, <3>2 DEF FrameInv
  <2> QED BY <1>4, <2>1 DEF TypesInv, CountTypes
<1> QED BY <1>3, <1>6, <1>7, <1>8, <1>9 DEF TypesInv

LEMMA SourceTyped ==
  ASSUME MemoryTypes, NEW m \in MirrorRecords
  PROVE  /\ \A x \in Parts : Source(m)[x] \in 0..1 \cup {NoBytes}
         /\ m.shadow # NoBytes => Source(m) = m.shadow
         /\ m.shadow = NoBytes /\ m.block = NoBlock => \A x \in Parts : Source(m)[x] = 0
         /\ m.shadow = NoBytes /\ m.block # NoBlock /\ mem[m.block] # NoBytes =>
              Source(m) = mem[m.block]
<1>1. m.shadow \in Contents \cup {NoBytes} /\ m.block \in Blocks \cup {NoBlock}
  BY DEF MirrorRecords
<1>2. m.block # NoBlock => mem[m.block] \in Contents \cup {NoBytes}
  BY <1>1 DEF MemoryTypes
<1>3. CASE m.shadow # NoBytes
  BY <1>1, <1>3 DEF Source, Contents
<1>4. CASE m.shadow = NoBytes /\ m.block = NoBlock
  BY <1>4 DEF Source, Zero
<1>5. CASE m.shadow = NoBytes /\ m.block # NoBlock /\ mem[m.block] = NoBytes
  BY <1>5 DEF Source, Garbage
<1>6. CASE m.shadow = NoBytes /\ m.block # NoBlock /\ mem[m.block] # NoBytes
  BY <1>2, <1>6 DEF Source, Contents
<1> QED BY <1>3, <1>4, <1>5, <1>6

LEMMA UploadedTyped ==
  ASSUME MemoryTypes, NEW m \in MirrorRecords
  PROVE  /\ Uploaded(m) \in MirrorRecords /\ Uploaded(m) # NoRec
         /\ Uploaded(m).block = m.block /\ Uploaded(m).slot = m.slot /\ Uploaded(m).gen = m.gen
         /\ Uploaded(m).acked = m.gen /\ Uploaded(m).dirty = {} /\ Uploaded(m).shadow = m.shadow
         /\ Uploaded(m).gpu # NoBytes
         /\ \A x \in Parts :
              Uploaded(m).gpu[x] = IF m.gpu = NoBytes \/ x \in m.dirty THEN Source(m)[x] ELSE m.gpu[x]
<1> DEFINE g == [x \in Parts |-> IF m.gpu = NoBytes \/ x \in m.dirty THEN Source(m)[x] ELSE m.gpu[x]]
<1>1. \A x \in Parts : Source(m)[x] \in 0..1 \cup {NoBytes}
  BY SourceTyped
<1>2. m.gpu = NoBytes \/ m.gpu \in [Parts -> 0..1 \cup {NoBytes}]
  BY DEF MirrorRecords
<1>3. g \in [Parts -> 0..1 \cup {NoBytes}]
  BY <1>1, <1>2
<1>4. g # NoBytes
  BY <1>3, RenderLinkAssumption
<1>5. \A x \in Parts : g[x] = IF m.gpu = NoBytes \/ x \in m.dirty THEN Source(m)[x] ELSE m.gpu[x]
  OBVIOUS
<1>6. Uploaded(m) = [m EXCEPT !.gpu = g, !.dirty = {}, !.acked = m.gen]
  BY DEF Uploaded
<1> HIDE DEF g
<1>7. m.gen \in Int
  BY DEF MirrorRecords
<1>8. Uploaded(m) \in MirrorRecords
  <2> HIDE DEF Uploaded
  <2> QED BY <1>3, <1>6, <1>7 DEF MirrorRecords
<1>9. /\ Uploaded(m).block = m.block /\ Uploaded(m).slot = m.slot /\ Uploaded(m).gen = m.gen
      /\ Uploaded(m).acked = m.gen /\ Uploaded(m).dirty = {} /\ Uploaded(m).shadow = m.shadow
      /\ Uploaded(m).gpu = g
  <2> HIDE DEF Uploaded
  <2> QED BY <1>6 DEF MirrorRecords
<1> QED BY <1>4, <1>5, <1>8, <1>9, RenderLinkAssumption

(* What a draw reads that is in the mirror                                 *)
ReadNow ==
  {r \in staged \cap DOMAIN Head(ring).use : Head(ring).use[r] # {} /\ Known(r)}
FreshNow == {r \in ReadNow : mirror[r].acked # mirror[r].gen}

LEMMA ReplayDrawMeans ==
  ASSUME IInv, DataInv, ReplayDraw
  PROVE  /\ Replaying("DRAW") /\ AtFront("DRAW") /\ ~failed /\ staged' = staged
         /\ ReadNow \subseteq Resources /\ FreshNow \subseteq ReadNow
         /\ \A r \in ReadNow : mirror[r] \in MirrorRecords
         /\ mirror' = [r \in Resources |-> IF r \in ReadNow THEN Uploaded(mirror[r]) ELSE mirror[r]]
         /\ ack' = [s \in Slots |->
                      IF \E r \in FreshNow : mirror[r].slot = s
                        THEN mirror[CHOOSE r \in FreshNow : mirror[r].slot = s].gen ELSE ack[s]]
         /\ picture' = [r \in staged |->
                          [x \in IF r \in DOMAIN Head(ring).use THEN Head(ring).use[r] ELSE {} |->
                             IF Known(r) THEN mirror'[r].gpu[x] ELSE NoBytes]]
<1>1. Replaying("DRAW") /\ staged' = staged
  BY DEF ReplayDraw
<1>2. /\ mirror' = [r \in Resources |-> IF r \in ReadNow THEN Uploaded(mirror[r]) ELSE mirror[r]]
      /\ ack' = [s \in Slots |->
                      IF \E r \in FreshNow : mirror[r].slot = s
                        THEN mirror[CHOOSE r \in FreshNow : mirror[r].slot = s].gen ELSE ack[s]]
      /\ picture' = [r \in staged |->
                          [x \in IF r \in DOMAIN Head(ring).use THEN Head(ring).use[r] ELSE {} |->
                             IF Known(r) THEN mirror'[r].gpu[x] ELSE NoBytes]]
  BY DEF ReplayDraw, ReadNow, FreshNow
<1>3. AtFront("DRAW") /\ ~failed
  BY <1>1, FrontReplayed, ReplayLives DEF IInv
<1>4. ReadNow \subseteq Resources /\ FreshNow \subseteq ReadNow
  BY DEF ReadNow, FreshNow, DataInv, TypesInv, MirrorTypes
<1>5. \A r \in ReadNow : mirror[r] \in MirrorRecords
  BY <1>4 DEF ReadNow, Known, DataInv, TypesInv, MirrorTypes, MirrorOK
<1> QED BY <1>1, <1>2, <1>3, <1>4, <1>5

LEMMA TypesReplayDraw ==
  ASSUME IInv, IInv', DataInv, ReplayDraw
  PROVE  TypesInv'
<1>1. /\ TypesInv /\ MirrorTypes /\ MemoryTypes
      /\ UNCHANGED <<rec, live, lazy, bound, gen, lastWorkEnd, produced, deferred, frames, failed,
                     crashed, stalled, shown>>
  BY DEF DataInv, TypesInv, IInv, MemoryInv, Replaying, guestVars, recordVars, emulatorVars,
         cursorVars, ReplayDraw
<1>2. gen \in Nat
  BY <1>1, TypesFacts
<1>3. CommandTypes'
  BY <1>1, ReplayDrawMeans, CommandsFewer DEF AtFront
<1>4. RecordInv' /\ GuestTypes'
  BY <1>1, RecordsKept
<1>5. ASSUME NEW r \in Resources
      PROVE  MirrorOK(mirror'[r]) /\ (mirror'[r] # NoRec => mirror'[r].gen <= gen)
  <2>1. MirrorOK(mirror[r]) /\ (mirror[r] # NoRec => mirror[r].gen <= gen)
    BY <1>1 DEF MirrorTypes
  <2>2. CASE r \in ReadNow
    <3>1. mirror'[r] = Uploaded(mirror[r]) /\ mirror[r] \in MirrorRecords
      BY <2>2, ReplayDrawMeans
    <3>2. Uploaded(mirror[r]) \in MirrorRecords /\ Uploaded(mirror[r]).gen = mirror[r].gen
      BY <1>1, <3>1, UploadedTyped
    <3> QED BY <2>1, <3>1, <3>2, RenderLinkAssumption DEF MirrorOK
  <2>3. CASE r \notin ReadNow
    <3>1. mirror'[r] = mirror[r]
      BY <2>3, ReplayDrawMeans
    <3> QED BY <2>1, <3>1
  <2> QED BY <2>2, <2>3
<1>6. ASSUME NEW s \in Slots
      PROVE  ack'[s] \in Int /\ -1 <= ack'[s] /\ ack'[s] <= gen
  <2>1. ack[s] \in Int /\ -1 <= ack[s] /\ ack[s] <= gen
    BY <1>1 DEF MirrorTypes
  <2>2. CASE \E r \in FreshNow : mirror[r].slot = s
    <3>1. PICK r \in FreshNow : ack'[s] = mirror[r].gen
      BY <2>2, ReplayDrawMeans
    <3>2. r \in Resources /\ mirror[r] \in MirrorRecords /\ mirror[r] # NoRec
      BY <3>1, ReplayDrawMeans, RenderLinkAssumption
    <3>3. mirror[r].gen \in Nat /\ mirror[r].gen <= gen
      BY <1>1, <3>2 DEF MirrorTypes, MirrorRecords
    <3> QED BY <1>2, <3>1, <3>3
  <2>3. CASE ~\E r \in FreshNow : mirror[r].slot = s
    <3>1. ack'[s] = ack[s]
      BY <2>3, ReplayDrawMeans
    <3> QED BY <2>1, <3>1
  <2> QED BY <2>2, <2>3
<1>7. MirrorTypes'
  <2>1. mirror' = [r \in Resources |-> mirror'[r]]
    BY ReplayDrawMeans
  <2>2. ack' = [s \in Slots |-> ack'[s]]
    BY ReplayDrawMeans
  <2>3. ack' \in [Slots -> Int]
    BY <1>6, <2>2
  <2> QED BY <1>1, <1>5, <1>6, <2>1, <2>3, ReplayDrawMeans DEF MirrorTypes
<1>8. CountTypes'
  BY <1>1 DEF TypesInv, CountTypes
<1> QED BY <1>3, <1>4, <1>7, <1>8 DEF TypesInv

----------------------------------------------------------------------------
(* Steps that change nothing a command on its way depends on: commands are *)
(* put, positions published, releases passed carried out, waits begun and  *)
(* ended.                                                                  *)

NewFence ==
  \E r \in Resources, S \in SUBSET Parts :
    /\ wait' = [kind |-> "fence", until |-> LastRefOf(r), r |-> r, parts |-> S]
    /\ rec[r] # NoRec /\ ~rec[r].eager /\ (r \in Surfaces => S = Parts)
    /\ locked[r] = {} /\ todo = <<>>

Quietly ==
  /\ Steady
  /\ UNCHANGED <<addr, live, locked, bound, rec, lazy, sync, gen, failed, ack>>
  /\ UNCHANGED <<mem, deferred>> \/ ReleasePassed
  /\ lastWorkEnd <= lastWorkEnd' /\ (produced' # produced => produced' = produced + 1)
  /\ \A p \in Way : Cmd[p].op = "DRAW" /\ p = produced' /\ produced' # produced => p <= lastWorkEnd'
  /\ wait' = wait \/ wait' = NoWait \/ wait'.kind = "frame" \/ NewFence
  /\ FreeInv => FreeInv'

QuietGuest(r) ==
  \/ LockFenced(r)
  \/ \E S \in (SUBSET Parts) \ {{}}, b \in BOOLEAN : LockBuffer(r, S, b) /\ StartFence(r, S)
QuietStep ==
  \/ UNCHANGED vars \/ AfterSlice \/ PutState \/ PutDraw \/ PutPresent \/ EndFrame \/ RingFull
  \/ PublishTail \/ Stall

(* A release waits for its destruction to be put: what is published is not *)
(* beyond.                                                                 *)
LEMMA FreePublished ==
  ASSUME IInv, TypesInv, Steady, produced' = produced,
         published' = published \/ (published' = produced /\ (todo = <<>> \/ Head(todo).op # "FREE"))
  PROVE  FreeInv => FreeInv'
<1> SUFFICES ASSUME FreeInv, NEW p \in Way, Cmd[p].op = "FREE"
             PROVE  published' < p - 1 /\ Is(p - 1, "DESTROY", Cmd[p].r)
  BY DEF FreeInv, Steady, Is
<1>1. published < p - 1 /\ Is(p - 1, "DESTROY", Cmd[p].r)
  BY DEF FreeInv
<1>2. p > produced /\ produced \in Nat /\ p \in Int /\ Len(todo) \in Nat /\ p <= produced + Len(todo)
  BY SMTT(30), WayFacts DEF TypesInv, CommandTypes, IInv, End
<1>3. todo # <<>>
  BY <1>2, EmptyIsSequence
<1>4. CASE published' = produced /\ Head(todo).op # "FREE"
  <2>1. p # produced + 1
    <3>1. ASSUME p = produced + 1
          PROVE  Cmd[p] = todo[1]
      BY <3>1, <1>2 DEF Cmd
    <3>2. Head(todo) = todo[1]
      BY <1>3, TailSequence DEF IInv, ShapeInv
    <3> QED BY <3>1, <3>2, <1>4
  <2> QED BY <1>1, <1>2, <1>4, <2>1
<1> QED BY <1>1, <1>3, <1>4

LEMMA FreePut ==
  ASSUME IInv, TypesInv, Steady, PutNext,
         published' = published \/ (published' = produced + 1 /\ Head(todo).op # "DESTROY")
  PROVE  FreeInv => FreeInv'
<1> SUFFICES ASSUME FreeInv, NEW p \in Way, Cmd[p].op = "FREE"
             PROVE  published' < p - 1 /\ Is(p - 1, "DESTROY", Cmd[p].r)
  BY DEF FreeInv, Steady, Is
<1>1. published < p - 1 /\ Is(p - 1, "DESTROY", Cmd[p].r)
  BY DEF FreeInv
<1>2. p > produced /\ produced \in Nat /\ p \in Int /\ Len(todo) \in Nat /\ p <= produced + Len(todo)
  BY WayFacts DEF TypesInv, CommandTypes, IInv, End
<1>3. todo # <<>> /\ Head(todo).op # "FREE" /\ Head(todo) = todo[1]
  BY TailSequence DEF IInv, ShapeInv, PutNext, Putting
<1>4. produced + 1 \in Way /\ Cmd[produced + 1] = todo[1]
  <2>1. Consumed \in Int /\ Consumed <= produced /\ Way = (Consumed + 1)..(produced + Len(todo))
    BY WayFacts DEF IInv, Way
  <2>2. produced + 1 \in Way
    BY <1>2, <2>1
  <2> QED BY <1>2, <2>2 DEF Cmd
<1>5. p # produced + 1
  BY <1>3, <1>4
<1>6. CASE published' = produced + 1 /\ Head(todo).op # "DESTROY"
  <2>1. p - 1 # produced + 1
    BY <1>1, <1>3, <1>4, <1>6 DEF Is
  <2> QED BY <1>1, <1>2, <1>5, <1>6, <2>1
<1> QED BY <1>1, <1>6

LEMMA QuietUnput ==
  ASSUME IInv, IInv', TypesInv,
         UNCHANGED <<ring, todo, produced, mirror, staged, addr, live, locked, bound, rec, lazy, sync,
                     gen, failed, ack, lastWorkEnd, shown, frames, crashed>>,
         stalled' \in BOOLEAN, UNCHANGED <<mem, deferred>> \/ ReleasePassed,
         wait' = wait \/ wait' = NoWait \/ wait'.kind = "frame" \/ NewFence,
         published' = published \/ (published' = produced /\ (todo = <<>> \/ Head(todo).op # "FREE"))
  PROVE  Quietly /\ TypesInv'
<1>1. Steady
  BY SteadyKept
<1>2. deferred' \subseteq deferred
  BY ReleasedTypes
<1>3. TypesInv'
  BY <1>2, TypesFacts, TypesSteady
<1>4. lastWorkEnd <= lastWorkEnd' /\ produced' = produced
  BY TypesFacts
<1>5. FreeInv => FreeInv'
  BY <1>1, <1>4, FreePublished
<1> QED BY <1>1, <1>3, <1>4, <1>5 DEF Quietly

LEMMA QuietFence ==
  ASSUME IInv, IInv', TypesInv, NEW r \in Resources, NEW S \in SUBSET Parts, StartFence(r, S),
         rec[r] # NoRec, ~rec[r].eager, r \in Surfaces => S = Parts, locked[r] = {}, todo = <<>>
  PROVE  Quietly /\ TypesInv'
<1>1. /\ UNCHANGED <<ring, todo, produced, mirror, staged, addr, live, locked, bound, rec, lazy, sync,
                     gen, failed, ack, lastWorkEnd, shown, frames, crashed, stalled>>
      /\ ReleasePassed /\ published' = produced
      /\ wait' = [kind |-> "fence", until |-> LastRefOf(r), r |-> r, parts |-> S]
  BY DEF StartFence, Publish, recordVars, workerVars
<1>2. stalled' \in BOOLEAN
  BY <1>1 DEF TypesInv, CountTypes
<1>3. NewFence
  BY <1>1 DEF NewFence
<1> QED BY <1>1, <1>2, <1>3, QuietUnput

LEMMA QuietGuestStep ==
  ASSUME IInv, IInv', TypesInv, NEW r \in Resources, QuietGuest(r)
  PROVE  Quietly /\ TypesInv'
<1>1. CASE LockFenced(r)
  <2>1. r \in Surfaces /\ rec[r] # NoRec /\ StartFence(r, Parts) /\ locked[r] = {} /\ todo = <<>>
    BY <1>1 DEF LockFenced, InUse, Recording, Unlocked, Guest
  <2>2. ~rec[r].eager
    <3>1. rec[r].eager => r \in Buffers
      BY <2>1 DEF TypesInv, RecordInv
    <3> QED BY <2>1, <3>1, RenderLinkAssumption
  <2>3. Parts \in SUBSET Parts
    OBVIOUS
  <2> QED BY <2>1, <2>2, <2>3, QuietFence
<1>2. ASSUME NEW S \in (SUBSET Parts) \ {{}}, NEW b \in BOOLEAN, LockBuffer(r, S, b), StartFence(r, S)
      PROVE  Quietly /\ TypesInv'
  <2>1. r \in Buffers /\ rec[r] # NoRec /\ ~rec[r].eager
    <3>1. CASE Recording(r) /\ ~rec[r].eager
      BY <1>2, <3>1 DEF LockBuffer, Recording
    <3>2. CASE ~(Recording(r) /\ ~rec[r].eager)
      <4>1. locked' = [locked EXCEPT ![r] = S] /\ locked' = locked
        BY <1>2, <3>2 DEF LockBuffer, StartFence
      <4>2. locked[r] = S /\ locked[r] = {}
        BY <1>2, <4>1, TypesFacts DEF LockBuffer, Unlocked
      <4> QED BY <4>2
    <3> QED BY <3>1, <3>2
  <2>2. r \notin Surfaces /\ locked[r] = {} /\ todo = <<>>
    BY <1>2, <2>1, RenderLinkAssumption DEF LockBuffer, Unlocked, Guest
  <2> QED BY <1>2, <2>1, <2>2, QuietFence
<1> QED BY <1>1, <1>2 DEF QuietGuest

LEMMA QuietPut ==
  ASSUME IInv, IInv', TypesInv, PutState \/ PutDraw \/ PutPresent
  PROVE  Quietly /\ TypesInv'
<1>1. PutNext /\ UNCHANGED <<addr, live, locked, bound, rec, lazy, sync, gen, failed, ack>>
  BY DEF PutState, PutDraw, PutPresent, PutNext, recordVars, workerVars
<1>2. /\ UNCHANGED <<mem, deferred>> \/ ReleasePassed
      /\ wait' = wait \/ wait'.kind = "frame"
      /\ lastWorkEnd' \in {lastWorkEnd, produced + 1}
      /\ produced' = produced + 1
      /\ ring'[Len(ring')].op = "DRAW" => lastWorkEnd' = produced'
  BY DEF PutState, PutDraw, PutPresent, PutNext
<1>3. Steady
  BY <1>1, SteadyPut DEF IInv
<1>4. deferred' \subseteq deferred
  BY <1>2, ReleasedTypes
<1>5. frames <= frames'
  BY DEF PutState, PutDraw, PutPresent, IInv, FrameInv
<1>6. TypesInv'
  BY <1>1, <1>2, <1>4, <1>5, TypesPut
<1>7. lastWorkEnd \in Nat /\ produced \in Nat /\ lastWorkEnd <= produced
  BY TypesFacts
<1>8. lastWorkEnd <= lastWorkEnd'
  BY <1>2, <1>7
<1>9. ASSUME NEW p \in Way, Cmd[p].op = "DRAW", p = produced'
      PROVE  p <= lastWorkEnd'
  <2>1. p = produced + 1 /\ p - produced = 1 /\ ~(p <= produced)
    BY <1>2, <1>7, <1>9
  <2>2. Cmd[p] = todo[1]
    BY <2>1 DEF Cmd
  <2>3. todo # <<>> /\ IsSequence(todo) /\ IsSequence(ring) /\ ring' = Append(ring, Head(todo))
    BY <1>1 DEF PutNext, Putting, IInv, ShapeInv, CursorInv
  <2>4. Head(todo) = todo[1]
    BY <2>3, TailSequence
  <2>5. ring'[Len(ring')] = Head(todo)
    BY <2>3, AppendSequence
  <2> QED BY <1>2, <1>7, <1>9, <2>2, <2>4, <2>5
<1>10. wait' = wait \/ wait' = NoWait \/ wait'.kind = "frame" \/ NewFence
  BY <1>2
<1>11. FreeInv => FreeInv'
  <2>1. ring' = Append(ring, Head(todo)) /\ IsSequence(ring)
    BY <1>1 DEF PutNext, IInv, CursorInv
  <2>2. ring'[Len(ring')] = Head(todo)
    BY <2>1, AppendSequence
  <2>3. published' = published \/ (published' = produced + 1 /\ Head(todo).op # "DESTROY")
    BY <2>2 DEF PutState, PutDraw, PutPresent
  <2> QED BY <1>1, <1>3, <2>3, FreePut
<1> QED BY <1>1, <1>2, <1>3, <1>6, <1>8, <1>9, <1>10, <1>11 DEF Quietly

LEMMA QuietSteps ==
  ASSUME IInv, IInv', TypesInv, QuietStep
  PROVE  Quietly /\ TypesInv'
<1> USE DEF vars, guestVars, recordVars, cursorVars, emulatorVars, workerVars
<1>0. stalled \in BOOLEAN
  BY DEF TypesInv, CountTypes
<1>1. CASE UNCHANGED vars
  <2>1. UNCHANGED <<ring, todo, produced, mirror, staged, addr, live, locked, bound, rec, lazy, sync,
                     gen, failed, ack, lastWorkEnd, shown, frames, crashed, stalled, mem, deferred, wait>>
        /\ published' = published
    BY <1>1
  <2> QED BY <1>0, <2>1, QuietUnput
<1>2. CASE AfterSlice
  <2>1. UNCHANGED <<ring, todo, produced, mirror, staged, addr, live, locked, bound, rec, lazy, sync,
                     gen, failed, ack, lastWorkEnd, shown, frames, crashed, stalled, wait>>
        /\ ReleasePassed /\ published' = produced /\ todo = <<>>
    BY <1>2 DEF AfterSlice, Publish, Guest
  <2> QED BY <1>0, <2>1, QuietUnput
<1>3. CASE RingFull
  <2>1. UNCHANGED <<ring, todo, produced, mirror, staged, addr, live, locked, bound, rec, lazy, sync,
                     gen, failed, ack, lastWorkEnd, shown, frames, crashed, stalled, wait>>
        /\ ReleasePassed /\ published' = produced /\ Head(todo).op # "FREE"
    BY <1>3 DEF RingFull, Publish, Putting
  <2> QED BY <1>0, <2>1, QuietUnput
<1>4. CASE EndFrame
  <2>1. UNCHANGED <<ring, todo, produced, mirror, staged, addr, live, locked, bound, rec, lazy, sync,
                     gen, failed, ack, lastWorkEnd, shown, frames, crashed, stalled, mem, deferred>>
        /\ wait' = NoWait /\ published' = published
    BY <1>4 DEF EndFrame
  <2> QED BY <1>0, <2>1, QuietUnput
<1>5. CASE PublishTail
  <2>1. UNCHANGED <<ring, todo, produced, mirror, staged, addr, live, locked, bound, rec, lazy, sync,
                     gen, failed, ack, lastWorkEnd, shown, frames, crashed, stalled, mem, deferred, wait>>
        /\ published' = published
    BY <1>5 DEF PublishTail
  <2> QED BY <1>0, <2>1, QuietUnput
<1>6. CASE Stall
  <2>1. UNCHANGED <<ring, todo, produced, mirror, staged, addr, live, locked, bound, rec, lazy, sync,
                     gen, failed, ack, lastWorkEnd, shown, frames, crashed, mem, deferred, wait>>
        /\ stalled' = TRUE /\ published' = published
    BY <1>6 DEF Stall
  <2> QED BY <2>1, QuietUnput
<1> QED BY <1>1, <1>2, <1>3, <1>4, <1>5, <1>6, QuietPut DEF QuietStep

(* The other calls that add no command                                     *)
LEMMA TypesCreate ==
  ASSUME IInv, IInv', TypesInv, NEW r \in Resources, Create(r)
  PROVE  TypesInv' /\ Steady
<1>1. /\ UNCHANGED <<ring, todo, produced, rec, lazy, mirror, staged, ack, gen, shown, lastWorkEnd,
                     frames, failed, crashed, stalled, bound, deferred>>
      /\ live' = live \cup {r}
  BY DEF Create, recordVars, cursorVars, emulatorVars, workerVars
<1>2. bound' \subseteq live' /\ stalled' \in BOOLEAN
  BY <1>1 DEF TypesInv, GuestTypes, CountTypes
<1> QED BY <1>1, <1>2, TypesSteady, SteadyKept

BufferLocked(r) ==
  \E S \in (SUBSET Parts) \ {{}}, b \in BOOLEAN : LockBuffer(r, S, b) /\ ~StartFence(r, S)
Written(r) == \E x \in Parts : Write(r, x)

LEMMA TypesLocked ==
  ASSUME IInv, IInv', TypesInv, NEW r \in Resources, BufferLocked(r) \/ Written(r)
  PROVE  TypesInv' /\ Steady
<1>1. UNCHANGED <<ring, todo, produced, rec, lazy, mirror, staged, ack, gen, shown, lastWorkEnd,
                  frames, failed, crashed, stalled, bound, deferred, live>>
  <2>1. ASSUME NEW S, NEW b, LockBuffer(r, S, b), ~StartFence(r, S)
        PROVE  UNCHANGED <<ring, todo, produced, rec, lazy, mirror, staged, ack, gen, shown,
                           lastWorkEnd, frames, failed, crashed, stalled, bound, deferred, live>>
    BY <2>1 DEF LockBuffer, recordVars, cursorVars, emulatorVars, workerVars
  <2>2. ASSUME NEW x, Write(r, x)
        PROVE  UNCHANGED <<ring, todo, produced, rec, lazy, mirror, staged, ack, gen, shown,
                           lastWorkEnd, frames, failed, crashed, stalled, bound, deferred, live>>
    BY <2>2 DEF Write, recordVars, cursorVars, emulatorVars, workerVars
  <2> QED BY <2>1, <2>2 DEF BufferLocked, Written
<1>2. bound' \subseteq live' /\ stalled' \in BOOLEAN
  BY <1>1 DEF TypesInv, GuestTypes, CountTypes
<1> QED BY <1>1, <1>2, TypesSteady, SteadyKept

LEMMA TypesBind ==
  ASSUME IInv, IInv', TypesInv, NEW r \in Resources, Bind(r)
  PROVE  TypesInv' /\ Steady
<1>1. /\ UNCHANGED <<ring, todo, produced, rec, lazy, mirror, staged, ack, gen, shown, lastWorkEnd,
                     frames, failed, crashed, stalled, live, deferred>>
      /\ r \in live /\ bound' \in {bound \ {r}, bound \cup {r}}
  BY DEF Bind, recordVars, cursorVars, emulatorVars, workerVars
<1>2. bound' \subseteq live' /\ stalled' \in BOOLEAN
  BY <1>1 DEF TypesInv, GuestTypes, CountTypes
<1> QED BY <1>1, <1>2, TypesSteady, SteadyKept

(* The kinds of steps                                                      *)
SetsUp(r) == Create(r) \/ BufferLocked(r) \/ Written(r) \/ Bind(r)
Commands(r) == LockCopied(r) \/ LockFree(r) \/ Unlock(r) \/ Destroy(r)
Draws == \E use, all : Draw(use, all)
Replays == \E op \in Plain : Replaying(op) /\ PlainReplay

StepKinds ==
  \/ QuietStep
  \/ \E r \in Resources : QuietGuest(r) \/ SetsUp(r) \/ Commands(r)
  \/ EndFence \/ Draws \/ Present \/ Free \/ GiveUp \/ Replays \/ ReplayDraw

LEMMA StepsAre ==
  ASSUME [Next]_vars
  PROVE  StepKinds
<1>1. CASE UNCHANGED vars
  BY <1>1 DEF StepKinds, QuietStep
<1>2. ASSUME NEW r \in Resources, GuestCall(r)
      PROVE  StepKinds
  <2>1. QuietGuest(r) \/ SetsUp(r) \/ Commands(r)
    BY <1>2 DEF GuestCall, QuietGuest, SetsUp, Commands, BufferLocked, Written
  <2> QED BY <2>1 DEF StepKinds
<1>3. CASE EmulatorStep
  <2>1. Fail \/ WorkerError => GiveUp
    BY DEF Fail, WorkerError
  <2>2. (\E use \in [bound -> SUBSET Parts], all \in BOOLEAN : Draw(use, all)) => Draws
    BY DEF Draws
  <2> QED BY <1>3, <2>1, <2>2 DEF EmulatorStep, StepKinds, QuietStep
<1>4. CASE Replay
  <2>1. CASE ReplayDraw
    BY <2>1 DEF StepKinds
  <2>2. CASE PlainReplay
    <3>1. \E op \in Plain : Replaying(op)
      BY <2>2 DEF PlainReplay, Plain, ReplayBind, ReplayUnbind, ReplayMemory, ReplayDirty,
                  ReplayData, ReplayDestroy, ReplayPresent
    <3> QED BY <2>2, <3>1 DEF StepKinds, Replays
  <2> QED BY <1>4, <2>1, <2>2 DEF Replay, PlainReplay
<1>5. CASE PublishTail \/ Stall
  BY <1>5 DEF StepKinds, QuietStep
<1> QED BY <1>1, <1>2, <1>3, <1>4, <1>5 DEF Next

LEMMA TypesStep ==
  ASSUME IInv, IInv', DataInv, [Next]_vars
  PROVE  TypesInv'
<1>1. TypesInv
  BY DEF DataInv
<1>2. CASE QuietStep
  BY <1>1, <1>2, QuietSteps
<1>3. ASSUME NEW r \in Resources, QuietGuest(r) \/ SetsUp(r) \/ Commands(r)
      PROVE  TypesInv'
  BY <1>1, <1>3, QuietGuestStep, TypesCreate, TypesLocked, TypesBind, TypesLockCopied,
     TypesLockFree, TypesUnlock, TypesDestroy DEF SetsUp, Commands
<1>4. CASE EndFence
  BY <1>4, TypesEndFence
<1>5. CASE Draws \/ Present
  BY <1>1, <1>5, TypesDraw, TypesPresent DEF Draws
<1>6. CASE Free
  BY <1>1, <1>6, TypesFree
<1>7. CASE GiveUp
  BY <1>1, <1>7, TypesGiveUp
<1>8. CASE Replays
  BY <1>8, TypesReplay DEF Replays
<1>9. CASE ReplayDraw
  BY <1>9, TypesReplayDraw
<1> QED BY <1>2, <1>3, <1>4, <1>5, <1>6, <1>7, <1>8, <1>9, StepsAre DEF StepKinds

----------------------------------------------------------------------------
(* What the calls do while the worker lives.  A call that adds no command: *)
Local ==
  /\ Steady /\ UNCHANGED <<rec, ack, gen, sync, lastWorkEnd, produced, published, todo, deferred,
                           failed>>
  /\ wait' = NoWait

(* ... creates or binds,                                                   *)
Idle == UNCHANGED <<mem, addr, locked, lazy, wait>>
(* ... has memory allocated for a resource not recorded, maybe locked then,*)
Gains(r) ==
  /\ rec[r] = NoRec
  /\ \E b \in FreeBlocks : mem' = [mem EXCEPT ![b] = Zero] /\ addr' = [addr EXCEPT ![r] = b]
  /\ \A q \in Resources : q # r => locked'[q] = locked[q]
  /\ UNCHANGED <<lazy, wait>>
(* ... locks what may be written,                                          *)
MayLock(r, S) ==
  \/ rec[r] = NoRec \/ rec[r].eager \/ LastRefOf(r) <= tail \/ Acknowledged(r)
  \/ wait # NoWait /\ wait.kind = "fence" /\ wait.r = r /\ wait.until <= tail
  \/ PendingParts(r) \cap S = {}
Locks(r) ==
  /\ r \in live /\ locked[r] = {} /\ todo = <<>>
  /\ UNCHANGED <<mem, addr, lazy>> /\ wait' \in {wait, NoWait}
  /\ \E S \in SUBSET Parts :
       MayLock(r, S) /\ locked' = [locked EXCEPT ![r] = S] /\ (r \in Surfaces => S = Parts)
(* ... writes,                                                             *)
Writes(r) ==
  /\ \E x \in locked[r] : mem' = [mem EXCEPT ![addr[r]][x] = 1 - @]
  /\ UNCHANGED <<addr, locked, lazy, wait>>
(* ... unlocks what is not recorded, or copied into the ring only later,   *)
Unlocks(r) ==
  /\ locked' = [locked EXCEPT ![r] = {}] /\ UNCHANGED <<mem, addr, wait>>
  /\ \/ rec[r] = NoRec /\ UNCHANGED lazy
     \/ rec[r] # NoRec /\ rec[r].eager /\ lazy' = [lazy EXCEPT ![r] = @ \cup locked[r]]
(* ... or destroys what is not recorded.                                   *)
Drops(r) ==
  /\ r \in live /\ rec[r] = NoRec
  /\ mem' = Released({addr[r]}) /\ addr' = [addr EXCEPT ![r] = NoBlock]
  /\ UNCHANGED <<locked, lazy, wait>>

LocalStep(r) == Idle \/ Gains(r) \/ Locks(r) \/ Writes(r) \/ Unlocks(r) \/ Drops(r)

(* A call that adds commands:                                              *)
Adding ==
  /\ Longer /\ todo = <<>>
  /\ UNCHANGED <<ack, lastWorkEnd, produced, published, live, failed, bound, tail, ring>>
  /\ wait' = NoWait

(* ... moves the memory of a surface locked,                               *)
Moves(r, b) ==
  /\ r \in Surfaces /\ r \in live /\ rec[r] # NoRec /\ locked[r] = {} /\ b \in FreeBlocks
  /\ todo' = <<[op |-> "MEM", r |-> r, block |-> b]>>
  /\ mem' = [mem EXCEPT ![b] = IF addr[r] = NoBlock THEN Zero ELSE mem[addr[r]]]
  /\ addr' = [addr EXCEPT ![r] = b] /\ locked' = [locked EXCEPT ![r] = Parts]
  /\ deferred' = IF addr[r] = NoBlock THEN deferred ELSE deferred \cup {<<addr[r], LastRefOf(r)>>}
  /\ UNCHANGED <<rec, lazy, sync, gen, wait>>
(* ... unlocks what is recorded,                                           *)
Dirties(r) ==
  /\ rec[r] # NoRec /\ ~rec[r].eager /\ locked[r] # {} /\ locked' = [locked EXCEPT ![r] = {}]
  /\ todo' = <<[op |-> "DIRTY", r |-> r, gen |-> gen + 1, parts |-> locked[r], block |-> addr[r]]>>
  /\ gen' = gen + 1 /\ rec' = [rec EXCEPT ![r] = rec'[r]] /\ rec'[r] \in Records
  /\ rec'[r] = [rec[r] EXCEPT !.gen = gen + 1, !.pend = rec'[r].pend]
  /\ UNCHANGED <<mem, addr, lazy, sync, deferred, wait>>
(* ... changes a buffer over to the ring,                                  *)
Changes(r) ==
  /\ r \in Buffers /\ r \in live /\ rec[r] # NoRec /\ ~rec[r].eager /\ locked[r] = {}
  /\ wait # NoWait /\ wait.kind = "fence" /\ wait.r = r /\ wait.until <= tail /\ wait' = NoWait
  /\ wait.parts \subseteq Parts /\ locked' = [locked EXCEPT ![r] = wait.parts]
  /\ todo' = <<Data(r, Parts, FALSE)>>
  /\ rec' = [rec EXCEPT ![r] = rec'[r]] /\ rec'[r] \in Records
  /\ rec'[r] = [rec[r] EXCEPT !.eager = TRUE]
  /\ UNCHANGED <<mem, addr, lazy, sync, gen, deferred>>
(* ... or destroys what is recorded.                                       *)
Destroys(r) ==
  /\ r \in live /\ rec[r] # NoRec /\ locked[r] = {} /\ r \notin bound
  /\ todo' = <<[op |-> "DESTROY", r |-> r],
               [op |-> "FREE", r |-> r, block |-> addr[r], rec |-> rec[r], until |-> LastRefOf(r)]>>
  /\ addr' = [addr EXCEPT ![r] = NoBlock]
  /\ rec' = [rec EXCEPT ![r] = NoRec] /\ lazy' = [lazy EXCEPT ![r] = {}]
  /\ UNCHANGED <<mem, locked, sync, gen, deferred, wait>>

(* A draw or a present: its commands come in some order before its own.    *)
Batch(X, w) ==
  /\ Adding /\ Flush
  /\ \E s : Lists(s, Unbinds \cup Binds \cup X) /\ todo' = Append(s, w)
  /\ UNCHANGED <<mem, addr, locked, deferred, wait>>
DrawsNow(use, all) ==
  /\ use \in Uses /\ Batch(Datas(use, all), DrawCommand(use))
  /\ lazy' = [r \in Resources |->
                IF r \in Taken(use, all) THEN lazy[r] \ Take(r, use, all) ELSE lazy[r]]
PresentsNow == Batch({}, [op |-> "PRESENT"]) /\ UNCHANGED lazy

LEMMA MeansCreate ==
  ASSUME IInv, IInv', DataInv, ~failed, NEW r \in Resources, Create(r)
  PROVE  Local /\ LocalStep(r)
<1>1. /\ UNCHANGED <<rec, ack, gen, sync, lastWorkEnd, produced, published, todo, deferred, failed,
                     locked, lazy, wait>>
      /\ r \notin live /\ wait' = NoWait
  BY DEF Create, Guest, recordVars, cursorVars, emulatorVars, workerVars
<1>2. Local
  BY <1>1, TypesCreate DEF Local, DataInv
<1>3. rec[r] = NoRec
  BY <1>1 DEF DataInv, TypesInv, RecordInv
<1>4. CASE r \in Buffers
  <2>1. Gains(r)
    BY <1>1, <1>3, <1>4 DEF Create, Gains
  <2> QED BY <1>2, <2>1 DEF LocalStep
<1>5. CASE r \notin Buffers
  <2>1. Idle
    BY <1>1, <1>5 DEF Create, Idle
  <2> QED BY <1>2, <2>1 DEF LocalStep
<1> QED BY <1>4, <1>5

LEMMA MeansLocked ==
  ASSUME IInv, IInv', DataInv, ~failed, NEW r \in Resources, BufferLocked(r)
  PROVE  Local /\ Locks(r)
<1>1. PICK S \in (SUBSET Parts) \ {{}}, b \in BOOLEAN : LockBuffer(r, S, b) /\ ~StartFence(r, S)
  BY DEF BufferLocked
<1>2. /\ r \in live /\ r \in Buffers /\ locked[r] = {} /\ locked' = [locked EXCEPT ![r] = S]
      /\ UNCHANGED <<mem, addr, lazy, wait>> /\ S \in SUBSET Parts
      /\ UNCHANGED <<rec, ack, gen, sync, lastWorkEnd, produced, published, todo, deferred, failed>>
      /\ wait' = NoWait
  BY <1>1 DEF LockBuffer, Unlocked, Guest, recordVars, cursorVars, emulatorVars, workerVars
<1>3. Local /\ todo = <<>>
  BY <1>1, <1>2, TypesLocked DEF Local, DataInv, LockBuffer, Unlocked, Guest
<1>4. MayLock(r, S)
  <2>1. \/ ~Recording(r) \/ rec[r].eager \/ ~MayRead(r) \/ b
    BY <1>1 DEF LockBuffer
  <2>2. rec[r] # NoRec => LastRefOf(r) \in Nat
    BY LastRefFacts DEF DataInv
  <2>3. tail \in Nat
    BY TypesFacts DEF DataInv
  <2>4. b => PendingParts(r) \cap S = {}
    BY <1>1 DEF LockBuffer
  <2>5. ~MayRead(r) => LastRefOf(r) <= tail \/ Acknowledged(r) \/ rec[r] = NoRec
    BY <2>2, <2>3 DEF MayRead
  <2> QED BY <2>1, <2>4, <2>5 DEF MayLock, Recording
<1>5. r \notin Surfaces
  BY <1>2, RenderLinkAssumption
<1> QED BY <1>2, <1>3, <1>4, <1>5 DEF Locks

LEMMA MeansWritten ==
  ASSUME IInv, IInv', DataInv, ~failed, NEW r \in Resources, Written(r)
  PROVE  Local /\ Writes(r)
<1>1. PICK x \in Parts : Write(r, x)
  BY DEF Written
<1>2. /\ x \in locked[r] /\ mem' = [mem EXCEPT ![addr[r]][x] = 1 - @]
      /\ UNCHANGED <<addr, locked, lazy, wait>>
      /\ UNCHANGED <<rec, ack, gen, sync, lastWorkEnd, produced, published, todo, deferred, failed>>
      /\ wait' = NoWait
  BY <1>1 DEF Write, Guest, recordVars, cursorVars, emulatorVars, workerVars
<1>3. Local
  BY <1>2, TypesLocked DEF Local, DataInv
<1> QED BY <1>2, <1>3 DEF Writes

LEMMA MeansBind ==
  ASSUME IInv, IInv', DataInv, ~failed, NEW r \in Resources, Bind(r)
  PROVE  Local /\ LocalStep(r)
<1>1. UNCHANGED <<mem, addr, locked, lazy, wait, rec, ack, gen, sync, lastWorkEnd, produced, published,
                  todo, deferred, failed>> /\ wait' = NoWait
  BY DEF Bind, Guest, recordVars, cursorVars, emulatorVars, workerVars
<1>2. Local
  BY <1>1, TypesBind DEF Local, DataInv
<1> QED BY <1>1, <1>2 DEF LocalStep, Idle

LEMMA MeansLockCopied ==
  ASSUME IInv, IInv', DataInv, ~failed, NEW r \in Resources, LockCopied(r)
  PROVE  Adding /\ \E b \in Blocks : Moves(r, b)
<1>1. /\ todo = <<>> /\ r \in live /\ r \in Surfaces /\ rec[r] # NoRec /\ locked[r] = {}
      /\ addr[r] # NoBlock /\ Recording(r)
      /\ deferred' = deferred \cup {<<addr[r], LastRefOf(r)>>}
      /\ locked' = [locked EXCEPT ![r] = Parts]
      /\ UNCHANGED <<rec, lazy, sync, gen, wait>>
      /\ UNCHANGED <<ack, lastWorkEnd, produced, published, live, failed, bound, tail, ring>>
      /\ wait' = NoWait
  BY DEF LockCopied, Unlocked, Guest, InUse, Recording, recordVars, cursorVars, workerVars
<1>2. PICK b \in FreeBlocks : GiveMemory(r, b, mem[addr[r]])
  BY DEF LockCopied
<1>3. b \in Blocks /\ mem' = [mem EXCEPT ![b] = mem[addr[r]]] /\ addr' = [addr EXCEPT ![r] = b]
      /\ todo' = <<[op |-> "MEM", r |-> r, block |-> b]>>
  BY <1>1, <1>2 DEF GiveMemory, Call, FreeBlocks
<1>4. Longer
  BY TypesLockCopied DEF DataInv
<1>5. Moves(r, b)
  BY <1>1, <1>3 DEF Moves
<1> QED BY <1>1, <1>3, <1>4, <1>5 DEF Adding

LEMMA MeansLockFree ==
  ASSUME IInv, IInv', DataInv, ~failed, NEW r \in Resources, LockFree(r)
  PROVE  (Local /\ LocalStep(r)) \/ (Adding /\ \E b \in Blocks : Moves(r, b))
<1>1. /\ todo = <<>> /\ r \in live /\ r \in Surfaces /\ locked[r] = {} /\ ~InUse(r)
      /\ locked' = [locked EXCEPT ![r] = Parts]
      /\ UNCHANGED <<rec, lazy, sync, gen, wait>>
      /\ UNCHANGED <<ack, lastWorkEnd, produced, published, live, failed, bound, tail, ring, deferred,
                     mirror, staged>>
      /\ wait' = NoWait
  BY DEF LockFree, Unlocked, Guest, recordVars, cursorVars, workerVars
<1>2. CASE addr[r] # NoBlock
  <2>1. UNCHANGED <<mem, addr, todo>>
    BY <1>2 DEF LockFree
  <2>2. Local
    BY <1>1, <2>1, SteadyKept DEF Local
  <2>3. MayLock(r, Parts)
    <3>1. rec[r] = NoRec \/ ~MayRead(r)
      BY <1>1, <1>2 DEF InUse, Recording
    <3>2. rec[r] # NoRec => LastRefOf(r) \in Nat
      BY LastRefFacts DEF DataInv
    <3>3. tail \in Nat
      BY TypesFacts DEF DataInv
    <3> QED BY <3>1, <3>2, <3>3 DEF MayLock, MayRead
  <2>4. Locks(r)
    BY <1>1, <2>1, <2>3 DEF Locks
  <2> QED BY <2>2, <2>4 DEF LocalStep
<1>3. CASE addr[r] = NoBlock
  <2>1. PICK b \in FreeBlocks : GiveMemory(r, b, Zero)
    BY <1>3 DEF LockFree
  <2>2. /\ b \in Blocks /\ mem' = [mem EXCEPT ![b] = Zero] /\ addr' = [addr EXCEPT ![r] = b]
        /\ todo' = IF rec[r] # NoRec THEN <<[op |-> "MEM", r |-> r, block |-> b]>> ELSE <<>>
    BY <1>1, <2>1 DEF GiveMemory, Call, FreeBlocks, Recording
  <2>3. CASE rec[r] # NoRec
    <3>1. Longer
      BY TypesLockFree DEF DataInv
    <3>2. Moves(r, b)
      BY <1>1, <1>3, <2>2, <2>3 DEF Moves
    <3> QED BY <1>1, <2>2, <3>1, <3>2 DEF Adding
  <2>4. CASE rec[r] = NoRec
    <3>1. todo' = todo
      BY <1>1, <2>2, <2>4
    <3>2. Local
      BY <1>1, <3>1, SteadyKept DEF Local
    <3>3. \A q \in Resources : q # r => locked'[q] = locked[q]
      BY <1>1, TypesFacts DEF DataInv
    <3>4. Gains(r)
      BY <1>1, <2>2, <2>4, <3>3 DEF Gains
    <3> QED BY <3>2, <3>4 DEF LocalStep
  <2> QED BY <2>3, <2>4
<1> QED BY <1>2, <1>3

LEMMA MeansUnlock ==
  ASSUME IInv, IInv', DataInv, ~failed, NEW r \in Resources, Unlock(r)
  PROVE  (Local /\ LocalStep(r)) \/ (Adding /\ Dirties(r))
<1>1. /\ todo = <<>> /\ locked[r] # {} /\ locked' = [locked EXCEPT ![r] = {}]
      /\ UNCHANGED <<mem, addr, sync, deferred, wait>>
      /\ UNCHANGED <<ack, lastWorkEnd, produced, published, live, failed, bound, tail, ring, mirror,
                     staged>>
      /\ wait' = NoWait
  BY DEF Unlock, Guest, cursorVars, workerVars
<1>2. rec[r] # NoRec => rec[r] \in Records /\ rec[r].gen \in Nat
  BY DEF DataInv, TypesInv, RecordInv, Records
<1>3. gen \in Nat /\ locked[r] \in SUBSET Parts /\ rec = [q \in Resources |-> rec[q]]
  BY TypesFacts DEF DataInv, TypesInv, GuestTypes
<1>4. CASE rec[r] = NoRec \/ rec[r].eager
  <2>1. /\ UNCHANGED <<rec, gen, todo>>
        /\ \/ rec[r] = NoRec /\ UNCHANGED lazy
           \/ rec[r] # NoRec /\ rec[r].eager /\ lazy' = [lazy EXCEPT ![r] = @ \cup locked[r]]
    BY <1>4 DEF Unlock, Recording
  <2>2. Local
    BY <1>1, <2>1, SteadyKept DEF Local
  <2>3. Unlocks(r)
    BY <1>1, <2>1 DEF Unlocks
  <2> QED BY <2>2, <2>3 DEF LocalStep
<1>5. CASE rec[r] # NoRec /\ ~rec[r].eager
  <2>1. /\ gen' = gen + 1
        /\ rec' = [rec EXCEPT ![r].gen = gen + 1,
                     ![r].pend = IF r \in Buffers
                                   THEN @ \cup {[gen |-> gen + 1, parts |-> locked[r]]} ELSE @]
        /\ todo' = <<[op |-> "DIRTY", r |-> r, gen |-> gen + 1, parts |-> locked[r],
                       block |-> addr[r]]>>
        /\ lazy' = lazy
    BY <1>5 DEF Unlock, Recording, Call
  <2>2. Longer
    BY TypesUnlock DEF DataInv
  <2>3. PICK P : rec' = [rec EXCEPT ![r] = [rec[r] EXCEPT !.gen = gen + 1, !.pend = P]]
                 /\ P \in SUBSET [gen : Nat, parts : SUBSET Parts]
    <3> DEFINE P == IF r \in Buffers THEN rec[r].pend \cup {[gen |-> gen + 1, parts |-> locked[r]]}
                                     ELSE rec[r].pend
    <3>1. rec' = [rec EXCEPT ![r] = [rec[r] EXCEPT !.gen = gen + 1, !.pend = P]]
      <4> PICK e \in Records : e = rec[r]
        BY <1>2, <1>5
      <4>1. rec'[r] = [rec[r] EXCEPT !.gen = gen + 1, !.pend = P]
        <5>1. rec'[r] = [e EXCEPT !.gen = gen + 1,
                           !.pend = IF r \in Buffers
                                   THEN @ \cup {[gen |-> gen + 1, parts |-> locked[r]]} ELSE @]
          BY <2>1, <1>3
        <5> QED BY <5>1 DEF Records
      <4>2. rec' = [rec EXCEPT ![r] = rec'[r]]
        <5>1. rec' = [q \in Resources |-> rec'[q]] /\ \A q \in Resources : q # r => rec'[q] = rec[q]
          BY <2>1, <1>3
        <5> QED BY <5>1, <1>3
      <4> QED BY <4>1, <4>2
    <3>2. P \in SUBSET [gen : Nat, parts : SUBSET Parts]
      <4>1. rec[r].pend \in SUBSET [gen : Nat, parts : SUBSET Parts]
        BY <1>2, <1>5 DEF Records
      <4>2. [gen |-> gen + 1, parts |-> locked[r]] \in [gen : Nat, parts : SUBSET Parts]
        BY <1>3
      <4> QED BY <4>1, <4>2
    <3> QED BY <3>1, <3>2
  <2>4. rec'[r] = [rec[r] EXCEPT !.gen = gen + 1, !.pend = P] /\ rec' = [rec EXCEPT ![r] = rec'[r]]
    BY <2>3, <1>3
  <2>5. rec'[r] \in Records /\ rec'[r].pend = P
    <3> PICK e \in Records : e = rec[r]
      BY <1>2, <1>5
    <3> PICK g \in Nat : g = gen + 1
      BY <1>3
    <3>1. rec'[r] = [e EXCEPT !.gen = g, !.pend = P]
      BY <2>4
    <3>2. P \in SUBSET [gen : Nat, parts : SUBSET Parts]
      BY <2>3
    <3> QED BY <3>1, <3>2 DEF Records
  <2>6. Dirties(r)
    BY <1>1, <1>5, <2>1, <2>4, <2>5 DEF Dirties
  <2> QED BY <1>1, <2>2, <2>6 DEF Adding
<1> QED BY <1>4, <1>5

LEMMA MeansDestroy ==
  ASSUME IInv, IInv', DataInv, ~failed, NEW r \in Resources, Destroy(r)
  PROVE  \/ Local /\ LocalStep(r)
         \/ Longer /\ todo = <<>> /\ Destroys(r)
            /\ UNCHANGED <<ack, lastWorkEnd, produced, published, failed, bound, tail, ring>>
            /\ live' = live \ {r} /\ wait' = NoWait
<1>1. /\ todo = <<>> /\ r \in live /\ locked[r] = {} /\ r \notin bound
      /\ live' = live \ {r}
      /\ addr' = [addr EXCEPT ![r] = NoBlock]
      /\ rec' = [rec EXCEPT ![r] = NoRec] /\ lazy' = [lazy EXCEPT ![r] = {}]
      /\ UNCHANGED <<locked, sync, gen, deferred, wait>>
      /\ UNCHANGED <<ack, lastWorkEnd, produced, published, failed, bound, tail, ring, mirror, staged>>
      /\ wait' = NoWait
  BY DEF Destroy, Guest, cursorVars, workerVars
<1>2. CASE rec[r] = NoRec
  <2>1. rec = [q \in Resources |-> rec[q]] /\ lazy[r] = {} /\ lazy \in [Resources -> SUBSET Parts]
    BY <1>2, TypesFacts DEF DataInv, TypesInv, GuestTypes
  <2>2. rec' = rec /\ lazy' = lazy
    BY <1>1, <1>2, <2>1
  <2>3. mem' = Released({addr[r]}) /\ todo' = todo
    BY <1>2 DEF Destroy, Recording
  <2>4. Local
    BY <1>1, <2>2, <2>3, SteadyKept DEF Local
  <2>5. Drops(r)
    BY <1>1, <1>2, <2>2, <2>3 DEF Drops
  <2> QED BY <2>4, <2>5 DEF LocalStep
<1>3. CASE rec[r] # NoRec
  <2>1. mem' = mem /\ todo' = <<[op |-> "DESTROY", r |-> r],
          [op |-> "FREE", r |-> r, block |-> addr[r], rec |-> rec[r], until |-> LastRefOf(r)]>>
    BY <1>3 DEF Destroy, Recording, Call
  <2>2. Destroys(r)
    BY <1>1, <1>3, <2>1 DEF Destroys
  <2>3. Longer
    BY TypesDestroy DEF DataInv
  <2> QED BY <1>1, <2>2, <2>3
<1> QED BY <1>2, <1>3

LEMMA MeansEndFence ==
  ASSUME IInv, IInv', DataInv, ~failed, EndFence
  PROVE  \E r \in Resources : (Local /\ LocalStep(r)) \/ (Adding /\ Changes(r))
<1>1. /\ wait # NoWait /\ wait.kind = "fence" /\ todo = <<>> /\ tail >= wait.until /\ wait' = NoWait
      /\ locked' = [locked EXCEPT ![wait.r] = wait.parts]
      /\ UNCHANGED <<mem, addr, lazy, sync, gen, deferred>>
      /\ UNCHANGED <<ack, lastWorkEnd, produced, published, live, failed, bound, tail, ring, mirror,
                     staged>>
  BY DEF EndFence, FenceOver, cursorVars, workerVars, IInv, ShapeInv
<1>2. wait.r \in live /\ wait.r \in Resources /\ wait.parts \subseteq Parts
  BY <1>1, TypesFacts DEF IInv, MemoryInv, LocksHaveMemory, DataInv
<1>3. /\ rec[wait.r] # NoRec /\ (wait.r \in Surfaces => wait.parts = Parts)
      /\ ~rec[wait.r].eager /\ locked[wait.r] = {}
      /\ \A p \in Way : Reads(p, wait.r) => p <= wait.until
  BY <1>1 DEF DataInv, FenceInv
<1>0. wait.until \in Int /\ tail \in Int => wait.until <= tail
  BY <1>1
<1> PICK r \in Resources : r = wait.r
  BY <1>2
<1>4. CASE r \notin Buffers
  <2>1. rec' = rec /\ todo' = todo
    BY <1>4 DEF EndFence
  <2>2. Local
    BY <1>1, <2>1, SteadyKept DEF Local
  <2>3. MayLock(r, wait.parts)
    BY <1>1 DEF MayLock
  <2>4. Locks(r)
    BY <1>1, <1>2, <1>3, <2>3 DEF Locks
  <2> QED BY <2>2, <2>4 DEF LocalStep
<1>5. CASE r \in Buffers
  <2>1. rec' = [rec EXCEPT ![r].eager = TRUE] /\ todo' = <<Data(r, Parts, FALSE)>>
    BY <1>5 DEF EndFence, Call
  <2>2. rec = [q \in Resources |-> rec[q]] /\ rec[r] \in Records
    BY <1>3 DEF DataInv, TypesInv, GuestTypes, RecordInv
  <2>3. rec'[r] = [rec[r] EXCEPT !.eager = TRUE] /\ rec' = [rec EXCEPT ![r] = rec'[r]]
    BY <2>1, <2>2
  <2>4. rec'[r] \in Records
    BY <2>2, <2>3 DEF Records
  <2>5. Changes(r)
    BY <1>1, <1>2, <1>3, <1>5, <2>1, <2>3, <2>4 DEF Changes
  <2>6. Longer
    BY TypesEndFence
  <2> QED BY <1>1, <2>5, <2>6 DEF Adding
<1> QED BY <1>4, <1>5

LEMMA MeansDraw ==
  ASSUME IInv, IInv', DataInv, ~failed, NEW use, NEW all, Draw(use, all)
  PROVE  DrawsNow(use, all)
<1>1. /\ todo = <<>> /\ Flush /\ use \in Uses
      /\ lazy' = [r \in Resources |->
                    IF r \in Taken(use, all) THEN lazy[r] \ Take(r, use, all) ELSE lazy[r]]
      /\ UNCHANGED <<ack, lastWorkEnd, produced, published, live, failed, bound, tail, ring>>
      /\ UNCHANGED <<mem, addr, locked, deferred, wait>> /\ wait' = NoWait
  BY DEF Draw, CanRecord, Guest, guestVars, cursorVars, workerVars
<1>2. \E s : /\ Lists(s, Unbinds \cup Binds \cup Datas(use, all))
             /\ todo' = Append(s, DrawCommand(use))
  BY TypesFacts, DrawLists DEF DrawCommand, DataInv
<1>3. Longer
  BY TypesDraw DEF DataInv
<1> QED BY <1>1, <1>2, <1>3 DEF DrawsNow, Batch, Adding

LEMMA MeansPresent ==
  ASSUME IInv, IInv', DataInv, ~failed, Present
  PROVE  PresentsNow
<1>1. /\ todo = <<>> /\ Flush /\ todo' = Append(FlushCommands, [op |-> "PRESENT"])
      /\ UNCHANGED <<ack, lastWorkEnd, produced, published, live, failed, bound, tail, ring>>
      /\ UNCHANGED <<mem, addr, locked, deferred, wait, lazy>> /\ wait' = NoWait
  BY DEF Present, CanRecord, Guest, guestVars, cursorVars, workerVars, Call
<1>2. Lists(FlushCommands, Unbinds \cup Binds \cup {})
  BY TypesFacts, FlushLists DEF DataInv
<1>3. Longer
  BY TypesPresent DEF DataInv
<1> QED BY <1>1, <1>2, <1>3 DEF PresentsNow, Batch, Adding

Undone(r) ==
  /\ Longer /\ todo = <<>> /\ Destroys(r)
  /\ UNCHANGED <<ack, lastWorkEnd, produced, published, failed, bound, tail, ring>>
  /\ live' = live \ {r} /\ wait' = NoWait

(* The kinds of steps while the worker lives                               *)
Kinds ==
  \/ Quietly
  \/ Local /\ \E r \in Resources : LocalStep(r)
  \/ Adding /\ \E r \in Resources : (\E b \in Blocks : Moves(r, b)) \/ Dirties(r) \/ Changes(r)
  \/ \E r \in Resources : Undone(r)
  \/ \E use, all : DrawsNow(use, all)
  \/ PresentsNow
  \/ Free /\ Freed
  \/ Shorter /\ Replays
  \/ ReplayDraw

LEMMA KindsAre ==
  ASSUME IInv, IInv', DataInv, ~failed', [Next]_vars
  PROVE  ~failed /\ TypesInv' /\ Kinds
<1>1. TypesInv /\ TypesInv'
  BY TypesStep DEF DataInv
<1>2. ~GiveUp
  BY DEF GiveUp
<1>3. CASE QuietStep
  BY <1>1, <1>3, QuietSteps DEF Kinds, Quietly
<1>4. ASSUME NEW r \in Resources, QuietGuest(r)
      PROVE  ~failed /\ Kinds
  BY <1>1, <1>4, QuietGuestStep DEF Kinds, Quietly
<1>5. ASSUME NEW r \in Resources, SetsUp(r)
      PROVE  ~failed /\ Kinds
  <2>1. failed' = failed
    <3>1. CASE Create(r) \/ Bind(r)
      BY <3>1 DEF Create, Bind, emulatorVars
    <3>2. CASE BufferLocked(r)
      BY <3>2 DEF BufferLocked, LockBuffer, emulatorVars
    <3>3. CASE Written(r)
      BY <3>3 DEF Written, Write, emulatorVars
    <3> QED BY <1>5, <3>1, <3>2, <3>3 DEF SetsUp
  <2>2. Local /\ LocalStep(r)
    <3>1. CASE Create(r)
      BY <2>1, <3>1, MeansCreate
    <3>2. CASE Bind(r)
      BY <2>1, <3>2, MeansBind
    <3>3. CASE BufferLocked(r)
      BY <2>1, <3>3, MeansLocked DEF LocalStep
    <3>4. CASE Written(r)
      BY <2>1, <3>4, MeansWritten DEF LocalStep
    <3> QED BY <1>5, <3>1, <3>2, <3>3, <3>4 DEF SetsUp
  <2> QED BY <2>1, <2>2 DEF Kinds
<1>6. ASSUME NEW r \in Resources, Commands(r)
      PROVE  ~failed /\ Kinds
  <2>1. failed' = failed
    BY <1>6 DEF Commands, LockCopied, LockFree, Unlock, Destroy
  <2>2. \/ Local /\ LocalStep(r)
        \/ Adding /\ ((\E b \in Blocks : Moves(r, b)) \/ Dirties(r))
        \/ Undone(r)
    <3>1. CASE LockCopied(r)
      BY <2>1, <3>1, MeansLockCopied
    <3>2. CASE LockFree(r)
      BY <2>1, <3>2, MeansLockFree
    <3>3. CASE Unlock(r)
      BY <2>1, <3>3, MeansUnlock
    <3>4. CASE Destroy(r)
      BY <2>1, <3>4, MeansDestroy DEF Undone
    <3> QED BY <1>6, <3>1, <3>2, <3>3, <3>4 DEF Commands
  <2> QED BY <2>1, <2>2 DEF Kinds
<1>7. CASE EndFence
  <2>1. failed' = failed
    BY <1>7 DEF EndFence
  <2> QED BY <1>1, <1>7, <2>1, MeansEndFence DEF Kinds
<1>8. ASSUME NEW use, NEW all, Draw(use, all)
      PROVE  ~failed /\ Kinds
  BY <1>8, MeansDraw DEF Kinds, Draw, CanRecord
<1>9. CASE Present
  BY <1>1, <1>9, MeansPresent DEF Kinds, Present, CanRecord
<1>10. CASE Free
  <2>1. failed' = failed
    BY <1>10 DEF Free
  <2> QED BY <1>1, <1>10, <2>1, TypesFree DEF Kinds
<1>11. ASSUME NEW op \in Plain, Replaying(op), PlainReplay
       PROVE  ~failed /\ Kinds
  <2>1. ~failed
    BY <1>11, ReplayLives
  <2>2. Shorter
    BY <1>11, TypesReplay
  <2> QED BY <1>11, <2>1, <2>2 DEF Kinds, Replays
<1>12. CASE ReplayDraw
  <2>1. ~failed
    BY <1>12, ReplayLives DEF ReplayDraw
  <2> QED BY <1>1, <1>12, <2>1 DEF Kinds
<1>13. ~failed /\ Kinds
  <2>1. StepKinds
    BY StepsAre
  <2> QED BY <1>2, <1>3, <1>4, <1>5, <1>6, <1>7, <1>8, <1>9, <1>10, <1>11, <1>12, <2>1
          DEF StepKinds, Draws, Replays
<1> QED BY <1>1, <1>13

----------------------------------------------------------------------------
(* The commands a call adds, and what they leave of a resource.            *)

LEMMA OneAdded ==
  ASSUME IInv, Longer, NEW c, todo' = <<c>>
  PROVE  /\ End' = End + 1 /\ End \in Int /\ End \in Way' /\ End \notin Way /\ Cmd'[End] = c
         /\ \A p \in Way' : p \in Way \/ p = End
         /\ \A p \in Way : p < End
         /\ \A r \in Resources : Final(r)' = After(Final(r), r, c)
         /\ StagedAt(End)' = StagedAfter(StagedAt(End), c)
<1>1. End \in Int /\ Consumed \in Int /\ Consumed + 1 <= End /\ \A p \in Way : p \in Int /\ p < End
  BY WayFacts DEF IInv
<1>2. End' = End + 1
  BY OneIsSequence DEF Longer
<1>3. End \in End..(End' - 1) /\ \A p \in End..(End' - 1) : p = End
  BY <1>1, <1>2
<1>4. End \in Way' /\ End \notin Way /\ Cmd'[End] = todo'[End - End + 1]
  BY <1>3 DEF Longer
<1>5. Cmd'[End] = c
  BY <1>1, <1>4
<1>6. \A p \in Way' : p \in Way \/ p = End
  BY <1>3 DEF Longer
<1>7. Ahead'[End] = Ahead[End]
  <2>1. End \in (Consumed + 1)..End
    BY <1>1
  <2> QED BY <2>1 DEF Longer
<1> PICK e \in Int : e = End
  BY <1>1
<1>8. \A r \in Resources : Final(r)' = After(Final(r), r, c)
  <2>1. \A r \in Resources : At(e + 1, r)' = After(At(e, r)', r, c)
    BY <1>4, <1>5 DEF Longer
  <2> QED BY <1>2, <1>7, <2>1 DEF Final, At
<1>9. StagedAt(End)' = StagedAfter(StagedAt(End), c)
  <2>1. StagedAt(e + 1)' = StagedAfter(StagedAt(e)', c)
    BY <1>4, <1>5 DEF Longer
  <2> QED BY <1>2, <1>7, <2>1 DEF StagedAt
<1> QED BY <1>1, <1>2, <1>4, <1>5, <1>6, <1>8, <1>9

LEMMA DestroyAdded ==
  ASSUME IInv, DataInv, NEW r \in Resources, Undone(r)
  PROVE  /\ End \in Int /\ End' = End + 2 /\ End \in Way' /\ End + 1 \in Way' /\ \A p \in Way : p < End
         /\ Cmd'[End] = [op |-> "DESTROY", r |-> r]
         /\ Cmd'[End].op = "DESTROY" /\ Cmd'[End].r = r
         /\ Cmd'[End + 1].op = "FREE" /\ Cmd'[End + 1].r = r /\ Cmd'[End + 1].block = addr[r]
         /\ Cmd'[End + 1].rec = rec[r] /\ Cmd'[End + 1].until = LastRefOf(r)
         /\ Cmd'[End + 1] = [op |-> "FREE", r |-> r, block |-> addr[r], rec |-> rec[r],
                             until |-> LastRefOf(r)]
         /\ \A p \in Way' : p \in Way \/ p = End \/ p = End + 1
         /\ \A q \in Resources : Final(q)' = IF q = r THEN NoRec ELSE Final(q)
         /\ StagedAt(End)' = StagedAt(End)
<1> DEFINE d == [op |-> "DESTROY", r |-> r]
           f == [op |-> "FREE", r |-> r, block |-> addr[r], rec |-> rec[r], until |-> LastRefOf(r)]
<1>1. End \in Int /\ Consumed \in Int /\ Consumed + 1 <= End /\ \A p \in Way : p \in Int /\ p < End
  BY WayFacts DEF IInv
<1>2. Len(todo') = 2 /\ todo'[1] = d /\ todo'[2] = f /\ Longer
  BY DEF Undone, Destroys
<1> HIDE DEF d, f
<1>3. End' = End + 2
  BY <1>2 DEF Longer
<1>4. /\ End \in End..(End' - 1) /\ End + 1 \in End..(End' - 1)
      /\ \A p \in End..(End' - 1) : p = End \/ p = End + 1
  BY <1>1, <1>3
<1>5. End \in Way' /\ Cmd'[End] = d
  <2>1. End \in Way' /\ Cmd'[End] = todo'[End - End + 1]
    BY <1>2, <1>4 DEF Longer
  <2> QED BY <1>1, <1>2, <2>1
<1>6. End + 1 \in Way' /\ Cmd'[End + 1] = f
  <2> PICK k \in Int : k = End + 1
    BY <1>1
  <2>1. k \in Way' /\ Cmd'[k] = todo'[k - End + 1]
    BY <1>2, <1>4 DEF Longer
  <2>2. k - End + 1 = 2
    BY <1>1
  <2> QED BY <1>2, <2>1, <2>2
<1>7. \A p \in Way' : p \in Way \/ p = End \/ p = End + 1
  BY <1>2, <1>4 DEF Longer
<1>8. Ahead'[End] = Ahead[End]
  <2>1. End \in (Consumed + 1)..End
    BY <1>1
  <2> QED BY <1>2, <2>1 DEF Longer
<1> PICK e \in Int : e = End
  BY <1>1
<1>9. (e + 1) + 1 = e + 2
  OBVIOUS
<1>10. ASSUME NEW q \in Resources
       PROVE  Final(q)' = IF q = r THEN NoRec ELSE Final(q)
  <2>1. /\ At(e + 1, q)' = After(At(e, q)', q, d)
        /\ At((e + 1) + 1, q)' = After(At(e + 1, q)', q, f)
    BY <1>2, <1>5, <1>6 DEF Longer
  <2>2. After(At(e, q)', q, d) = IF q = r THEN NoRec ELSE At(e, q)'
    BY AfterDestroy, AfterOther DEF d, Touches
  <2>3. After(At(e + 1, q)', q, f) = At(e + 1, q)'
    BY AfterOther DEF f, Touches
  <2>4. At(e, q)' = Final(q)
    BY <1>8 DEF Final, At
  <2>5. Final(q)' = At(e + 2, q)'
    BY <1>3 DEF Final
  <2> QED BY <1>9, <2>1, <2>2, <2>3, <2>4, <2>5
<1>11. StagedAt(End)' = StagedAt(End)
  <2>1. /\ StagedAt(e + 1)' = StagedAfter(StagedAt(e)', d)
        /\ StagedAt((e + 1) + 1)' = StagedAfter(StagedAt(e + 1)', f)
    BY <1>2, <1>5, <1>6 DEF Longer
  <2>2. \A S : StagedAfter(S, d) = S /\ StagedAfter(S, f) = S
    BY DEF d, f, StagedAfter
  <2>3. StagedAt(e)' = StagedAt(End)
    BY <1>8 DEF StagedAt
  <2>4. StagedAt(End)' = StagedAt(e + 2)'
    BY <1>3 DEF StagedAt
  <2> QED BY <1>9, <2>1, <2>2, <2>3, <2>4
<1>12. d.op = "DESTROY" /\ d.r = r /\ f.op = "FREE" /\ f.r = r /\ f.block = addr[r] /\ f.rec = rec[r]
       /\ f.until = LastRefOf(r)
  BY DEF d, f
<1>13. /\ d = [op |-> "DESTROY", r |-> r]
       /\ f = [op |-> "FREE", r |-> r, block |-> addr[r], rec |-> rec[r], until |-> LastRefOf(r)]
  BY DEF d, f
<1> QED BY <1>1, <1>3, <1>5, <1>6, <1>7, <1>10, <1>11, <1>12, <1>13

LEMMA DestroyFinal ==
  ASSUME IInv, DataInv, NEW r \in Resources, Undone(r)
  PROVE  \A q \in Resources : q # r => Final(q)' = Final(q)
<1>1. \A q \in Resources : Final(q)' = IF q = r THEN NoRec ELSE Final(q)
  BY DestroyAdded
<1> QED BY <1>1

(* The commands of a draw or present: from End to l - 1 in some order,     *)
(* then w at l.                                                            *)
Listed(X, w, l) ==
  /\ End \in Int /\ l \in Int /\ End <= l /\ End' = l + 1 /\ l \in Way' /\ Cmd'[l] = w
  /\ \A p \in Way : p < End
  /\ \A p \in Way' : p \in Way \/ p = l \/ p \in End..(l - 1)
  /\ \A p \in End..(l - 1) : p \in Way' /\ Cmd'[p] \in X
  /\ \A c \in X : \E p \in End..(l - 1) : Cmd'[p] = c
  /\ \A p, q \in End..(l - 1) : Cmd'[p] = Cmd'[q] => p = q

LEMMA BatchAdded ==
  ASSUME IInv, NEW X, NEW w, Batch(X, w)
  PROVE  \E l \in Int : Listed(Unbinds \cup Binds \cup X, w, l)
<1> DEFINE Y == Unbinds \cup Binds \cup X
<1>0. Longer /\ \E s : Lists(s, Y) /\ todo' = Append(s, w)
  BY DEF Batch, Adding
<1> HIDE DEF Y
<1>1. End \in Int /\ \A p \in Way : p \in Int /\ p < End
  BY WayFacts DEF IInv
<1>2. PICK s : Lists(s, Y) /\ todo' = Append(s, w)
  BY <1>0
<1>3. /\ Len(s) \in Nat /\ Len(todo') = Len(s) + 1 /\ todo'[Len(s) + 1] = w
      /\ \A i \in 1..Len(s) : todo'[i] = s[i]
  BY <1>2, AppendSequence DEF Lists
<1> PICK l \in Int : l = End + Len(s)
  BY <1>1, <1>3
<1>4. End <= l /\ End' = l + 1 /\ l \in End..(End' - 1)
  BY <1>0, <1>1, <1>3 DEF Longer
<1>5. l \in Way' /\ Cmd'[l] = w
  <2>1. l \in Way' /\ Cmd'[l] = todo'[l - End + 1]
    BY <1>0, <1>4 DEF Longer
  <2>2. l - End + 1 = Len(s) + 1
    BY <1>1, <1>3
  <2> QED BY <1>3, <2>1, <2>2
<1>6. \A p \in Way' : p \in Way \/ p = l \/ p \in End..(l - 1)
  <2>1. \A p \in Way' : p \in Way \/ p \in End..(End' - 1)
    BY <1>0 DEF Longer
  <2>2. \A p \in End..(End' - 1) : p = l \/ p \in End..(l - 1)
    BY <1>1, <1>4
  <2> QED BY <2>1, <2>2
<1>7. ASSUME NEW p \in End..(l - 1)
      PROVE  p \in Way' /\ p - End + 1 \in 1..Len(s) /\ Cmd'[p] = s[p - End + 1]
  <2>1. p \in End..(End' - 1) /\ p - End + 1 \in 1..Len(s)
    BY <1>1, <1>3, <1>4
  <2>2. p \in Way' /\ Cmd'[p] = todo'[p - End + 1]
    BY <1>0, <2>1 DEF Longer
  <2> QED BY <1>3, <2>1, <2>2
<1>8. \A p \in End..(l - 1) : p \in Way' /\ Cmd'[p] \in Y
  BY <1>2, <1>7 DEF Lists
<1>9. ASSUME NEW c \in Y
      PROVE  \E p \in End..(l - 1) : Cmd'[p] = c
  <2>1. PICK i \in 1..Len(s) : s[i] = c
    BY <1>2 DEF Lists
  <2> PICK p \in Int : p = End + i - 1
    BY <1>1
  <2>2. p \in End..(l - 1) /\ p - End + 1 = i
    BY <1>1, <1>3
  <2> QED BY <1>7, <2>1, <2>2
<1>10. ASSUME NEW p \in End..(l - 1), NEW q \in End..(l - 1), Cmd'[p] = Cmd'[q]
       PROVE  p = q
  <2>1. /\ p - End + 1 \in 1..Len(s) /\ q - End + 1 \in 1..Len(s)
        /\ s[p - End + 1] = s[q - End + 1]
    BY <1>7, <1>10
  <2>2. p - End + 1 = q - End + 1
    BY <1>2, <2>1 DEF Lists
  <2> QED BY <1>1, <2>2
<1>11. Listed(Y, w, l)
  BY <1>1, <1>4, <1>5, <1>6, <1>8, <1>9, <1>10 DEF Listed
<1> QED BY <1>11 DEF Y

(* Where a draw or present leaves each resource                            *)
Sends(X) ==
  /\ \A c \in X : c.op = "DATA" /\ c.r \in Resources /\ c.r \in bound /\ rec[c.r] # NoRec
  /\ \A c, d \in X : c.r = d.r => c = d

LEMMA DatasSend ==
  ASSUME IInv, TypesInv, NEW use \in Uses, NEW all
  PROVE  Sends(Datas(use, all))
<1>1. ASSUME NEW c \in Datas(use, all)
      PROVE  /\ c.op = "DATA" /\ c.r \in Taken(use, all)
             /\ c = Data(c.r, Take(c.r, use, all), TRUE)
  <2>1. PICK r \in Taken(use, all) : c = Data(r, Take(r, use, all), TRUE)
    BY DEF Datas
  <2>2. c.op = "DATA" /\ c.r = r
    BY <2>1 DEF Data
  <2> QED BY <2>1, <2>2
<1>2. \A r \in Taken(use, all) : r \in bound /\ r \in Resources /\ rec[r] # NoRec
  BY TakenFacts
<1>3. \A c, d \in Datas(use, all) : c.r = d.r => c = d
  <2> SUFFICES ASSUME NEW c \in Datas(use, all), NEW d \in Datas(use, all), c.r = d.r
               PROVE  c = d
    OBVIOUS
  <2>1. c = Data(c.r, Take(c.r, use, all), TRUE) /\ d = Data(d.r, Take(d.r, use, all), TRUE)
    BY <1>1
  <2> HIDE DEF Data, Take
  <2> QED BY <2>1
<1> QED BY <1>1, <1>2, <1>3 DEF Sends

(* What the commands of a batch do to resource r                           *)
LEMMA BatchTouches ==
  ASSUME IInv, TypesInv, NEW X, Sends(X), NEW c \in Unbinds \cup Binds \cup X, NEW r \in Resources
  PROVE  /\ c.op \in {"BIND", "UNBIND", "DATA"}
         /\ Touches(c, r) /\ ~(c.op = "BIND" /\ ~c.new) =>
              (c = BindCommand(r) /\ r \in Fresh) \/ (c \in X /\ c.r = r)
         /\ c.op = "BIND" /\ c.r = r => r \in Starting /\ c = BindCommand(r)
         /\ c.op = "UNBIND" /\ c.r = r => r \in Ending
<1>1. CASE c \in Unbinds
  <2>1. PICK q \in Ending : c = [op |-> "UNBIND", r |-> q]
    BY <1>1 DEF Unbinds
  <2> QED BY <2>1 DEF Touches
<1>2. CASE c \in Binds
  <2>1. PICK q \in Starting : c = BindCommand(q)
    BY <1>2 DEF Binds
  <2>2. c.op = "BIND" /\ c.r = q /\ (c.new <=> q \in Fresh)
    BY <2>1, BindOK
  <2> QED BY <2>1, <2>2 DEF Touches
<1>3. CASE c \in X
  BY <1>3 DEF Sends, Touches
<1> QED BY <1>1, <1>2, <1>3

LEMMA UntouchedNext ==
  ASSUME IInv, IInv', NEW b \in Int, NEW d \in Int, Consumed' + 1 <= b, b <= d, d <= End',
         NEW r \in Resources,
         \A p \in b..(d - 1) : ~Touches(Cmd'[p], r) \/ (Cmd'[p].op = "BIND" /\ ~Cmd'[p].new)
  PROVE  At(d, r)' = At(b, r)'
<1>1. Journey(Ahead', mirror', staged', Consumed' + 1, End', Cmd')
  BY AheadJourneyNext DEF IInv
<1>2. Consumed' + 1 \in Int /\ End' \in Int
  <2>1. Len(ring') \in Nat /\ Len(todo') \in Nat /\ produced' \in Nat
    BY LengthsNext DEF IInv
  <2> QED BY <2>1 DEF Consumed, End
<1>4. \A p \in b..d : Ahead'[p].mirror[r] = Ahead'[b].mirror[r]
  <2> PICK a \in Int : a = Consumed' + 1
    BY <1>2
  <2> PICK e \in Int : e = End'
    BY <1>2
  <2> PICK F : F = Ahead'
    OBVIOUS
  <2> PICK C : C = Cmd'
    OBVIOUS
  <2> PICK M : M = mirror'
    OBVIOUS
  <2> PICK S : S = staged'
    OBVIOUS
  <2>1. Journey(F, M, S, a, e, C)
    BY <1>1
  <2>2. b \in a..e /\ d \in a..e
    BY <1>2
  <2>3. \A p \in b..(d - 1) : ~Touches(C[p], r) \/ (C[p].op = "BIND" /\ ~C[p].new)
    OBVIOUS
  <2>4. \A p \in b..d : F[p].mirror[r] = F[b].mirror[r]
    BY <2>1, <2>2, <2>3, JourneyUntouched
  <2> QED BY <2>4
<1>5. d \in b..d
  OBVIOUS
<1> QED BY <1>4, <1>5 DEF At

LEMMA UnboundNext ==
  ASSUME IInv, IInv', NEW b \in Int, NEW d \in Int, Consumed' + 1 <= b, b <= d, d <= End', NEW r,
         \A p \in b..(d - 1) : Cmd'[p].op \in {"BIND", "UNBIND"} => Cmd'[p].r # r
  PROVE  r \in Ahead'[d].staged <=> r \in Ahead'[b].staged
<1>1. Journey(Ahead', mirror', staged', Consumed' + 1, End', Cmd')
  BY AheadJourneyNext DEF IInv
<1>2. Consumed' + 1 \in Int /\ End' \in Int
  <2>1. Len(ring') \in Nat /\ Len(todo') \in Nat /\ produced' \in Nat
    BY LengthsNext DEF IInv
  <2> QED BY <2>1 DEF Consumed, End
<1>4. \A p \in b..d : r \in Ahead'[p].staged <=> r \in Ahead'[b].staged
  <2> PICK a \in Int : a = Consumed' + 1
    BY <1>2
  <2> PICK e \in Int : e = End'
    BY <1>2
  <2> PICK F : F = Ahead'
    OBVIOUS
  <2> PICK C : C = Cmd'
    OBVIOUS
  <2> PICK M : M = mirror'
    OBVIOUS
  <2> PICK S : S = staged'
    OBVIOUS
  <2>1. Journey(F, M, S, a, e, C)
    BY <1>1
  <2>2. b \in a..e /\ d \in a..e
    BY <1>2
  <2>3. \A p \in b..(d - 1) : C[p].op \in {"BIND", "UNBIND"} => C[p].r # r
    OBVIOUS
  <2>4. \A p \in b..d : r \in F[p].staged <=> r \in F[b].staged
    BY <2>1, <2>2, <2>3, JourneyUnbound
  <2> QED BY <2>4
<1>5. d \in b..d
  OBVIOUS
<1> QED BY <1>4, <1>5

LEMMA BatchMirror ==
  ASSUME IInv, IInv', DataInv, ~failed, NEW X, NEW w, NEW l \in Int, Longer, Sends(X),
         Listed(Unbinds \cup Binds \cup X, w, l), NEW r \in Resources
  PROVE  /\ r \in Fresh => At(l, r)' = Born(BindCommand(r))
         /\ \A c \in X : c.r = r => At(l, r)' = Given(Final(r), c)
         /\ r \notin Fresh /\ (\A c \in X : c.r # r) => At(l, r)' = Final(r)
<1> DEFINE Y == Unbinds \cup Binds \cup X
           Changed(k) == Touches(Cmd'[k], r) /\ ~(Cmd'[k].op = "BIND" /\ ~Cmd'[k].new)
<1>1. /\ TypesInv /\ End \in Int /\ End <= l /\ End' = l + 1
      /\ Consumed' = Consumed /\ Consumed \in Int /\ Consumed + 1 <= End
      /\ \A p \in End..(l - 1) : p \in Way' /\ Cmd'[p] \in Y
      /\ \A c \in Y : \E p \in End..(l - 1) : Cmd'[p] = c
      /\ \A p, q \in End..(l - 1) : Cmd'[p] = Cmd'[q] => p = q
  BY WayFacts DEF Listed, Longer, IInv, DataInv
<1>2. \A p \in End..(l - 1) : Changed(p) =>
        (Cmd'[p] = BindCommand(r) /\ r \in Fresh) \/ (Cmd'[p] \in X /\ Cmd'[p].r = r)
  BY <1>1, BatchTouches
<1> HIDE DEF Y
<1>3. PICK e \in Int : e = End
  BY <1>1
<1>4. At(e, r)' = Final(r)
  <2>1. e \in (Consumed + 1)..End
    BY <1>1, <1>3
  <2> QED BY <1>3, <2>1 DEF Longer, Final, At
<1>5. ASSUME NEW k \in e..(l - 1), \A p \in e..(l - 1) : Changed(p) => p = k
      PROVE  At(l, r)' = After(Final(r), r, Cmd'[k])
  <2>1. PICK k1 \in Int : k1 = k + 1
    OBVIOUS
  <2>2. At(k, r)' = At(e, r)'
    <3>1. \A p \in e..(k - 1) : ~Changed(p)
      BY <1>5
    <3> QED BY <1>1, <1>3, <3>1, UntouchedNext
  <2>3. At(k1, r)' = After(At(k, r)', r, Cmd'[k])
    <3>1. k \in Way'
      BY <1>1, <1>3
    <3>2. At(k + 1, r)' = After(At(k, r)', r, Cmd'[k])
      BY <3>1 DEF Longer
    <3> QED BY <2>1, <3>2
  <2>4. At(l, r)' = At(k1, r)'
    <3>1. \A p \in k1..(l - 1) : ~Changed(p)
      BY <1>5, <2>1
    <3>2. Consumed' + 1 <= k1 /\ k1 <= l /\ l <= End'
      BY <1>1, <1>3, <2>1
    <3> HIDE DEF Changed
    <3> QED BY <3>1, <3>2, UntouchedNext DEF Changed
  <2> QED BY <1>4, <2>2, <2>3, <2>4
<1>6. CASE r \in Fresh
  <2>1. BindCommand(r) \in Y
    BY <1>6, <1>1, FiniteParts, TypesFacts DEF Y, Binds
  <2>2. PICK k \in e..(l - 1) : Cmd'[k] = BindCommand(r)
    BY <1>1, <1>3, <2>1
  <2>3. \A c \in X : c.r # r
    BY <1>6 DEF Sends, Fresh
  <2>4. \A p \in e..(l - 1) : Changed(p) => p = k
    BY <1>1, <1>2, <1>3, <2>2, <2>3
  <2>5. At(l, r)' = After(Final(r), r, BindCommand(r))
    BY <1>5, <2>2, <2>4
  <2>6. BindCommand(r).op = "BIND" /\ BindCommand(r).r = r /\ BindCommand(r).new
    BY <1>1, <1>6, FiniteParts, TypesFacts, BindOK
  <2>7. At(l, r)' = Born(BindCommand(r))
    BY <2>5, <2>6, AfterBorn
  <2> QED BY <1>6, <2>3, <2>7
<1>7. ASSUME NEW c \in X, c.r = r
      PROVE  At(l, r)' = Given(Final(r), c) /\ r \notin Fresh
  <2>1. r \notin Fresh /\ rec[r] # NoRec /\ c.op = "DATA"
    BY <1>7 DEF Sends, Fresh
  <2>2. PICK k \in e..(l - 1) : Cmd'[k] = c
    BY <1>1, <1>3 DEF Y
  <2>3. \A p \in e..(l - 1) : Changed(p) => p = k
    BY <1>1, <1>2, <1>3, <1>7, <2>1, <2>2 DEF Sends
  <2>4. At(l, r)' = After(Final(r), r, c)
    BY <1>5, <2>2, <2>3
  <2>5. Final(r) # NoRec
    BY <2>1 DEF DataInv, WorldInv, EndsAsRecorded
  <2> QED BY <1>7, <2>1, <2>4, <2>5, AfterData
<1>8. CASE r \notin Fresh /\ \A c \in X : c.r # r
  <2>1. \A p \in e..(l - 1) : ~Changed(p)
    BY <1>2, <1>3, <1>8
  <2>2. At(l, r)' = At(e, r)'
    BY <1>1, <1>3, <2>1, UntouchedNext
  <2> QED BY <1>4, <1>8, <2>2
<1> QED BY <1>6, <1>7, <1>8

LEMMA BatchStaged ==
  ASSUME IInv, IInv', DataInv, ~failed, NEW X, NEW w, NEW l \in Int, Longer, Sends(X),
         Listed(Unbinds \cup Binds \cup X, w, l)
  PROVE  StagedAt(l)' = bound
<1> DEFINE Y == Unbinds \cup Binds \cup X
           Turns(k, r) == Cmd'[k].op \in {"BIND", "UNBIND"} /\ Cmd'[k].r = r
<1>1. /\ TypesInv /\ End \in Int /\ End <= l /\ End' = l + 1
      /\ Consumed' = Consumed /\ Consumed \in Int /\ Consumed + 1 <= End
      /\ \A p \in End..(l - 1) : p \in Way' /\ Cmd'[p] \in Y
      /\ \A c \in Y : \E p \in End..(l - 1) : Cmd'[p] = c
      /\ \A p, q \in End..(l - 1) : Cmd'[p] = Cmd'[q] => p = q
  BY WayFacts DEF Listed, Longer, IInv, DataInv
<1>2. ASSUME NEW p \in End..(l - 1), NEW r \in Resources, Turns(p, r)
      PROVE  \/ r \in Starting /\ Cmd'[p] = BindCommand(r)
             \/ r \in Ending /\ Cmd'[p] = [op |-> "UNBIND", r |-> r]
  <2>1. Cmd'[p] \in Y
    BY <1>1
  <2>2. CASE Cmd'[p] \in Unbinds
    <3>1. PICK q \in Ending : Cmd'[p] = [op |-> "UNBIND", r |-> q]
      BY <2>2 DEF Unbinds
    <3> QED BY <1>2, <3>1
  <2>3. CASE Cmd'[p] \notin Unbinds
    <3>1. Cmd'[p] \in Binds \cup X
      BY <2>1, <2>3
    <3>2. Cmd'[p].op # "UNBIND"
      <4>1. \A c \in Binds : c.op = "BIND"
        BY DEF Binds, BindCommand
      <4> QED BY <3>1, <4>1 DEF Sends
    <3> QED BY <1>1, <1>2, <2>1, <3>2, BatchTouches
  <2> QED BY <2>2, <2>3
<1>3. \A p \in End..(l - 1) : Cmd'[p].op \in {"BIND", "UNBIND"} => Cmd'[p].r \in Resources
  <2>1. Starting \subseteq Resources /\ Ending \subseteq Resources
    BY <1>1, FiniteParts, TypesFacts
  <2>2. \A c \in Y : c.op \in {"BIND", "UNBIND"} => c.r \in Resources
    <3>1. \A c \in Unbinds : c.r \in Resources
      BY <2>1 DEF Unbinds
    <3>2. \A c \in Binds : c.r \in Resources
      BY <2>1 DEF Binds, BindCommand
    <3> QED BY <3>1, <3>2 DEF Sends
  <2> QED BY <1>1, <2>2
<1> HIDE DEF Y
<1>4. PICK e \in Int : e = End
  BY <1>1
<1>5. Ahead'[e].staged = sync
  <2>1. e \in (Consumed + 1)..End
    BY <1>1, <1>4
  <2>2. StagedAt(End) = sync
    BY DEF DataInv, WorldInv, EndsAsRecorded
  <2> QED BY <1>4, <2>1, <2>2 DEF Longer, StagedAt
<1>6. ASSUME NEW r, NEW k \in e..(l - 1), \A p \in e..(l - 1) : Turns(p, r) => p = k
      PROVE  r \in Ahead'[l].staged <=> r \in StagedAfter(Ahead'[k].staged, Cmd'[k])
  <2>1. PICK k1 \in Int : k1 = k + 1
    OBVIOUS
  <2>3. Ahead'[k1].staged = StagedAfter(Ahead'[k].staged, Cmd'[k])
    <3>1. k \in Way'
      BY <1>1, <1>4
    <3>2. StagedAt(k + 1)' = StagedAfter(StagedAt(k)', Cmd'[k])
      BY <3>1 DEF Longer
    <3> QED BY <2>1, <3>2 DEF StagedAt
  <2>4. r \in Ahead'[l].staged <=> r \in Ahead'[k1].staged
    <3>1. \A p \in k1..(l - 1) : ~Turns(p, r)
      BY <1>6, <2>1
    <3>2. Consumed' + 1 <= k1 /\ k1 <= l /\ l <= End'
      BY <1>1, <1>4, <2>1
    <3>3. \A p \in k1..(l - 1) : Cmd'[p].op \in {"BIND", "UNBIND"} => Cmd'[p].r # r
      BY <3>1
    <3> QED BY <3>2, <3>3, UnboundNext
  <2> QED BY <2>3, <2>4
<1>7. ASSUME NEW r \in Starting
      PROVE  r \in Ahead'[l].staged /\ r \in bound
  <2>1. BindCommand(r) \in Y /\ r \in Resources /\ r \in bound /\ r \notin Ending
    BY <1>1, FiniteParts, TypesFacts DEF Y, Binds
  <2>2. PICK k \in e..(l - 1) : Cmd'[k] = BindCommand(r)
    BY <1>1, <1>4, <2>1
  <2>3. \A p \in e..(l - 1) : Turns(p, r) => p = k
    <3> HIDE DEF Turns, BindCommand
    <3>1. \A p \in e..(l - 1) : Turns(p, r) => Cmd'[p] = BindCommand(r)
      BY <1>2, <1>4, <2>1
    <3> QED BY <1>1, <1>4, <2>2, <3>1
  <2>4. BindCommand(r).op = "BIND" /\ BindCommand(r).r = r
    BY DEF BindCommand
  <2> HIDE DEF Turns
  <2> QED BY <1>6, <2>1, <2>2, <2>3, <2>4 DEF StagedAfter
<1>8. ASSUME NEW r \in Ending
      PROVE  r \notin Ahead'[l].staged /\ r \notin bound
  <2>1. [op |-> "UNBIND", r |-> r] \in Y /\ r \in Resources /\ r \notin bound /\ r \notin Starting
    BY <1>1, FiniteParts, TypesFacts DEF Y, Unbinds
  <2>2. PICK k \in e..(l - 1) : Cmd'[k] = [op |-> "UNBIND", r |-> r]
    BY <1>1, <1>4, <2>1
  <2>3. \A p \in e..(l - 1) : Turns(p, r) => p = k
    <3> HIDE DEF Turns
    <3>1. \A p \in e..(l - 1) : Turns(p, r) => Cmd'[p] = [op |-> "UNBIND", r |-> r]
      BY <1>2, <1>4, <2>1
    <3> QED BY <1>1, <1>4, <2>2, <3>1
  <2>4. r \notin StagedAfter(Ahead'[k].staged, [op |-> "UNBIND", r |-> r])
    BY DEF StagedAfter
  <2> HIDE DEF Turns
  <2> QED BY <1>6, <2>1, <2>2, <2>3, <2>4
<1>9. ASSUME NEW r, r \notin Starting, r \notin Ending
      PROVE  r \in Ahead'[l].staged <=> r \in bound
  <2>1. \A p \in e..(l - 1) : Cmd'[p].op \in {"BIND", "UNBIND"} => Cmd'[p].r # r
    BY <1>2, <1>3, <1>4, <1>9
  <2>2. r \in Ahead'[l].staged <=> r \in Ahead'[e].staged
    BY <1>1, <1>4, <2>1, UnboundNext
  <2>3. r \in sync <=> r \in bound
    BY <1>9 DEF Starting, Ending
  <2> QED BY <1>5, <2>2, <2>3
<1>10. \A r : r \in Ahead'[l].staged <=> r \in bound
  BY <1>7, <1>8, <1>9
<1>11. Ahead'[l].staged = bound
  BY <1>10
<1> QED BY <1>11 DEF StagedAt

LEMMA BatchLast ==
  ASSUME IInv, IInv', DataInv, ~failed, NEW X, NEW w, NEW l \in Int, Longer, Sends(X),
         Listed(Unbinds \cup Binds \cup X, w, l), w.op \in {"DRAW", "PRESENT"}
  PROVE  /\ StagedAt(l)' = bound /\ StagedAt(End)' = bound
         /\ \A r \in Resources : Final(r)' = At(l, r)'
<1>1. StagedAt(l)' = bound
  BY BatchStaged
<1>2. l \in Way' /\ Cmd'[l] = w /\ End' = l + 1
  BY DEF Listed
<1>3. \A r \in Resources : At(l + 1, r)' = After(At(l, r)', r, w)
  BY <1>2 DEF Longer
<1>4. StagedAt(l + 1)' = StagedAfter(StagedAt(l)', w)
  BY <1>2 DEF Longer
<1>5. \A r \in Resources : Final(r)' = At(l + 1, r)'
  BY <1>2 DEF Final
<1>6. StagedAt(End)' = StagedAt(l + 1)'
  BY <1>2 DEF StagedAt
<1>7. \A m, r : After(m, r, w) = m
  BY AfterOther DEF Touches
<1>8. \A S : StagedAfter(S, w) = S
  BY DEF StagedAfter
<1> QED BY <1>1, <1>3, <1>4, <1>5, <1>6, <1>7, <1>8

(* A replay leaves the guest and the recorder alone.                       *)
ReplayLeaves ==
  /\ UNCHANGED <<mem, addr, live, locked, bound, rec, lazy, sync, gen, deferred, failed, todo, wait,
                 produced, published, lastWorkEnd, tail>>
  /\ First \in Way /\ First \in Int /\ First <= published /\ First <= produced /\ First' = First + 1
  /\ Consumed' = First /\ End' = End /\ Way' = Way \ {First}
  /\ \A p \in Way' : p \in Way /\ Cmd'[p] = Cmd[p] /\ First < p

LEMMA ReplayLeft ==
  ASSUME IInv, NEW op, Replaying(op)
  PROVE  ReplayLeaves /\ Cmd[First].op = op /\ Cmd[First] = Head(ring)
<1>1. AtFront(op)
  BY FrontReplayed DEF IInv
<1>2. UNCHANGED <<mem, addr, live, locked, bound, rec, lazy, sync, gen, deferred, failed, todo, wait,
                  produced, published, lastWorkEnd, tail>> /\ Consumed < published
  BY DEF Replaying, guestVars, recordVars, emulatorVars, cursorVars
<1>3. First <= published
  <2>1. published \in Int /\ Consumed \in Int
    BY WayFacts DEF IInv, CursorInv
  <2> QED BY <1>2, <2>1 DEF First
<1> QED BY <1>1, <1>2, <1>3 DEF AtFront, ReplayLeaves

LEMMA NoFrees ==
  ASSUME IInv, TypesInv, todo = <<>>
  PROVE  \A p \in Way : p <= produced /\ Cmd[p].op # "FREE"
<1>1. Way = (Consumed + 1)..(End - 1) /\ End = produced + 1 /\ produced \in Nat /\ Consumed \in Int
  BY WayFacts, EmptyIsSequence DEF IInv, End
<1>2. \A p \in Way : p \in Int /\ p <= produced
  BY <1>1
<1> QED BY <1>1, <1>2 DEF TypesInv, CommandTypes

LEMMA NothingLonger == \A s : Len(s) = 0 => \A e \in Nat : e + Len(s) = e
OBVIOUS

LEMMA NoFreesNext ==
  ASSUME IInv', TypesInv', todo' = <<>>
  PROVE  \A p \in Way' : Cmd'[p].op # "FREE"
<1>1. Len(ring') \in Nat /\ produced' \in Nat
  BY DEF IInv, CursorInv, IsSequence
<1>2. \A p \in Way' : p \in Int /\ p <= produced'
  <2>1. Len(todo') = 0
    BY EmptyIsSequence
  <2> PICK n \in Nat : n = Len(ring')
    BY <1>1
  <2> PICK e \in Nat : e = produced'
    BY <1>1
  <2>2. Way' = (e - n + 1)..(e + Len(todo'))
    BY DEF Way, Consumed
  <2>3. e + Len(todo') = e
    BY <2>1, NothingLonger
  <2>4. Way' = (e - n + 1)..e
    BY <2>2, <2>3
  <2>5. \A p \in Way' : p \in Int /\ p <= e
    BY <2>4
  <2> QED BY <2>5
<1> QED BY <1>1, <1>2 DEF TypesInv, CommandTypes

(* Commands of a batch                                                     *)
LEMMA ListedOps ==
  ASSUME IInv, TypesInv, NEW X, Sends(X), NEW w, NEW l, Listed(Unbinds \cup Binds \cup X, w, l)
  PROVE  \A p \in Way' : \/ p \in Way \/ p = l
                         \/ Cmd'[p].op \in {"BIND", "UNBIND", "DATA"}
                            /\ Cmd'[p] \in Unbinds \cup Binds \cup X /\ End <= p /\ p < l
<1>1. \A c \in Unbinds \cup Binds \cup X : c.op \in {"BIND", "UNBIND", "DATA"}
  <2>1. \A c \in Unbinds \cup Binds : c.op \in {"UNBIND", "BIND"}
    BY DEF Unbinds, Binds, BindCommand
  <2> QED BY <2>1 DEF Sends
<1>2. \A p \in Way' : p \in Way \/ p = l \/ (Cmd'[p] \in Unbinds \cup Binds \cup X /\ End <= p /\ p < l)
  BY DEF Listed
<1> QED BY <1>1, <1>2

(* The commands added, whatever the call: their positions are the last.    *)
LEMMA DrawsListed ==
  ASSUME IInv, DataInv, NEW use, NEW all, DrawsNow(use, all)
  PROVE  /\ use \in Uses /\ Adding /\ Longer /\ Flush /\ Sends(Datas(use, all))
         /\ UNCHANGED <<mem, addr, locked, deferred, wait>>
         /\ \E l \in Int : Listed(Unbinds \cup Binds \cup Datas(use, all), DrawCommand(use), l)
         /\ DrawCommand(use).op = "DRAW"
<1>1. use \in Uses /\ Batch(Datas(use, all), DrawCommand(use))
  BY DEF DrawsNow
<1>2. \E l \in Int : Listed(Unbinds \cup Binds \cup Datas(use, all), DrawCommand(use), l)
  BY <1>1, BatchAdded
<1>3. Sends(Datas(use, all))
  BY <1>1, DatasSend DEF DataInv
<1> HIDE DEF Datas
<1> QED BY <1>1, <1>2, <1>3 DEF Batch, Adding, DrawCommand

LEMMA PresentsListed ==
  ASSUME IInv, DataInv, PresentsNow
  PROVE  /\ Adding /\ Longer /\ Flush /\ Sends({})
         /\ UNCHANGED <<mem, addr, locked, deferred, wait, lazy>>
         /\ \E l \in Int : Listed(Unbinds \cup Binds \cup {}, [op |-> "PRESENT"], l)
<1>1. Batch({}, [op |-> "PRESENT"]) /\ UNCHANGED lazy
  BY DEF PresentsNow
<1>2. \E l \in Int : Listed(Unbinds \cup Binds \cup {}, [op |-> "PRESENT"], l)
  BY <1>1, BatchAdded
<1> QED BY <1>1, <1>2 DEF Batch, Adding, Sends

----------------------------------------------------------------------------
(* FreeInv.                                                                *)

LEMMA FreeNone ==
  ASSUME \A p \in Way' : Cmd'[p].op # "FREE"
  PROVE  FreeInv'
BY DEF FreeInv

LEMMA FreeReplay ==
  ASSUME IInv, DataInv, ~failed, ReplayLeaves
  PROVE  FreeInv'
<1> SUFFICES ASSUME NEW p \in Way', Cmd'[p].op = "FREE"
             PROVE  published' < p - 1 /\ Cmd'[p - 1].op = "DESTROY" /\ Cmd'[p - 1].r = Cmd'[p].r
  BY DEF FreeInv, Is
<1>1. p \in Way /\ Cmd'[p] = Cmd[p]
  BY DEF ReplayLeaves
<1>2. published < p - 1 /\ Cmd[p - 1].op = "DESTROY" /\ Cmd[p - 1].r = Cmd[p].r
  BY <1>1 DEF DataInv, FreeInv, Is
<1>3. p - 1 \in Way'
  <2>1. p \in Int /\ p < End /\ Way = (Consumed + 1)..(End - 1) /\ End \in Int /\ Consumed \in Int
    BY <1>1, WayFacts DEF IInv
  <2>2. published \in Int
    BY DEF IInv, CursorInv
  <2> QED BY <1>2, <2>1, <2>2 DEF ReplayLeaves, First
<1>4. Cmd'[p - 1] = Cmd[p - 1]
  BY <1>3 DEF ReplayLeaves
<1> QED BY <1>1, <1>2, <1>4 DEF ReplayLeaves

LEMMA FreeStep ==
  ASSUME IInv, IInv', DataInv, TypesInv', ~failed, Kinds
  PROVE  FreeInv'
<1>0. FreeInv /\ TypesInv
  BY DEF DataInv
<1>1. CASE Quietly
  BY <1>0, <1>1 DEF Quietly
<1>2. CASE Local
  BY <1>0, <1>2 DEF Local, Steady, FreeInv, Is
<1>3. ASSUME NEW c, c.op # "FREE", Longer, todo = <<>>, todo' = <<c>>
      PROVE  FreeInv'
  <2>1. \A p \in Way' : (p \in Way /\ Cmd'[p] = Cmd[p]) \/ Cmd'[p] = c
    <3>1. \A p \in Way : Cmd'[p] = Cmd[p]
      BY <1>3 DEF Longer
    <3> QED BY <1>3, <3>1, OneAdded
  <2> QED BY <1>0, <1>3, <2>1, NoFrees, FreeNone
<1>4. ASSUME NEW r \in Resources, NEW b \in Blocks, Adding, Moves(r, b)
      PROVE  FreeInv'
  <2> DEFINE c == [op |-> "MEM", r |-> r, block |-> b]
  <2>1. todo' = <<c>> /\ c.op # "FREE" /\ Longer /\ todo = <<>>
    BY <1>4 DEF Moves, Adding
  <2> HIDE DEF c
  <2> QED BY <2>1, <1>3
<1>5. ASSUME NEW r \in Resources, Adding, Dirties(r)
      PROVE  FreeInv'
  <2> DEFINE c == [op |-> "DIRTY", r |-> r, gen |-> gen + 1, parts |-> locked[r], block |-> addr[r]]
  <2>1. todo' = <<c>> /\ c.op # "FREE" /\ Longer /\ todo = <<>>
    BY <1>5 DEF Dirties, Adding
  <2> HIDE DEF c
  <2> QED BY <2>1, <1>3
<1>6. ASSUME NEW r \in Resources, Adding, Changes(r)
      PROVE  FreeInv'
  <2> DEFINE c == Data(r, Parts, FALSE)
  <2>1. todo' = <<c>> /\ c.op # "FREE" /\ Longer /\ todo = <<>>
    BY <1>6 DEF Changes, Adding, Data
  <2> HIDE DEF c
  <2> QED BY <2>1, <1>3
<1>7. ASSUME NEW r \in Resources, Undone(r)
      PROVE  FreeInv'
  <2>1. End \in Int /\ End \in Way' /\ End + 1 \in Way' /\ \A p \in Way : p < End
    BY <1>7, DestroyAdded
  <2>2. ASSUME NEW p \in Way', Cmd'[p].op = "FREE"
        PROVE  p = End + 1
    <3>1. p \notin Way
      <4>1. p \in Way => Cmd'[p] = Cmd[p]
        BY <1>7 DEF Undone, Longer
      <4> QED BY <1>0, <1>7, <2>2, <4>1, NoFrees DEF Undone
    <3>2. Cmd'[End].op = "DESTROY"
      BY <1>7, DestroyAdded
    <3> QED BY <1>7, <2>2, <3>1, <3>2, DestroyAdded
  <2>3. published' < End /\ Cmd'[End].op = "DESTROY" /\ Cmd'[End].r = r /\ Cmd'[End + 1].r = r
    <3>1. published <= produced /\ published \in Nat /\ produced \in Nat
      BY DEF IInv, CursorInv
    <3>2. End = produced + 1 /\ published' = published
      BY <1>7, EmptyIsSequence, <3>1 DEF Undone, End
    <3>3. Cmd'[End].op = "DESTROY" /\ Cmd'[End].r = r /\ Cmd'[End + 1].r = r
      BY <1>7, DestroyAdded
    <3> QED BY <3>1, <3>2, <3>3
  <2>4. ASSUME NEW p \in Way', Cmd'[p].op = "FREE"
        PROVE  published' < p - 1 /\ Cmd'[p - 1].op = "DESTROY" /\ Cmd'[p - 1].r = Cmd'[p].r
    <3>1. p = End + 1
      BY <2>2, <2>4
    <3>2. p - 1 = End /\ published' < p - 1
      BY <2>1, <2>3, <3>1
    <3> QED BY <2>3, <3>1, <3>2
  <2> QED BY <2>4 DEF FreeInv, Is
<1>8. ASSUME NEW X, NEW w, NEW l \in Int, Sends(X), Listed(Unbinds \cup Binds \cup X, w, l), Adding,
             w.op # "FREE"
      PROVE  FreeInv'
  <2>1. \A p \in Way' : (p \in Way /\ Cmd'[p] = Cmd[p]) \/ Cmd'[p] = w
                        \/ Cmd'[p].op \in {"BIND", "UNBIND", "DATA"}
    <3>1. \A p \in Way : Cmd'[p] = Cmd[p]
      BY <1>8 DEF Longer, Adding
    <3>2. Cmd'[l] = w
      BY <1>8 DEF Listed
    <3> QED BY <1>0, <1>8, <3>1, <3>2, ListedOps
  <2> QED BY <1>0, <1>8, <2>1, NoFrees, FreeNone DEF Adding
<1>9. CASE \E use, all : DrawsNow(use, all)
  <2> PICK use, all : DrawsNow(use, all)
    BY <1>9
  <2>1. PICK l \in Int : Listed(Unbinds \cup Binds \cup Datas(use, all), DrawCommand(use), l)
    BY DrawsListed
  <2>2. Adding /\ Sends(Datas(use, all)) /\ DrawCommand(use).op # "FREE"
    BY DrawsListed
  <2> QED BY <1>8, <2>1, <2>2
<1>10. CASE PresentsNow
  <2>1. PICK l \in Int : Listed(Unbinds \cup Binds \cup {}, [op |-> "PRESENT"], l)
    BY <1>10, PresentsListed
  <2>2. Adding /\ Sends({}) /\ [op |-> "PRESENT"].op # "FREE"
    BY <1>10, PresentsListed
  <2> QED BY <1>8, <2>1, <2>2
<1>11. CASE Free
  <2>1. todo' = <<>>
    BY <1>11, FreedFree DEF IInv
  <2> QED BY <2>1, NoFreesNext, FreeNone
<1>12. CASE Replays
  BY <1>12, ReplayLeft, FreeReplay DEF Replays
<1>13. CASE ReplayDraw
  BY <1>13, ReplayLeft, FreeReplay DEF ReplayDraw
<1> QED BY <1>1, <1>2, <1>4, <1>5, <1>6, <1>7, <1>9, <1>10, <1>11, <1>12, <1>13 DEF Kinds

----------------------------------------------------------------------------
(* What was on its way stays there, and what is added.                     *)
Past == \A p \in Way : p \in Way' /\ p \in Int /\ p < End /\ Cmd'[p] = Cmd[p] /\ Ahead'[p] = Ahead[p]

LEMMA LongerPast ==
  ASSUME IInv, Longer
  PROVE  Past
<1>1. \A p \in Way : p \in Int /\ p < End /\ p \in (Consumed + 1)..End
  BY WayFacts DEF IInv
<1> QED BY <1>1 DEF Past, Longer

(* The one command c added, of op for r                                    *)
AddedOne(op, r) ==
  /\ Past /\ End' = End + 1 /\ End \in Int /\ End \in Way' /\ End \notin Way
  /\ \A p \in Way' : p \in Way \/ p = End
  /\ Cmd'[End].op = op /\ Cmd'[End].r = r
  /\ \A q \in Resources : Final(q)' = After(Final(q), q, Cmd'[End])
  /\ StagedAt(End)' = StagedAt(End)

LEMMA AddedIs ==
  ASSUME IInv, Longer, NEW c, NEW r, todo' = <<c>>, c.r = r, c.op \in {"MEM", "DIRTY", "DATA"}
  PROVE  AddedOne(c.op, r) /\ Cmd'[End] = c
<1>1. Past
  BY LongerPast
<1>2. StagedAfter(StagedAt(End), c) = StagedAt(End)
  BY DEF StagedAfter
<1> QED BY <1>1, <1>2, OneAdded DEF AddedOne

LEMMA MovesAdded ==
  ASSUME IInv, NEW r, NEW b, Adding, Moves(r, b)
  PROVE  AddedOne("MEM", r) /\ Cmd'[End].block = b /\ todo = <<>>
<1> DEFINE c == [op |-> "MEM", r |-> r, block |-> b]
<1>1. todo' = <<c>> /\ Longer /\ todo = <<>>
  BY DEF Moves, Adding
<1>2. c.op = "MEM" /\ c.r = r /\ c.block = b
  OBVIOUS
<1> HIDE DEF c
<1>3. AddedOne(c.op, r) /\ Cmd'[End] = c
  BY <1>1, <1>2, AddedIs
<1> QED BY <1>1, <1>2, <1>3

LEMMA DirtiesAdded ==
  ASSUME IInv, NEW r, Adding, Dirties(r)
  PROVE  /\ AddedOne("DIRTY", r) /\ todo = <<>>
         /\ Cmd'[End].gen = gen + 1 /\ Cmd'[End].parts = locked[r] /\ Cmd'[End].block = addr[r]
<1> DEFINE c == [op |-> "DIRTY", r |-> r, gen |-> gen + 1, parts |-> locked[r], block |-> addr[r]]
<1>1. todo' = <<c>> /\ Longer /\ todo = <<>>
  BY DEF Dirties, Adding
<1>2. c.op = "DIRTY" /\ c.r = r /\ c.gen = gen + 1 /\ c.parts = locked[r] /\ c.block = addr[r]
  OBVIOUS
<1> HIDE DEF c
<1>3. AddedOne(c.op, r) /\ Cmd'[End] = c
  BY <1>1, <1>2, AddedIs
<1> QED BY <1>1, <1>2, <1>3

LEMMA ChangesAdded ==
  ASSUME IInv, NEW r, Adding, Changes(r)
  PROVE  /\ AddedOne("DATA", r) /\ todo = <<>> /\ Cmd'[End] = Data(r, Parts, FALSE)
         /\ Cmd'[End].parts = Parts /\ Cmd'[End].bytes = mem[addr[r]] /\ Cmd'[End].written = FALSE
<1> DEFINE c == Data(r, Parts, FALSE)
<1>1. todo' = <<c>> /\ Longer /\ todo = <<>>
  BY DEF Changes, Adding
<1>2. c.op = "DATA" /\ c.r = r /\ c.parts = Parts /\ c.bytes = mem[addr[r]] /\ c.written = FALSE
  BY DEF Data
<1> HIDE DEF c
<1>3. AddedOne(c.op, r) /\ Cmd'[End] = c
  BY <1>1, <1>2, AddedIs
<1> QED BY <1>1, <1>2, <1>3 DEF c

(* The records such a call leaves                                          *)
LEMMA DirtiedRecord ==
  ASSUME TypesInv, NEW r \in Resources, Dirties(r)
  PROVE  /\ rec' = [q \in Resources |-> rec'[q]]
         /\ \A q \in Resources : q # r => rec'[q] = rec[q]
         /\ rec'[r] # NoRec /\ rec'[r].slot = rec[r].slot /\ rec'[r].gen = gen + 1
         /\ rec'[r].lastRef = rec[r].lastRef /\ rec'[r].eager = rec[r].eager
<1>1. rec = [q \in Resources |-> rec[q]] /\ rec[r] \in Records
  BY DEF TypesInv, GuestTypes, RecordInv, Dirties
<1>2. rec' = [rec EXCEPT ![r] = rec'[r]] /\ rec'[r] \in Records
  BY DEF Dirties
<1>3. rec'[r] # NoRec
  BY <1>2, RenderLinkAssumption
<1>4. rec'[r] = [rec[r] EXCEPT !.gen = gen + 1, !.pend = rec'[r].pend]
  BY DEF Dirties
<1>5. /\ rec'[r].slot = rec[r].slot /\ rec'[r].gen = gen + 1
      /\ rec'[r].lastRef = rec[r].lastRef /\ rec'[r].eager = rec[r].eager
  BY <1>1, <1>4 DEF Records
<1>6. rec' = [q \in Resources |-> rec'[q]] /\ \A q \in Resources : q # r => rec'[q] = rec[q]
  BY <1>1, <1>2
<1> QED BY <1>3, <1>5, <1>6

LEMMA ChangedRecord ==
  ASSUME TypesInv, NEW r \in Resources, Changes(r)
  PROVE  /\ rec' = [q \in Resources |-> rec'[q]]
         /\ \A q \in Resources : q # r => rec'[q] = rec[q]
         /\ rec'[r] # NoRec /\ rec'[r].slot = rec[r].slot /\ rec'[r].gen = rec[r].gen
         /\ rec'[r].lastRef = rec[r].lastRef /\ rec'[r].eager
<1>1. rec = [q \in Resources |-> rec[q]] /\ rec[r] \in Records
  BY DEF TypesInv, GuestTypes, RecordInv, Changes
<1>2. rec' = [rec EXCEPT ![r] = rec'[r]] /\ rec'[r] \in Records
  BY DEF Changes
<1>3. rec'[r] # NoRec
  BY <1>2, RenderLinkAssumption
<1>4. rec'[r] = [rec[r] EXCEPT !.eager = TRUE]
  BY DEF Changes
<1>5. /\ rec'[r].slot = rec[r].slot /\ rec'[r].gen = rec[r].gen
      /\ rec'[r].lastRef = rec[r].lastRef /\ rec'[r].eager
  BY <1>1, <1>4 DEF Records
<1>6. rec' = [q \in Resources |-> rec'[q]] /\ \A q \in Resources : q # r => rec'[q] = rec[q]
  BY <1>1, <1>2
<1> QED BY <1>3, <1>5, <1>6

LEMMA UndoneRecord ==
  ASSUME TypesInv, NEW r \in Resources, Undone(r)
  PROVE  rec'[r] = NoRec /\ \A q \in Resources : q # r => rec'[q] = rec[q]
<1>1. rec = [q \in Resources |-> rec[q]] /\ rec' = [rec EXCEPT ![r] = NoRec]
  BY DEF TypesInv, GuestTypes, Undone, Destroys
<1> QED BY <1>1

(* ... and those of a draw or present                                      *)
LEMMA BatchRecord ==
  ASSUME IInv, TypesInv, Flush
  PROVE  /\ sync' = bound /\ gen' = gen + Cardinality(Fresh) /\ Cardinality(Fresh) \in Nat
         /\ \A r \in Resources :
              /\ rec[r] # NoRec =>
                   /\ rec'[r] # NoRec /\ rec'[r].slot = rec[r].slot /\ rec'[r].gen = rec[r].gen
                   /\ rec'[r].eager = rec[r].eager
                   /\ rec[r].lastRef <= rec'[r].lastRef
                   /\ r \in sync /\ r \notin bound => lastWorkEnd <= rec'[r].lastRef
              /\ r \in Fresh => rec'[r] = NewRec(r)
              /\ rec[r] = NoRec /\ r \notin bound => rec'[r] = NoRec
<1>1. rec' = Recorded /\ sync' = bound /\ gen' = gen + Cardinality(Fresh) /\ Cardinality(Fresh) \in Nat
  BY RecordedFacts DEF Flush
<1>2. ASSUME NEW r \in Resources, rec[r] # NoRec
      PROVE  /\ rec'[r] # NoRec /\ rec'[r].slot = rec[r].slot /\ rec'[r].gen = rec[r].gen
             /\ rec'[r].eager = rec[r].eager
             /\ rec[r].lastRef <= rec'[r].lastRef
             /\ r \in sync /\ r \notin bound => lastWorkEnd <= rec'[r].lastRef
  <2>1. /\ rec'[r] \in Records /\ rec'[r].slot = rec[r].slot /\ rec'[r].gen = rec[r].gen
        /\ rec'[r].eager = rec[r].eager
        /\ rec'[r].lastRef = (IF r \in Ending /\ lastWorkEnd > rec[r].lastRef
                                THEN lastWorkEnd ELSE rec[r].lastRef)
    BY <1>1, <1>2, RecordedFacts
  <2>2. rec[r].lastRef \in Nat /\ lastWorkEnd \in Nat
    BY <1>2 DEF TypesInv, RecordInv, CountTypes, Records
  <2>3. r \in sync /\ r \notin bound => r \in Ending
    BY DEF Ending
  <2> QED BY <2>1, <2>2, <2>3, RenderLinkAssumption
<1> QED BY <1>1, <1>2, RecordedFacts

----------------------------------------------------------------------------
(* RefInv.                                                                 *)

LEMMA RefKept ==
  ASSUME RefInv, \A p \in Way' : Cmd'[p].op = "DRAW" => p \in Way /\ Cmd'[p] = Cmd[p],
         UNCHANGED <<produced, lastWorkEnd, sync>>,
         \A r \in Resources : rec'[r] # NoRec => rec[r] # NoRec /\ rec'[r].lastRef = rec[r].lastRef
  PROVE  RefInv'
<1>1. \A p \in Way' : Cmd'[p].op = "DRAW" /\ p <= produced' => p <= lastWorkEnd'
  BY DEF RefInv
<1>2. \A p \in Way', r \in Resources :
         Cmd'[p].op = "DRAW" /\ r \in DOMAIN Cmd'[p].use /\ rec'[r] # NoRec =>
           r \in sync' \/ p <= rec'[r].lastRef
  BY DEF RefInv, Reads
<1> QED BY <1>1, <1>2 DEF RefInv, Reads

LEMMA RefOne ==
  ASSUME RefInv, NEW op \in {"MEM", "DIRTY", "DATA"}, NEW q, AddedOne(op, q), Adding, sync' = sync,
         \A r \in Resources : rec'[r] # NoRec => rec[r] # NoRec /\ rec'[r].lastRef = rec[r].lastRef
  PROVE  RefInv'
<1>1. \A p \in Way' : Cmd'[p].op = "DRAW" => p \in Way /\ Cmd'[p] = Cmd[p]
  BY DEF AddedOne, Past
<1>2. UNCHANGED <<produced, lastWorkEnd, sync>>
  BY DEF Adding
<1> QED BY <1>1, <1>2, RefKept

LEMMA RefBatch ==
  ASSUME IInv, DataInv, ~failed, NEW X, NEW w, NEW l \in Int, Sends(X), Adding, Flush,
         Listed(Unbinds \cup Binds \cup X, w, l), w.op = "DRAW" => DOMAIN w.use = bound
  PROVE  RefInv'
<1>1. RefInv /\ TypesInv /\ todo = <<>> /\ Longer /\ UNCHANGED <<produced, lastWorkEnd>>
  BY DEF DataInv, Adding
<1>2. \A p \in Way : p <= produced
  BY <1>1, NoFrees
<1>3. End = produced + 1 /\ produced \in Int
  BY <1>1, EmptyIsSequence DEF End, IInv, CursorInv
<1>4. \A p \in Way' : Cmd'[p].op = "DRAW" =>
        (p \in Way /\ Cmd'[p] = Cmd[p]) \/ (Cmd'[p] = w /\ p > produced)
  <2>1. Cmd'[l] = w /\ l > produced
    BY <1>3 DEF Listed
  <2>2. \A p \in Way : Cmd'[p] = Cmd[p]
    BY <1>1, LongerPast DEF Past
  <2>3. \A p \in Way' : p \in Way \/ p = l \/ Cmd'[p].op \in {"BIND", "UNBIND", "DATA"}
    BY <1>1, ListedOps
  <2> QED BY <2>1, <2>2, <2>3
<1>5. ASSUME NEW p \in Way', Cmd'[p].op = "DRAW", p <= produced'
      PROVE  p <= lastWorkEnd'
  <2>1. p \in Int /\ p <= produced
    <3>1. Way' = (Consumed + 1)..(End' - 1)
      BY <1>1 DEF Longer
    <3> QED BY <1>1, <1>5, <3>1
  <2> QED BY <1>1, <1>3, <1>4, <1>5, <2>1 DEF RefInv
<1>6. ASSUME NEW p \in Way', NEW r \in Resources, Cmd'[p].op = "DRAW", r \in DOMAIN Cmd'[p].use,
             rec'[r] # NoRec
      PROVE  r \in sync' \/ p <= rec'[r].lastRef
  <2>1. CASE p \in Way /\ Cmd'[p] = Cmd[p]
    <3>1. p \in Int /\ p <= lastWorkEnd
      BY <1>1, <1>2, <1>6, <2>1, LongerPast DEF RefInv, Past
    <3>2. CASE rec[r] # NoRec
      <4>1. r \in sync \/ p <= rec[r].lastRef
        BY <1>1, <1>6, <2>1, <3>2 DEF RefInv, Reads
      <4>2. /\ rec[r].lastRef <= rec'[r].lastRef
            /\ r \in sync /\ r \notin bound => lastWorkEnd <= rec'[r].lastRef
            /\ sync' = bound
        BY <1>1, <3>2, BatchRecord
      <4>3. rec[r].lastRef \in Int /\ rec'[r].lastRef \in Int /\ lastWorkEnd \in Int
        <5>1. rec'[r] \in Records
          BY <1>1, <3>2, RecordedFacts DEF Flush
        <5>2. rec[r] \in Records
          BY <1>1, <3>2 DEF TypesInv, RecordInv
        <5>3. lastWorkEnd \in Int
          BY <1>1 DEF TypesInv, CountTypes
        <5> QED BY <5>1, <5>2, <5>3 DEF Records
      <4> QED BY <3>1, <4>1, <4>2, <4>3
    <3>3. CASE rec[r] = NoRec
      <4>1. r \in bound /\ sync' = bound
        BY <1>1, <1>6, <3>3, BatchRecord
      <4> QED BY <4>1
    <3> QED BY <3>2, <3>3
  <2>2. CASE Cmd'[p] = w
    <3>1. r \in bound /\ sync' = bound
      BY <1>1, <1>6, <2>2, BatchRecord
    <3> QED BY <3>1
  <2> QED BY <1>4, <1>6, <2>1, <2>2
<1> QED BY <1>5, <1>6 DEF RefInv, Reads

LEMMA RefStep ==
  ASSUME IInv, IInv', DataInv, TypesInv', ~failed, Kinds
  PROVE  RefInv'
<1>0. RefInv /\ TypesInv
  BY DEF DataInv
<1>1. CASE Quietly
  <2>1. UNCHANGED <<Way, Cmd, sync, rec>> /\ lastWorkEnd <= lastWorkEnd'
        /\ lastWorkEnd \in Int /\ lastWorkEnd' \in Int /\ produced \in Int
        /\ (produced' # produced => produced' = produced + 1)
    BY <1>0, <1>1 DEF Quietly, Steady, TypesInv, CountTypes, IInv, CursorInv
  <2>2. ASSUME NEW p \in Way', Cmd'[p].op = "DRAW", p <= produced'
        PROVE  p <= lastWorkEnd'
    <3>1. p \in Way /\ p \in Int /\ Cmd[p].op = "DRAW"
      BY <2>1, <2>2, WayFacts DEF IInv
    <3>2. CASE p <= produced
      BY <1>0, <2>1, <3>1, <3>2 DEF RefInv
    <3>3. CASE ~(p <= produced)
      <4>1. p = produced' /\ produced' # produced
        BY <2>1, <2>2, <3>1, <3>3
      <4> QED BY <1>1, <3>1, <4>1 DEF Quietly
    <3> QED BY <3>2, <3>3
  <2>3. \A p \in Way', r \in Resources :
          Cmd'[p].op = "DRAW" /\ r \in DOMAIN Cmd'[p].use /\ rec'[r] # NoRec =>
            r \in sync' \/ p <= rec'[r].lastRef
    BY <1>0, <2>1 DEF RefInv, Reads
  <2> QED BY <2>2, <2>3 DEF RefInv, Reads
<1>2. CASE Local
  <2>1. UNCHANGED <<Way, Cmd, sync, rec, produced, lastWorkEnd>>
    BY <1>2 DEF Local, Steady
  <2> QED BY <1>0, <2>1, RefKept
<1>3. ASSUME NEW r \in Resources, NEW b \in Blocks, Adding, Moves(r, b)
      PROVE  RefInv'
  <2>1. AddedOne("MEM", r) /\ UNCHANGED <<rec, sync>>
    BY <1>3, MovesAdded DEF Moves
  <2> QED BY <1>0, <1>3, <2>1, RefOne
<1>4. ASSUME NEW r \in Resources, Adding, Dirties(r)
      PROVE  RefInv'
  <2>1. AddedOne("DIRTY", r) /\ sync' = sync /\ rec[r] # NoRec
    BY <1>4, DirtiesAdded DEF Dirties
  <2>2. \A q \in Resources : rec'[q] # NoRec => rec[q] # NoRec /\ rec'[q].lastRef = rec[q].lastRef
    BY <1>0, <1>4, <2>1, DirtiedRecord
  <2> QED BY <1>0, <1>4, <2>1, <2>2, RefOne
<1>5. ASSUME NEW r \in Resources, Adding, Changes(r)
      PROVE  RefInv'
  <2>1. AddedOne("DATA", r) /\ sync' = sync /\ rec[r] # NoRec
    BY <1>5, ChangesAdded DEF Changes
  <2>2. \A q \in Resources : rec'[q] # NoRec => rec[q] # NoRec /\ rec'[q].lastRef = rec[q].lastRef
    BY <1>0, <1>5, <2>1, ChangedRecord
  <2> QED BY <1>0, <1>5, <2>1, <2>2, RefOne
<1>6. ASSUME NEW r \in Resources, Undone(r)
      PROVE  RefInv'
  <2>1. \A p \in Way' : Cmd'[p].op = "DRAW" => p \in Way /\ Cmd'[p] = Cmd[p]
    <3>1. Past
      BY <1>6, LongerPast DEF Undone
    <3>2. \A p \in Way' : p \in Way \/ Cmd'[p].op = "DESTROY" \/ Cmd'[p].op = "FREE"
      BY <1>6, DestroyAdded
    <3> QED BY <3>1, <3>2 DEF Past
  <2>2. UNCHANGED <<produced, lastWorkEnd, sync>>
    BY <1>6 DEF Undone, Destroys
  <2>3. \A q \in Resources : rec'[q] # NoRec => rec[q] # NoRec /\ rec'[q].lastRef = rec[q].lastRef
    BY <1>0, <1>6, UndoneRecord
  <2> QED BY <1>0, <2>1, <2>2, <2>3, RefKept
<1>7. CASE \E use, all : DrawsNow(use, all)
  <2> PICK use, all : DrawsNow(use, all)
    BY <1>7
  <2>1. PICK l \in Int : Listed(Unbinds \cup Binds \cup Datas(use, all), DrawCommand(use), l)
    BY DrawsListed
  <2>2. Adding /\ Flush /\ Sends(Datas(use, all)) /\ DOMAIN DrawCommand(use).use = bound
    <3>1. DOMAIN use = bound
      BY <1>0, DrawsListed, DrawOK
    <3> QED BY <3>1, DrawsListed DEF DrawCommand
  <2> QED BY <2>1, <2>2, RefBatch
<1>8. CASE PresentsNow
  <2>1. PICK l \in Int : Listed(Unbinds \cup Binds \cup {}, [op |-> "PRESENT"], l)
    BY <1>8, PresentsListed
  <2>2. Adding /\ Flush /\ Sends({}) /\ [op |-> "PRESENT"].op # "DRAW"
    BY <1>8, PresentsListed
  <2> QED BY <2>1, <2>2, RefBatch
<1>9. CASE Free /\ Freed
  <2>1. UNCHANGED <<produced, lastWorkEnd, sync, rec>>
    BY <1>9 DEF Free, cursorVars, recordVars
  <2> QED BY <1>0, <1>9, <2>1, RefKept DEF Freed
<1>10. CASE Replays \/ ReplayDraw
  <2>1. ReplayLeaves
    BY <1>10, ReplayLeft DEF Replays, ReplayDraw
  <2> QED BY <1>0, <2>1, RefKept DEF ReplayLeaves
<1> QED BY <1>1, <1>2, <1>3, <1>4, <1>5, <1>6, <1>7, <1>8, <1>9, <1>10 DEF Kinds

----------------------------------------------------------------------------
(* FenceInv.                                                               *)

LEMMA FenceStep ==
  ASSUME IInv, IInv', DataInv, TypesInv', ~failed, Kinds
  PROVE  FenceInv'
<1>0. FenceInv /\ TypesInv /\ RefInv
  BY DEF DataInv
<1>1. CASE wait' = NoWait
  BY <1>1 DEF FenceInv
<1>2. ASSUME wait' = wait, UNCHANGED <<rec, locked>>, \A p \in Way' : p \in Way /\ Cmd'[p] = Cmd[p]
      PROVE  FenceInv'
  BY <1>0, <1>2 DEF FenceInv, Reads
<1>3. CASE Quietly
  <2>1. UNCHANGED <<rec, locked, sync, Way, Cmd>>
    BY <1>3 DEF Quietly, Steady
  <2>2. CASE wait' = wait
    BY <1>2, <2>1, <2>2
  <2>3. CASE wait'.kind = "frame"
    BY <2>3 DEF FenceInv
  <2>4. CASE NewFence
    <3>1. PICK r \in Resources, S \in SUBSET Parts :
            /\ wait' = [kind |-> "fence", until |-> LastRefOf(r), r |-> r, parts |-> S]
            /\ rec[r] # NoRec /\ ~rec[r].eager /\ (r \in Surfaces => S = Parts)
            /\ locked[r] = {} /\ todo = <<>>
      BY <2>4 DEF NewFence
    <3>2. wait'.r = r /\ wait'.until = LastRefOf(r) /\ wait'.parts = S
      BY <3>1
    <3>3. ASSUME NEW p \in Way, Reads(p, r)
          PROVE  p <= LastRefOf(r)
      <4>1. p <= produced /\ p \in Int /\ p <= lastWorkEnd
        BY <1>0, <3>1, <3>3, NoFrees, WayFacts DEF IInv, RefInv, Reads
      <4>2. /\ LastRefOf(r) \in Nat /\ rec[r].lastRef <= LastRefOf(r)
            /\ r \in sync => lastWorkEnd <= LastRefOf(r)
        BY <1>0, <3>1, LastRefFacts
      <4>3. r \in sync \/ p <= rec[r].lastRef
        BY <1>0, <3>1, <3>3 DEF RefInv
      <4>4. rec[r].lastRef \in Nat /\ lastWorkEnd \in Nat
        BY <1>0, <3>1 DEF TypesInv, RecordInv, Records, CountTypes
      <4> HIDE DEF LastRefOf
      <4> QED BY <4>1, <4>2, <4>3, <4>4
    <3>5. LastRefOf(r) \in Nat
      BY <1>0, <3>1, LastRefFacts
    <3>4. \A p \in Way' : Reads(p, r)' => p <= wait'.until
      BY <2>1, <3>2, <3>3 DEF Reads
    <3> HIDE DEF LastRefOf
    <3> QED BY <2>1, <3>1, <3>2, <3>4, <3>5 DEF FenceInv, Reads
  <2> QED BY <1>1, <1>3, <2>2, <2>3, <2>4 DEF Quietly
<1>4. CASE Local \/ Adding \/ \E r \in Resources : Undone(r)
  BY <1>1, <1>4 DEF Local, Adding, Undone
<1>5. CASE (\E use, all : DrawsNow(use, all)) \/ PresentsNow
  BY <1>1, <1>5 DEF DrawsNow, PresentsNow, Batch, Adding
<1>6. CASE Free /\ Freed
  <2>1. wait' = NoWait
    BY <1>6 DEF Free, Freeing, IInv, ShapeInv
  <2> QED BY <1>1, <2>1
<1>7. CASE Replays \/ ReplayDraw
  <2>1. ReplayLeaves
    BY <1>7, ReplayLeft DEF Replays, ReplayDraw
  <2> QED BY <1>2, <2>1 DEF ReplayLeaves
<1> QED BY <1>3, <1>4, <1>5, <1>6, <1>7 DEF Kinds

----------------------------------------------------------------------------
(* ChangeInv.                                                              *)

LEMMA ChangeKept ==
  ASSUME ChangeInv,
         \A q \in Way' : Cmd'[q].op = "DATA" /\ ~Cmd'[q].written => q \in Way /\ Cmd'[q] = Cmd[q],
         \A p \in Way', q \in Way : p < q => p \in Way /\ Cmd'[p] = Cmd[p]
  PROVE  ChangeInv'
BY DEF ChangeInv, Is, Reads

(* What is before a command on its way was on its way already.             *)
LEMMA BeforePast ==
  ASSUME IInv, Longer
  PROVE  \A p \in Way', q \in Way : p < q => p \in Way /\ Cmd'[p] = Cmd[p]
<1>1. ASSUME NEW p \in Way', NEW q \in Way, p < q
      PROVE  p \in Way /\ Cmd'[p] = Cmd[p]
  <2>1. q \in Int /\ q < End /\ End \in Int /\ Way' = (Consumed + 1)..(End' - 1)
    BY WayFacts DEF Longer, IInv
  <2>2. p \in Way
    <3>1. p \notin Way => p \in End..(End' - 1)
      BY DEF Longer
    <3>2. p \in Int
      BY <2>1
    <3> QED BY <1>1, <2>1, <3>1, <3>2
  <2> QED BY <2>2 DEF Longer
<1> QED BY <1>1

LEMMA ChangeStep ==
  ASSUME IInv, IInv', DataInv, TypesInv', ~failed, Kinds
  PROVE  ChangeInv'
<1>0. ChangeInv /\ TypesInv /\ FenceInv
  BY DEF DataInv
<1>1. CASE Quietly \/ Local
  <2>1. UNCHANGED <<Way, Cmd>>
    BY <1>1 DEF Quietly, Local, Steady
  <2> QED BY <1>0, <2>1 DEF ChangeInv, Is, Reads
<1>2. ASSUME NEW op \in {"MEM", "DIRTY"}, NEW r, AddedOne(op, r), Longer
      PROVE  ChangeInv'
  <2>1. \A q \in Way' : Cmd'[q].op = "DATA" => q \in Way /\ Cmd'[q] = Cmd[q]
    BY <1>2 DEF AddedOne, Past
  <2> QED BY <1>0, <1>2, <2>1, BeforePast, ChangeKept
<1>3. ASSUME NEW r \in Resources, NEW b \in Blocks, Adding, Moves(r, b)
      PROVE  ChangeInv'
  BY <1>2, <1>3, MovesAdded DEF Adding
<1>4. ASSUME NEW r \in Resources, Adding, Dirties(r)
      PROVE  ChangeInv'
  BY <1>2, <1>4, DirtiesAdded DEF Adding
<1>5. ASSUME NEW r \in Resources, Adding, Changes(r)
      PROVE  ChangeInv'
  <2>1. AddedOne("DATA", r)
    BY <1>5, ChangesAdded
  <2>2. ASSUME NEW p \in Way, Reads(p, r)
        PROVE  FALSE
    <3>1. p <= wait.until /\ wait.until <= tail /\ wait.until \in Nat
      BY <1>0, <1>5, <2>2 DEF Changes, FenceInv
    <3>3. tail <= Consumed /\ Consumed \in Int /\ tail \in Int /\ p \in Int /\ Consumed + 1 <= p
      BY WayFacts DEF IInv, CursorInv
    <3> QED BY <3>1, <3>3
  <2>3. ASSUME NEW q \in Way', NEW s \in Resources, Is(q, "DATA", s)', ~Cmd'[q].written,
               NEW p \in Way', p < q
        PROVE  ~Reads(p, s)'
    <3>1. CASE q \in Way
      <4>1. p \in Way /\ Cmd'[p] = Cmd[p]
        BY <1>5, <2>3, <3>1, BeforePast DEF Adding
      <4>2. Cmd'[q] = Cmd[q]
        BY <2>1, <3>1 DEF AddedOne, Past
      <4> QED BY <1>0, <2>3, <3>1, <4>1, <4>2 DEF ChangeInv, Is, Reads
    <3>2. CASE q = End
      <4>1. s = r /\ End \in Int
        BY <2>1, <2>3, <3>2 DEF AddedOne, Is
      <4>2. p \in Way /\ Cmd'[p] = Cmd[p]
        BY <2>1, <2>3, <3>2, <4>1 DEF AddedOne, Past
      <4> QED BY <2>2, <4>1, <4>2 DEF Reads
    <3> QED BY <2>1, <3>1, <3>2 DEF AddedOne
  <2> QED BY <2>3 DEF ChangeInv
<1>6. ASSUME NEW r \in Resources, Undone(r)
      PROVE  ChangeInv'
  <2>1. \A q \in Way' : Cmd'[q].op = "DATA" => q \in Way /\ Cmd'[q] = Cmd[q]
    <3>1. Past
      BY <1>6, LongerPast DEF Undone
    <3>2. \A p \in Way' : p \in Way \/ Cmd'[p].op = "DESTROY" \/ Cmd'[p].op = "FREE"
      BY <1>6, DestroyAdded
    <3> QED BY <3>1, <3>2 DEF Past
  <2> QED BY <1>0, <1>6, <2>1, BeforePast, ChangeKept DEF Undone
<1>7. ASSUME NEW X, NEW w, NEW l \in Int, Sends(X), Longer, \A c \in X : c.written,
             Listed(Unbinds \cup Binds \cup X, w, l), w.op # "DATA"
      PROVE  ChangeInv'
  <2>1. Past /\ Cmd'[l] = w
    BY <1>7, LongerPast DEF Listed
  <2>2. ASSUME NEW q \in Way', Cmd'[q].op = "DATA", ~Cmd'[q].written
        PROVE  q \in Way /\ Cmd'[q] = Cmd[q]
    <3>1. CASE q \in Way
      BY <2>1, <3>1 DEF Past
    <3>2. q # l
      BY <1>7, <2>1, <2>2
    <3>3. CASE Cmd'[q] \in Unbinds \cup Binds \cup X
      <4>1. Cmd'[q] \in X
        <5>1. \A c \in Unbinds \cup Binds : c.op # "DATA"
          BY DEF Unbinds, Binds, BindCommand
        <5> QED BY <2>2, <3>3, <5>1
      <4> QED BY <1>7, <2>2, <4>1
    <3> QED BY <1>0, <1>7, <3>1, <3>2, <3>3, ListedOps
  <2> QED BY <1>0, <1>7, <2>2, BeforePast, ChangeKept
<1>8. CASE \E use, all : DrawsNow(use, all)
  <2> PICK use, all : DrawsNow(use, all)
    BY <1>8
  <2>1. PICK l \in Int : Listed(Unbinds \cup Binds \cup Datas(use, all), DrawCommand(use), l)
    BY DrawsListed
  <2>2. Longer /\ Sends(Datas(use, all)) /\ DrawCommand(use).op = "DRAW"
    BY DrawsListed
  <2>3. \A c \in Datas(use, all) : c.written
    BY DEF Datas, Data
  <2> HIDE DEF DrawCommand, Datas
  <2> QED BY <1>7, <2>1, <2>2, <2>3
<1>9. CASE PresentsNow
  <2>1. PICK l \in Int : Listed(Unbinds \cup Binds \cup {}, [op |-> "PRESENT"], l)
    BY <1>9, PresentsListed
  <2>2. Longer /\ Sends({}) /\ [op |-> "PRESENT"].op # "DATA"
    BY <1>9, PresentsListed
  <2> QED BY <1>7, <2>1, <2>2
<1>10. CASE (Free /\ Freed) \/ Replays \/ ReplayDraw
  <2>1. \A p \in Way' : p \in Way /\ Cmd'[p] = Cmd[p]
    BY <1>10, ReplayLeft DEF Replays, ReplayDraw, ReplayLeaves, Freed
  <2> QED BY <1>0, <2>1, ChangeKept
<1> QED BY <1>1, <1>3, <1>4, <1>5, <1>6, <1>8, <1>9, <1>10 DEF Kinds

----------------------------------------------------------------------------
(* MoveInv.                                                                *)

LEMMA SettledKept ==
  ASSUME NEW q \in Int, NEW r, NEW p \in Int, NEW e \in Int, p <= e, Settled(q, r, p),
         \A d \in Way : q < d /\ Cmd[d].op # "FREE" => d \in Way' /\ Cmd'[d] = Cmd[d] /\ d \in Int
  PROVE  \E d \in Way' : q < d /\ d < e /\ Settles(d, r)'
<1>1. PICK d \in Way : q < d /\ d < p /\ Settles(d, r)
  BY DEF Settled
<1>2. d \in Way' /\ Cmd'[d] = Cmd[d] /\ d \in Int
  BY <1>1 DEF Settles, Bears, Is
<1>3. Settles(d, r)'
  BY <1>1, <1>2 DEF Settles, Bears, Is
<1> QED BY <1>1, <1>2, <1>3

LEMMA SettledStays ==
  ASSUME NEW q \in Int, NEW r, NEW p \in Int, NEW e \in Int, p <= e, Settled(q, r, p),
         \A d \in Way : q < d /\ Cmd[d].op # "FREE" => d \in Way' /\ Cmd'[d] = Cmd[d] /\ d \in Int
  PROVE  Settled(q, r, e)'
<1>1. \E d \in Way' : q < d /\ d < e /\ Settles(d, r)'
  BY SettledKept
<1> QED BY <1>1 DEF Settled

(* What keeps MoveInv when no command is added                             *)
LEMMA MoveKept ==
  ASSUME IInv, IInv', MoveInv, \A p \in Way' : p \in Way /\ Cmd'[p] = Cmd[p],
         \A q \in Way', d \in Way : q < d /\ Cmd[d].op # "FREE" => d \in Way',
         \A r \in Surfaces : rec'[r] # NoRec =>
           rec[r] # NoRec /\ (locked[r] = Parts => locked'[r] = Parts),
         CommandTypes,
         End' = End \/ (End' = End - 1 /\ Cmd[End'].op = "FREE" /\ End' \in Way)
  PROVE  MoveInv'
<1>1. ASSUME NEW q \in Way', NEW r \in Resources, Is(q, "MEM", r)'
      PROVE  /\ rec'[r] # NoRec => locked'[r] = Parts \/ Settled(q, r, End)'
             /\ \A p \in Way' : q < p /\ Reads(p, r)' /\ Cmd'[p].use[r] # {} => Settled(q, r, p)'
  <2>1. q \in Way /\ Is(q, "MEM", r) /\ q \in Int /\ End \in Int /\ End' \in Int
    BY <1>1, WayFacts DEF Is, IInv
  <2>2. r \in Surfaces
    BY <2>1 DEF CommandTypes, CommandOK, Is
  <2>3. \A d \in Way : q < d /\ Cmd[d].op # "FREE" => d \in Way' /\ Cmd'[d] = Cmd[d] /\ d \in Int
    BY <1>1, WayFacts DEF IInv
  <2>4. ASSUME rec'[r] # NoRec
        PROVE  locked'[r] = Parts \/ Settled(q, r, End)'
    <3>1. CASE locked[r] = Parts
      BY <2>2, <2>4, <3>1
    <3>2. CASE Settled(q, r, End)
      <4>1. PICK d \in Way : q < d /\ d < End /\ Settles(d, r)
        BY <3>2 DEF Settled
      <4>2. Cmd[d].op # "FREE" /\ d \in Int
        BY <2>1, <4>1, WayFacts DEF Settles, Bears, Is, IInv
      <4>3. d \in Way' /\ Cmd'[d] = Cmd[d]
        BY <2>3, <4>1, <4>2
      <4>4. d < End'
        BY <2>1, <4>1, <4>2
      <4>5. Settles(d, r)'
        BY <4>1, <4>3 DEF Settles, Bears, Is
      <4> QED BY <4>1, <4>3, <4>4, <4>5 DEF Settled
    <3> QED BY <2>1, <2>2, <2>4, <3>1, <3>2 DEF MoveInv
  <2>5. ASSUME NEW p \in Way', q < p, Reads(p, r)', Cmd'[p].use[r] # {}
        PROVE  Settled(q, r, p)'
    <3>1. p \in Way /\ Reads(p, r) /\ Cmd[p].use[r] # {} /\ p \in Int
      BY <2>5, WayFacts DEF Reads, IInv
    <3>2. Settled(q, r, p)
      BY <2>1, <2>5, <3>1 DEF MoveInv
    <3>3. \E d \in Way' : q < d /\ d < p /\ Settles(d, r)'
      <4>1. PICK d \in Way : q < d /\ d < p /\ Settles(d, r)
        BY <3>2 DEF Settled
      <4>2. Cmd[d].op # "FREE"
        BY <4>1 DEF Settles, Bears, Is
      <4>3. d \in Way' /\ Cmd'[d] = Cmd[d]
        BY <2>3, <4>1, <4>2
      <4> QED BY <4>1, <4>3 DEF Settles, Bears, Is
    <3> QED BY <3>3 DEF Settled
  <2> QED BY <2>4, <2>5
<1> QED BY <1>1 DEF MoveInv

(* ... and when some are: those that move memory, those that draw          *)
LEMMA MoveAdded ==
  ASSUME IInv, IInv', MoveInv, Longer, CommandTypes,
         \A q \in Way' : Cmd'[q].op = "MEM" /\ q \notin Way =>
           locked'[Cmd'[q].r] = Parts /\ \A p \in Way' : p <= q,
         \A q \in Way, r \in Surfaces : Is(q, "MEM", r) =>
           /\ rec'[r] # NoRec => locked'[r] = Parts \/ Settled(q, r, End)'
           /\ \A p \in Way' : p \notin Way /\ Reads(p, r)' /\ Cmd'[p].use[r] # {} =>
                Settled(q, r, p)'
  PROVE  MoveInv'
<1>1. Past
  BY LongerPast
<1>2. ASSUME NEW q \in Way', NEW r \in Resources, Is(q, "MEM", r)'
      PROVE  /\ rec'[r] # NoRec => locked'[r] = Parts \/ Settled(q, r, End)'
             /\ \A p \in Way' : q < p /\ Reads(p, r)' /\ Cmd'[p].use[r] # {} => Settled(q, r, p)'
  <2>1. CASE q \notin Way
    <3>1. \A p \in Way' : ~(q < p)
      <4>1. \A p \in Way' : p <= q
        BY <1>2, <2>1 DEF Is
      <4>2. \A p \in Way' : p \in Int
        BY WayFacts DEF Longer, IInv
      <4> QED BY <4>1, <4>2
    <3>2. locked'[r] = Parts
      BY <1>2, <2>1 DEF Is
    <3> QED BY <3>1, <3>2
  <2>2. CASE q \in Way
    <3>1. Is(q, "MEM", r) /\ q \in Int
      BY <1>1, <1>2, <2>2 DEF Past, Is
    <3>2. r \in Surfaces
      BY <2>2, <3>1 DEF CommandTypes, CommandOK, Is
    <3>3. ASSUME NEW p \in Way', q < p, Reads(p, r)', Cmd'[p].use[r] # {}, p \in Way
          PROVE  Settled(q, r, p)'
      <4>1. Settled(q, r, p) /\ p \in Int
        BY <1>1, <2>2, <3>1, <3>3 DEF MoveInv, Past, Reads
      <4>2. \A d \in Way : q < d /\ Cmd[d].op # "FREE" => d \in Way' /\ Cmd'[d] = Cmd[d] /\ d \in Int
        BY <1>1 DEF Past
      <4> QED BY <3>1, <4>1, <4>2, SettledStays
    <3> QED BY <2>2, <3>1, <3>2, <3>3
  <2> QED BY <2>1, <2>2
<1> QED BY <1>2 DEF MoveInv

(* What was settled at the end stays settled, for any later position.      *)
LEMMA SettledPast ==
  ASSUME IInv, IInv', Longer, NEW q \in Way, NEW r, Settled(q, r, End)
  PROVE  Settled(q, r, End)' /\ \A p \in Way' : p \notin Way => Settled(q, r, p)'
<1>1. Past /\ q \in Int /\ End \in Int /\ End' \in Int /\ End <= End'
  BY LongerPast, WayFacts DEF Past, Longer, IInv
<1>2. \A d \in Way : q < d /\ Cmd[d].op # "FREE" => d \in Way' /\ Cmd'[d] = Cmd[d] /\ d \in Int
  BY <1>1 DEF Past
<1>3. Settled(q, r, End)'
  BY <1>1, <1>2, SettledKept DEF Settled
<1>4. ASSUME NEW p \in Way', p \notin Way
      PROVE  Settled(q, r, p)'
  <2>1. p \in Int /\ End <= p
    BY <1>1, <1>4 DEF Longer
  <2> QED BY <1>1, <1>2, <2>1, SettledKept DEF Settled
<1> QED BY <1>3, <1>4

LEMMA MoveLocal ==
  ASSUME IInv, IInv', DataInv, ~failed, Local, NEW s \in Resources, LocalStep(s)
  PROVE  MoveInv'
<1>1. MoveInv /\ CommandTypes /\ RecordInv
  BY DEF DataInv, TypesInv
<1>2. UNCHANGED <<Way, Cmd, End, rec>>
  BY DEF Local, Steady
<1>3. ASSUME NEW r \in Surfaces, rec'[r] # NoRec, locked[r] = Parts
      PROVE  locked'[r] = Parts
  <2>1. rec[r] # NoRec /\ ~rec[r].eager /\ r \in Resources /\ r \notin Buffers
    BY <1>1, <1>2, <1>3, RenderLinkAssumption DEF RecordInv, Resources
  <2>2. locked = [q \in Resources |-> locked[q]]
    BY DEF IInv, MemoryInv, MemoryTypes
  <2>3. CASE Idle \/ Writes(s) \/ Drops(s)
    BY <1>3, <2>3 DEF Idle, Writes, Drops
  <2>4. CASE Gains(s)
    BY <1>3, <2>1, <2>4 DEF Gains
  <2>5. CASE Locks(s)
    BY <1>3, <2>1, <2>2, <2>5 DEF Locks
  <2>6. CASE Unlocks(s)
    BY <1>3, <2>1, <2>2, <2>6 DEF Unlocks
  <2> QED BY <2>3, <2>4, <2>5, <2>6 DEF LocalStep
<1>4. \A r \in Surfaces : rec'[r] # NoRec =>
        rec[r] # NoRec /\ (locked[r] = Parts => locked'[r] = Parts)
  BY <1>2, <1>3
<1>5. /\ \A p \in Way' : p \in Way /\ Cmd'[p] = Cmd[p]
      /\ \A q \in Way', d \in Way : q < d /\ Cmd[d].op # "FREE" => d \in Way'
  BY <1>2
<1> QED BY <1>1, <1>2, <1>4, <1>5, MoveKept

LEMMA MoveMoves ==
  ASSUME IInv, IInv', DataInv, ~failed, NEW s \in Resources, NEW b \in Blocks, Adding, Moves(s, b)
  PROVE  MoveInv'
<1>1. MoveInv /\ CommandTypes
  BY DEF DataInv, TypesInv
<1>2. AddedOne("MEM", s) /\ Longer
  BY MovesAdded DEF Adding
<1>3. \A q \in Way' : Cmd'[q].op = "MEM" /\ q \notin Way =>
        locked'[Cmd'[q].r] = Parts /\ \A p \in Way' : p <= q
  <2>1. locked'[s] = Parts
    BY DEF Moves, IInv, MemoryInv, MemoryTypes
  <2>2. \A p \in Way' : p \in Int /\ p <= End
    <3>1. \A p \in Way' : (p \in Int /\ p < End) \/ p = End
      BY <1>2 DEF AddedOne, Past
    <3> QED BY <1>2, <3>1 DEF AddedOne
  <2> QED BY <1>2, <2>1, <2>2 DEF AddedOne
<1>4. ASSUME NEW q \in Way, NEW r \in Surfaces, Is(q, "MEM", r)
      PROVE  /\ rec'[r] # NoRec => locked'[r] = Parts \/ Settled(q, r, End)'
             /\ \A p \in Way' : p \notin Way /\ Reads(p, r)' /\ Cmd'[p].use[r] # {} =>
                  Settled(q, r, p)'
  <2>1. rec'[r] # NoRec => locked'[r] = Parts \/ Settled(q, r, End)'
    <3>1. rec' = rec /\ (locked[r] = Parts => locked'[r] = Parts) /\ r \in Resources
      BY DEF Moves, IInv, MemoryInv, MemoryTypes, Resources
    <3>2. rec[r] # NoRec => locked[r] = Parts \/ Settled(q, r, End)
      BY <1>1, <1>4, <3>1 DEF MoveInv
    <3> QED BY <1>2, <3>1, <3>2, SettledPast
  <2>2. \A p \in Way' : p \notin Way => ~Reads(p, r)'
    BY <1>2 DEF AddedOne, Reads
  <2> QED BY <2>1, <2>2
<1> QED BY <1>1, <1>2, <1>3, <1>4, MoveAdded

LEMMA MoveDirties ==
  ASSUME IInv, IInv', DataInv, ~failed, NEW s \in Resources, Adding, Dirties(s)
  PROVE  MoveInv'
<1>1. MoveInv /\ CommandTypes /\ TypesInv
  BY DEF DataInv, TypesInv
<1>2. AddedOne("DIRTY", s) /\ Longer /\ Cmd'[End].parts = locked[s]
  BY DirtiesAdded DEF Adding
<1>3. \A q \in Way' : q \notin Way => Cmd'[q].op # "MEM"
  BY <1>2 DEF AddedOne
<1>4. ASSUME NEW q \in Way, NEW r \in Surfaces, Is(q, "MEM", r)
      PROVE  /\ rec'[r] # NoRec => locked'[r] = Parts \/ Settled(q, r, End)'
             /\ \A p \in Way' : p \notin Way /\ Reads(p, r)' /\ Cmd'[p].use[r] # {} =>
                  Settled(q, r, p)'
  <2>1. ASSUME rec'[r] # NoRec
        PROVE  locked'[r] = Parts \/ Settled(q, r, End)'
    <3>1. rec[r] # NoRec /\ r \in Resources /\ (r # s => locked'[r] = locked[r])
      BY <1>1, <2>1, DirtiedRecord DEF Dirties, IInv, MemoryInv, MemoryTypes, Resources
    <3>2. locked[r] = Parts \/ Settled(q, r, End)
      BY <1>1, <1>4, <3>1 DEF MoveInv
    <3>3. CASE r = s /\ locked[r] = Parts
      <4>2. q < End /\ End \in Int /\ End' = End + 1 /\ End \in Way'
        BY <1>2 DEF AddedOne, Past
      <4> PICK e \in Int : e = End
        BY <4>2
      <4>3. Settles(e, r)'
        BY <1>2, <3>3 DEF Settles, AddedOne, Is
      <4> QED BY <4>2, <4>3 DEF Settled
    <3> QED BY <1>2, <3>1, <3>2, <3>3, SettledPast
  <2>2. \A p \in Way' : p \notin Way => ~Reads(p, r)'
    BY <1>2 DEF AddedOne, Reads
  <2> QED BY <2>1, <2>2
<1> QED BY <1>1, <1>2, <1>3, <1>4, MoveAdded

LEMMA MoveChanges ==
  ASSUME IInv, IInv', DataInv, ~failed, NEW s \in Resources, Adding, Changes(s)
  PROVE  MoveInv'
<1>1. MoveInv /\ CommandTypes /\ TypesInv
  BY DEF DataInv, TypesInv
<1>2. AddedOne("DATA", s) /\ Longer
  BY ChangesAdded DEF Adding
<1>3. \A q \in Way' : q \notin Way => Cmd'[q].op # "MEM"
  BY <1>2 DEF AddedOne
<1>4. ASSUME NEW q \in Way, NEW r \in Surfaces, Is(q, "MEM", r)
      PROVE  /\ rec'[r] # NoRec => locked'[r] = Parts \/ Settled(q, r, End)'
             /\ \A p \in Way' : p \notin Way /\ Reads(p, r)' /\ Cmd'[p].use[r] # {} =>
                  Settled(q, r, p)'
  <2>1. rec'[r] # NoRec => locked'[r] = Parts \/ Settled(q, r, End)'
    <3>1. r # s /\ r \in Resources
      BY RenderLinkAssumption DEF Changes, Resources
    <3>2. rec'[r] = rec[r] /\ locked'[r] = locked[r]
      BY <1>1, <3>1, ChangedRecord DEF Changes, IInv, MemoryInv, MemoryTypes
    <3>3. rec[r] # NoRec => locked[r] = Parts \/ Settled(q, r, End)
      BY <1>1, <1>4, <3>1 DEF MoveInv
    <3> QED BY <1>2, <3>2, <3>3, SettledPast
  <2>2. \A p \in Way' : p \notin Way => ~Reads(p, r)'
    BY <1>2 DEF AddedOne, Reads
  <2> QED BY <2>1, <2>2
<1> QED BY <1>1, <1>2, <1>3, <1>4, MoveAdded

LEMMA MoveUndone ==
  ASSUME IInv, IInv', DataInv, ~failed, NEW s \in Resources, Undone(s)
  PROVE  MoveInv'
<1>1. MoveInv /\ CommandTypes /\ TypesInv /\ Longer
  BY DEF DataInv, TypesInv, Undone
<1>2. \A p \in Way' : p \in Way \/ Cmd'[p].op = "DESTROY" \/ Cmd'[p].op = "FREE"
  BY DestroyAdded
<1>3. \A q \in Way' : q \notin Way => Cmd'[q].op # "MEM"
  BY <1>2
<1>4. ASSUME NEW q \in Way, NEW r \in Surfaces, Is(q, "MEM", r)
      PROVE  /\ rec'[r] # NoRec => locked'[r] = Parts \/ Settled(q, r, End)'
             /\ \A p \in Way' : p \notin Way /\ Reads(p, r)' /\ Cmd'[p].use[r] # {} =>
                  Settled(q, r, p)'
  <2>1. rec'[r] # NoRec => locked'[r] = Parts \/ Settled(q, r, End)'
    <3>1. /\ r \in Resources /\ locked' = locked
          /\ rec'[r] # NoRec => rec[r] # NoRec
      BY <1>1, UndoneRecord DEF Resources, Undone, Destroys
    <3>2. rec[r] # NoRec => locked[r] = Parts \/ Settled(q, r, End)
      BY <1>1, <1>4, <3>1 DEF MoveInv
    <3> QED BY <1>1, <3>1, <3>2, SettledPast
  <2>2. \A p \in Way' : p \notin Way => ~Reads(p, r)'
    BY <1>2 DEF Reads
  <2> QED BY <2>1, <2>2
<1> QED BY <1>1, <1>3, <1>4, MoveAdded

(* A draw or present: what is recorded anew is settled, what was moved     *)
(* before and is not settled is locked, and not drawn.                     *)
LEMMA MoveBatch ==
  ASSUME IInv, IInv', DataInv, ~failed, NEW X, NEW w, NEW l \in Int, Sends(X), Adding, Flush,
         locked' = locked, Listed(Unbinds \cup Binds \cup X, w, l),
         w.op = "PRESENT" \/ (w.op = "DRAW" /\ w.use \in Uses)
  PROVE  MoveInv'
<1>1. MoveInv /\ CommandTypes /\ TypesInv /\ Longer /\ Past
  BY LongerPast DEF DataInv, TypesInv, Adding
<1>2. Cmd'[l] = w
  BY DEF Listed
<1>3. ASSUME NEW q \in Way', q \notin Way
      PROVE  Cmd'[q].op # "MEM"
  BY <1>1, <1>2, <1>3, ListedOps
<1>4. ASSUME NEW q \in Way, NEW r \in Surfaces, Is(q, "MEM", r)
      PROVE  /\ rec'[r] # NoRec => locked'[r] = Parts \/ Settled(q, r, End)'
             /\ \A p \in Way' : p \notin Way /\ Reads(p, r)' /\ Cmd'[p].use[r] # {} =>
                  Settled(q, r, p)'
  <2>1. r \in Resources /\ q \in Int /\ q < End /\ End \in Int /\ End <= l /\ End' = l + 1
    BY <1>1 DEF Past, Listed, Resources
  <2>2. ASSUME r \in Fresh
        PROVE  \E d \in Way' : q < d /\ d < l /\ Settles(d, r)'
    <3>1. BindCommand(r) \in Unbinds \cup Binds \cup X
      BY <2>2 DEF Binds, Starting, Fresh
    <3>2. PICK d \in End..(l - 1) : Cmd'[d] = BindCommand(r)
      BY <3>1 DEF Listed
    <3>3. d \in Way' /\ q < d /\ d < l
      BY <2>1 DEF Listed
    <3>4. Cmd'[d].op = "BIND" /\ Cmd'[d].r = r /\ Cmd'[d].new
      <4>1. r \in Starting
        BY <2>2 DEF Starting, Fresh
      <4>2. BindCommand(r).op = "BIND" /\ BindCommand(r).r = r /\ BindCommand(r).new
        BY <1>1, <2>2, <4>1, BindOK
      <4> QED BY <3>2, <4>2
    <3> QED BY <3>3, <3>4 DEF Settles, Bears, Is
  <2>3. rec[r] # NoRec => locked[r] = Parts \/ Settled(q, r, End)
    BY <1>1, <1>4, <2>1 DEF MoveInv
  <2>4. ASSUME rec'[r] # NoRec
        PROVE  locked'[r] = Parts \/ Settled(q, r, End)'
    <3>1. CASE r \in Fresh
      <4>1. PICK d \in Way' : q < d /\ d < l /\ Settles(d, r)'
        BY <2>2, <3>1
      <4>2. d < End'
        <5>1. d \in Int
          BY <1>1, <4>1, WayFacts DEF Longer, IInv
        <5> QED BY <2>1, <4>1, <5>1
      <4> QED BY <4>1, <4>2 DEF Settled
    <3>2. CASE rec[r] # NoRec
      BY <1>1, <2>3, <3>2, SettledPast
    <3> QED BY <1>1, <2>1, <2>4, <3>1, <3>2, BatchRecord DEF Fresh
  <2>5. ASSUME NEW p \in Way', p \notin Way, Reads(p, r)', Cmd'[p].use[r] # {}
        PROVE  Settled(q, r, p)'
    <3>1. p = l
      BY <1>1, <2>5, ListedOps DEF Reads
    <3>2. w.use \in Uses /\ r \in DOMAIN w.use /\ w.use[r] # {}
      BY <1>2, <2>5, <3>1 DEF Reads
    <3>3. r \in bound /\ w.use[r] \subseteq Parts /\ w.use[r] \cap locked[r] = {}
      BY <3>2 DEF Uses
    <3>4. CASE r \in Fresh
      BY <2>2, <3>1, <3>4 DEF Settled
    <3>5. CASE rec[r] # NoRec
      <4>1. locked[r] # Parts
        BY <3>2, <3>3
      <4>2. Settled(q, r, End)
        BY <2>3, <3>5, <4>1
      <4> QED BY <1>1, <2>5, <4>2, SettledPast
    <3> QED BY <3>3, <3>4, <3>5 DEF Fresh
  <2> QED BY <2>4, <2>5
<1> QED BY <1>1, <1>3, <1>4, MoveAdded

LEMMA MoveStep ==
  ASSUME IInv, IInv', DataInv, TypesInv', ~failed, Kinds
  PROVE  MoveInv'
<1>0. MoveInv /\ TypesInv /\ CommandTypes
  BY DEF DataInv, TypesInv
<1>1. CASE Quietly
  <2>1. UNCHANGED <<Way, Cmd, End, rec, locked>>
    BY <1>1 DEF Quietly, Steady
  <2> QED BY <1>0, <2>1 DEF MoveInv, Is, Reads, Settled, Settles, Bears
<1>2. CASE Local /\ \E s \in Resources : LocalStep(s)
  BY <1>2, MoveLocal
<1>3. CASE Adding /\ \E r \in Resources : (\E b \in Blocks : Moves(r, b)) \/ Dirties(r) \/ Changes(r)
  BY <1>3, MoveMoves, MoveDirties, MoveChanges
<1>4. CASE \E r \in Resources : Undone(r)
  BY <1>4, MoveUndone
<1>5. CASE \E use, all : DrawsNow(use, all)
  <2> PICK use, all : DrawsNow(use, all)
    BY <1>5
  <2>1. PICK l \in Int : Listed(Unbinds \cup Binds \cup Datas(use, all), DrawCommand(use), l)
    BY DrawsListed
  <2>2. Adding /\ Flush /\ Sends(Datas(use, all)) /\ locked' = locked /\ use \in Uses
    BY DrawsListed
  <2>3. DrawCommand(use).op = "DRAW" /\ DrawCommand(use).use = use
    BY DEF DrawCommand
  <2> HIDE DEF DrawCommand, Datas
  <2> QED BY <2>1, <2>2, <2>3, MoveBatch
<1>6. CASE PresentsNow
  <2>1. PICK l \in Int : Listed(Unbinds \cup Binds \cup {}, [op |-> "PRESENT"], l)
    BY <1>6, PresentsListed
  <2>2. Adding /\ Flush /\ Sends({}) /\ [op |-> "PRESENT"].op = "PRESENT" /\ locked' = locked
    BY <1>6, PresentsListed
  <2> QED BY <2>1, <2>2, MoveBatch
<1>7. CASE Free /\ Freed
  <2>1. UNCHANGED <<rec, locked>>
    BY <1>7 DEF Free, recordVars
  <2>2. /\ \A p \in Way' : p \in Way /\ Cmd'[p] = Cmd[p]
        /\ \A q \in Way', d \in Way : q < d /\ Cmd[d].op # "FREE" => d \in Way'
        /\ End' = End - 1 /\ Cmd[End'].op = "FREE" /\ End' \in Way
    BY <1>7 DEF Freed
  <2> QED BY <1>0, <2>1, <2>2, MoveKept
<1>8. CASE Replays \/ ReplayDraw
  <2>1. ReplayLeaves
    BY <1>8, ReplayLeft DEF Replays, ReplayDraw
  <2>2. /\ \A p \in Way' : p \in Way /\ Cmd'[p] = Cmd[p]
        /\ \A q \in Way', d \in Way : q < d => d \in Way'
    <3>1. \A d \in Way : d \in Int
      BY WayFacts DEF IInv
    <3>2. Way' = Way \ {First} /\ First \in Int /\ \A q \in Way' : First < q /\ q \in Way
      BY <2>1 DEF ReplayLeaves
    <3>3. ASSUME NEW q \in Way', NEW d \in Way, q < d
          PROVE  d \in Way'
      BY <3>1, <3>2, <3>3
    <3> QED BY <2>1, <3>3 DEF ReplayLeaves
  <2> QED BY <1>0, <2>1, <2>2, MoveKept DEF ReplayLeaves
<1> QED BY <1>1, <1>2, <1>3, <1>4, <1>5, <1>6, <1>7, <1>8 DEF Kinds
===============================================================================
