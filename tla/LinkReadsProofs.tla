---------------------------- MODULE LinkReadsProofs ----------------------------
(***************************************************************************)
(* Theorems about module LinkReads, for any pieces, lists, readers and     *)
(* requests, any sizes and limits and any speed of the link: its types,    *)
(* that no download the game waits for is held back, that nobody waits     *)
(* when nothing is under way, and that none passes one of higher rank.     *)
(*                                                                         *)
(* An action takes the state through many nested calls, some of them in    *)
(* loops over a queue.  What each call keeps is therefore said of two      *)
(* states, s before it and t after it: Moves(s, t, N), of the link's       *)
(* calls, and Fine(s, t, N), of all.  N are the requests the call itself   *)
(* is about; both compose, so that a loop has them as each of its rounds   *)
(* does.  An action that adds to what the game waits for gives up the      *)
(* invariant for the requests of a set X (Kept(s, X)) until its calls have *)
(* made them go first.                                                     *)
(*                                                                         *)
(* That nobody hangs needs to know where each request is and what each one *)
(* under way waits for: Tidy(s, X, A, W), but for the requests X that a    *)
(* call has in hand, A the readers whose requests are under way, W what    *)
(* the reads are; and that the queues were pumped (Pumped).  Rest(s) is    *)
(* both, between two steps.                                                *)
(*                                                                         *)
(* That none passes another needs the turns in the order of their ranks at *)
(* every moment of a step, not only at its end: Ord(c, s), of a step that  *)
(* began in c and has come to s, says that, who still waits since c, and   *)
(* that nobody who has begun since passes one that has waited all along.   *)
(***************************************************************************)
EXTENDS LinkReads, FiniteSetTheorems, SequenceTheorems, WellFoundedInduction, TLAPS

Kinds == {"announced", "place", "ahead", "fill"}
Stages == {"new", "queued", "turn", "joins", "joins turned", "sent", "aborted", "pause", "over"}
Job == [kind : Kinds, piece : Pieces, stage : Stages, with : Readers \cup {Nobody}, tries : Nat,
        prio : Nat, urgent : BOOLEAN, forLoad : BOOLEAN]
Part == [job : Jobs \cup {Nobody}, joined : BOOLEAN]
Parts == UNION {[S -> Part] : S \in SUBSET Pieces}
OpenList == [state : {"open"}, kind : {"announced", "place"}, hold : BOOLEAN, on : Parts]
Asked == [state : {"asked"}, pieces : SUBSET Pieces]
Flying == [state : {"flying"}, pieces : SUBSET Pieces, jobs : SUBSET Jobs,
           readers : SUBSET Readers]
FgOver == [state |-> "landed"]
State == [job : [Jobs -> Job \cup {NoJob}], wantQ : Seq(Jobs), placeQ : Seq(Jobs),
          turns : Seq(Jobs), spare : Seq(Nat), here : SUBSET Pieces,
          flights : [Pieces -> Jobs \cup {Nobody}], fg : [Pieces -> Readers \cup {Nobody}],
          list : [Lists -> OpenList \cup {Over}],
          read : [Readers -> Asked \cup Flying \cup {Over, FgOver}],
          recent : BOOLEAN, quiet : BOOLEAN]

(* Finitely many pieces and jobs, and Nobody is neither job nor reader.    *)
Constants ==
  /\ IsFiniteSet(Pieces) /\ IsFiniteSet(Jobs) /\ Size \in [Pieces -> Nat]
  /\ Nobody \notin Jobs /\ Nobody \notin Readers

Live(s, n) == n \in Jobs /\ s.job[n] # NoJob
ByRead(s, n) == \E r \in Readers : s.read[r].state = "flying" /\ n \in s.read[r].jobs
ByList(s, n) ==
  \E l \in Lists : s.list[l] # Over /\ s.list[l].kind = "announced" /\
    \E p \in DOMAIN s.list[l].on : s.list[l].on[p].job = n
Awaited(s) == {n \in Jobs : ByRead(s, n) \/ ByList(s, n)}

(* Who stands in a queue has a job of that stage; a flight is one's for    *)
(* its piece; and the game waits for jobs only.                            *)
TurnsOK(s) == \A n \in Range(s.turns) : Live(s, n) /\ s.job[n].stage = "turn"
Queued(s) == Range(s.wantQ) \cup Range(s.placeQ)
QueuesOK(s) == \A n \in Queued(s) : Live(s, n) /\ s.job[n].stage = "queued"
FlightsOK(s) ==
  \A p \in Pieces : s.flights[p] # Nobody =>
    Live(s, s.flights[p]) /\ s.job[s.flights[p]].piece = p
AwaitedOK(s) == \A n \in Awaited(s) : Live(s, n)
Good(s) ==
  s \in State /\ TurnsOK(s) /\ QueuesOK(s) /\ FlightsOK(s) /\ AwaitedOK(s)

(* What the game waits for may go, but for jobs of X.                      *)
May(j) == j.urgent \/ j.forLoad
Kept(s, X) == \A n \in Awaited(s) \ X : May(s.job[n])

Safe(s) == Good(s) /\ Kept(s, {})

IInv == Safe(b)

----------------------------------------------------------------------------
(* Sequences and recursive functions.                                      *)

(* What holds at 0 and is passed on up to n holds at n.                    *)
LEMMA UpTo ==
  ASSUME NEW n \in Nat, NEW G, 0 \in G, \A i \in 0..(n - 1) : i \in G => i + 1 \in G
  PROVE  n \in G
<1> DEFINE Bad == {i \in 0..n : i \notin G}
           R == OpToRel(<, Nat)
<1> SUFFICES ASSUME Bad # {} PROVE FALSE
  OBVIOUS
<1>1. IsWellFoundedOn(R, Nat)
  BY NatLessThanWellFounded
<1>2. \A i, m \in Nat : i < m => <<i, m>> \in R
  BY DEF OpToRel
<1>3. Bad \in SUBSET Nat
  OBVIOUS
<1>4. PICK m \in Bad : \A i \in Bad : ~(<<i, m>> \in R)
  <2> HIDE DEF R, Bad
  <2> QED BY <1>1, <1>3, WFMin
<1>5. m \in Nat /\ m # 0 /\ m - 1 \in 0..(n - 1) /\ m - 1 < m /\ m - 1 \in Nat
  OBVIOUS
<1>6. m - 1 \notin Bad
  <2> HIDE DEF R, Bad
  <2> QED BY <1>2, <1>4, <1>5
<1>7. m - 1 \in G
  BY <1>5, <1>6
<1>8. (m - 1) + 1 \in G
  <2> HIDE DEF R, Bad
  <2> QED BY <1>5, <1>7
<1> QED BY <1>5, <1>8

LEMMA AppendRange ==
  ASSUME NEW T, NEW u \in Seq(T), NEW e \in T
  PROVE  Append(u, e) \in Seq(T) /\ Range(Append(u, e)) = Range(u) \cup {e}
<1> DEFINE a == Append(u, e)
<1>1. /\ a \in Seq(T) /\ Len(a) = Len(u) + 1 /\ a[Len(u) + 1] = e
      /\ \A j \in 1..Len(u) : a[j] = u[j]
  OBVIOUS
<1>2. DOMAIN a = 1..Len(a) /\ DOMAIN u = 1..Len(u) /\ Len(u) \in Nat
  BY <1>1
<1> HIDE DEF a
<1>3. 1..(Len(u) + 1) = (1..Len(u)) \cup {Len(u) + 1}
  BY <1>2
<1>4. Range(a) = Range(u) \cup {e}
  BY <1>1, <1>2, <1>3 DEF Range
<1> QED BY <1>1, <1>4 DEF a

IsAmong(k, q, S, n) ==
  k = [i \in 0..n |->
        IF i = 0 THEN <<>>
        ELSE IF q[i] \in S THEN Append(k[i - 1], q[i]) ELSE k[i - 1]]

LEMMA AmongIs ==
  ASSUME NEW q, NEW S, Len(q) \in Nat
  PROVE  \E k : IsAmong(k, q, S, Len(q)) /\ Among(q, S) = k[Len(q)]
<1> DEFINE G == {i \in 0..Len(q) : \E k : IsAmong(k, q, S, i)}
<1>1. 0 \in G
  <2>1. IsAmong([i \in 0..0 |-> <<>>], q, S, 0)
    BY DEF IsAmong
  <2> QED BY <2>1
<1>2. \A i \in 0..(Len(q) - 1) : i \in G => i + 1 \in G
  <2> SUFFICES ASSUME NEW i \in 0..(Len(q) - 1), i \in G PROVE i + 1 \in G
    OBVIOUS
  <2>1. PICK k : IsAmong(k, q, S, i)
    OBVIOUS
  <2> DEFINE h == [j \in 0..(i + 1) |->
                    IF j = i + 1 THEN IF q[i + 1] \in S THEN Append(k[i], q[i + 1]) ELSE k[i]
                    ELSE k[j]]
  <2>2. \A j \in 0..i : h[j] = k[j]
    OBVIOUS
  <2>3. ASSUME NEW j \in 0..(i + 1)
        PROVE  h[j] = IF j = 0 THEN <<>>
                      ELSE IF q[j] \in S THEN Append(h[j - 1], q[j]) ELSE h[j - 1]
    <3>1. CASE j = i + 1
      <4>1. j # 0 /\ j - 1 = i /\ h[j - 1] = k[i]
        BY <2>2, <3>1
      <4> QED BY <3>1, <4>1
    <3>2. CASE j # i + 1
      <4>1. j \in 0..i /\ h[j] = k[j]
        BY <2>2, <3>2
      <4>2. k[j] = IF j = 0 THEN <<>>
                   ELSE IF q[j] \in S THEN Append(k[j - 1], q[j]) ELSE k[j - 1]
        BY <2>1, <4>1 DEF IsAmong
      <4>3. j # 0 => j - 1 \in 0..i /\ h[j - 1] = k[j - 1]
        BY <2>2, <4>1
      <4> HIDE DEF h
      <4> QED BY <4>1, <4>2, <4>3
    <3> QED BY <3>1, <3>2
  <2>4. h = [j \in 0..(i + 1) |-> h[j]]
    OBVIOUS
  <2>5. IsAmong(h, q, S, i + 1)
    <3> HIDE DEF h
    <3> QED BY <2>3, <2>4 DEF IsAmong
  <2> QED BY <2>5
<1>3. Len(q) \in G
  <2> HIDE DEF G
  <2> QED BY <1>1, <1>2, UpTo
<1>4. PICK k : IsAmong(k, q, S, Len(q))
  BY <1>3
<1> DEFINE c == CHOOSE x : IsAmong(x, q, S, Len(q))
<1>5. IsAmong(c, q, S, Len(q))
  BY <1>4
<1>6. Among(q, S) = c[Len(q)]
  BY DEF Among, IsAmong
<1> QED BY <1>5, <1>6

(* Those of q in S: all of them, and nobody else.                          *)
LEMMA AmongAre ==
  ASSUME NEW T, NEW q \in Seq(T), NEW S
  PROVE  /\ Among(q, S) \in Seq(T)
         /\ Range(Among(q, S)) = Range(q) \cap S
<1>1. Len(q) \in Nat /\ DOMAIN q = 1..Len(q) /\ \A i \in 1..Len(q) : q[i] \in T
  OBVIOUS
<1>2. PICK k : IsAmong(k, q, S, Len(q)) /\ Among(q, S) = k[Len(q)]
  BY <1>1, AmongIs
<1> DEFINE Of(i) == {q[j] : j \in 1..i} \cap S
           G == {i \in 0..Len(q) : k[i] \in Seq(T) /\ Range(k[i]) = Of(i)}
<1>3. k[0] = <<>> /\ \A i \in 1..Len(q) :
        k[i] = IF q[i] \in S THEN Append(k[i - 1], q[i]) ELSE k[i - 1]
  <2>1. 0 \in 0..Len(q) /\ \A i \in 1..Len(q) : i \in 0..Len(q) /\ i # 0
    BY <1>1
  <2>2. \A i \in 0..Len(q) : k[i] = IF i = 0 THEN <<>>
          ELSE IF q[i] \in S THEN Append(k[i - 1], q[i]) ELSE k[i - 1]
    BY <1>2 DEF IsAmong
  <2> QED BY <2>1, <2>2
<1>4. 0 \in G
  <2>1. Of(0) = {}
    OBVIOUS
  <2>2. <<>> \in Seq(T) /\ Range(<<>>) = {}
    BY DEF Range
  <2>3. 0 \in 0..Len(q)
    BY <1>1
  <2> HIDE DEF Of
  <2> QED BY <1>3, <2>1, <2>2, <2>3
<1>5. \A i \in 0..(Len(q) - 1) : i \in G => i + 1 \in G
  <2> SUFFICES ASSUME NEW i \in 0..(Len(q) - 1), i \in G PROVE i + 1 \in G
    OBVIOUS
  <2>1. i \in Nat /\ i + 1 \in 1..Len(q) /\ i + 1 \in 0..Len(q) /\ (i + 1) - 1 = i
    BY <1>1
  <2>2. k[i + 1] = IF q[i + 1] \in S THEN Append(k[i], q[i + 1]) ELSE k[i]
    BY <1>3, <2>1
  <2>3. k[i] \in Seq(T) /\ Range(k[i]) = Of(i) /\ q[i + 1] \in T
    BY <1>1, <2>1
  <2>4. Of(i + 1) = Of(i) \cup ({q[i + 1]} \cap S)
    <3>1. 1..(i + 1) = (1..i) \cup {i + 1}
      BY <2>1
    <3> QED BY <3>1
  <2>5. /\ Append(k[i], q[i + 1]) \in Seq(T)
        /\ Range(Append(k[i], q[i + 1])) = Range(k[i]) \cup {q[i + 1]}
    BY <2>3, AppendRange
  <2> HIDE DEF Of
  <2> QED BY <2>1, <2>2, <2>3, <2>4, <2>5
<1>6. Len(q) \in G
  <2> HIDE DEF G
  <2> QED BY <1>1, <1>4, <1>5, UpTo
<1>7. Range(q) = {q[j] : j \in 1..Len(q)}
  BY <1>1 DEF Range
<1> QED BY <1>2, <1>6, <1>7

(* The loops of the program: what the function that runs each of them is.  *)
PromoteOne(t, n) == IF t.job[n] = NoJob THEN t ELSE Pump(Promote(t, n))

KickLoop(k, s, n) ==
  k = [i \in 0..n |-> IF i = 0 THEN [s |-> s, stop |-> FALSE] ELSE KickOne(k[i - 1], s.turns[i])]

KickRuns(k, s) ==
  /\ k[0] = [s |-> s, stop |-> FALSE]
  /\ \A i \in 1..Len(s.turns) : k[i] = KickOne(k[i - 1], s.turns[i])
  /\ Kick(s) = k[Len(s.turns)].s

LEMMA KickIs ==
  ASSUME NEW s, Len(s.turns) \in Nat
  PROVE  \E k : KickRuns(k, s)
<1> DEFINE G == {i \in 0..Len(s.turns) : \E k : KickLoop(k, s, i)}
<1>1. 0 \in G
  <2>1. KickLoop([i \in 0..0 |-> [s |-> s, stop |-> FALSE]], s, 0)
    BY DEF KickLoop
  <2> QED BY <2>1
<1>2. \A i \in 0..(Len(s.turns) - 1) : i \in G => i + 1 \in G
  <2> SUFFICES ASSUME NEW i \in 0..(Len(s.turns) - 1), i \in G PROVE i + 1 \in G
    OBVIOUS
  <2>1. PICK k : KickLoop(k, s, i)
    OBVIOUS
  <2> DEFINE h == [j \in 0..(i + 1) |-> IF j = i + 1 THEN KickOne(k[i], s.turns[i + 1]) ELSE k[j]]
  <2>2. \A j \in 0..i : h[j] = k[j]
    OBVIOUS
  <2>3. ASSUME NEW j \in 0..(i + 1)
        PROVE  h[j] = IF j = 0 THEN [s |-> s, stop |-> FALSE] ELSE KickOne(h[j - 1], s.turns[j])
    <3>1. CASE j = i + 1
      <4>1. j # 0 /\ j - 1 = i /\ h[j - 1] = k[i]
        BY <2>2, <3>1
      <4>2. h[j] = KickOne(k[i], s.turns[i + 1])
        BY <3>1
      <4> HIDE DEF h
      <4> QED BY <3>1, <4>1, <4>2
    <3>2. CASE j # i + 1
      <4>1. j \in 0..i /\ h[j] = k[j]
        BY <2>2, <3>2
      <4>2. k[j] = IF j = 0 THEN [s |-> s, stop |-> FALSE] ELSE KickOne(k[j - 1], s.turns[j])
        BY <2>1, <4>1 DEF KickLoop
      <4>3. j # 0 => j - 1 \in 0..i /\ h[j - 1] = k[j - 1]
        BY <2>2, <4>1
      <4> HIDE DEF h
      <4> QED BY <4>1, <4>2, <4>3
    <3> QED BY <3>1, <3>2
  <2>4. h = [j \in 0..(i + 1) |-> h[j]]
    OBVIOUS
  <2>5. KickLoop(h, s, i + 1)
    <3> HIDE DEF h
    <3> QED BY <2>3, <2>4 DEF KickLoop
  <2> QED BY <2>5
<1>3. Len(s.turns) \in G
  <2> HIDE DEF G
  <2> QED BY <1>1, <1>2, UpTo
<1>4. PICK k : KickLoop(k, s, Len(s.turns))
  BY <1>3
<1> DEFINE c == CHOOSE x : KickLoop(x, s, Len(s.turns))
<1>5. KickLoop(c, s, Len(s.turns))
  BY <1>4
<1>6. Kick(s) = c[Len(s.turns)].s
  BY DEF Kick, KickLoop
<1> HIDE DEF c
<1>7. c[0] = [s |-> s, stop |-> FALSE]
  BY <1>5 DEF KickLoop
<1>8. \A i \in 1..Len(s.turns) : c[i] = KickOne(c[i - 1], s.turns[i])
  <2> SUFFICES ASSUME NEW i \in 1..Len(s.turns) PROVE c[i] = KickOne(c[i - 1], s.turns[i])
    OBVIOUS
  <2>1. i \in 0..Len(s.turns) /\ i # 0
    OBVIOUS
  <2> QED BY <1>5, <2>1 DEF KickLoop
<1> QED BY <1>6, <1>7, <1>8 DEF KickRuns

PumpLoop(k, s, n) ==
  k = [i \in 0..n |-> IF i = 0 THEN s ELSE PumpOne(k[i - 1])]

PumpRuns(k, s, n) ==
  /\ k[0] = s
  /\ \A i \in 1..n : k[i] = PumpOne(k[i - 1])
  /\ Pump(s) = k[n]

LEMMA PumpIs ==
  ASSUME NEW s, NEW n, n = Cardinality(InStage(s, "queued")), n \in Nat
  PROVE  \E k : PumpRuns(k, s, n)
<1> DEFINE G == {i \in 0..n : \E k : PumpLoop(k, s, i)}
<1>1. 0 \in G
  <2>1. PumpLoop([i \in 0..0 |-> s], s, 0)
    BY DEF PumpLoop
  <2> QED BY <2>1
<1>2. \A i \in 0..(n - 1) : i \in G => i + 1 \in G
  <2> SUFFICES ASSUME NEW i \in 0..(n - 1), i \in G PROVE i + 1 \in G
    OBVIOUS
  <2>1. PICK k : PumpLoop(k, s, i)
    OBVIOUS
  <2> DEFINE h == [j \in 0..(i + 1) |-> IF j = i + 1 THEN PumpOne(k[i]) ELSE k[j]]
  <2>2. \A j \in 0..i : h[j] = k[j]
    OBVIOUS
  <2>3. ASSUME NEW j \in 0..(i + 1)
        PROVE  h[j] = IF j = 0 THEN s ELSE PumpOne(h[j - 1])
    <3>1. CASE j = i + 1
      <4>1. j # 0 /\ j - 1 = i /\ h[j - 1] = k[i]
        BY <2>2, <3>1
      <4>2. h[j] = PumpOne(k[i])
        BY <3>1
      <4> HIDE DEF h
      <4> QED BY <3>1, <4>1, <4>2
    <3>2. CASE j # i + 1
      <4>1. j \in 0..i /\ h[j] = k[j]
        BY <2>2, <3>2
      <4>2. k[j] = IF j = 0 THEN s ELSE PumpOne(k[j - 1])
        BY <2>1, <4>1 DEF PumpLoop
      <4>3. j # 0 => j - 1 \in 0..i /\ h[j - 1] = k[j - 1]
        BY <2>2, <4>1
      <4> HIDE DEF h
      <4> QED BY <4>1, <4>2, <4>3
    <3> QED BY <3>1, <3>2
  <2>4. h = [j \in 0..(i + 1) |-> h[j]]
    OBVIOUS
  <2>5. PumpLoop(h, s, i + 1)
    <3> HIDE DEF h
    <3> QED BY <2>3, <2>4 DEF PumpLoop
  <2> QED BY <2>5
<1>3. n \in G
  <2> HIDE DEF G
  <2> QED BY <1>1, <1>2, UpTo
<1>4. PICK k : PumpLoop(k, s, n)
  BY <1>3
<1> DEFINE c == CHOOSE x : PumpLoop(x, s, n)
<1>5. PumpLoop(c, s, n)
  BY <1>4
<1>6. Pump(s) = c[n]
  BY DEF Pump, PumpLoop
<1> HIDE DEF c
<1>7. c[0] = s
  BY <1>5 DEF PumpLoop
<1>8. \A i \in 1..n : c[i] = PumpOne(c[i - 1])
  <2> SUFFICES ASSUME NEW i \in 1..n PROVE c[i] = PumpOne(c[i - 1])
    OBVIOUS
  <2>1. i \in 0..n /\ i # 0
    OBVIOUS
  <2> QED BY <1>5, <2>1 DEF PumpLoop
<1> QED BY <1>6, <1>7, <1>8 DEF PumpRuns

WantLoop(k, s, q, kind, n) ==
  k = [i \in 0..n |-> IF i = 0 THEN s ELSE WantPiece(k[i - 1], q[i], kind)]

WantRuns(k, s, q, kind) ==
  /\ k[0] = s
  /\ \A i \in 1..Len(q) : k[i] = WantPiece(k[i - 1], q[i], kind)
  /\ WantEach(s, q, kind) = k[Len(q)]

LEMMA WantIs ==
  ASSUME NEW s, NEW q, NEW kind, Len(q) \in Nat
  PROVE  \E k : WantRuns(k, s, q, kind)
<1> DEFINE G == {i \in 0..Len(q) : \E k : WantLoop(k, s, q, kind, i)}
<1>1. 0 \in G
  <2>1. WantLoop([i \in 0..0 |-> s], s, q, kind, 0)
    BY DEF WantLoop
  <2> QED BY <2>1
<1>2. \A i \in 0..(Len(q) - 1) : i \in G => i + 1 \in G
  <2> SUFFICES ASSUME NEW i \in 0..(Len(q) - 1), i \in G PROVE i + 1 \in G
    OBVIOUS
  <2>1. PICK k : WantLoop(k, s, q, kind, i)
    OBVIOUS
  <2> DEFINE h == [j \in 0..(i + 1) |-> IF j = i + 1 THEN WantPiece(k[i], q[i + 1], kind) ELSE k[j]]
  <2>2. \A j \in 0..i : h[j] = k[j]
    OBVIOUS
  <2>3. ASSUME NEW j \in 0..(i + 1)
        PROVE  h[j] = IF j = 0 THEN s ELSE WantPiece(h[j - 1], q[j], kind)
    <3>1. CASE j = i + 1
      <4>1. j # 0 /\ j - 1 = i /\ h[j - 1] = k[i]
        BY <2>2, <3>1
      <4>2. h[j] = WantPiece(k[i], q[i + 1], kind)
        BY <3>1
      <4> HIDE DEF h
      <4> QED BY <3>1, <4>1, <4>2
    <3>2. CASE j # i + 1
      <4>1. j \in 0..i /\ h[j] = k[j]
        BY <2>2, <3>2
      <4>2. k[j] = IF j = 0 THEN s ELSE WantPiece(k[j - 1], q[j], kind)
        BY <2>1, <4>1 DEF WantLoop
      <4>3. j # 0 => j - 1 \in 0..i /\ h[j - 1] = k[j - 1]
        BY <2>2, <4>1
      <4> HIDE DEF h
      <4> QED BY <4>1, <4>2, <4>3
    <3> QED BY <3>1, <3>2
  <2>4. h = [j \in 0..(i + 1) |-> h[j]]
    OBVIOUS
  <2>5. WantLoop(h, s, q, kind, i + 1)
    <3> HIDE DEF h
    <3> QED BY <2>3, <2>4 DEF WantLoop
  <2> QED BY <2>5
<1>3. Len(q) \in G
  <2> HIDE DEF G
  <2> QED BY <1>1, <1>2, UpTo
<1>4. PICK k : WantLoop(k, s, q, kind, Len(q))
  BY <1>3
<1> DEFINE c == CHOOSE x : WantLoop(x, s, q, kind, Len(q))
<1>5. WantLoop(c, s, q, kind, Len(q))
  BY <1>4
<1>6. WantEach(s, q, kind) = c[Len(q)]
  BY DEF WantEach, WantLoop
<1> HIDE DEF c
<1>7. c[0] = s
  BY <1>5 DEF WantLoop
<1>8. \A i \in 1..Len(q) : c[i] = WantPiece(c[i - 1], q[i], kind)
  <2> SUFFICES ASSUME NEW i \in 1..Len(q) PROVE c[i] = WantPiece(c[i - 1], q[i], kind)
    OBVIOUS
  <2>1. i \in 0..Len(q) /\ i # 0
    OBVIOUS
  <2> QED BY <1>5, <2>1 DEF WantLoop
<1> QED BY <1>6, <1>7, <1>8 DEF WantRuns

PromoteLoop(k, s, q, n) ==
  k = [i \in 0..n |-> IF i = 0 THEN s ELSE PromoteOne(k[i - 1], q[i])]

PromoteRuns(k, s, q) ==
  /\ k[0] = s
  /\ \A i \in 1..Len(q) : k[i] = PromoteOne(k[i - 1], q[i])
  /\ PromoteEach(s, q) = k[Len(q)]

LEMMA PromoteIs ==
  ASSUME NEW s, NEW q, Len(q) \in Nat
  PROVE  \E k : PromoteRuns(k, s, q)
<1> DEFINE G == {i \in 0..Len(q) : \E k : PromoteLoop(k, s, q, i)}
<1>1. 0 \in G
  <2>1. PromoteLoop([i \in 0..0 |-> s], s, q, 0)
    BY DEF PromoteLoop
  <2> QED BY <2>1
<1>2. \A i \in 0..(Len(q) - 1) : i \in G => i + 1 \in G
  <2> SUFFICES ASSUME NEW i \in 0..(Len(q) - 1), i \in G PROVE i + 1 \in G
    OBVIOUS
  <2>1. PICK k : PromoteLoop(k, s, q, i)
    OBVIOUS
  <2> DEFINE h == [j \in 0..(i + 1) |-> IF j = i + 1 THEN PromoteOne(k[i], q[i + 1]) ELSE k[j]]
  <2>2. \A j \in 0..i : h[j] = k[j]
    OBVIOUS
  <2>3. ASSUME NEW j \in 0..(i + 1)
        PROVE  h[j] = IF j = 0 THEN s ELSE PromoteOne(h[j - 1], q[j])
    <3>1. CASE j = i + 1
      <4>1. j # 0 /\ j - 1 = i /\ h[j - 1] = k[i]
        BY <2>2, <3>1
      <4>2. h[j] = PromoteOne(k[i], q[i + 1])
        BY <3>1
      <4> HIDE DEF h
      <4> QED BY <3>1, <4>1, <4>2
    <3>2. CASE j # i + 1
      <4>1. j \in 0..i /\ h[j] = k[j]
        BY <2>2, <3>2
      <4>2. k[j] = IF j = 0 THEN s ELSE PromoteOne(k[j - 1], q[j])
        BY <2>1, <4>1 DEF PromoteLoop
      <4>3. j # 0 => j - 1 \in 0..i /\ h[j - 1] = k[j - 1]
        BY <2>2, <4>1
      <4> HIDE DEF h
      <4> QED BY <4>1, <4>2, <4>3
    <3> QED BY <3>1, <3>2
  <2>4. h = [j \in 0..(i + 1) |-> h[j]]
    OBVIOUS
  <2>5. PromoteLoop(h, s, q, i + 1)
    <3> HIDE DEF h
    <3> QED BY <2>3, <2>4 DEF PromoteLoop
  <2> QED BY <2>5
<1>3. Len(q) \in G
  <2> HIDE DEF G
  <2> QED BY <1>1, <1>2, UpTo
<1>4. PICK k : PromoteLoop(k, s, q, Len(q))
  BY <1>3
<1> DEFINE c == CHOOSE x : PromoteLoop(x, s, q, Len(q))
<1>5. PromoteLoop(c, s, q, Len(q))
  BY <1>4
<1>6. PromoteEach(s, q) = c[Len(q)]
  BY DEF PromoteEach, PromoteOne, PromoteLoop
<1> HIDE DEF c
<1>7. c[0] = s
  BY <1>5 DEF PromoteLoop
<1>8. \A i \in 1..Len(q) : c[i] = PromoteOne(c[i - 1], q[i])
  <2> SUFFICES ASSUME NEW i \in 1..Len(q) PROVE c[i] = PromoteOne(c[i - 1], q[i])
    OBVIOUS
  <2>1. i \in 0..Len(q) /\ i # 0
    OBVIOUS
  <2> QED BY <1>5, <2>1 DEF PromoteLoop
<1> QED BY <1>6, <1>7, <1>8 DEF PromoteRuns

JoinedLoop(k, s, q, n) ==
  k = [i \in 0..n |-> IF i = 0 THEN s ELSE JoinedGoesOn(k[i - 1], q[i])]

JoinedRuns(k, s, q) ==
  /\ k[0] = s
  /\ \A i \in 1..Len(q) : k[i] = JoinedGoesOn(k[i - 1], q[i])
  /\ JoinedGoOn(s, q) = k[Len(q)]

LEMMA JoinedIs ==
  ASSUME NEW s, NEW q, Len(q) \in Nat
  PROVE  \E k : JoinedRuns(k, s, q)
<1> DEFINE G == {i \in 0..Len(q) : \E k : JoinedLoop(k, s, q, i)}
<1>1. 0 \in G
  <2>1. JoinedLoop([i \in 0..0 |-> s], s, q, 0)
    BY DEF JoinedLoop
  <2> QED BY <2>1
<1>2. \A i \in 0..(Len(q) - 1) : i \in G => i + 1 \in G
  <2> SUFFICES ASSUME NEW i \in 0..(Len(q) - 1), i \in G PROVE i + 1 \in G
    OBVIOUS
  <2>1. PICK k : JoinedLoop(k, s, q, i)
    OBVIOUS
  <2> DEFINE h == [j \in 0..(i + 1) |-> IF j = i + 1 THEN JoinedGoesOn(k[i], q[i + 1]) ELSE k[j]]
  <2>2. \A j \in 0..i : h[j] = k[j]
    OBVIOUS
  <2>3. ASSUME NEW j \in 0..(i + 1)
        PROVE  h[j] = IF j = 0 THEN s ELSE JoinedGoesOn(h[j - 1], q[j])
    <3>1. CASE j = i + 1
      <4>1. j # 0 /\ j - 1 = i /\ h[j - 1] = k[i]
        BY <2>2, <3>1
      <4>2. h[j] = JoinedGoesOn(k[i], q[i + 1])
        BY <3>1
      <4> HIDE DEF h
      <4> QED BY <3>1, <4>1, <4>2
    <3>2. CASE j # i + 1
      <4>1. j \in 0..i /\ h[j] = k[j]
        BY <2>2, <3>2
      <4>2. k[j] = IF j = 0 THEN s ELSE JoinedGoesOn(k[j - 1], q[j])
        BY <2>1, <4>1 DEF JoinedLoop
      <4>3. j # 0 => j - 1 \in 0..i /\ h[j - 1] = k[j - 1]
        BY <2>2, <4>1
      <4> HIDE DEF h
      <4> QED BY <4>1, <4>2, <4>3
    <3> QED BY <3>1, <3>2
  <2>4. h = [j \in 0..(i + 1) |-> h[j]]
    OBVIOUS
  <2>5. JoinedLoop(h, s, q, i + 1)
    <3> HIDE DEF h
    <3> QED BY <2>3, <2>4 DEF JoinedLoop
  <2> QED BY <2>5
<1>3. Len(q) \in G
  <2> HIDE DEF G
  <2> QED BY <1>1, <1>2, UpTo
<1>4. PICK k : JoinedLoop(k, s, q, Len(q))
  BY <1>3
<1> DEFINE c == CHOOSE x : JoinedLoop(x, s, q, Len(q))
<1>5. JoinedLoop(c, s, q, Len(q))
  BY <1>4
<1>6. JoinedGoOn(s, q) = c[Len(q)]
  BY DEF JoinedGoOn, JoinedLoop
<1> HIDE DEF c
<1>7. c[0] = s
  BY <1>5 DEF JoinedLoop
<1>8. \A i \in 1..Len(q) : c[i] = JoinedGoesOn(c[i - 1], q[i])
  <2> SUFFICES ASSUME NEW i \in 1..Len(q) PROVE c[i] = JoinedGoesOn(c[i - 1], q[i])
    OBVIOUS
  <2>1. i \in 0..Len(q) /\ i # 0
    OBVIOUS
  <2> QED BY <1>5, <2>1 DEF JoinedLoop
<1> QED BY <1>6, <1>7, <1>8 DEF JoinedRuns

----------------------------------------------------------------------------
(* The link's operations on a state s with job n.                          *)

Same(s, t) ==
  /\ t.wantQ = s.wantQ /\ t.placeQ = s.placeQ /\ t.here = s.here
  /\ t.flights = s.flights /\ t.fg = s.fg /\ t.list = s.list /\ t.read = s.read

(* A request under way keeps its piece and what it gained.                 *)
Grows(j, k) == k.piece = j.piece /\ (j.urgent => k.urgent) /\ (j.forLoad => k.forLoad)

(* What the link does to its requests: none comes or goes, those queued    *)
(* stay queued, those that wait for no turn stay as they are, but for N.   *)
JobMoves(s, t, N, n) ==
  /\ Live(s, n) => /\ Live(t, n) /\ Grows(s.job[n], t.job[n])
                   /\ n \in Queued(s) => t.job[n].stage = "queued"
                   /\ n \notin N /\ s.job[n].stage \notin {"turn", "queued"} => t.job[n] = s.job[n]
  /\ ~Live(s, n) => t.job[n] = NoJob
Moves(s, t, N) ==
  /\ t \in State /\ Same(s, t) /\ TurnsOK(t)
  /\ \A n \in Jobs : JobMoves(s, t, N, n)

LEMMA StateParts ==
  ASSUME NEW s \in State
  PROVE  /\ s.job \in [Jobs -> Job \cup {NoJob}] /\ s.wantQ \in Seq(Jobs) /\ s.placeQ \in Seq(Jobs)
         /\ s.turns \in Seq(Jobs) /\ s.spare \in Seq(Nat) /\ s.here \in SUBSET Pieces
         /\ s.flights \in [Pieces -> Jobs \cup {Nobody}] /\ s.fg \in [Pieces -> Readers \cup {Nobody}]
         /\ s.list \in [Lists -> OpenList \cup {Over}]
         /\ s.read \in [Readers -> Asked \cup Flying \cup {Over, FgOver}]
         /\ s.recent \in BOOLEAN /\ s.quiet \in BOOLEAN
BY DEF State

LEMMA LiveIs ==
  ASSUME NEW s \in State, NEW n
  PROVE  /\ Live(s, n) => s.job[n] \in Job /\ n \in Jobs
         /\ n \in Jobs /\ s.job[n] \in Job => Live(s, n)
<1>1. \A j \in Job : j # NoJob
  BY DEF Job, NoJob
<1> QED BY <1>1, StateParts DEF Live

LEMMA FromIs ==
  ASSUME NEW q \in Seq(Jobs), NEW n
  PROVE  From(q, n) \in Seq(Jobs) /\ Range(From(q, n)) = Range(q) \ {n}
<1>1. Range(q) \subseteq Jobs
  BY DEF Range
<1>2. Among(q, Jobs \ {n}) \in Seq(Jobs) /\ Range(Among(q, Jobs \ {n})) = Range(q) \cap (Jobs \ {n})
  BY AmongAre
<1> QED BY <1>1, <1>2 DEF From

LEMMA ConcatRange ==
  ASSUME NEW T, NEW u \in Seq(T), NEW v \in Seq(T)
  PROVE  u \o v \in Seq(T) /\ Range(u \o v) = Range(u) \cup Range(v)
<1> DEFINE c == u \o v
<1>1. c \in Seq(T) /\ Len(c) = Len(u) + Len(v) /\ Len(u) \in Nat /\ Len(v) \in Nat
  OBVIOUS
<1>2. \A i \in 1..Len(c) : c[i] = IF i <= Len(u) THEN u[i] ELSE v[i - Len(u)]
  OBVIOUS
<1>3. DOMAIN c = 1..Len(c) /\ DOMAIN u = 1..Len(u) /\ DOMAIN v = 1..Len(v)
  BY <1>1
<1> HIDE DEF c
<1>4. Range(c) \subseteq Range(u) \cup Range(v)
  <2> SUFFICES ASSUME NEW i \in 1..Len(c) PROVE c[i] \in Range(u) \cup Range(v)
    BY <1>3 DEF Range
  <2>1. CASE i <= Len(u)
    <3>1. i \in 1..Len(u) /\ c[i] = u[i]
      BY <1>1, <1>2, <2>1
    <3> QED BY <1>3, <3>1 DEF Range
  <2>2. CASE ~(i <= Len(u))
    <3>1. i - Len(u) \in 1..Len(v) /\ c[i] = v[i - Len(u)]
      BY <1>1, <1>2, <2>2
    <3> QED BY <1>3, <3>1 DEF Range
  <2> QED BY <2>1, <2>2
<1>5. Range(u) \subseteq Range(c)
  <2> SUFFICES ASSUME NEW i \in 1..Len(u) PROVE u[i] \in Range(c)
    BY <1>3 DEF Range
  <2>1. i \in 1..Len(c) /\ c[i] = u[i]
    BY <1>1, <1>2
  <2> QED BY <1>3, <2>1 DEF Range
<1>6. Range(v) \subseteq Range(c)
  <2> SUFFICES ASSUME NEW i \in 1..Len(v) PROVE v[i] \in Range(c)
    BY <1>3 DEF Range
  <2>1. i + Len(u) \in 1..Len(c) /\ c[i + Len(u)] = v[i]
    BY <1>1, <1>2
  <2> QED BY <1>3, <2>1 DEF Range
<1> QED BY <1>1, <1>4, <1>5, <1>6 DEF c

LEMMA InOrderIs ==
  ASSUME NEW s, NEW n \in Jobs, NEW q \in Seq(Jobs)
  PROVE  InOrder(s, n, q) \in Seq(Jobs) /\ Range(InOrder(s, n, q)) = Range(q) \cup {n}
<1> DEFINE first == {m \in Range(q) : Rank(s, m) <= Rank(s, n)}
           u == Among(q, first)
           v == Among(q, Range(q) \ first)
<1>1. u \in Seq(Jobs) /\ Range(u) = Range(q) \cap first
  BY AmongAre
<1>2. v \in Seq(Jobs) /\ Range(v) = Range(q) \cap (Range(q) \ first)
  BY AmongAre
<1>3. <<n>> \in Seq(Jobs) /\ Range(<<n>>) = {n}
  BY DEF Range
<1>4. InOrder(s, n, q) = u \o <<n>> \o v
  BY DEF InOrder
<1>5. Range(u) \cup Range(v) = Range(q)
  BY <1>1, <1>2
<1>6. PICK c, d, e : c = u /\ d = v /\ e = <<n>>
  OBVIOUS
<1> HIDE DEF u, v
<1>7. c \o e \in Seq(Jobs) /\ Range(c \o e) = Range(c) \cup Range(e)
  BY ZenonT(60), <1>1, <1>3, <1>6, ConcatRange
<1>8. PICK w : w = c \o e
  OBVIOUS
<1>9. w \in Seq(Jobs) /\ Range(w) = Range(c) \cup Range(e)
  BY <1>7, <1>8, Zenon
<1>11. d \in Seq(Jobs)
  BY <1>2, <1>6
<1>12. w \o d \in Seq(Jobs) /\ Range(w \o d) = Range(w) \cup Range(d)
  BY <1>9, <1>11, ConcatRange
<1>13. InOrder(s, n, q) = w \o d
  BY <1>4, <1>6, <1>8
<1> QED BY <1>1, <1>2, <1>3, <1>5, <1>6, <1>9, <1>12, <1>13

(* One job moves.                                                          *)
LEMMA OneMoves ==
  ASSUME NEW s \in State, NEW t \in State, NEW n, Same(s, t), TurnsOK(s), Live(s, n), Live(t, n),
         \A m \in Jobs \ {n} : t.job[m] = s.job[m], Grows(s.job[n], t.job[n]),
         n \in Queued(s) => t.job[n].stage = "queued",
         Range(t.turns) \subseteq Range(s.turns) \cup {n},
         n \in Range(t.turns) => t.job[n].stage = "turn",
         QueuesOK(s)
  PROVE  Moves(s, t, {n})
<1>1. TurnsOK(t)
  <2> SUFFICES ASSUME NEW m \in Range(t.turns) PROVE Live(t, m) /\ t.job[m].stage = "turn"
    BY DEF TurnsOK
  <2>1. CASE m = n
    BY <2>1
  <2>2. CASE m # n
    <3>1. Live(s, m) /\ s.job[m].stage = "turn"
      BY <2>2 DEF TurnsOK
    <3> QED BY <2>2, <3>1 DEF Live
  <2> QED BY <2>1, <2>2
<1>2. ASSUME NEW m \in Jobs PROVE JobMoves(s, t, {n}, m)
  <2>1. CASE m = n
    BY <2>1 DEF JobMoves
  <2>2. CASE m # n
    <3>1. t.job[m] = s.job[m] /\ Grows(s.job[m], t.job[m])
      BY <2>2 DEF Grows
    <3>2. m \in Queued(s) => s.job[m].stage = "queued"
      BY DEF QueuesOK
    <3> QED BY <3>1, <3>2 DEF JobMoves, Live
  <2> QED BY <2>1, <2>2
<1> QED BY <1>1, <1>2 DEF Moves

LEMMA NoneMoves ==
  ASSUME NEW s \in State, TurnsOK(s), QueuesOK(s)
  PROVE  Moves(s, s, {})
<1>1. ASSUME NEW m \in Jobs PROVE JobMoves(s, s, {}, m)
  <2>1. m \in Queued(s) => s.job[m].stage = "queued"
    BY DEF QueuesOK
  <2> QED BY <2>1 DEF JobMoves, Grows, Live
<1> QED BY <1>1 DEF Moves, Same

LEMMA MovesTrans ==
  ASSUME NEW s, NEW t, NEW u, NEW N, NEW M, Moves(s, t, N), Moves(t, u, M),
         \A m \in M : m \in N \/ ~Live(s, m) \/ s.job[m].stage \in {"turn", "queued"}
  PROVE  Moves(s, u, N)
<1>1. Same(s, u) /\ Queued(t) = Queued(s)
  BY DEF Moves, Same, Queued
<1>2. ASSUME NEW n \in Jobs PROVE JobMoves(s, u, N, n)
  <2>1. JobMoves(s, t, N, n) /\ JobMoves(t, u, M, n)
    BY DEF Moves
  <2>2. CASE Live(s, n)
    <3>1. Live(t, n) /\ Live(u, n) /\ Grows(s.job[n], u.job[n])
      BY <2>1, <2>2 DEF JobMoves, Grows
    <3>2. n \in Queued(s) => u.job[n].stage = "queued"
      BY <1>1, <2>1, <2>2, <3>1 DEF JobMoves
    <3>3. ASSUME n \notin N, s.job[n].stage \notin {"turn", "queued"} PROVE u.job[n] = s.job[n]
      <4>1. t.job[n] = s.job[n] /\ n \notin M
        BY <2>1, <2>2, <3>3 DEF JobMoves
      <4> QED BY <2>1, <3>1, <3>3, <4>1 DEF JobMoves
    <3> QED BY <2>2, <3>1, <3>2, <3>3 DEF JobMoves
  <2>3. CASE ~Live(s, n)
    <3>1. t.job[n] = NoJob
      BY <2>1, <2>3 DEF JobMoves
    <3>2. ~Live(t, n)
      BY <3>1 DEF Live
    <3> QED BY <2>1, <2>3, <3>2 DEF JobMoves
  <2> QED BY <2>2, <2>3
<1> QED BY <1>1, <1>2 DEF Moves

(* One job replaced, and the turns.                                        *)
WithJob(s, t, n, j) ==
  /\ t \in State /\ Same(s, t) /\ t.job = [s.job EXCEPT ![n] = j]
  /\ t.recent = s.recent /\ t.quiet = s.quiet

LEMMA SetJob ==
  ASSUME NEW s \in State, NEW n \in Jobs, NEW j \in Job \cup {NoJob}, NEW t,
         t = [s EXCEPT !.job = [s.job EXCEPT ![n] = j]]
  PROVE  WithJob(s, t, n, j) /\ t.turns = s.turns /\ t.spare = s.spare
<1>1. PICK f : f = [s.job EXCEPT ![n] = j]
  OBVIOUS
<1>2. f \in [Jobs -> Job \cup {NoJob}]
  BY <1>1, StateParts
<1>3. t = [s EXCEPT !.job = f]
  BY <1>1
<1> QED BY <1>1, <1>2, <1>3 DEF State, WithJob, Same

LEMMA SetTurns ==
  ASSUME NEW s \in State, NEW u \in Seq(Jobs), NEW t, t = [s EXCEPT !.turns = u]
  PROVE  /\ t \in State /\ Same(s, t) /\ t.job = s.job /\ t.turns = u /\ t.spare = s.spare
         /\ t.recent = s.recent /\ t.quiet = s.quiet
BY DEF State, Same

LEMMA SetSpare ==
  ASSUME NEW s \in State, NEW u \in Seq(Nat), NEW t, t = [s EXCEPT !.spare = u]
  PROVE  /\ t \in State /\ Same(s, t) /\ t.job = s.job /\ t.turns = s.turns /\ t.spare = u
         /\ t.recent = s.recent /\ t.quiet = s.quiet
BY DEF State, Same

LEMMA SetStage ==
  ASSUME NEW s \in State, NEW n, Live(s, n), NEW stage \in Stages, NEW t, t = Stage(s, n, stage)
  PROVE  \E j \in Job : /\ WithJob(s, t, n, j) /\ t.turns = s.turns /\ t.spare = s.spare
                        /\ j.stage = stage /\ Grows(s.job[n], j) /\ j.prio = s.job[n].prio
                        /\ j.kind = s.job[n].kind
<1>1. s.job[n] \in Job /\ n \in Jobs
  BY LiveIs
<1>2. PICK j : j = [s.job[n] EXCEPT !.stage = stage]
  OBVIOUS
<1>3. j \in Job /\ j.stage = stage /\ Grows(s.job[n], j) /\ j.prio = s.job[n].prio
      /\ j.kind = s.job[n].kind
  BY <1>1, <1>2 DEF Job, Grows
<1>4. t = [s EXCEPT !.job = [s.job EXCEPT ![n] = j]]
  BY <1>2 DEF Stage
<1> QED BY <1>1, <1>3, <1>4, SetJob

(* What a step of the link does to one request, n: the other fields and    *)
(* requests stay, its stage is now one of St.                              *)
OnOne(s, t, n, St) ==
  /\ t \in State /\ Same(s, t) /\ Live(t, n)
  /\ \A m \in Jobs \ {n} : t.job[m] = s.job[m]
  /\ Grows(s.job[n], t.job[n]) /\ t.job[n].stage \in St

LEMMA JoinsIs ==
  ASSUME NEW s \in State, NEW n, Live(s, n), NEW stage \in Stages, NEW t, t = Joins(s, n, stage)
  PROVE  OnOne(s, t, n, {stage}) /\ t.turns = s.turns /\ t.spare = s.spare
<1>1. s.job[n] \in Job /\ n \in Jobs
  BY LiveIs
<1>2. PICK u : u = Stage(s, n, stage)
  OBVIOUS
<1>3. PICK j \in Job : /\ WithJob(s, u, n, j) /\ u.turns = s.turns /\ u.spare = s.spare
                       /\ j.stage = stage /\ Grows(s.job[n], j)
  BY <1>2, SetStage
<1>4. u \in State /\ u.job[n] = j /\ Live(u, n)
  BY <1>1, <1>3, StateParts, LiveIs DEF WithJob
<1>5. PICK f : f = s.fg[s.job[n].piece]
  OBVIOUS
<1>6. f \in Readers \cup {Nobody}
  BY <1>1, <1>5, StateParts DEF Job
<1>7. PICK k : k = [j EXCEPT !.with = f]
  OBVIOUS
<1>8. k \in Job /\ k.stage = stage /\ Grows(j, k)
  BY <1>3, <1>6, <1>7 DEF Job, Grows
<1>9. t = [u EXCEPT !.job = [u.job EXCEPT ![n] = k]]
  BY <1>2, <1>4, <1>5, <1>7 DEF Joins
<1>10. WithJob(u, t, n, k) /\ t.turns = u.turns /\ t.spare = u.spare
  BY <1>1, <1>4, <1>8, <1>9, SetJob
<1>11. t.job = [u.job EXCEPT ![n] = k] /\ u.job = [s.job EXCEPT ![n] = j] /\ t \in State
  BY <1>3, <1>10 DEF WithJob
<1>12. t.job[n] = k /\ \A m \in Jobs \ {n} : t.job[m] = s.job[m]
  BY <1>1, <1>4, <1>11, StateParts
<1>13. Same(s, t)
  BY <1>3, <1>10 DEF WithJob, Same
<1>14. Live(t, n) /\ Grows(s.job[n], k)
  BY <1>1, <1>3, <1>8, <1>11, <1>12, LiveIs DEF Grows
<1> QED BY <1>3, <1>8, <1>10, <1>11, <1>12, <1>13, <1>14 DEF OnOne

LEMMA BeginIs ==
  ASSUME Constants, NEW s \in State, NEW n, Live(s, n), NEW t, t = Begin(s, n)
  PROVE  OnOne(s, t, n, {"sent", "joins turned"}) /\ t.turns = s.turns
<1>1. s.job[n] \in Job /\ n \in Jobs
  BY LiveIs
<1>2. s.job[n].piece \in Pieces
  BY <1>1 DEF Job
<1>3. CASE s.fg[s.job[n].piece] # Nobody
  <2>0. PICK stage \in Stages : stage = "joins turned"
    BY DEF Stages
  <2>1. PICK u : u = Joins(s, n, stage)
    OBVIOUS
  <2>2. OnOne(s, u, n, {stage}) /\ u.turns = s.turns /\ u.spare = s.spare
    BY <2>1, JoinsIs
  <2>3. PICK v : v = Append(s.spare, Size[s.job[n].piece])
    OBVIOUS
  <2>4. v \in Seq(Nat)
    BY <1>2, <2>3, StateParts DEF Constants
  <2>5. t = [u EXCEPT !.spare = v]
    BY <1>3, <2>0, <2>1, <2>2, <2>3 DEF Begin
  <2>6. u \in State
    BY <2>2 DEF OnOne
  <2>7. t \in State /\ Same(u, t) /\ t.job = u.job /\ t.turns = u.turns
    BY <2>4, <2>5, <2>6, SetSpare
  <2> QED BY <2>0, <2>2, <2>7 DEF OnOne, Same, Live
<1>4. CASE s.fg[s.job[n].piece] = Nobody
  <2>1. t = Stage(s, n, "sent")
    BY <1>4 DEF Begin
  <2>2. PICK j \in Job : /\ WithJob(s, t, n, j) /\ t.turns = s.turns
                         /\ j.stage = "sent" /\ Grows(s.job[n], j)
    BY ZenonT(60), <2>1, SetStage DEF Stages
  <2>3. t.job[n] = j /\ \A m \in Jobs \ {n} : t.job[m] = s.job[m]
    BY <1>1, <2>2, StateParts DEF WithJob
  <2> QED BY <1>1, <2>2, <2>3, LiveIs DEF OnOne, WithJob
<1> QED BY <1>3, <1>4

(* A turn given, by Begin, to one that waits for it or has just asked.     *)
LEMMA BeginMoves ==
  ASSUME Constants, NEW s \in State, TurnsOK(s), QueuesOK(s), NEW n, Live(s, n),
         n \notin Queued(s), n \notin Range(s.turns), NEW t, t = Begin(s, n)
  PROVE  Moves(s, t, {n})
<1>1. OnOne(s, t, n, {"sent", "joins turned"}) /\ t.turns = s.turns
  BY BeginIs
<1> QED BY <1>1, OneMoves DEF OnOne

LEMMA TurnGiven ==
  ASSUME Constants, NEW s \in State, TurnsOK(s), QueuesOK(s), NEW n, Live(s, n), n \notin Queued(s),
         NEW t, t = Begin([s EXCEPT !.turns = From(@, n)], n)
  PROVE  Moves(s, t, {n})
<1>1. PICK q : q = From(s.turns, n)
  OBVIOUS
<1>2. q \in Seq(Jobs) /\ Range(q) = Range(s.turns) \ {n}
  BY <1>1, FromIs, StateParts
<1>3. PICK u : u = [s EXCEPT !.turns = q]
  OBVIOUS
<1>4. u \in State /\ Same(s, u) /\ u.job = s.job /\ u.turns = q
  BY <1>2, <1>3, SetTurns
<1>5. Live(u, n) /\ t = Begin(u, n)
  BY <1>1, <1>3, <1>4 DEF Live
<1>6. OnOne(u, t, n, {"sent", "joins turned"}) /\ t.turns = q
  BY <1>4, <1>5, BeginIs
<1>7. /\ t \in State /\ Same(s, t) /\ Live(t, n) /\ \A m \in Jobs \ {n} : t.job[m] = s.job[m]
      /\ Grows(s.job[n], t.job[n])
  BY <1>4, <1>6 DEF OnOne, Same
<1>8. Range(t.turns) \subseteq Range(s.turns) \cup {n} /\ n \notin Range(t.turns)
  BY <1>2, <1>6
<1> QED BY <1>7, <1>8, OneMoves

LEMMA KickOneMoves ==
  ASSUME Constants, NEW s, TurnsOK(s), QueuesOK(s), NEW n \in Range(s.turns),
         NEW acc, Moves(s, acc.s, {}), NEW t, t = KickOne(acc, n),
         acc = [s |-> acc.s, stop |-> acc.stop]
  PROVE  Moves(s, t.s, {}) /\ t = [s |-> t.s, stop |-> t.stop]
<1>1. PICK u : u = acc.s
  OBVIOUS
<1>2. u \in State /\ TurnsOK(u) /\ Moves(s, u, {})
  BY <1>1 DEF Moves
<1>3. Live(s, n) /\ s.job[n].stage = "turn" /\ n \in Jobs
  BY DEF TurnsOK, Live
<1>4. Live(u, n)
  BY <1>2, <1>3 DEF Moves, JobMoves
<1>5. Queued(u) = Queued(s) /\ n \notin Queued(s)
  BY <1>2, <1>3 DEF Moves, Same, Queued, QueuesOK
<1>6. QueuesOK(u)
  <2> SUFFICES ASSUME NEW m \in Queued(s) PROVE Live(u, m) /\ u.job[m].stage = "queued"
    BY <1>5 DEF QueuesOK
  <2>1. Live(s, m) /\ m \in Jobs
    BY DEF QueuesOK, Live
  <2> QED BY <1>2, <2>1 DEF Moves, JobMoves
<1>7. PICK v : v = Begin([u EXCEPT !.turns = From(@, n)], n)
  OBVIOUS
<1>8. Moves(u, v, {n})
  BY <1>2, <1>4, <1>5, <1>6, <1>7, TurnGiven
<1>9. Moves(s, v, {})
  BY <1>2, <1>3, <1>8, MovesTrans
<1>10. \/ t = acc
       \/ t = [acc EXCEPT !.s = v]
       \/ t = [acc EXCEPT !.stop = ~u.job[n].urgent]
  BY <1>1, <1>7 DEF KickOne
<1> QED BY <1>1, <1>2, <1>9, <1>10

LEMMA KickMoves ==
  ASSUME Constants, NEW s \in State, TurnsOK(s), QueuesOK(s), NEW t, t = Kick(s)
  PROVE  Moves(s, t, {})
<1>1. Len(s.turns) \in Nat /\ \A i \in 1..Len(s.turns) : s.turns[i] \in Range(s.turns)
  BY StateParts DEF Range
<1>0. PICK k : KickRuns(k, s)
  BY <1>1, KickIs
<1>2. /\ k[0] = [s |-> s, stop |-> FALSE]
      /\ \A i \in 1..Len(s.turns) : k[i] = KickOne(k[i - 1], s.turns[i])
      /\ Kick(s) = k[Len(s.turns)].s
  BY <1>0 DEF KickRuns
<1> DEFINE G == {i \in 0..Len(s.turns) :
                   Moves(s, k[i].s, {}) /\ k[i] = [s |-> k[i].s, stop |-> k[i].stop]}
<1>3. 0 \in G
  <2>1. Moves(s, k[0].s, {})
    BY <1>2, NoneMoves
  <2>2. k[0] = [s |-> k[0].s, stop |-> k[0].stop]
    BY <1>2
  <2> QED BY <1>1, <2>1, <2>2
<1>4. \A i \in 0..(Len(s.turns) - 1) : i \in G => i + 1 \in G
  <2> SUFFICES ASSUME NEW i \in 0..(Len(s.turns) - 1), i \in G PROVE i + 1 \in G
    OBVIOUS
  <2>1. i + 1 \in 1..Len(s.turns) /\ i + 1 \in 0..Len(s.turns) /\ (i + 1) - 1 = i
    BY <1>1
  <2>2. PICK n : n = s.turns[i + 1]
    OBVIOUS
  <2>3. k[i + 1] = KickOne(k[i], n) /\ n \in Range(s.turns)
    BY <1>1, <1>2, <2>1, <2>2
  <2>4. PICK acc : acc = k[i]
    OBVIOUS
  <2>5. Moves(s, acc.s, {}) /\ acc = [s |-> acc.s, stop |-> acc.stop]
    BY <2>4
  <2>6. PICK u : u = KickOne(acc, n)
    OBVIOUS
  <2>7. Moves(s, u.s, {}) /\ u = [s |-> u.s, stop |-> u.stop]
    BY <2>3, <2>5, <2>6, KickOneMoves
  <2> QED BY <2>1, <2>3, <2>4, <2>6, <2>7
<1>5. Len(s.turns) \in G
  <2> HIDE DEF G
  <2> QED BY <1>1, <1>3, <1>4, UpTo
<1> QED BY <1>2, <1>5

LEMMA MovesKeeps ==
  ASSUME NEW s, QueuesOK(s), NEW t, NEW N, Moves(s, t, N)
  PROVE  t \in State /\ TurnsOK(t) /\ QueuesOK(t) /\ Queued(t) = Queued(s)
<1>1. t \in State /\ TurnsOK(t) /\ Queued(t) = Queued(s)
  BY DEF Moves, Same, Queued
<1>2. QueuesOK(t)
  <2> SUFFICES ASSUME NEW m \in Queued(s) PROVE Live(t, m) /\ t.job[m].stage = "queued"
    BY <1>1 DEF QueuesOK
  <2>1. Live(s, m) /\ m \in Jobs
    BY DEF QueuesOK, Live
  <2> QED BY <2>1 DEF Moves, JobMoves
<1> QED BY <1>1, <1>2

(* A job changed and put in its place, then the link looks.                *)
LEMMA PutKicked ==
  ASSUME Constants, NEW s \in State, TurnsOK(s), QueuesOK(s), NEW n, Live(s, n),
         NEW j \in Job, Grows(s.job[n], j), j.stage = "turn", n \notin Queued(s),
         NEW q \in Seq(Jobs), Range(q) \subseteq Range(s.turns) \cup {n},
         NEW u, WithJob(s, u, n, j), NEW t, t = Kick([u EXCEPT !.turns = q])
  PROVE  Moves(s, t, {n}) /\ Grows(j, t.job[n])
<1>1. n \in Jobs /\ u \in State /\ Same(s, u) /\ u.job = [s.job EXCEPT ![n] = j]
  BY DEF Live, WithJob
<1>2. PICK v : v = [u EXCEPT !.turns = q]
  OBVIOUS
<1>3. v \in State /\ Same(u, v) /\ v.job = u.job /\ v.turns = q
  BY <1>1, <1>2, SetTurns
<1>4. v.job[n] = j /\ \A m \in Jobs \ {n} : v.job[m] = s.job[m]
  BY <1>1, <1>3, StateParts
<1>5. Same(s, v) /\ Live(v, n)
  BY <1>1, <1>3, <1>4, LiveIs DEF Same
<1>6. Moves(s, v, {n})
  BY <1>3, <1>4, <1>5, OneMoves
<1>7. TurnsOK(v) /\ QueuesOK(v)
  BY <1>6, MovesKeeps
<1>8. Moves(v, t, {})
  BY <1>2, <1>3, <1>7, KickMoves
<1>9. Moves(s, t, {n})
  BY <1>6, <1>8, MovesTrans
<1>10. Grows(v.job[n], t.job[n])
  BY <1>1, <1>5, <1>8 DEF Moves, JobMoves
<1> QED BY <1>4, <1>9, <1>10

LEMMA AskMoves ==
  ASSUME Constants, NEW s \in State, TurnsOK(s), QueuesOK(s), NEW n, Live(s, n),
         n \notin Queued(s), s.job[n].stage # "turn", NEW t, t = Ask(s, n)
  PROVE  Moves(s, t, {n})
<1>1. s.job[n] \in Job /\ n \in Jobs
  BY LiveIs
<1>2. n \notin Range(s.turns)
  BY DEF TurnsOK
<1>3. CASE s.fg[s.job[n].piece] # Nobody
  <2>1. PICK stage \in Stages : stage = "joins"
    BY DEF Stages
  <2>2. t = Joins(s, n, stage)
    BY <1>3, <2>1 DEF Ask
  <2>3. OnOne(s, t, n, {stage}) /\ t.turns = s.turns
    BY <2>1, <2>2, JoinsIs
  <2> QED BY <1>2, <2>3, OneMoves DEF OnOne
<1>4. CASE s.fg[s.job[n].piece] = Nobody /\ s.turns = <<>> /\ MayStart(s, n)
  <2>1. t = Begin(s, n)
    BY <1>4 DEF Ask
  <2> QED BY <1>2, <2>1, BeginMoves
<1>5. CASE s.fg[s.job[n].piece] = Nobody /\ ~(s.turns = <<>> /\ MayStart(s, n))
  <2>1. PICK i : i = [s.job[n] EXCEPT !.prio = Prio[s.job[n].kind]]
    OBVIOUS
  <2>2. i \in Job /\ Grows(s.job[n], i)
    <3>1. Prio[s.job[n].kind] \in Nat
      BY <1>1 DEF Job, Kinds, Prio
    <3> QED BY <1>1, <2>1, <3>1 DEF Job, Grows
  <2>3. PICK u : u = [s EXCEPT !.job[n].prio = Prio[s.job[n].kind]]
    OBVIOUS
  <2>4. u = [s EXCEPT !.job = [s.job EXCEPT ![n] = i]]
    BY <2>1, <2>3
  <2>5. WithJob(s, u, n, i) /\ u.turns = s.turns
    BY <1>1, <2>2, <2>4, SetJob
  <2>6. u \in State /\ u.job[n] = i /\ Live(u, n) /\ Same(s, u) /\ u.job = [s.job EXCEPT ![n] = i]
    BY <1>1, <2>2, <2>5, StateParts, LiveIs DEF WithJob
  <2>7. PICK stage \in Stages : stage = "turn"
    BY DEF Stages
  <2>8. PICK v : v = Stage(u, n, stage)
    OBVIOUS
  <2>9. PICK j \in Job : WithJob(u, v, n, j) /\ v.turns = u.turns /\ j.stage = stage /\ Grows(i, j)
    BY <2>6, <2>8, SetStage
  <2>10. WithJob(s, v, n, j) /\ Grows(s.job[n], j)
    <3>1. v.job = [u.job EXCEPT ![n] = j] /\ v \in State /\ Same(u, v)
          /\ v.recent = u.recent /\ v.quiet = u.quiet
      BY <2>9 DEF WithJob
    <3>2. v.job = [s.job EXCEPT ![n] = j]
      BY <1>1, <2>6, <3>1, StateParts
    <3>3. Same(s, v) /\ v.recent = s.recent /\ v.quiet = s.quiet
      BY <2>5, <2>6, <3>1 DEF Same, WithJob
    <3> QED BY <2>2, <2>9, <3>1, <3>2, <3>3 DEF WithJob, Grows
  <2>11. PICK q : q = InOrder(u, n, s.turns)
    OBVIOUS
  <2>12. q \in Seq(Jobs) /\ Range(q) = Range(s.turns) \cup {n}
    BY <1>1, <2>11, InOrderIs, StateParts
  <2>13. t = Kick([v EXCEPT !.turns = q])
    BY <1>5, <2>3, <2>5, <2>7, <2>8, <2>9, <2>11 DEF Ask
  <2> QED BY <2>7, <2>9, <2>10, <2>12, <2>13, PutKicked
<1> QED BY <1>3, <1>4, <1>5

(* A record of j's, changed, whose download is put where it belongs.       *)
LEMMA ReorderMoves ==
  ASSUME Constants, NEW s \in State, TurnsOK(s), QueuesOK(s), NEW n, Live(s, n),
         NEW j \in Job, Grows(s.job[n], j), j.stage = s.job[n].stage,
         NEW u, u = [s EXCEPT !.job = [s.job EXCEPT ![n] = j]], NEW t, t = Reorder(u, n)
  PROVE  Moves(s, t, {n}) /\ Grows(j, t.job[n])
<1>1. s.job[n] \in Job /\ n \in Jobs
  BY LiveIs
<1>2. WithJob(s, u, n, j) /\ u.turns = s.turns
  BY <1>1, SetJob
<1>3. /\ u \in State /\ u.job[n] = j /\ Live(u, n) /\ Same(s, u)
      /\ \A m \in Jobs \ {n} : u.job[m] = s.job[m]
  <2>1. u \in State /\ Same(s, u) /\ u.job = [s.job EXCEPT ![n] = j]
    BY <1>2 DEF WithJob
  <2>2. u.job[n] = j /\ \A m \in Jobs \ {n} : u.job[m] = s.job[m]
    BY <1>1, <2>1, StateParts
  <2> QED BY <1>1, <2>1, <2>2, LiveIs
<1>4. CASE j.stage # "turn"
  <2>1. t = u
    BY <1>3, <1>4 DEF Reorder
  <2>2. n \notin Range(s.turns) /\ (n \in Queued(s) => j.stage = "queued")
    BY <1>4 DEF TurnsOK, QueuesOK
  <2>3. Moves(s, t, {n})
    BY <1>2, <1>3, <2>1, <2>2, OneMoves
  <2> QED BY <1>3, <2>1, <2>3 DEF Grows
<1>5. CASE j.stage = "turn"
  <2>1. n \notin Queued(s)
    BY <1>5 DEF QueuesOK
  <2>2. PICK r : r = From(s.turns, n)
    OBVIOUS
  <2>3. r \in Seq(Jobs) /\ Range(r) = Range(s.turns) \ {n}
    BY <2>2, FromIs, StateParts
  <2>4. PICK q : q = InOrder(u, n, r)
    OBVIOUS
  <2>5. q \in Seq(Jobs) /\ Range(q) \subseteq Range(s.turns) \cup {n}
    BY <1>1, <2>3, <2>4, InOrderIs
  <2>6. t = Kick([u EXCEPT !.turns = q])
    BY <1>2, <1>3, <1>5, <2>2, <2>4 DEF Reorder
  <2> QED BY <1>2, <1>5, <2>1, <2>5, <2>6, PutKicked
<1> QED BY <1>4, <1>5

LEMMA PromoteMoves ==
  ASSUME Constants, NEW s \in State, TurnsOK(s), QueuesOK(s), NEW n, Live(s, n),
         NEW t, t = Promote(s, n)
  PROVE  Moves(s, t, {n}) /\ May(t.job[n])
<1>1. s.job[n] \in Job /\ n \in Jobs
  BY LiveIs
<1>2. CASE s.job[n].urgent
  <2>1. t = s /\ Moves(s, t, {})
    BY <1>2, NoneMoves DEF Promote
  <2> QED BY <1>2, <2>1 DEF Moves, JobMoves, May
<1>3. CASE ~s.job[n].urgent
  <2>1. PICK j : j = [s.job[n] EXCEPT !.urgent = TRUE]
    OBVIOUS
  <2>2. j \in Job /\ Grows(s.job[n], j) /\ j.stage = s.job[n].stage /\ j.urgent
    BY <1>1, <2>1 DEF Job, Grows
  <2>3. PICK u : u = [s EXCEPT !.job = [s.job EXCEPT ![n] = j]]
    OBVIOUS
  <2>4. t = Reorder(u, n)
    BY <1>3, <2>1, <2>3 DEF Promote
  <2> QED BY <2>2, <2>3, <2>4, ReorderMoves DEF Grows, May
<1> QED BY <1>2, <1>3

LEMMA ForLoadMoves ==
  ASSUME Constants, NEW s \in State, TurnsOK(s), QueuesOK(s), NEW n, Live(s, n),
         NEW t, t = ForLoad(s, n)
  PROVE  Moves(s, t, {n}) /\ May(t.job[n])
<1>1. s.job[n] \in Job /\ n \in Jobs
  BY LiveIs
<1>2. CASE s.job[n].forLoad
  <2>1. t = s /\ Moves(s, t, {})
    BY <1>2, NoneMoves DEF ForLoad
  <2> QED BY <1>2, <2>1 DEF Moves, JobMoves, May
<1>3. CASE ~s.job[n].forLoad
  <2> DEFINE p == IF s.job[n].stage = "turn" THEN 0 ELSE s.job[n].prio
  <2>1. PICK j : j = [[s.job[n] EXCEPT !.forLoad = TRUE] EXCEPT !.prio = p]
    OBVIOUS
  <2>2. j \in Job /\ Grows(s.job[n], j) /\ j.stage = s.job[n].stage /\ j.forLoad
    BY <1>1, <2>1 DEF Job, Grows
  <2>3. PICK u : u = [s EXCEPT !.job = [s.job EXCEPT ![n] = j]]
    OBVIOUS
  <2>4. t = Reorder(u, n)
    BY <1>1, <1>3, <2>1, <2>3, StateParts DEF ForLoad
  <2> QED BY <2>2, <2>3, <2>4, ReorderMoves DEF Grows, May
<1> QED BY <1>2, <1>3
----------------------------------------------------------------------------
(* Steps that keep what the game waits for free to go.                     *)

(* t is good; the game waits for no more than in s, and what might go may; *)
(* the requests that wait for no turn are as they were, but for N.         *)
Fine(s, t, N) ==
  /\ Good(t) /\ Awaited(t) \subseteq Awaited(s)
  /\ \A n \in Awaited(t) : May(s.job[n]) => May(t.job[n])
  /\ \A n \in Jobs \ N :
       Live(s, n) /\ s.job[n].stage \notin {"turn", "queued"} => t.job[n] = s.job[n]

LEMMA FineNone == ASSUME NEW s, Good(s) PROVE Fine(s, s, {})
BY DEF Fine

LEMMA FineTrans ==
  ASSUME NEW s, NEW t, NEW u, NEW N, NEW M, Fine(s, t, N), Fine(t, u, M),
         \A m \in M : m \in N \/ ~Live(s, m) \/ s.job[m].stage \in {"turn", "queued"}
  PROVE  Fine(s, u, N)
<1>1. Good(u) /\ Awaited(u) \subseteq Awaited(s)
  BY DEF Fine
<1>2. \A n \in Awaited(u) : May(s.job[n]) => May(u.job[n])
  BY DEF Fine
<1>3. ASSUME NEW n \in Jobs \ N, Live(s, n), s.job[n].stage \notin {"turn", "queued"}
      PROVE  u.job[n] = s.job[n]
  <2>1. t.job[n] = s.job[n] /\ n \notin M
    BY <1>3 DEF Fine
  <2>2. Live(t, n) /\ t.job[n].stage \notin {"turn", "queued"} /\ n \in Jobs \ M
    BY <1>3, <2>1 DEF Live
  <2> QED BY <2>1, <2>2 DEF Fine
<1> QED BY <1>1, <1>2, <1>3 DEF Fine

LEMMA FineKeeps ==
  ASSUME NEW s, NEW t, NEW N, Fine(s, t, N), NEW X, Kept(s, X)
  PROVE  Kept(t, X)
BY DEF Fine, Kept

LEMMA SameAwaited ==
  ASSUME NEW s, NEW t, t.list = s.list, t.read = s.read
  PROVE  Awaited(t) = Awaited(s)
BY DEF Awaited, ByRead, ByList

LEMMA MovesFine ==
  ASSUME NEW s, Good(s), NEW t, NEW N, Moves(s, t, N)
  PROVE  Fine(s, t, N)
<1>1. t \in State /\ TurnsOK(t) /\ QueuesOK(t) /\ Queued(t) = Queued(s)
  BY MovesKeeps DEF Good
<1>2. Awaited(t) = Awaited(s) /\ t.flights = s.flights
  BY SameAwaited DEF Moves, Same
<1>3. ASSUME NEW n \in Jobs, Live(s, n)
      PROVE  /\ Live(t, n) /\ t.job[n].piece = s.job[n].piece
             /\ May(s.job[n]) => May(t.job[n])
             /\ n \notin N /\ s.job[n].stage \notin {"turn", "queued"} => t.job[n] = s.job[n]
  <2>1. JobMoves(s, t, N, n)
    BY DEF Moves
  <2> QED BY <1>3, <2>1 DEF JobMoves, Grows, May
<1>4. FlightsOK(t)
  BY <1>2, <1>3 DEF FlightsOK, Good, Live
<1>5. \A n \in Awaited(s) : n \in Jobs /\ Live(s, n)
  BY DEF Good, AwaitedOK, Live
<1>6. AwaitedOK(t)
  BY <1>2, <1>3, <1>5 DEF AwaitedOK
<1>7. Good(t)
  BY <1>1, <1>4, <1>6 DEF Good
<1> QED BY <1>2, <1>3, <1>5, <1>7 DEF Fine

(* A promise settled: nobody waits for that download any more.             *)
LEMMA SettleFine ==
  ASSUME Constants, NEW s, Good(s), NEW n, Live(s, n), n \notin Range(s.turns), n \notin Queued(s),
         NEW t, t = Settle(s, n)
  PROVE  Fine(s, t, {n})
<1>1. s \in State /\ n \in Jobs /\ s.job[n] \in Job
  BY LiveIs DEF Good
<1>2. s.job[n].piece \in Pieces /\ n # Nobody
  BY <1>1 DEF Job, Constants
<1> DEFINE p == s.job[n].piece
<1>3. PICK jobs : jobs = [s.job EXCEPT ![n] = NoJob]
  OBVIOUS
<1>4. PICK flights : flights = [s.flights EXCEPT ![p] = IF @ = n THEN Nobody ELSE @]
  OBVIOUS
<1>5. PICK list : list = [l \in Lists |->
        IF s.list[l] = Over THEN Over
        ELSE [s.list[l] EXCEPT !.on = [q \in DOMAIN @ |->
               IF @[q].job = n THEN [@[q] EXCEPT !.job = Nobody] ELSE @[q]]]]
  OBVIOUS
<1>6. PICK read : read = [r \in Readers |->
        IF s.read[r].state = "flying" THEN [s.read[r] EXCEPT !.jobs = @ \ {n}] ELSE s.read[r]]
  OBVIOUS
<1>7. t = [s EXCEPT !.job = jobs, !.flights = flights, !.list = list, !.read = read]
  BY <1>3, <1>4, <1>5, <1>6 DEF Settle
<1>8. jobs \in [Jobs -> Job \cup {NoJob}] /\ jobs[n] = NoJob /\ \A m \in Jobs \ {n} : jobs[m] = s.job[m]
  BY <1>1, <1>3, StateParts
<1>9. /\ flights \in [Pieces -> Jobs \cup {Nobody}]
      /\ \A q \in Pieces : flights[q] \in {s.flights[q], Nobody} /\ (flights[q] = n => q # p)
  BY <1>1, <1>2, <1>4, StateParts
<1>10. ASSUME NEW l \in Lists, s.list[l] # Over
       PROVE  /\ list[l] \in OpenList /\ list[l].kind = s.list[l].kind
              /\ DOMAIN list[l].on = DOMAIN s.list[l].on
              /\ \A q \in DOMAIN s.list[l].on :
                   list[l].on[q].job \in {s.list[l].on[q].job, Nobody} \ {n}
  <2> DEFINE o == s.list[l].on
             w == [q \in DOMAIN o |-> IF o[q].job = n THEN [o[q] EXCEPT !.job = Nobody] ELSE o[q]]
  <2>1. s.list[l] \in OpenList
    BY <1>1, <1>10, StateParts
  <2>2. o \in Parts
    BY <2>1 DEF OpenList
  <2>3. PICK D \in SUBSET Pieces : o \in [D -> Part]
    BY <2>2 DEF Parts
  <2>4. w \in [D -> Part] /\ \A q \in D : w[q].job \in {o[q].job, Nobody} \ {n}
    BY <1>2, <2>3 DEF Part
  <2>5. w \in Parts
    BY <2>4 DEF Parts
  <2>6. list[l] = [s.list[l] EXCEPT !.on = w]
    BY <1>5, <1>10
  <2> HIDE DEF w
  <2>7. list[l] \in OpenList /\ list[l].kind = s.list[l].kind /\ list[l].on = w
    BY <2>1, <2>5, <2>6 DEF OpenList
  <2>8. DOMAIN w = D /\ DOMAIN o = D
    BY <2>3, <2>4
  <2> HIDE DEF o
  <2>9. o = s.list[l].on
    BY DEF o
  <2> QED BY <2>4, <2>7, <2>8, <2>9
<1>11. list \in [Lists -> OpenList \cup {Over}]
  <2>1. \A l \in Lists : list[l] \in OpenList \cup {Over}
    BY <1>5, <1>10
  <2>2. list = [l \in Lists |-> list[l]]
    BY <1>5
  <2> QED BY <2>1, <2>2
<1>12. ASSUME NEW r \in Readers
       PROVE  /\ read[r] \in Asked \cup Flying \cup {Over, FgOver}
              /\ read[r].state = "flying" =>
                   s.read[r].state = "flying" /\ read[r].jobs = s.read[r].jobs \ {n}
  <2>1. s.read[r] \in Asked \cup Flying \cup {Over, FgOver}
    BY <1>1, StateParts
  <2>2. CASE s.read[r].state = "flying"
    <3>1. s.read[r] \in Flying
      BY <2>1, <2>2 DEF Asked, Over, FgOver
    <3>2. read[r] = [s.read[r] EXCEPT !.jobs = @ \ {n}]
      BY <1>6, <2>2
    <3>3. read[r] \in Flying /\ read[r].jobs = s.read[r].jobs \ {n}
      BY <3>1, <3>2 DEF Flying
    <3> QED BY <2>2, <3>3
  <2>3. CASE s.read[r].state # "flying"
    BY <1>6, <2>1, <2>3
  <2> QED BY <2>2, <2>3
<1>13. read \in [Readers -> Asked \cup Flying \cup {Over, FgOver}]
  <2>1. read = [r \in Readers |-> read[r]]
    BY <1>6
  <2> QED BY <1>12, <2>1
<1>14. /\ t \in State /\ t.job = jobs /\ t.flights = flights /\ t.list = list /\ t.read = read
       /\ t.turns = s.turns /\ t.wantQ = s.wantQ /\ t.placeQ = s.placeQ
  BY ZenonT(60), <1>1, <1>7, <1>8, <1>9, <1>11, <1>13 DEF State
<1>15. \A m \in Jobs \ {n} : t.job[m] = s.job[m] /\ (Live(s, m) => Live(t, m))
  BY <1>8, <1>14 DEF Live
<1>16. TurnsOK(t) /\ QueuesOK(t)
  BY <1>14, <1>15 DEF TurnsOK, QueuesOK, Queued, Good, Live
<1>17. FlightsOK(t)
  <2> SUFFICES ASSUME NEW q \in Pieces, t.flights[q] # Nobody
               PROVE  Live(t, t.flights[q]) /\ t.job[t.flights[q]].piece = q
    BY DEF FlightsOK
  <2>1. t.flights[q] = s.flights[q] /\ (s.flights[q] = n => q # p)
    BY <1>9, <1>14
  <2>2. Live(s, s.flights[q]) /\ s.job[s.flights[q]].piece = q
    BY <2>1 DEF Good, FlightsOK
  <2>3. s.flights[q] \in Jobs \ {n}
    BY <2>1, <2>2 DEF Live
  <2> QED BY <1>15, <2>1, <2>2, <2>3
<1>18. Awaited(t) \subseteq Awaited(s) \ {n}
  <2> SUFFICES ASSUME NEW m \in Jobs, ByRead(t, m) \/ ByList(t, m)
               PROVE  m # n /\ (ByRead(s, m) \/ ByList(s, m))
    BY DEF Awaited
  <2>1. CASE ByRead(t, m)
    BY <1>12, <1>14, <2>1 DEF ByRead
  <2>2. CASE ByList(t, m)
    <3>1. PICK l \in Lists : /\ list[l] # Over /\ list[l].kind = "announced"
                             /\ \E q \in DOMAIN list[l].on : list[l].on[q].job = m
      BY <1>14, <2>2 DEF ByList
    <3>2. s.list[l] # Over
      BY <1>5, <3>1
    <3>3. m # Nobody
      BY DEF Constants
    <3>4. PICK q \in DOMAIN list[l].on : list[l].on[q].job = m
      BY <3>1
    <3>5. /\ list[l].kind = s.list[l].kind /\ DOMAIN list[l].on = DOMAIN s.list[l].on
          /\ \A x \in DOMAIN list[l].on : list[l].on[x].job # Nobody =>
               list[l].on[x].job = s.list[l].on[x].job /\ list[l].on[x].job # n
      BY <1>10, <3>2
    <3>6. q \in DOMAIN s.list[l].on /\ s.list[l].on[q].job = m /\ m # n
      BY <3>3, <3>4, <3>5
    <3>7. s.list[l].kind = "announced"
      BY <3>1, <3>5
    <3> QED BY <3>2, <3>6, <3>7 DEF ByList
  <2> QED BY <2>1, <2>2
<1>19. \A m \in Awaited(t) : m \in Jobs \ {n} /\ Live(s, m)
  BY <1>18 DEF Good, AwaitedOK, Live
<1>20. AwaitedOK(t)
  BY <1>15, <1>19 DEF AwaitedOK
<1>21. Good(t)
  BY <1>14, <1>16, <1>17, <1>20 DEF Good
<1> QED BY <1>15, <1>18, <1>19, <1>21 DEF Fine

LEMMA RunWantFine ==
  ASSUME Constants, NEW s, Good(s), NEW n, Live(s, n), n \notin Queued(s),
         s.job[n].stage = "queued", NEW t, t = RunWant(s, n)
  PROVE  Fine(s, t, {})
<1>1. s \in State /\ TurnsOK(s) /\ QueuesOK(s) /\ n \in Jobs /\ s.job[n] \in Job
  BY LiveIs DEF Good
<1>2. n \notin Range(s.turns)
  BY DEF Good, TurnsOK
<1>3. Fine(s, t, {n})
  <2>1. CASE s.job[n].piece \in s.here
    BY <1>2, <2>1, SettleFine DEF RunWant
  <2>2. CASE s.job[n].piece \notin s.here /\ s.job[n].kind = "announced"
    <3>1. PICK j : j = [s.job[n] EXCEPT !.urgent = TRUE]
      OBVIOUS
    <3>2. j \in Job /\ Grows(s.job[n], j) /\ j.stage = s.job[n].stage
      BY <1>1, <3>1 DEF Job, Grows
    <3>3. PICK u : u = [s EXCEPT !.job = [s.job EXCEPT ![n] = j]]
      OBVIOUS
    <3>4. WithJob(s, u, n, j) /\ u.turns = s.turns
      BY <1>1, <3>2, <3>3, SetJob
    <3>5. /\ u \in State /\ u.job[n] = j /\ Live(u, n) /\ Same(s, u)
          /\ \A m \in Jobs \ {n} : u.job[m] = s.job[m]
      <4>1. u \in State /\ Same(s, u) /\ u.job = [s.job EXCEPT ![n] = j]
        BY <3>4 DEF WithJob
      <4>2. u.job[n] = j /\ \A m \in Jobs \ {n} : u.job[m] = s.job[m]
        BY <1>1, <4>1, StateParts
      <4> QED BY <1>1, <3>2, <4>1, <4>2, LiveIs
    <3>6. Moves(s, u, {n})
      BY <1>1, <1>2, <3>2, <3>4, <3>5, OneMoves
    <3>7. TurnsOK(u) /\ QueuesOK(u) /\ Queued(u) = Queued(s)
      BY <1>1, <3>6, MovesKeeps
    <3>8. t = Ask(u, n)
      BY <2>2, <3>1, <3>3 DEF RunWant
    <3>9. Moves(u, t, {n})
      BY <3>2, <3>5, <3>7, <3>8, AskMoves
    <3>10. Moves(s, t, {n})
      BY <3>6, <3>9, MovesTrans
    <3> QED BY <3>10, MovesFine
  <2>3. CASE s.job[n].piece \notin s.here /\ s.job[n].kind # "announced"
    <3>1. t = Ask(s, n)
      BY <2>3 DEF RunWant
    <3>2. Moves(s, t, {n})
      BY <1>1, <3>1, AskMoves
    <3> QED BY <3>2, MovesFine
  <2> QED BY <2>1, <2>2, <2>3
<1> QED BY <1>3, FineNone, FineTrans

WithQueues(s, w, q) == [s EXCEPT !.wantQ = w, !.placeQ = q]

(* Queues changed: those that stand in them wait, and in no turn.          *)
LEMMA QueuesFine ==
  ASSUME NEW s, Good(s), NEW w \in Seq(Jobs), NEW q \in Seq(Jobs),
         Range(w) \subseteq Queued(s), Range(q) \subseteq Queued(s),
         NEW t, t = WithQueues(s, w, q)
  PROVE  Fine(s, t, {}) /\ t.job = s.job /\ Queued(t) = Range(w) \cup Range(q)
<1>1. /\ t \in State /\ t.wantQ = w /\ t.placeQ = q /\ t.job = s.job /\ t.turns = s.turns
      /\ t.flights = s.flights /\ t.list = s.list /\ t.read = s.read
  BY DEF Good, State, WithQueues
<1>2. Queued(t) = Range(w) \cup Range(q)
  BY <1>1 DEF Queued
<1>3. Awaited(t) = Awaited(s)
  BY <1>1, SameAwaited
<1>4. TurnsOK(t) /\ FlightsOK(t) /\ AwaitedOK(t)
  BY <1>1, <1>3 DEF Good, TurnsOK, FlightsOK, AwaitedOK, Live
<1>5. QueuesOK(t)
  BY <1>1, <1>2 DEF Good, QueuesOK, Live
<1> QED BY <1>1, <1>2, <1>3, <1>4, <1>5 DEF Fine, Good

LEMMA PumpOneFine ==
  ASSUME Constants, NEW s, Good(s), NEW t, t = PumpOne(s)
  PROVE  Fine(s, t, {})
<1>1. s \in State /\ s.wantQ \in Seq(Jobs) /\ s.placeQ \in Seq(Jobs)
  BY StateParts DEF Good
<1>2. CASE t = s
  BY <1>2, FineNone
<1>3. CASE t # s
  <2>1. \E q \in {Urgent(s, s.wantQ), Urgent(s, s.placeQ), s.wantQ, s.placeQ} :
          /\ q # <<>>
          /\ t = RunWant([s EXCEPT !.wantQ = From(@, q[1]), !.placeQ = From(@, q[1])], q[1])
    BY <1>3 DEF PumpOne
  <2>2. PICK q \in {Urgent(s, s.wantQ), Urgent(s, s.placeQ), s.wantQ, s.placeQ} :
          /\ q # <<>>
          /\ t = RunWant([s EXCEPT !.wantQ = From(@, q[1]), !.placeQ = From(@, q[1])], q[1])
    BY <2>1
  <2>3. q \in Seq(Jobs) /\ Range(q) \subseteq Queued(s)
    <3>1. Urgent(s, s.wantQ) \in Seq(Jobs) /\ Range(Urgent(s, s.wantQ)) \subseteq Range(s.wantQ)
      BY <1>1, AmongAre DEF Urgent
    <3>2. Urgent(s, s.placeQ) \in Seq(Jobs) /\ Range(Urgent(s, s.placeQ)) \subseteq Range(s.placeQ)
      BY <1>1, AmongAre DEF Urgent
    <3> QED BY <1>1, <2>2, <3>1, <3>2 DEF Queued
  <2>4. PICK n : n = q[1]
    OBVIOUS
  <2>5. n \in Queued(s)
    <3>1. 1 \in DOMAIN q
      BY <2>2, <2>3
    <3> QED BY <2>3, <2>4, <3>1 DEF Range
  <2>6. Live(s, n) /\ s.job[n].stage = "queued" /\ n \in Jobs
    BY <2>5 DEF Good, QueuesOK, Live
  <2>7. PICK w, p : w = From(s.wantQ, n) /\ p = From(s.placeQ, n)
    OBVIOUS
  <2>8. /\ w \in Seq(Jobs) /\ Range(w) = Range(s.wantQ) \ {n}
        /\ p \in Seq(Jobs) /\ Range(p) = Range(s.placeQ) \ {n}
    BY <1>1, <2>7, FromIs
  <2>9. PICK u : u = WithQueues(s, w, p)
    OBVIOUS
  <2>10. Fine(s, u, {}) /\ u.job = s.job /\ n \notin Queued(u)
    <3>1. Range(w) \subseteq Queued(s) /\ Range(p) \subseteq Queued(s)
      BY <2>8 DEF Queued
    <3>2. Fine(s, u, {}) /\ u.job = s.job /\ Queued(u) = Range(w) \cup Range(p)
      BY <2>8, <2>9, <3>1, QueuesFine
    <3> QED BY <2>8, <3>2
  <2>11. t = RunWant(u, n)
    BY <2>2, <2>4, <2>7, <2>9 DEF WithQueues
  <2>12. Good(u) /\ Live(u, n) /\ u.job[n].stage = "queued"
    BY <2>6, <2>10 DEF Fine, Live
  <2>13. Fine(u, t, {})
    BY <2>10, <2>11, <2>12, RunWantFine
  <2> QED BY <2>10, <2>13, FineTrans
<1> QED BY <1>2, <1>3

LEMMA PumpFine ==
  ASSUME Constants, NEW s, Good(s), NEW t, t = Pump(s)
  PROVE  Fine(s, t, {})
<1>1. PICK n : n = Cardinality(InStage(s, "queued"))
  OBVIOUS
<1>2. n \in Nat
  <2>1. InStage(s, "queued") \in SUBSET Jobs
    BY DEF InStage
  <2>2. IsFiniteSet(InStage(s, "queued"))
    BY <2>1, FS_Subset DEF Constants
  <2> QED BY <1>1, <2>2, FS_CardinalityType
<1>3. PICK k : PumpRuns(k, s, n)
  BY <1>1, <1>2, PumpIs
<1>4. k[0] = s /\ (\A i \in 1..n : k[i] = PumpOne(k[i - 1])) /\ t = k[n]
  BY <1>3 DEF PumpRuns
<1> DEFINE G == {i \in 0..n : Fine(s, k[i], {})}
<1>5. 0 \in G
  BY <1>2, <1>4, FineNone
<1>6. \A i \in 0..(n - 1) : i \in G => i + 1 \in G
  <2> SUFFICES ASSUME NEW i \in 0..(n - 1), i \in G PROVE i + 1 \in G
    OBVIOUS
  <2>1. i + 1 \in 1..n /\ i + 1 \in 0..n /\ (i + 1) - 1 = i
    BY <1>2
  <2>2. PICK u, v : u = k[i] /\ v = k[i + 1]
    OBVIOUS
  <2>3. v = PumpOne(u)
    BY <1>4, <2>1, <2>2
  <2>4. Fine(s, u, {}) /\ Good(u)
    BY <2>2 DEF Fine
  <2>5. Fine(u, v, {})
    BY <2>3, <2>4, PumpOneFine
  <2>6. Fine(s, v, {})
    BY <2>4, <2>5, FineTrans
  <2> QED BY <2>1, <2>2, <2>6
<1>7. n \in G
  <2> HIDE DEF G
  <2> QED BY <1>2, <1>5, <1>6, UpTo
<1> QED BY <1>4, <1>7
----------------------------------------------------------------------------
(* Lists: what they ask for and what they join.                            *)

FreeJobs(s) == {n \in Jobs : s.job[n] = NoJob}

AtMostOneLess(s, t) == \E n : FreeJobs(s) \ {n} \subseteq FreeJobs(t)

(* t has more requests than s, or others that may go; those of s stay, and *)
(* so do their flights, and who waits.                                     *)
Wants(s, t) ==
  /\ Good(t) /\ t.list = s.list /\ t.read = s.read /\ t.here = s.here
  /\ \A n \in Jobs : Live(s, n) => Live(t, n) /\ (May(s.job[n]) => May(t.job[n]))
  /\ \A p \in Pieces : s.flights[p] # Nobody => t.flights[p] = s.flights[p]

LEMMA WantsTrans ==
  ASSUME NEW s, NEW t, NEW u, Wants(s, t), Wants(t, u)
  PROVE  Wants(s, u)
<1>1. Good(u) /\ u.list = s.list /\ u.read = s.read /\ u.here = s.here
  BY DEF Wants
<1>2. ASSUME NEW n \in Jobs, Live(s, n) PROVE Live(u, n) /\ (May(s.job[n]) => May(u.job[n]))
  BY <1>2 DEF Wants
<1>3. ASSUME NEW p \in Pieces, s.flights[p] # Nobody PROVE u.flights[p] = s.flights[p]
  BY <1>3 DEF Wants
<1> QED BY <1>1, <1>2, <1>3 DEF Wants

LEMMA WantsFine ==
  ASSUME NEW s, Good(s), NEW t, Wants(s, t), NEW X, Kept(s, X)
  PROVE  Awaited(t) = Awaited(s) /\ Kept(t, X)
<1>1. Awaited(t) = Awaited(s)
  BY SameAwaited DEF Wants
<1>2. \A n \in Awaited(s) : n \in Jobs /\ Live(s, n)
  BY DEF Good, AwaitedOK, Live
<1> QED BY <1>1, <1>2 DEF Wants, Kept

LEMMA MovesWants ==
  ASSUME NEW s, Good(s), NEW t, NEW N, Moves(s, t, N)
  PROVE  Wants(s, t) /\ FreeJobs(s) \subseteq FreeJobs(t)
<1>1. Good(t)
  BY MovesFine DEF Fine
<1>2. Same(s, t) /\ \A n \in Jobs : JobMoves(s, t, N, n)
  BY DEF Moves
<1>3. \A n \in Jobs : Live(s, n) => Live(t, n) /\ (May(s.job[n]) => May(t.job[n]))
  BY <1>2 DEF JobMoves, Grows, May
<1>4. FreeJobs(s) \subseteq FreeJobs(t)
  BY <1>2 DEF FreeJobs, JobMoves, Live
<1> QED BY <1>1, <1>2, <1>3, <1>4 DEF Wants, Same

LEMMA NewJobIs ==
  ASSUME Constants, NEW kind \in Kinds, NEW p \in Pieces, NEW stage \in Stages
  PROVE  /\ NewJob(kind, p, stage) \in Job /\ NewJob(kind, p, stage).piece = p
         /\ NewJob(kind, p, stage).stage = stage
         /\ kind \in {"announced", "ahead"} => May(NewJob(kind, p, stage))
<1>1. Prio[kind] \in Nat /\ (kind \in {"announced", "ahead"}) \in BOOLEAN
  BY DEF Prio, Kinds
<1>2. PICK f : f = (kind \in {"announced", "ahead"})
  OBVIOUS
<1>3. PICK x : x = Prio[kind]
  OBVIOUS
<1>4. NewJob(kind, p, stage) =
        [kind |-> kind, piece |-> p, stage |-> stage, with |-> Nobody, tries |-> 0,
         prio |-> x, urgent |-> FALSE, forLoad |-> f]
  BY <1>2, <1>3 DEF NewJob
<1>5. f \in BOOLEAN /\ x \in Nat /\ (kind \in {"announced", "ahead"} => f)
  BY <1>1, <1>2, <1>3
<1>6. NewJob(kind, p, stage) \in Job /\ NewJob(kind, p, stage).piece = p
         /\ NewJob(kind, p, stage).stage = stage /\ NewJob(kind, p, stage).forLoad = f
  BY <1>4, <1>5 DEF Job
<1> QED BY <1>5, <1>6 DEF May

JobAdded(s, n, kind, p, stage, w, q) ==
  [s EXCEPT !.job = [s.job EXCEPT ![n] = NewJob(kind, p, stage)],
            !.flights = [s.flights EXCEPT ![p] = n], !.wantQ = w, !.placeQ = q]

(* A job made of a free number, its piece's flight; w and q the queues.    *)
LEMMA JobMade ==
  ASSUME Constants, NEW s, Good(s), NEW n \in FreeJobs(s), NEW kind \in Kinds, NEW p \in Pieces,
         NEW stage \in Stages, NEW w \in Seq(Jobs), NEW q \in Seq(Jobs),
         Range(w) \cup Range(q) \subseteq Queued(s) \cup {n},
         n \in Range(w) \cup Range(q) => stage = "queued",
         NEW t, t = JobAdded(s, n, kind, p, stage, w, q)
  PROVE  /\ Good(t) /\ t.list = s.list /\ t.read = s.read /\ t.here = s.here
         /\ t.turns = s.turns /\ t.fg = s.fg
         /\ Live(t, n) /\ t.job[n] = NewJob(kind, p, stage) /\ t.flights[p] = n
         /\ \A m \in Jobs \ {n} : t.job[m] = s.job[m]
         /\ \A x \in Pieces \ {p} : t.flights[x] = s.flights[x]
         /\ Queued(t) = Range(w) \cup Range(q)
<1>1. s \in State /\ n \in Jobs /\ ~Live(s, n)
  BY DEF Good, FreeJobs, Live
<1>2. PICK j : j = NewJob(kind, p, stage)
  OBVIOUS
<1>3. j \in Job /\ j.piece = p /\ j.stage = stage
  BY <1>2, NewJobIs
<1>4. PICK jobs, flights : jobs = [s.job EXCEPT ![n] = j] /\ flights = [s.flights EXCEPT ![p] = n]
  OBVIOUS
<1>5. /\ jobs \in [Jobs -> Job \cup {NoJob}] /\ jobs[n] = j
      /\ \A m \in Jobs \ {n} : jobs[m] = s.job[m]
  BY <1>1, <1>3, <1>4, StateParts
<1>6. /\ flights \in [Pieces -> Jobs \cup {Nobody}] /\ flights[p] = n
      /\ \A x \in Pieces \ {p} : flights[x] = s.flights[x]
  BY <1>1, <1>4, StateParts
<1>7. t = [s EXCEPT !.job = jobs, !.flights = flights, !.wantQ = w, !.placeQ = q]
  BY <1>2, <1>4 DEF JobAdded
<1>8. /\ t \in State /\ t.job = jobs /\ t.flights = flights /\ t.wantQ = w /\ t.placeQ = q
      /\ t.list = s.list /\ t.read = s.read /\ t.here = s.here /\ t.turns = s.turns /\ t.fg = s.fg
  BY ZenonT(60), <1>1, <1>5, <1>6, <1>7 DEF State
<1>9. Live(t, n) /\ \A m \in Jobs : Live(s, m) => m # n /\ Live(t, m) /\ t.job[m] = s.job[m]
  BY <1>1, <1>3, <1>5, <1>8, LiveIs DEF Live
<1>10. TurnsOK(t)
  BY <1>8, <1>9 DEF Good, TurnsOK, Live
<1>11. Queued(t) = Range(w) \cup Range(q)
  BY <1>8 DEF Queued
<1>12. QueuesOK(t)
  <2> SUFFICES ASSUME NEW m \in Range(w) \cup Range(q) PROVE Live(t, m) /\ t.job[m].stage = "queued"
    BY <1>11 DEF QueuesOK
  <2>1. CASE m = n
    BY <1>3, <1>5, <1>8, <1>9, <2>1
  <2>2. CASE m # n
    <3>1. Live(s, m) /\ s.job[m].stage = "queued" /\ m \in Jobs
      BY <2>2 DEF Good, QueuesOK, Live
    <3> QED BY <1>9, <3>1
  <2> QED BY <2>1, <2>2
<1>13. FlightsOK(t)
  <2> SUFFICES ASSUME NEW x \in Pieces, t.flights[x] # Nobody
               PROVE  Live(t, t.flights[x]) /\ t.job[t.flights[x]].piece = x
    BY DEF FlightsOK
  <2>1. CASE x = p
    BY <1>3, <1>5, <1>6, <1>8, <1>9, <2>1
  <2>2. CASE x # p
    <3>1. t.flights[x] = s.flights[x]
      BY <1>6, <1>8, <2>2
    <3>2. Live(s, s.flights[x]) /\ s.job[s.flights[x]].piece = x
      BY <3>1 DEF Good, FlightsOK
    <3> QED BY <1>9, <3>1, <3>2 DEF Live
  <2> QED BY <2>1, <2>2
<1>14. AwaitedOK(t)
  <2>1. Awaited(t) = Awaited(s)
    BY <1>8, SameAwaited
  <2> QED BY <1>9, <2>1 DEF Good, AwaitedOK, Live
<1> QED BY <1>2, <1>5, <1>6, <1>8, <1>9, <1>10, <1>11, <1>12, <1>13, <1>14 DEF Good

(* What a piece's want makes of one that is not here.                      *)
Wanted(t, p, kind) ==
  t.flights[p] # Nobody /\ (kind = "announced" => May(t.job[t.flights[p]]))

LEMMA WantUnitIs ==
  ASSUME Constants, NEW s, Good(s), FreeJobs(s) # {}, NEW kind \in {"announced", "place"},
         NEW p \in Pieces, NEW t, t = WantUnit(s, p, kind)
  PROVE  /\ Good(t) /\ t.list = s.list /\ t.read = s.read /\ t.here = s.here
         /\ \A m \in Jobs : Live(s, m) => Live(t, m) /\ t.job[m] = s.job[m]
         /\ \A x \in Pieces \ {p} : t.flights[x] = s.flights[x]
         /\ Wanted(t, p, kind) /\ AtMostOneLess(s, t)
<1>1. PICK n : n = CHOOSE m \in Jobs : s.job[m] = NoJob
  OBVIOUS
<1>2. n \in FreeJobs(s) /\ n \in Jobs /\ n # Nobody
  BY <1>1 DEF FreeJobs, Constants
<1>3. s \in State /\ s.wantQ \in Seq(Jobs) /\ s.placeQ \in Seq(Jobs)
  BY StateParts DEF Good
<1>4. PICK w : w = IF kind = "place" THEN s.wantQ ELSE Append(s.wantQ, n)
  OBVIOUS
<1>5. PICK q : q = IF kind = "place" THEN Append(s.placeQ, n) ELSE s.placeQ
  OBVIOUS
<1>6. /\ Append(s.wantQ, n) \in Seq(Jobs) /\ Range(Append(s.wantQ, n)) = Range(s.wantQ) \cup {n}
      /\ Append(s.placeQ, n) \in Seq(Jobs) /\ Range(Append(s.placeQ, n)) = Range(s.placeQ) \cup {n}
  BY <1>2, <1>3, AppendRange
<1>7. w \in Seq(Jobs) /\ q \in Seq(Jobs) /\ Range(w) \cup Range(q) \subseteq Queued(s) \cup {n}
  BY <1>3, <1>4, <1>5, <1>6 DEF Queued
<1>8. PICK stage \in Stages : stage = "queued"
  BY DEF Stages
<1>9. PICK jobs, flights : /\ jobs = [s.job EXCEPT ![n] = NewJob(kind, p, stage)]
                           /\ flights = [s.flights EXCEPT ![p] = n]
  OBVIOUS
<1>10. t = [s EXCEPT !.job = jobs, !.flights = flights, !.wantQ = w, !.placeQ = q]
  <2>1. PICK u : u = [s EXCEPT !.job = jobs, !.flights = flights]
    OBVIOUS
  <2>2. t = IF kind = "place" THEN [u EXCEPT !.placeQ = Append(@, n)]
            ELSE [u EXCEPT !.wantQ = Append(@, n)]
    BY <1>1, <1>8, <1>9, <2>1 DEF WantUnit
  <2> QED BY ZenonT(60), <1>3, <1>4, <1>5, <2>1, <2>2 DEF State
<1>11. t = JobAdded(s, n, kind, p, stage, w, q)
  BY <1>9, <1>10 DEF JobAdded
<1>12. kind \in Kinds
  BY DEF Kinds
<1>13. /\ Good(t) /\ t.list = s.list /\ t.read = s.read /\ t.here = s.here
       /\ Live(t, n) /\ t.job[n] = NewJob(kind, p, stage) /\ t.flights[p] = n
       /\ \A m \in Jobs \ {n} : t.job[m] = s.job[m]
       /\ \A x \in Pieces \ {p} : t.flights[x] = s.flights[x]
  BY <1>2, <1>7, <1>8, <1>11, <1>12, JobMade
<1>14. kind = "announced" => May(NewJob(kind, p, stage))
  BY <1>12, NewJobIs
<1>15. Wanted(t, p, kind)
  BY <1>2, <1>13, <1>14 DEF Wanted
<1>16. FreeJobs(s) \ {n} \subseteq FreeJobs(t)
  BY <1>13 DEF FreeJobs
<1>17. \A m \in Jobs : Live(s, m) => Live(t, m) /\ t.job[m] = s.job[m]
  BY <1>2, <1>13 DEF Live, FreeJobs
<1> QED BY <1>13, <1>15, <1>16, <1>17 DEF AtMostOneLess

LEMMA AdoptIs ==
  ASSUME Constants, NEW s, Good(s), NEW n, Live(s, n), s.job[n].stage = "queued",
         NEW t, t = Adopt(s, n)
  PROVE  Wants(s, t) /\ FreeJobs(s) \subseteq FreeJobs(t) /\ May(t.job[n])
<1>1. s \in State /\ n \in Jobs /\ s.job[n] \in Job
  BY LiveIs DEF Good
<1>2. PICK j : j = [[s.job[n] EXCEPT !.kind = "announced"] EXCEPT !.forLoad = TRUE]
  OBVIOUS
<1>3. j \in Job /\ Grows(s.job[n], j) /\ j.stage = "queued" /\ j.forLoad
  BY <1>1, <1>2 DEF Job, Kinds, Grows
<1>4. PICK w, q : w = Append(s.wantQ, n) /\ q = From(s.placeQ, n)
  OBVIOUS
<1>5. /\ w \in Seq(Jobs) /\ Range(w) = Range(s.wantQ) \cup {n}
      /\ q \in Seq(Jobs) /\ Range(q) = Range(s.placeQ) \ {n}
  BY <1>1, <1>4, AppendRange, FromIs, StateParts
<1>6. PICK jobs : jobs = [s.job EXCEPT ![n] = j]
  OBVIOUS
<1>7. /\ jobs \in [Jobs -> Job \cup {NoJob}] /\ jobs[n] = j
      /\ \A m \in Jobs \ {n} : jobs[m] = s.job[m]
  BY <1>1, <1>3, <1>6, StateParts
<1>8. t = [s EXCEPT !.placeQ = q, !.wantQ = w, !.job = jobs]
  BY <1>1, <1>2, <1>4, <1>6, StateParts DEF Adopt
<1>9. /\ t \in State /\ t.job = jobs /\ t.flights = s.flights /\ t.wantQ = w /\ t.placeQ = q
      /\ t.list = s.list /\ t.read = s.read /\ t.here = s.here /\ t.turns = s.turns
  BY <1>1, <1>5, <1>7, <1>8 DEF State
<1>10. Live(t, n) /\ t.job[n] = j /\ \A m \in Jobs \ {n} : t.job[m] = s.job[m]
  BY <1>1, <1>3, <1>7, <1>9, LiveIs
<1>11. \A m \in Jobs : Live(s, m) => Live(t, m) /\ t.job[m].piece = s.job[m].piece
                                     /\ t.job[m].stage = s.job[m].stage
                                     /\ (May(s.job[m]) => May(t.job[m]))
  BY <1>3, <1>10 DEF Live, Grows, May
<1>12. FreeJobs(s) \subseteq FreeJobs(t) /\ May(t.job[n])
  BY <1>3, <1>10 DEF FreeJobs, Live, May
<1>13. TurnsOK(t)
  BY <1>9, <1>11 DEF Good, TurnsOK, Live
<1>14. QueuesOK(t)
  <2> SUFFICES ASSUME NEW m \in Queued(s) \cup {n} PROVE Live(t, m) /\ t.job[m].stage = "queued"
    BY <1>5, <1>9 DEF QueuesOK, Queued
  <2>1. m \in Jobs /\ Live(s, m) /\ s.job[m].stage = "queued"
    BY DEF Good, QueuesOK, Live
  <2> QED BY <1>11, <2>1
<1>15. FlightsOK(t)
  BY <1>9, <1>11 DEF Good, FlightsOK, Live
<1>16. AwaitedOK(t)
  <2>1. Awaited(t) = Awaited(s)
    BY <1>9, SameAwaited
  <2> QED BY <1>11, <2>1 DEF Good, AwaitedOK, Live
<1> QED BY <1>9, <1>11, <1>12, <1>13, <1>14, <1>15, <1>16 DEF Wants, Good

LEMMA JoinIs ==
  ASSUME Constants, NEW s, Good(s), NEW n, Live(s, n), NEW t, t = Join(s, n)
  PROVE  Wants(s, t) /\ FreeJobs(s) \subseteq FreeJobs(t) /\ May(t.job[n])
<1>1. s \in State /\ TurnsOK(s) /\ QueuesOK(s)
  BY DEF Good
<1>2. CASE s.job[n].kind = "place" /\ s.job[n].stage = "queued"
  BY <1>2, AdoptIs DEF Join
<1>3. CASE s.job[n].kind = "place" /\ s.job[n].stage # "queued"
  <2>1. t = ForLoad(s, n)
    BY <1>3 DEF Join
  <2> QED BY <1>1, <2>1, ForLoadMoves, MovesWants
<1>4. CASE s.job[n].kind # "place"
  <2>1. t = Promote(s, n)
    BY <1>4 DEF Join
  <2> QED BY <1>1, <2>1, PromoteMoves, MovesWants
<1> QED BY <1>2, <1>3, <1>4

LEMMA WantPieceIs ==
  ASSUME Constants, NEW s, Good(s), FreeJobs(s) # {}, NEW kind \in {"announced", "place"},
         NEW p \in Pieces, NEW t, t = WantPiece(s, p, kind)
  PROVE  /\ Wants(s, t) /\ (p \notin s.here => Wanted(t, p, kind))
         /\ AtMostOneLess(s, t)
<1>1. CASE p \in s.here \/ (p \notin s.here /\ s.flights[p] # Nobody /\ kind = "place")
  <2>1. t = s /\ Wants(s, s)
    BY <1>1 DEF WantPiece, Wants
  <2> QED BY <1>1, <2>1 DEF Wanted, AtMostOneLess
<1>2. CASE p \notin s.here /\ s.flights[p] = Nobody
  <2>1. t = WantUnit(s, p, kind)
    BY <1>2 DEF WantPiece
  <2>2. /\ Good(t) /\ t.list = s.list /\ t.read = s.read /\ t.here = s.here
        /\ \A m \in Jobs : Live(s, m) => Live(t, m) /\ t.job[m] = s.job[m]
        /\ \A x \in Pieces \ {p} : t.flights[x] = s.flights[x]
        /\ Wanted(t, p, kind) /\ AtMostOneLess(s, t)
    BY <2>1, WantUnitIs
  <2>3. Wants(s, t)
    BY <1>2, <2>2 DEF Wants
  <2> QED BY <2>2, <2>3
<1>3. CASE p \notin s.here /\ s.flights[p] # Nobody /\ kind # "place"
  <2>1. PICK n : n = s.flights[p]
    OBVIOUS
  <2>2. t = Join(s, n) /\ Live(s, n) /\ n # Nobody
    BY <1>3, <2>1 DEF WantPiece, Good, FlightsOK
  <2>3. Wants(s, t) /\ FreeJobs(s) \subseteq FreeJobs(t) /\ May(t.job[n])
    BY <2>2, JoinIs
  <2>4. t.flights[p] = n
    BY <1>3, <2>1, <2>3 DEF Wants
  <2> QED BY <2>2, <2>3, <2>4 DEF Wanted, AtMostOneLess
<1> QED BY <1>1, <1>2, <1>3

LEMMA WantedKeeps ==
  ASSUME NEW s, Good(s), NEW t, Wants(s, t), NEW p \in Pieces, NEW kind, Wanted(s, p, kind)
  PROVE  Wanted(t, p, kind) /\ t.flights[p] = s.flights[p]
<1>1. t.flights[p] = s.flights[p] /\ Live(s, s.flights[p])
  BY DEF Wants, Wanted, Good, FlightsOK
<1> QED BY <1>1 DEF Wants, Wanted, Live

LEMMA FreeFinite ==
  ASSUME Constants, NEW s
  PROVE  IsFiniteSet(FreeJobs(s)) /\ Cardinality(FreeJobs(s)) \in Nat
<1>1. FreeJobs(s) \in SUBSET Jobs
  BY DEF FreeJobs
<1>2. IsFiniteSet(FreeJobs(s))
  BY <1>1, FS_Subset DEF Constants
<1> QED BY <1>2, FS_CardinalityType

LEMMA OneFreeLess ==
  ASSUME Constants, NEW s, NEW t, AtMostOneLess(s, t)
  PROVE  Cardinality(FreeJobs(t)) + 1 >= Cardinality(FreeJobs(s))
<1>0. PICK n : FreeJobs(s) \ {n} \subseteq FreeJobs(t)
  BY DEF AtMostOneLess
<1>1. PICK S, T : S = FreeJobs(s) /\ T = FreeJobs(t)
  OBVIOUS
<1>2. IsFiniteSet(S) /\ Cardinality(S) \in Nat /\ IsFiniteSet(T) /\ Cardinality(T) \in Nat
  BY <1>1, FreeFinite
<1>3. (S \ {n}) \in SUBSET T
  BY <1>0, <1>1
<1>4. Cardinality(S \ {n}) <= Cardinality(T)
  BY <1>2, <1>3, FS_Subset
<1>5. Cardinality(S \ {n}) = IF n \in S THEN Cardinality(S) - 1 ELSE Cardinality(S)
  BY <1>2, FS_RemoveElement
<1> QED BY <1>1, <1>2, <1>4, <1>5

(* All of q's pieces that are not here are on their way, and may go.       *)
AllWanted(s, t, q, i, kind) ==
  \A j \in 1..i : q[j] \notin s.here => Wanted(t, q[j], kind)

LEMMA WantEachIs ==
  ASSUME Constants, NEW s, Good(s), NEW q \in Seq(Pieces), NEW kind \in {"announced", "place"},
         Cardinality(FreeJobs(s)) >= Len(q), NEW t, t = WantEach(s, q, kind)
  PROVE  Wants(s, t) /\ AllWanted(s, t, q, Len(q), kind)
<1>1. Len(q) \in Nat /\ \A i \in 1..Len(q) : q[i] \in Pieces
  OBVIOUS
<1>2. PICK k : WantRuns(k, s, q, kind)
  BY <1>1, WantIs
<1>3. /\ k[0] = s /\ t = k[Len(q)]
      /\ \A i \in 1..Len(q) : k[i] = WantPiece(k[i - 1], q[i], kind)
  BY <1>2 DEF WantRuns
<1> DEFINE G == {i \in 0..Len(q) : /\ Wants(s, k[i]) /\ AllWanted(s, k[i], q, i, kind)
                                   /\ Cardinality(FreeJobs(k[i])) + i >= Len(q)}
<1>4. 0 \in G
  <2>1. Wants(s, s) /\ AllWanted(s, s, q, 0, kind)
    BY DEF Wants, AllWanted
  <2>2. Cardinality(FreeJobs(s)) + 0 >= Len(q)
    BY <1>1, FreeFinite
  <2> QED BY <1>1, <1>3, <2>1, <2>2
<1>5. \A i \in 0..(Len(q) - 1) : i \in G => i + 1 \in G
  <2> SUFFICES ASSUME NEW i \in 0..(Len(q) - 1), i \in G PROVE i + 1 \in G
    OBVIOUS
  <2>1. /\ i \in Nat /\ i + 1 \in 1..Len(q) /\ i + 1 \in 0..Len(q) /\ (i + 1) - 1 = i
        /\ i < Len(q)
    BY <1>1
  <2>2. PICK u, v, p : u = k[i] /\ v = k[i + 1] /\ p = q[i + 1]
    OBVIOUS
  <2>3. v = WantPiece(u, p, kind) /\ p \in Pieces
    BY <1>1, <1>3, <2>1, <2>2
  <2>4. Wants(s, u) /\ AllWanted(s, u, q, i, kind) /\ Cardinality(FreeJobs(u)) + i >= Len(q)
    BY <2>2
  <2>5. Good(u) /\ u.here = s.here
    BY <2>4 DEF Wants
  <2>6. FreeJobs(u) # {}
    <3>1. Cardinality(FreeJobs(u)) \in Nat
      BY FreeFinite
    <3>2. Cardinality(FreeJobs(u)) # 0
      BY <1>1, <2>1, <2>4, <3>1
    <3>3. Cardinality({}) = 0
      BY FS_EmptySet
    <3> QED BY <3>2, <3>3
  <2>7. Wants(u, v) /\ (p \notin u.here => Wanted(v, p, kind))
        /\ AtMostOneLess(u, v)
    BY <2>3, <2>5, <2>6, WantPieceIs
  <2>8. Wants(s, v)
    BY <2>4, <2>7, WantsTrans
  <2>9. Cardinality(FreeJobs(v)) + 1 >= Cardinality(FreeJobs(u))
    BY <2>7, OneFreeLess
  <2>10. Cardinality(FreeJobs(v)) + (i + 1) >= Len(q)
    BY <1>1, <2>1, <2>4, <2>9, FreeFinite
  <2>11. AllWanted(s, v, q, i + 1, kind)
    <3> SUFFICES ASSUME NEW j \in 1..(i + 1), q[j] \notin s.here PROVE Wanted(v, q[j], kind)
      BY DEF AllWanted
    <3>1. CASE j = i + 1
      BY <2>2, <2>5, <2>7, <3>1
    <3>2. CASE j # i + 1
      <4>1. j \in 1..i /\ q[j] \in Pieces
        BY <1>1, <2>1, <3>2
      <4>2. PICK x : x = q[j]
        OBVIOUS
      <4>3. Wanted(u, x, kind)
        BY <2>4, <4>1, <4>2 DEF AllWanted
      <4>4. Wanted(v, x, kind)
        BY <2>5, <2>7, <4>1, <4>2, <4>3, WantedKeeps
      <4> QED BY <4>2, <4>4
    <3> QED BY <3>1, <3>2
  <2> QED BY <2>1, <2>2, <2>8, <2>10, <2>11
<1>6. Len(q) \in G
  <2> HIDE DEF G
  <2> QED BY <1>1, <1>4, <1>5, UpTo
<1> QED BY <1>3, <1>6
----------------------------------------------------------------------------
(* The actions: each keeps the invariant.                                  *)

(* Who waits, and whose pieces are here, changed.                          *)
LEMMA PlainFine ==
  ASSUME NEW s, Good(s), NEW t, t \in State, t.job = s.job, t.turns = s.turns, t.wantQ = s.wantQ,
         t.placeQ = s.placeQ, t.flights = s.flights, Awaited(t) \subseteq Awaited(s)
  PROVE  Fine(s, t, {})
<1>1. TurnsOK(t) /\ QueuesOK(t) /\ FlightsOK(t)
  BY DEF Good, TurnsOK, QueuesOK, Queued, FlightsOK, Live
<1>2. AwaitedOK(t)
  BY DEF Good, AwaitedOK, Live
<1> QED BY <1>1, <1>2 DEF Fine, Good

LEMMA FineSafe == ASSUME NEW s, Safe(s), NEW t, NEW N, Fine(s, t, N) PROVE Safe(t)
BY FineKeeps DEF Safe, Fine

LEMMA KickSafe ==
  ASSUME Constants, NEW s, Safe(s), NEW t, t = Kick(s) PROVE Safe(t) /\ Fine(s, t, {})
<1>1. Good(s) /\ s \in State /\ TurnsOK(s) /\ QueuesOK(s)
  BY DEF Safe, Good
<1>2. Fine(s, t, {})
  BY <1>1, KickMoves, MovesFine
<1> QED BY <1>2, FineSafe

LEMMA PumpSafe == ASSUME Constants, NEW s, Safe(s), NEW t, t = Pump(s) PROVE Safe(t)
BY PumpFine, FineSafe DEF Safe

LEMMA RecentSafe ==
  ASSUME NEW s, Safe(s), NEW x \in BOOLEAN, NEW t, t = [s EXCEPT !.recent = x] PROVE Safe(t)
<1>1. /\ t \in State /\ t.job = s.job /\ t.turns = s.turns /\ t.wantQ = s.wantQ
      /\ t.placeQ = s.placeQ /\ t.flights = s.flights /\ t.list = s.list /\ t.read = s.read
  BY DEF Safe, Good, State
<1>2. Fine(s, t, {})
  BY <1>1, SameAwaited, PlainFine DEF Safe
<1> QED BY <1>2, FineSafe

LEMMA WaitEndsSafe ==
  ASSUME Constants, NEW s, Safe(s), WaitEnds(s)
  PROVE  Safe(b')
<1>1. PICK recent \in BOOLEAN : b' = Kick([s EXCEPT !.recent = recent])
  BY DEF WaitEnds
<1>2. PICK u : u = [s EXCEPT !.recent = recent]
  OBVIOUS
<1>3. Safe(u)
  BY <1>2, RecentSafe
<1>4. PICK v : v = b'
  OBVIOUS
<1>5. v = Kick(u)
  BY <1>1, <1>2, <1>4
<1> QED BY <1>3, <1>4, <1>5, KickSafe

----------------------------------------------------------------------------
(* Lists.                                                                  *)

(* A list's record replaced by one that waits for downloads free to go.    *)
LEMMA ListSet ==
  ASSUME NEW s, Safe(s), NEW l \in Lists, NEW x \in OpenList \cup {Over},
         \A p \in DOMAIN x.on : x # Over /\ x.kind = "announced" /\ x.on[p].job \in Jobs =>
           Live(s, x.on[p].job) /\ May(s.job[x.on[p].job]),
         NEW t, t = [s EXCEPT !.list = [s.list EXCEPT ![l] = x]]
  PROVE  Safe(t)
<1>1. s \in State
  BY DEF Safe, Good
<1>2. PICK list : list = [s.list EXCEPT ![l] = x]
  OBVIOUS
<1>3. /\ list \in [Lists -> OpenList \cup {Over}] /\ list[l] = x
      /\ \A m \in Lists \ {l} : list[m] = s.list[m]
  BY <1>1, <1>2, StateParts
<1>4. /\ t \in State /\ t.job = s.job /\ t.turns = s.turns /\ t.wantQ = s.wantQ
      /\ t.placeQ = s.placeQ /\ t.flights = s.flights /\ t.list = list /\ t.read = s.read
  BY <1>1, <1>2, <1>3 DEF State
<1>5. ASSUME NEW n \in Awaited(t) PROVE Live(s, n) /\ May(s.job[n])
  <2>1. CASE n \in Awaited(s)
    BY <2>1 DEF Safe, Good, AwaitedOK, Kept
  <2>2. CASE n \notin Awaited(s)
    <3>1. n \in Jobs /\ ByList(t, n) /\ ~ByRead(s, n) /\ ~ByList(s, n)
      BY <1>4, <2>2 DEF Awaited, ByRead
    <3>2. PICK m \in Lists : /\ list[m] # Over /\ list[m].kind = "announced"
                             /\ \E p \in DOMAIN list[m].on : list[m].on[p].job = n
      BY <1>4, <3>1 DEF ByList
    <3>3. m = l
      BY <1>3, <3>1, <3>2 DEF ByList
    <3> QED BY <1>3, <3>1, <3>2, <3>3
  <2> QED BY <2>1, <2>2
<1>6. TurnsOK(t) /\ QueuesOK(t) /\ FlightsOK(t)
  BY <1>4 DEF Safe, Good, TurnsOK, QueuesOK, Queued, FlightsOK, Live
<1>7. AwaitedOK(t) /\ Kept(t, {})
  BY <1>4, <1>5 DEF AwaitedOK, Kept, Live
<1> QED BY <1>4, <1>6, <1>7 DEF Safe, Good

LEMMA ListEndsSafe ==
  ASSUME Constants, Safe(b), NEW l \in Lists, ListEnds(l)
  PROVE  Safe(b')
<1>1. PICK u : u = [b EXCEPT !.list = [b.list EXCEPT ![l] = Over]]
  OBVIOUS
<1>2. PICK x : x = Over
  OBVIOUS
<1>3. u = [b EXCEPT !.list = [b.list EXCEPT ![l] = x]] /\ x \in OpenList \cup {Over}
  BY <1>1, <1>2
<1>4. Safe(u)
  BY <1>2, <1>3, ListSet
<1>5. CASE b.list[l].hold
  <2>1. WaitEnds(u)
    BY <1>1, <1>5 DEF ListEnds
  <2> QED BY <1>4, <2>1, WaitEndsSafe
<1>6. CASE ~b.list[l].hold
  <2>1. b' = u
    BY <1>1, <1>6 DEF ListEnds
  <2> QED BY <1>4, <2>1
<1> QED BY <1>5, <1>6

LEMMA WantsSafe == ASSUME NEW s, Safe(s), NEW t, Wants(s, t) PROVE Safe(t)
BY WantsFine DEF Safe, Wants

LEMMA OrderIs ==
  ASSUME Constants, NEW q \in Orders
  PROVE  q \in Seq(Pieces) /\ Len(q) \in Nat
<1>1. PICK S \in SUBSET Pieces : q \in SetToSeqs(S)
  BY DEF Orders
<1>2. q \in [1..Cardinality(S) -> S]
  BY <1>1 DEF SetToSeqs
<1>3. Cardinality(S) \in Nat
  BY FS_Subset, FS_CardinalityType DEF Constants
<1>4. q \in [1..Cardinality(S) -> Pieces]
  BY <1>2
<1> QED BY <1>3, <1>4

(* The units of a list made, to s, its record set, to t, and the pumping.  *)
WantListSteps(c, q, kind, s, t, v) ==
  /\ s = WantEach(c, q, kind)
  /\ Safe(t) /\ t.job = s.job /\ t.turns = s.turns /\ v = Pump(t)

LEMMA WantListIs ==
  ASSUME Constants, Safe(b), NEW l \in Lists, NEW q \in Orders,
         NEW kind \in {"announced", "place"}, NEW hold \in BOOLEAN, WantList(l, q, kind, hold)
  PROVE  \E s, t : WantListSteps(b, q, kind, s, t, b')
<1>1. PICK s, c : s = WantEach(c, q, kind) /\ c = b
  OBVIOUS
<1>2. q \in Seq(Pieces) /\ Len(q) \in Nat /\ Range(q) \subseteq Pieces
  BY OrderIs DEF Range
<1>3. Cardinality(FreeJobs(c)) >= Len(q)
  BY <1>1 DEF WantList, Free, FreeJobs
<1>4. Good(c) /\ Safe(c)
  BY <1>1 DEF Safe
<1>5. Wants(c, s) /\ AllWanted(c, s, q, Len(q), kind)
  BY <1>1, <1>2, <1>3, <1>4, WantEachIs
<1>6. Safe(s) /\ Good(s) /\ s \in State
  BY <1>4, <1>5, WantsSafe DEF Safe, Good
<1>7. PICK on : on = [p \in Range(q) \ c.here |-> [job |-> s.flights[p], joined |-> c.flights[p] # Nobody]]
  OBVIOUS
<1>8. on \in Parts
  <2>1. \A p \in Range(q) \ c.here : on[p] \in Part
    BY <1>2, <1>6, <1>7, StateParts DEF Part
  <2>2. on \in [Range(q) \ c.here -> Part]
    BY <1>7, <2>1
  <2> QED BY <1>2, <2>2 DEF Parts
<1>9. PICK h : h = (hold /\ kind # "place")
  OBVIOUS
<1>10. PICK x : x = [state |-> "open", kind |-> kind, hold |-> h, on |-> on]
  OBVIOUS
<1>11. x \in OpenList /\ x.kind = kind /\ x.on = on
  BY <1>8, <1>9, <1>10 DEF OpenList
<1>12. ASSUME NEW p \in DOMAIN x.on, x.kind = "announced", x.on[p].job \in Jobs
       PROVE  Live(s, x.on[p].job) /\ May(s.job[x.on[p].job])
  <2>1. p \in Range(q) \ c.here /\ x.on[p].job = s.flights[p] /\ p \in Pieces
    BY <1>2, <1>7, <1>11, <1>12
  <2>2. PICK i \in 1..Len(q) : q[i] = p
    BY <1>2, <2>1 DEF Range
  <2>3. Wanted(s, p, kind)
    BY <1>5, <2>1, <2>2 DEF AllWanted
  <2> QED BY <1>6, <1>11, <1>12, <2>1, <2>3 DEF Wanted, Good, FlightsOK
<1>13. PICK t : t = [s EXCEPT !.list = [s.list EXCEPT ![l] = x]]
  OBVIOUS
<1>14. Safe(t)
  BY <1>6, <1>11, <1>12, <1>13, ListSet
<1>15. PICK v : v = b'
  OBVIOUS
<1>16. v = Pump(t)
  BY <1>1, <1>7, <1>9, <1>10, <1>13, <1>15 DEF WantList
<1>17. t.job = s.job /\ t.turns = s.turns
  BY <1>6, <1>13 DEF State
<1>18. WantListSteps(c, q, kind, s, t, v)
  BY <1>1, <1>14, <1>16, <1>17 DEF WantListSteps
<1> QED BY <1>1, <1>15, <1>18

LEMMA WantListSafe ==
  ASSUME Constants, Safe(b), NEW l \in Lists, NEW q \in Orders,
         NEW kind \in {"announced", "place"}, NEW hold \in BOOLEAN, WantList(l, q, kind, hold)
  PROVE  Safe(b')
<1>1. PICK s, t : WantListSteps(b, q, kind, s, t, b')
  BY WantListIs
<1>2. PICK v : v = b'
  OBVIOUS
<1>3. Safe(t) /\ v = Pump(t)
  BY <1>1, <1>2 DEF WantListSteps
<1> QED BY <1>2, <1>3, PumpSafe

(* A list goes on: with a piece that is there, or with a unit of its own,  *)
(* made to s; its record set, to t.                                        *)
ListAsksSteps(c, l, p, s, t, v) ==
  /\ Safe(s) /\ Safe(t) /\ t.job = s.job /\ t.turns = s.turns
  /\ \/ s = c /\ v = t
     \/ /\ FreeJobs(c) # {} /\ c.list[l].kind \in {"announced", "place"}
        /\ s = WantUnit(c, p, c.list[l].kind) /\ v = Pump(t)

LEMMA ListAsksIs ==
  ASSUME Constants, Safe(b), NEW l \in Lists, NEW p \in Pieces, ListAsks(l, p)
  PROVE  \E s, t : ListAsksSteps(b, l, p, s, t, b')
<1>1. PICK c : c = b
  OBVIOUS
<1>2. Good(c) /\ Safe(c) /\ c \in State
  BY <1>1 DEF Safe, Good
<1>3. c.list[l] \in OpenList /\ p \in DOMAIN c.list[l].on /\ FreeJobs(c) # {}
  <2>1. c.list[l] # Over /\ p \in DOMAIN c.list[l].on /\ Free(c) > 0
    BY <1>1 DEF ListAsks
  <2>2. Cardinality(FreeJobs(c)) # 0
    BY <2>1, FreeFinite DEF Free, FreeJobs
  <2>3. Cardinality({}) = 0
    BY FS_EmptySet
  <2> QED BY ZenonT(60), <1>2, <2>1, <2>2, <2>3, StateParts
<1>4. PICK o : o = c.list[l].on
  OBVIOUS
<1>5. PICK D \in SUBSET Pieces : o \in [D -> Part]
  BY <1>3, <1>4 DEF OpenList, Parts
<1>6. p \in D
  BY <1>3, <1>4, <1>5
<1>7. \A m \in Jobs, q \in D : c.list[l].kind = "announced" /\ o[q].job = m =>
        Live(c, m) /\ May(c.job[m])
  <2> SUFFICES ASSUME NEW m \in Jobs, NEW q \in D, c.list[l].kind = "announced", o[q].job = m
               PROVE  Live(c, m) /\ May(c.job[m])
    OBVIOUS
  <2>1. c.list[l] # Over
    BY <1>1 DEF ListAsks
  <2>2. ByList(c, m)
    BY <1>4, <1>5, <2>1 DEF ByList
  <2>3. m \in Awaited(c)
    BY <2>2 DEF Awaited
  <2> QED BY <1>2, <2>3 DEF Safe, Good, AwaitedOK, Kept
<1>8. CASE p \in c.here
  <2>1. PICK y : y = [o[p] EXCEPT !.joined = FALSE]
    OBVIOUS
  <2>2. y \in Part /\ y.job = o[p].job
    BY <1>5, <1>6, <2>1 DEF Part
  <2>3. PICK on : on = [o EXCEPT ![p] = y]
    OBVIOUS
  <2>4. on \in [D -> Part] /\ \A q \in D : on[q].job = o[q].job
    BY <1>5, <1>6, <2>2, <2>3
  <2>5. PICK x : x = [c.list[l] EXCEPT !.on = on]
    OBVIOUS
  <2>6. on \in Parts
    BY <2>4 DEF Parts
  <2>7. x \in OpenList /\ x.kind = c.list[l].kind /\ x.on = on
    BY <1>3, <2>5, <2>6 DEF OpenList
  <2>8. \A q \in DOMAIN x.on : x # Over /\ x.kind = "announced" /\ x.on[q].job \in Jobs =>
          Live(c, x.on[q].job) /\ May(c.job[x.on[q].job])
    BY <1>7, <2>4, <2>7
  <2>9. PICK t : t = [c EXCEPT !.list = [c.list EXCEPT ![l] = x]]
    OBVIOUS
  <2>10. Safe(t)
    BY <1>2, <2>7, <2>8, <2>9, ListSet
  <2>11. b' = t
    BY <1>1, <1>4, <1>8, <2>1, <2>3, <2>5, <2>9 DEF ListAsks
  <2>12. t.job = c.job /\ t.turns = c.turns
    BY <1>2, <2>9 DEF State
  <2>13. ListAsksSteps(c, l, p, c, t, b')
    BY <1>2, <2>10, <2>11, <2>12 DEF ListAsksSteps
  <2> QED BY <1>1, <2>13
<1>9. CASE p \notin c.here
  <2>1. PICK kind, s : kind = c.list[l].kind /\ s = WantUnit(c, p, kind)
    OBVIOUS
  <2>2. kind \in {"announced", "place"}
    BY <1>3, <2>1 DEF OpenList
  <2>3. /\ Good(s) /\ s.list = c.list /\ s.read = c.read /\ s.here = c.here
        /\ \A m \in Jobs : Live(c, m) => Live(s, m) /\ s.job[m] = c.job[m]
        /\ \A z \in Pieces \ {p} : s.flights[z] = c.flights[z]
        /\ Wanted(s, p, kind) /\ AtMostOneLess(c, s)
    BY <1>2, <1>3, <2>1, <2>2, WantUnitIs
  <2>4. Safe(s) /\ s \in State
    <3>1. Awaited(s) = Awaited(c)
      BY <2>3, SameAwaited
    <3>2. Kept(s, {})
      BY <1>2, <2>3, <3>1 DEF Safe, Good, AwaitedOK, Kept, Live
    <3> QED BY <2>3, <3>2 DEF Safe, Good
  <2>5. PICK y : y = [job |-> s.flights[p], joined |-> FALSE]
    OBVIOUS
  <2>6. y \in Part /\ y.job = s.flights[p]
    BY <2>4, <2>5, StateParts DEF Part
  <2>7. PICK on : on = [o EXCEPT ![p] = y]
    OBVIOUS
  <2>8. on \in [D -> Part] /\ on[p] = y /\ \A q \in D \ {p} : on[q] = o[q]
    BY <1>5, <1>6, <2>6, <2>7
  <2>9. PICK x : x = [c.list[l] EXCEPT !.on = on]
    OBVIOUS
  <2>10. on \in Parts
    BY <2>8 DEF Parts
  <2>11. x \in OpenList /\ x.kind = kind /\ x.on = on
    BY <1>3, <2>1, <2>9, <2>10 DEF OpenList
  <2>12. \A q \in DOMAIN x.on : x # Over /\ x.kind = "announced" /\ x.on[q].job \in Jobs =>
           Live(s, x.on[q].job) /\ May(s.job[x.on[q].job])
    <3> SUFFICES ASSUME NEW q \in D, kind = "announced", on[q].job \in Jobs
                 PROVE  Live(s, on[q].job) /\ May(s.job[on[q].job])
      BY <2>8, <2>11
    <3>1. CASE q = p
      BY <2>3, <2>6, <2>8, <3>1 DEF Wanted, Good, FlightsOK
    <3>2. CASE q # p
      <4>1. on[q].job = o[q].job
        BY <2>8, <3>2
      <4> QED BY <1>7, <2>1, <2>3, <4>1 DEF Live
    <3> QED BY <3>1, <3>2
  <2>13. PICK t : t = [s EXCEPT !.list = [s.list EXCEPT ![l] = x]]
    OBVIOUS
  <2>14. Safe(t)
    BY <2>4, <2>11, <2>12, <2>13, ListSet
  <2>15. PICK v : v = b'
    OBVIOUS
  <2>16. v = Pump(t)
    BY <1>1, <1>4, <1>9, <2>1, <2>3, <2>5, <2>7, <2>9, <2>13, <2>15 DEF ListAsks
  <2>17. t.job = s.job /\ t.turns = s.turns
    BY <2>4, <2>13 DEF State
  <2>18. ListAsksSteps(c, l, p, s, t, v)
    BY <1>3, <2>1, <2>2, <2>4, <2>14, <2>16, <2>17 DEF ListAsksSteps
  <2> QED BY <1>1, <2>15, <2>18
<1> QED BY <1>8, <1>9

LEMMA ListAsksSafe ==
  ASSUME Constants, Safe(b), NEW l \in Lists, NEW p \in Pieces, ListAsks(l, p)
  PROVE  Safe(b')
<1>1. PICK s, t : ListAsksSteps(b, l, p, s, t, b')
  BY ListAsksIs
<1>2. PICK v : v = b'
  OBVIOUS
<1>3. Safe(t) /\ (v = t \/ v = Pump(t))
  BY <1>1, <1>2 DEF ListAsksSteps
<1> QED BY <1>2, <1>3, PumpSafe

----------------------------------------------------------------------------
(* Background requests.                                                    *)

WithRecord(s, n, j) == [s EXCEPT !.job = [s.job EXCEPT ![n] = j]]

LEMMA FineBut == ASSUME NEW s, NEW t, Fine(s, t, {}), NEW N PROVE Fine(s, t, N)
BY DEF Fine

NowIs(s, t, n, j) ==
  /\ Safe(t) /\ Fine(s, t, {n}) /\ t.job[n] = j /\ Live(t, n) /\ t.turns = s.turns
  /\ Queued(t) = Queued(s)

(* Request n under way, in no queue: its record replaced.                  *)
LEMMA JobSet ==
  ASSUME Constants, NEW s, Safe(s), NEW n, Live(s, n), n \notin Range(s.turns), n \notin Queued(s),
         NEW j \in Job, Grows(s.job[n], j),
         NEW t, t = WithRecord(s, n, j)
  PROVE  NowIs(s, t, n, j)
<1>1. s \in State /\ TurnsOK(s) /\ QueuesOK(s) /\ n \in Jobs /\ Good(s)
  BY DEF Safe, Good, Live
<1>2. WithJob(s, t, n, j) /\ t.turns = s.turns
  BY <1>1, SetJob DEF WithRecord
<1>3. t \in State /\ Same(s, t) /\ t.job = [s.job EXCEPT ![n] = j]
  BY <1>2 DEF WithJob
<1>4. t.job[n] = j /\ \A m \in Jobs \ {n} : t.job[m] = s.job[m]
  BY <1>1, <1>3, StateParts
<1>5. Live(t, n)
  BY <1>1, <1>3, <1>4, LiveIs
<1>6. Moves(s, t, {n})
  BY <1>1, <1>2, <1>3, <1>4, <1>5, OneMoves
<1>7. Fine(s, t, {n})
  BY <1>1, <1>6, MovesFine
<1> QED BY <1>1, <1>2, <1>4, <1>5, <1>6, <1>7, FineSafe, MovesKeeps DEF NowIs

LEMMA InNoQueue ==
  ASSUME NEW s, Good(s), NEW n, Live(s, n), s.job[n].stage \notin {"turn", "queued"}
  PROVE  n \notin Range(s.turns) /\ n \notin Queued(s)
BY DEF Good, TurnsOK, QueuesOK

LEMMA HereFine ==
  ASSUME NEW s, Good(s), NEW h \in SUBSET Pieces, NEW t, t = [s EXCEPT !.here = h]
  PROVE  Fine(s, t, {}) /\ t.job = s.job /\ t.turns = s.turns /\ Queued(t) = Queued(s)
<1>1. /\ t \in State /\ t.job = s.job /\ t.turns = s.turns /\ t.wantQ = s.wantQ
      /\ t.placeQ = s.placeQ /\ t.flights = s.flights /\ t.list = s.list /\ t.read = s.read
  BY DEF Good, State
<1>2. Fine(s, t, {})
  BY <1>1, SameAwaited, PlainFine
<1> QED BY <1>1, <1>2 DEF Queued

LEMMA AnsweredFine ==
  ASSUME Constants, NEW s, Good(s), NEW n, Live(s, n), s.job[n].stage \notin {"turn", "queued"},
         NEW answer, NEW t, t = Answered(s, n, answer)
  PROVE  Fine(s, t, {n})
<1>1. s \in State /\ n \in Jobs /\ s.job[n] \in Job /\ n \notin Range(s.turns) /\ n \notin Queued(s)
  BY LiveIs, InNoQueue DEF Good
<1>2. PICK h : h = IF answer = "ok" THEN s.here \cup {s.job[n].piece} ELSE s.here
  OBVIOUS
<1>3. h \in SUBSET Pieces
  BY <1>1, <1>2, StateParts DEF Job
<1>4. PICK u : u = IF answer = "ok" THEN [s EXCEPT !.here = @ \cup {s.job[n].piece}] ELSE s
  OBVIOUS
<1>5. Fine(s, u, {}) /\ u.job = s.job /\ u.turns = s.turns /\ Queued(u) = Queued(s)
  <2>1. CASE answer = "ok"
    <3>1. u = [s EXCEPT !.here = h]
      BY <1>2, <1>4, <2>1
    <3> QED BY <1>3, <3>1, HereFine
  <2>2. CASE answer # "ok"
    BY <1>4, <2>2, FineNone
  <2> QED BY <2>1, <2>2
<1>6. Good(u) /\ Live(u, n)
  BY <1>5 DEF Fine, Live
<1>7. PICK v : v = Settle(u, n)
  OBVIOUS
<1>8. Fine(u, v, {n})
  BY <1>1, <1>5, <1>6, <1>7, SettleFine
<1>9. Fine(s, v, {n}) /\ Good(v)
  <2>1. Fine(s, u, {n})
    BY <1>5, FineBut
  <2>2. Fine(s, v, {n})
    BY <1>8, <2>1, FineTrans
  <2> QED BY <2>2 DEF Fine
<1>10. CASE t = v
  BY <1>9, <1>10
<1>11. CASE t = Pump(v)
  <2>1. Fine(v, t, {})
    BY <1>9, <1>11, PumpFine
  <2> QED BY <1>9, <2>1, FineTrans
<1>12. CASE t = Stage(u, n, "pause")
  <2>1. PICK j : j = [u.job[n] EXCEPT !.stage = "pause"]
    OBVIOUS
  <2>2. j \in Job /\ Grows(u.job[n], j) /\ j.stage = "pause"
    BY <1>1, <1>5, <2>1 DEF Job, Stages, Grows
  <2>3. t = [u EXCEPT !.job = [u.job EXCEPT ![n] = j]]
    BY <1>12, <2>1 DEF Stage
  <2>4. u \in State /\ TurnsOK(u) /\ QueuesOK(u)
    BY <1>6 DEF Good
  <2>5. WithJob(u, t, n, j) /\ t.turns = u.turns
    BY <1>1, <2>2, <2>3, <2>4, SetJob
  <2>6. t \in State /\ Same(u, t) /\ t.job = [u.job EXCEPT ![n] = j]
    BY <2>5 DEF WithJob
  <2>7. t.job[n] = j /\ \A m \in Jobs \ {n} : t.job[m] = u.job[m]
    BY <1>1, <2>4, <2>6, StateParts
  <2>8. Live(t, n)
    BY <1>1, <2>2, <2>6, <2>7, LiveIs
  <2>9. Moves(u, t, {n})
    BY <1>1, <1>5, <1>6, <2>2, <2>4, <2>5, <2>6, <2>7, <2>8, OneMoves
  <2>10. Fine(u, t, {n})
    BY <1>6, <2>9, MovesFine
  <2>11. Fine(s, u, {n})
    BY <1>5, FineBut
  <2> QED BY <2>10, <2>11, FineTrans
<1>13. t = v \/ t = Pump(v) \/ t = Stage(u, n, "pause")
  BY <1>4, <1>7 DEF Answered
<1> QED BY <1>10, <1>11, <1>12, <1>13

LEMMA BgEndsSafe ==
  ASSUME Constants, Safe(b), NEW n \in Jobs, NEW answer, BgEnds(n, answer)
  PROVE  Safe(b')
<1>1. PICK c, v : c = b /\ v = b'
  OBVIOUS
<1>2. Safe(c) /\ Good(c) /\ Live(c, n) /\ c.job[n].stage \in {"sent", "aborted"}
  BY <1>1 DEF BgEnds, Live, Safe
<1>3. c.job[n] \in Job /\ n \notin Range(c.turns) /\ n \notin Queued(c)
  BY <1>2, LiveIs, InNoQueue DEF Good
<1>4. PICK j : j = [c.job[n] EXCEPT !.stage = "over"]
  OBVIOUS
<1>5. j \in Job /\ Grows(c.job[n], j) /\ j.stage = "over"
  BY <1>3, <1>4 DEF Job, Stages, Grows
<1>6. PICK u : u = WithRecord(c, n, j)
  OBVIOUS
<1>7. Safe(u) /\ u.job[n] = j /\ Live(u, n)
  <2>1. NowIs(c, u, n, j)
    BY <1>2, <1>3, <1>5, <1>6, JobSet
  <2> QED BY <2>1 DEF NowIs
<1>8. PICK k : k = Kick(u)
  OBVIOUS
<1>9. Safe(k) /\ Fine(u, k, {})
  BY <1>7, <1>8, KickSafe
<1>10. k.job[n] = j /\ Live(k, n)
  BY <1>5, <1>7, <1>9 DEF Fine, Live
<1>11. v = Answered(k, n, answer)
  BY <1>1, <1>4, <1>6, <1>8 DEF BgEnds, Stage, WithRecord
<1>12. Good(k)
  BY <1>9 DEF Safe
<1>13. Fine(k, v, {n})
  BY <1>5, <1>10, <1>11, <1>12, AnsweredFine
<1> QED BY <1>1, <1>9, <1>13, FineSafe

LEMMA RetrySafe ==
  ASSUME Constants, Safe(b), NEW n \in Jobs, Retry(n)
  PROVE  Safe(b')
<1>1. PICK c, v : c = b /\ v = b'
  OBVIOUS
<1>2. Safe(c) /\ Good(c) /\ Live(c, n) /\ c.job[n].stage = "pause"
  BY <1>1 DEF Retry, Live, Safe
<1>3. c.job[n] \in Job /\ n \notin Range(c.turns) /\ n \notin Queued(c)
  BY <1>2, LiveIs, InNoQueue DEF Good
<1>4. PICK j : j = [c.job[n] EXCEPT !.tries = @ + 1]
  OBVIOUS
<1>5. j \in Job /\ Grows(c.job[n], j) /\ j.stage = "pause"
  BY <1>2, <1>3, <1>4 DEF Job, Grows
<1>6. PICK u : u = WithRecord(c, n, j)
  OBVIOUS
<1>7. Safe(u) /\ u.job[n] = j /\ Live(u, n) /\ u.turns = c.turns /\ Queued(u) = Queued(c)
  <2>1. NowIs(c, u, n, j)
    BY <1>2, <1>3, <1>5, <1>6, JobSet
  <2> QED BY <2>1 DEF NowIs
<1>8. Good(u) /\ u \in State /\ TurnsOK(u) /\ QueuesOK(u)
  BY <1>7 DEF Safe, Good
<1>9. v = IF u.job[n].piece \in u.here THEN Pump(Settle(u, n)) ELSE Ask(u, n)
  BY <1>1, <1>4, <1>6 DEF Retry, WithRecord
<1>10. CASE u.job[n].piece \in u.here
  <2>1. PICK w : w = Settle(u, n)
    OBVIOUS
  <2>2. Fine(u, w, {n})
    BY <1>3, <1>7, <1>8, <2>1, SettleFine
  <2>3. Safe(w)
    BY <1>7, <2>2, FineSafe
  <2> QED BY <1>1, <1>9, <1>10, <2>1, <2>3, PumpSafe
<1>11. CASE u.job[n].piece \notin u.here
  <2>1. Moves(u, v, {n})
    BY <1>3, <1>5, <1>7, <1>8, <1>9, <1>11, AskMoves
  <2>2. Fine(u, v, {n})
    BY <1>8, <2>1, MovesFine
  <2> QED BY <1>1, <1>7, <2>2, FineSafe
<1> QED BY <1>10, <1>11

(* A turn given up, to u, its request settled, to w.                       *)
DropSteps(c, n, u, w, v) ==
  /\ Good(u) /\ Live(u, n) /\ n \notin Queued(u)
  /\ u.job = c.job /\ u.turns = From(c.turns, n)
  /\ w = Settle(u, n) /\ Safe(w) /\ v = Kick(w)

LEMMA DropIs ==
  ASSUME Constants, Safe(b), NEW n \in Jobs, Drop(n)
  PROVE  \E u, w : DropSteps(b, n, u, w, b')
<1>1. PICK c, v : c = b /\ v = b'
  OBVIOUS
<1>2. Safe(c) /\ Good(c) /\ c \in State /\ n \in Range(c.turns)
  BY <1>1 DEF Drop, Safe, Good
<1>3. Live(c, n) /\ c.job[n].stage = "turn" /\ n \notin Queued(c)
  BY <1>2 DEF Good, TurnsOK, QueuesOK
<1>4. PICK q : q = From(c.turns, n)
  OBVIOUS
<1>5. q \in Seq(Jobs) /\ Range(q) = Range(c.turns) \ {n}
  BY <1>2, <1>4, FromIs, StateParts
<1>6. PICK u : u = [c EXCEPT !.turns = q]
  OBVIOUS
<1>7. u \in State /\ Same(c, u) /\ u.job = c.job /\ u.turns = q
  BY <1>2, <1>5, <1>6, SetTurns
<1>8. Good(u) /\ Queued(u) = Queued(c) /\ Awaited(u) = Awaited(c)
  <2>1. Awaited(u) = Awaited(c) /\ Queued(u) = Queued(c)
    BY <1>7, SameAwaited DEF Same, Queued
  <2>2. TurnsOK(u)
    BY <1>2, <1>5, <1>7 DEF Good, TurnsOK, Live
  <2>3. QueuesOK(u) /\ FlightsOK(u) /\ AwaitedOK(u)
    BY <1>2, <1>7, <2>1 DEF Good, QueuesOK, FlightsOK, AwaitedOK, Live, Same
  <2> QED BY <1>7, <2>1, <2>2, <2>3 DEF Good
<1>9. Safe(u) /\ Live(u, n)
  BY <1>2, <1>3, <1>7, <1>8 DEF Safe, Kept, Live
<1>10. PICK w : w = Settle(u, n)
  OBVIOUS
<1>11. n \notin Range(u.turns) /\ n \notin Queued(u)
  BY <1>3, <1>5, <1>7, <1>8
<1>12. Fine(u, w, {n})
  BY <1>8, <1>9, <1>10, <1>11, SettleFine
<1>13. Safe(w)
  BY <1>9, <1>12, FineSafe
<1>14. v = Kick(w)
  BY <1>1, <1>4, <1>6, <1>10 DEF Drop
<1>15. DropSteps(c, n, u, w, v)
  BY <1>4, <1>7, <1>8, <1>9, <1>10, <1>11, <1>13, <1>14 DEF DropSteps
<1> QED BY <1>1, <1>15

LEMMA DropSafe ==
  ASSUME Constants, Safe(b), NEW n \in Jobs, Drop(n)
  PROVE  Safe(b')
<1>1. PICK u, w : DropSteps(b, n, u, w, b')
  BY DropIs
<1>2. PICK v : v = b'
  OBVIOUS
<1>3. Safe(w) /\ v = Kick(w)
  BY <1>1, <1>2 DEF DropSteps
<1> QED BY <1>2, <1>3, KickSafe

(* A request made, n in u, and asked.                                      *)
FetchSteps(c, n, u, v) ==
  /\ n \in Jobs /\ ~Live(c, n) /\ Live(u, n) /\ u.job[n].stage = "new"
  /\ Safe(u) /\ u.turns = c.turns /\ \A m \in Jobs \ {n} : u.job[m] = c.job[m]
  /\ v = Ask(u, n)

LEMMA FetchPartBgIs ==
  ASSUME Constants, Safe(b), NEW p \in Pieces, NEW kind \in {"ahead", "fill"}, FetchPartBg(p, kind)
  PROVE  \E n, u : FetchSteps(b, n, u, b')
<1>1. PICK c, v : c = b /\ v = b'
  OBVIOUS
<1>2. Safe(c) /\ Good(c) /\ c \in State /\ Free(c) > 0
  BY <1>1 DEF FetchPartBg, Safe, Good
<1>3. FreeJobs(c) # {}
  <2>1. Cardinality(FreeJobs(c)) # 0
    BY <1>2, FreeFinite DEF Free, FreeJobs
  <2>2. Cardinality({}) = 0
    BY FS_EmptySet
  <2> QED BY <2>1, <2>2
<1>4. PICK n : n = CHOOSE m \in Jobs : c.job[m] = NoJob
  OBVIOUS
<1>5. n \in FreeJobs(c) /\ n \in Jobs /\ ~Live(c, n)
  BY <1>3, <1>4 DEF FreeJobs, Live
<1>6. PICK stage \in Stages : stage = "new"
  BY DEF Stages
<1>7. PICK w, q : w = c.wantQ /\ q = c.placeQ
  OBVIOUS
<1>8. /\ w \in Seq(Jobs) /\ q \in Seq(Jobs) /\ Range(w) \cup Range(q) = Queued(c)
      /\ n \notin Queued(c)
  BY <1>2, <1>5, <1>7, StateParts DEF Queued, Good, QueuesOK
<1>9. kind \in Kinds
  BY DEF Kinds
<1>10. PICK u : u = JobAdded(c, n, kind, p, stage, w, q)
  OBVIOUS
<1>11. /\ Good(u) /\ u.list = c.list /\ u.read = c.read
       /\ Live(u, n) /\ u.job[n] = NewJob(kind, p, stage)
       /\ \A m \in Jobs \ {n} : u.job[m] = c.job[m]
       /\ Queued(u) = Range(w) \cup Range(q)
  BY <1>2, <1>5, <1>8, <1>9, <1>10, JobMade
<1>12. u.job[n].stage = "new"
  BY <1>6, <1>9, <1>11, NewJobIs
<1>13. Safe(u)
  <2>1. Awaited(u) = Awaited(c)
    BY <1>11, SameAwaited
  <2>2. \A m \in Awaited(c) : m \in Jobs \ {n}
    BY <1>2, <1>5 DEF Good, AwaitedOK, Live
  <2> QED BY <1>2, <1>11, <2>1, <2>2 DEF Safe, Kept
<1>14. v = Ask(u, n)
  <2>1. u = [c EXCEPT !.job = [c.job EXCEPT ![n] = NewJob(kind, p, stage)],
                      !.flights = [c.flights EXCEPT ![p] = n]]
    BY <1>2, <1>7, <1>10 DEF JobAdded, State
  <2> QED BY <1>1, <1>4, <1>6, <2>1 DEF FetchPartBg
<1>15. u.turns = c.turns
  BY <1>2, <1>5, <1>8, <1>9, <1>10, JobMade
<1>16. FetchSteps(c, n, u, v)
  BY <1>5, <1>11, <1>12, <1>13, <1>14, <1>15 DEF FetchSteps
<1> QED BY <1>1, <1>16

LEMMA FetchPartBgSafe ==
  ASSUME Constants, Safe(b), NEW p \in Pieces, NEW kind \in {"ahead", "fill"}, FetchPartBg(p, kind)
  PROVE  Safe(b')
<1>1. PICK n, u : FetchSteps(b, n, u, b')
  BY FetchPartBgIs
<1>2. PICK v : v = b'
  OBVIOUS
<1>3. n \in Jobs /\ Live(u, n) /\ u.job[n].stage = "new" /\ Safe(u) /\ v = Ask(u, n)
  BY <1>1, <1>2 DEF FetchSteps
<1>4. Good(u) /\ u \in State /\ TurnsOK(u) /\ QueuesOK(u)
  BY <1>3 DEF Safe, Good
<1>5. n \notin Queued(u) /\ u.job[n].stage # "turn"
  BY <1>3, <1>4 DEF QueuesOK
<1>6. Moves(u, v, {n})
  BY <1>3, <1>4, <1>5, AskMoves
<1>7. Fine(u, v, {n})
  BY <1>4, <1>6, MovesFine
<1> QED BY <1>2, <1>3, <1>7, FineSafe

----------------------------------------------------------------------------
(* The game's reads.                                                       *)

(* SetToSeq: each of a finite set once.                                    *)
LEMMA SequenceOf ==
  ASSUME NEW S, IsFiniteSet(S), NEW q, q = SetToSeq(S)
  PROVE  /\ q \in Seq(S) /\ Range(q) = S
         /\ \A i, j \in 1..Len(q) : i # j => q[i] # q[j]
<1>1. PICK N : N = Cardinality(S)
  OBVIOUS
<1>2. N \in Nat /\ \E f : f \in Bijection(1..N, S)
  BY <1>1, FS_CardinalityType DEF ExistsBijection
<1>3. \E f \in [1..N -> S] : IsInjective(f)
  BY <1>2 DEF Bijection, Injection, IsInjective
<1>4. q \in [1..N -> S] /\ IsInjective(q)
  BY <1>1, <1>3 DEF SetToSeq
<1>5. q \in Seq(S) /\ Len(q) = N /\ DOMAIN q = 1..N
  BY <1>2, <1>4
<1>6. \A i, j \in 1..N : i # j => q[i] # q[j]
  BY <1>4 DEF IsInjective
<1>7. Range(q) = S
  <2>1. Cardinality(1..N) = N
    <3>1. Cardinality(1..N) = IF 1 > N THEN 0 ELSE N - 1 + 1
      BY <1>2, FS_Interval
    <3> QED BY <1>2, <3>1
  <2>2. PICK T : T = 1..N
    OBVIOUS
  <2>3. q \in Injection(T, S) /\ Cardinality(T) = Cardinality(S)
    BY <1>1, <1>4, <2>1, <2>2 DEF Injection, IsInjective
  <2>4. q \in Surjection(T, S)
    BY <2>3, FS_Injection
  <2> QED BY <1>5, <2>2, <2>4 DEF Surjection, Range
<1> QED BY <1>5, <1>6, <1>7

(* The downloads of q go first, one after the other.                       *)
LEMMA PromoteEachSafe ==
  ASSUME Constants, NEW s, Good(s), NEW q \in Seq(Jobs), Kept(s, Range(q)),
         NEW t, t = PromoteEach(s, q)
  PROVE  Safe(t)
<1>1. Len(q) \in Nat /\ \A i \in 1..Len(q) : q[i] \in Jobs
  OBVIOUS
<1>2. PICK k : PromoteRuns(k, s, q)
  BY <1>1, PromoteIs
<1>3. /\ k[0] = s /\ t = k[Len(q)]
      /\ \A i \in 1..Len(q) : k[i] = PromoteOne(k[i - 1], q[i])
  BY <1>2 DEF PromoteRuns
<1> DEFINE Left(i) == {q[j] : j \in (i + 1)..Len(q)}
           G == {i \in 0..Len(q) : Good(k[i]) /\ Kept(k[i], Left(i))}
<1>4. 0 \in G
  <2>1. Left(0) = Range(q)
    BY <1>1 DEF Range
  <2> HIDE DEF Left
  <2> QED BY <1>1, <1>3, <2>1
<1>5. \A i \in 0..(Len(q) - 1) : i \in G => i + 1 \in G
  <2> SUFFICES ASSUME NEW i \in 0..(Len(q) - 1), i \in G PROVE i + 1 \in G
    OBVIOUS
  <2>1. i + 1 \in 1..Len(q) /\ i + 1 \in 0..Len(q) /\ (i + 1) - 1 = i
    BY <1>1
  <2>2. PICK u, v, n : u = k[i] /\ v = k[i + 1] /\ n = q[i + 1]
    OBVIOUS
  <2>3. v = PromoteOne(u, n) /\ n \in Jobs
    BY <1>1, <1>3, <2>1, <2>2
  <2>4. PICK X, Y : X = Left(i) /\ Y = Left(i + 1)
    OBVIOUS
  <2>5. X \subseteq Y \cup {n}
    <3>1. \A j \in (i + 1)..Len(q) : j = i + 1 \/ j \in ((i + 1) + 1)..Len(q)
      BY <1>1, <2>1
    <3> QED BY <2>2, <2>4, <3>1
  <2>6. Good(u) /\ Kept(u, X)
    BY <2>2, <2>4
  <2>7. Good(v) /\ Kept(v, Y)
    <3>1. CASE u.job[n] = NoJob
      <4>1. v = u /\ n \notin Awaited(u)
        BY <2>3, <2>6, <3>1 DEF PromoteOne, Good, AwaitedOK, Live
      <4> QED BY <2>5, <2>6, <4>1 DEF Kept
    <3>2. CASE u.job[n] # NoJob
      <4>1. PICK w : w = Promote(u, n)
        OBVIOUS
      <4>2. Live(u, n) /\ u \in State /\ TurnsOK(u) /\ QueuesOK(u)
        BY <2>3, <2>6, <3>2 DEF Live, Good
      <4>3. Moves(u, w, {n}) /\ May(w.job[n])
        BY <4>1, <4>2, PromoteMoves
      <4>4. Fine(u, w, {n})
        BY <2>6, <4>3, MovesFine
      <4>5. Kept(w, X) /\ Good(w)
        BY <2>6, <4>4, FineKeeps DEF Fine
      <4>6. Kept(w, Y)
        BY <2>5, <4>3, <4>5 DEF Kept
      <4>7. v = Pump(w)
        BY <2>3, <3>2, <4>1 DEF PromoteOne
      <4>8. Fine(w, v, {})
        BY <4>5, <4>7, PumpFine
      <4> QED BY <4>6, <4>8, FineKeeps DEF Fine
    <3> QED BY <3>1, <3>2
  <2> QED BY <2>1, <2>2, <2>4, <2>7
<1>6. Len(q) \in G
  <2> HIDE DEF G
  <2> QED BY <1>1, <1>4, <1>5, UpTo
<1>7. Left(Len(q)) = {}
  BY <1>1
<1>8. Good(t) /\ Kept(t, Left(Len(q)))
  BY <1>3, <1>6
<1> QED BY <1>7, <1>8 DEF Safe

(* A read's state changed: what it waits for now, of X, is under way.      *)
WithRead(s, r, x) == [s EXCEPT !.read = [s.read EXCEPT ![r] = x]]
LEMMA ReadSet ==
  ASSUME NEW s, Safe(s), NEW r \in Readers, NEW x \in Asked \cup Flying \cup {Over, FgOver},
         NEW X, x.state = "flying" => x.jobs \subseteq X, \A n \in X : Live(s, n),
         NEW t, t = WithRead(s, r, x)
  PROVE  Good(t) /\ Kept(t, X)
<1>1. s \in State
  BY DEF Safe, Good
<1>2. PICK read : read = [s.read EXCEPT ![r] = x]
  OBVIOUS
<1>3. /\ read \in [Readers -> Asked \cup Flying \cup {Over, FgOver}] /\ read[r] = x
      /\ \A m \in Readers \ {r} : read[m] = s.read[m]
  BY <1>1, <1>2, StateParts
<1>4. /\ t \in State /\ t.job = s.job /\ t.turns = s.turns /\ t.wantQ = s.wantQ
      /\ t.placeQ = s.placeQ /\ t.flights = s.flights /\ t.list = s.list /\ t.read = read
  BY <1>1, <1>2, <1>3 DEF State, WithRead
<1>5. Awaited(t) \subseteq Awaited(s) \cup X
  <2> SUFFICES ASSUME NEW n \in Jobs, ByRead(t, n) \/ ByList(t, n), n \notin X
               PROVE  ByRead(s, n) \/ ByList(s, n)
    BY DEF Awaited
  <2>1. CASE ByList(t, n)
    BY <1>4, <2>1 DEF ByList
  <2>2. CASE ByRead(t, n)
    <3>1. PICK m \in Readers : read[m].state = "flying" /\ n \in read[m].jobs
      BY <1>4, <2>2 DEF ByRead
    <3>2. m # r
      BY <1>3, <3>1
    <3> QED BY <1>3, <3>1, <3>2 DEF ByRead
  <2> QED BY <2>1, <2>2
<1>6. TurnsOK(t) /\ QueuesOK(t) /\ FlightsOK(t)
  BY <1>4 DEF Safe, Good, TurnsOK, QueuesOK, Queued, FlightsOK, Live
<1>7. AwaitedOK(t) /\ Kept(t, X)
  BY <1>4, <1>5 DEF Safe, Good, AwaitedOK, Kept, Live
<1> QED BY <1>4, <1>6, <1>7 DEF Good

LEMMA NoLongerWaits ==
  ASSUME NEW s, Safe(s), NEW r \in Readers, NEW x \in Asked \cup {Over, FgOver},
         NEW t, t = WithRead(s, r, x)
  PROVE  Safe(t)
<1>1. x.state # "flying"
  BY DEF Asked, Over, FgOver
<1>2. Good(t) /\ Kept(t, {})
  BY <1>1, ReadSet
<1> QED BY <1>2 DEF Safe

(* Which reader brings a piece: of no account to who waits.                *)
LEMMA FgSet ==
  ASSUME NEW s, Safe(s), NEW f \in [Pieces -> Readers \cup {Nobody}],
         NEW t, t = [s EXCEPT !.fg = f]
  PROVE  Safe(t)
<1>1. /\ t \in State /\ t.job = s.job /\ t.turns = s.turns /\ t.wantQ = s.wantQ
      /\ t.placeQ = s.placeQ /\ t.flights = s.flights /\ t.list = s.list /\ t.read = s.read
  BY DEF Safe, Good, State
<1>2. Fine(s, t, {})
  BY <1>1, SameAwaited, PlainFine DEF Safe
<1> QED BY <1>2, FineSafe

LEMMA AskMissingSafe ==
  ASSUME Constants, Safe(b), NEW r \in Readers, NEW S \in SUBSET Pieces, AskMissing(b, r, S)
  PROVE  Safe(b')
<1>1. PICK c, v : c = b /\ v = b'
  OBVIOUS
<1>2. Safe(c) /\ c \in State
  BY <1>1 DEF Safe, Good
<1>3. CASE S \subseteq c.here
  <2>1. PICK x : x = Over
    OBVIOUS
  <2>2. PICK u : u = WithRead(c, r, x)
    OBVIOUS
  <2>3. Safe(u)
    BY <1>2, <2>1, <2>2, NoLongerWaits
  <2>4. WaitEnds(u)
    BY <1>1, <1>3, <2>1, <2>2 DEF AskMissing, WithRead
  <2> QED BY <2>3, <2>4, WaitEndsSafe
<1>4. CASE ~(S \subseteq c.here)
  <2>1. PICK x : x = [state |-> "asked", pieces |-> S \ c.here]
    OBVIOUS
  <2>2. PICK u : u = WithRead(c, r, x)
    OBVIOUS
  <2>3. x \in Asked
    BY <2>1 DEF Asked
  <2>4. Safe(u)
    BY <1>2, <2>2, <2>3, NoLongerWaits
  <2>5. PICK f : f = [p \in Pieces |-> IF p \in S \ c.here THEN r ELSE c.fg[p]]
    OBVIOUS
  <2>6. f \in [Pieces -> Readers \cup {Nobody}]
    BY <1>2, <2>5, StateParts
  <2>7. u.fg = c.fg
    BY <1>2, <2>2 DEF WithRead, State
  <2>8. v = [u EXCEPT !.fg = f]
    BY <1>1, <1>4, <2>1, <2>2, <2>5, <2>7 DEF AskMissing, WithRead
  <2> QED BY <1>1, <2>4, <2>6, <2>8, FgSet
<1> QED BY <1>3, <1>4

LEMMA ReadSafe ==
  ASSUME Constants, Safe(b), NEW r \in Readers, NEW S \in SUBSET Pieces, Read(r, S)
  PROVE  Safe(b')
<1>1. PICK c, v : c = b /\ v = b'
  OBVIOUS
<1>2. Safe(c) /\ Good(c) /\ c \in State
  BY <1>1 DEF Safe, Good
<1>3. PICK flying, fgs : /\ flying = {c.flights[p] : p \in S} \ {Nobody}
                         /\ fgs = {c.fg[p] : p \in S} \ {Nobody}
  OBVIOUS
<1>4. CASE flying \cup fgs = {}
  <2>1. AskMissing(b, r, S)
    BY <1>1, <1>3, <1>4 DEF Read
  <2> QED BY <2>1, AskMissingSafe
<1>5. CASE flying \cup fgs # {}
  <2>1. \A n \in flying : Live(c, n)
    BY <1>2, <1>3 DEF Good, FlightsOK
  <2>2. flying \in SUBSET Jobs /\ fgs \in SUBSET Readers
    BY <1>2, <1>3, <2>1, StateParts DEF Live
  <2>3. PICK x : x = [state |-> "flying", pieces |-> S, jobs |-> flying, readers |-> fgs]
    OBVIOUS
  <2>4. x \in Flying /\ x.jobs = flying
    BY <2>2, <2>3 DEF Flying
  <2>5. PICK w : w = WithRead(c, r, x)
    OBVIOUS
  <2>6. Good(w) /\ Kept(w, flying)
    BY <1>2, <2>1, <2>4, <2>5, ReadSet
  <2>7. PICK q : q = SetToSeq(flying)
    OBVIOUS
  <2>8. IsFiniteSet(flying)
    BY <2>2, FS_Subset DEF Constants
  <2>9. q \in Seq(flying) /\ Range(q) = flying
    BY <2>7, <2>8, SequenceOf
  <2>10. q \in Seq(Jobs)
    BY <2>2, <2>9
  <2>11. v = PromoteEach(w, q)
    BY <1>1, <1>3, <1>5, <2>3, <2>5, <2>7 DEF Read, WithRead
  <2> QED BY <1>1, <2>6, <2>9, <2>10, <2>11, PromoteEachSafe
<1> QED BY <1>4, <1>5

LEMMA ReadAsksSafe ==
  ASSUME Constants, Safe(b), NEW r \in Readers, ReadAsks(r)
  PROVE  Safe(b')
<1>1. b.read[r] \in Asked \cup Flying \cup {Over, FgOver} /\ b.read[r].state = "flying"
  BY StateParts DEF Safe, Good, ReadAsks
<1>2. b.read[r].pieces \in SUBSET Pieces
  BY <1>1 DEF Asked, Flying, Over, FgOver
<1>3. PICK S : S = b.read[r].pieces
  OBVIOUS
<1>4. S \in SUBSET Pieces /\ AskMissing(b, r, S)
  BY <1>2, <1>3 DEF ReadAsks
<1> QED BY <1>4, AskMissingSafe

(* One that joined a reader's request goes on.                             *)
LEMMA JoinedOneFine ==
  ASSUME Constants, NEW s, Good(s), NEW n, Live(s, n),
         s.job[n].stage \in {"joins", "joins turned"}, NEW t, t = JoinedGoesOn(s, n)
  PROVE  Fine(s, t, {n})
<1>1. s \in State /\ TurnsOK(s) /\ QueuesOK(s) /\ n \in Jobs /\ s.job[n] \in Job
      /\ n \notin Range(s.turns) /\ n \notin Queued(s)
  BY LiveIs, InNoQueue DEF Good
<1>2. CASE s.job[n].piece \in s.here
  <2>1. t = Answered(s, n, "ok")
    BY <1>2 DEF JoinedGoesOn
  <2> QED BY <2>1, AnsweredFine
<1>3. CASE s.job[n].piece \notin s.here /\ s.job[n].stage = "joins"
  <2>1. t = Ask(s, n)
    BY <1>3 DEF JoinedGoesOn
  <2>2. Moves(s, t, {n})
    BY <1>1, <1>3, <2>1, AskMoves
  <2> QED BY <2>2, MovesFine
<1>4. CASE s.job[n].piece \notin s.here /\ s.job[n].stage # "joins"
  <2>0. PICK stage \in Stages : stage = "sent"
    BY DEF Stages
  <2>1. PICK u : u = Stage(s, n, stage)
    OBVIOUS
  <2>2. PICK j \in Job : /\ WithJob(s, u, n, j) /\ u.turns = s.turns /\ u.spare = s.spare
                         /\ j.stage = stage /\ Grows(s.job[n], j)
    BY ZenonT(60), <1>1, <2>1, SetStage
  <2>3. PICK w : w = IF s.spare = <<>> THEN s.spare ELSE Tail(s.spare)
    OBVIOUS
  <2>4. w \in Seq(Nat)
    <3>1. s.spare \in Seq(Nat)
      BY <1>1, StateParts
    <3>2. s.spare # <<>> => Tail(s.spare) \in Seq(Nat)
      BY <3>1, HeadTailProperties
    <3> QED BY <2>3, <3>1, <3>2
  <2>5. t = [u EXCEPT !.spare = w]
    BY <1>4, <2>0, <2>1, <2>2, <2>3 DEF JoinedGoesOn
  <2>6. u \in State /\ Same(s, u) /\ u.job = [s.job EXCEPT ![n] = j]
    BY <2>2 DEF WithJob
  <2>7. t \in State /\ Same(u, t) /\ t.job = u.job /\ t.turns = u.turns
    <3>1. u \in State
      BY <2>6
    <3> QED BY ZenonT(60), <2>4, <2>5, <3>1, SetSpare
  <2>8. t.job[n] = j /\ \A m \in Jobs \ {n} : t.job[m] = s.job[m]
    BY <1>1, <2>6, <2>7, StateParts
  <2>9. Live(t, n) /\ Same(s, t)
    BY <1>1, <2>6, <2>7, <2>8, LiveIs DEF Same
  <2>10. Moves(s, t, {n})
    BY <1>1, <2>2, <2>7, <2>8, <2>9, OneMoves
  <2> QED BY <2>10, MovesFine
<1> QED BY <1>2, <1>3, <1>4

(* q: requests that joined a reader's, each once.                          *)
JoinedAre(s, q) ==
  /\ q \in Seq(Jobs) /\ \A i, j \in 1..Len(q) : i # j => q[i] # q[j]
  /\ \A i \in 1..Len(q) : Live(s, q[i]) /\ s.job[q[i]].stage \in {"joins", "joins turned"}

(* All of them do, one after the other.                                    *)
LEMMA JoinedGoOnFine ==
  ASSUME Constants, NEW s, Good(s), NEW q, JoinedAre(s, q), NEW t, t = JoinedGoOn(s, q)
  PROVE  \E N : Fine(s, t, N)
<1>1. Len(q) \in Nat /\ \A i \in 1..Len(q) : q[i] \in Jobs
  <2>1. q \in Seq(Jobs)
    BY DEF JoinedAre
  <2> QED BY <2>1
<1>2. PICK k : JoinedRuns(k, s, q)
  BY <1>1, JoinedIs
<1>3. /\ k[0] = s /\ t = k[Len(q)]
      /\ \A i \in 1..Len(q) : k[i] = JoinedGoesOn(k[i - 1], q[i])
  BY <1>2 DEF JoinedRuns
<1> DEFINE Gone(i) == {q[j] : j \in 1..i}
           G == {i \in 0..Len(q) : Fine(s, k[i], Gone(i))}
<1>4. 0 \in G
  <2>1. Fine(s, s, Gone(0))
    <3> HIDE DEF Gone
    <3> QED BY FineNone, FineBut
  <2> HIDE DEF Gone
  <2> QED BY <1>1, <1>3, <2>1
<1>5. \A i \in 0..(Len(q) - 1) : i \in G => i + 1 \in G
  <2> SUFFICES ASSUME NEW i \in 0..(Len(q) - 1), i \in G PROVE i + 1 \in G
    OBVIOUS
  <2>1. i + 1 \in 1..Len(q) /\ i + 1 \in 0..Len(q) /\ (i + 1) - 1 = i
    BY <1>1
  <2>2. PICK u, v, n : u = k[i] /\ v = k[i + 1] /\ n = q[i + 1]
    OBVIOUS
  <2>3. v = JoinedGoesOn(u, n) /\ n \in Jobs
    BY <1>1, <1>3, <2>1, <2>2
  <2>4. PICK M, N : M = Gone(i) /\ N = Gone(i + 1)
    OBVIOUS
  <2>5. n \notin M
    <3>1. \A j \in 1..i : j \in 1..Len(q) /\ j # i + 1
      BY <1>1, <2>1
    <3>2. \A j \in 1..i : q[j] # q[i + 1]
      BY <2>1, <3>1 DEF JoinedAre
    <3> QED BY <2>2, <2>4, <3>2
  <2>6. M \subseteq N /\ n \in N
    BY <1>1, <2>1, <2>2, <2>4
  <2>7. Fine(s, u, M) /\ Good(u)
    BY <2>2, <2>4 DEF Fine
  <2>8. Live(s, n) /\ s.job[n].stage \in {"joins", "joins turned"}
    BY <2>1, <2>2 DEF JoinedAre
  <2>9. u.job[n] = s.job[n]
    BY <2>3, <2>5, <2>7, <2>8 DEF Fine
  <2>10. Live(u, n) /\ u.job[n].stage \in {"joins", "joins turned"}
    BY <2>8, <2>9 DEF Live
  <2>11. Fine(u, v, {n})
    BY <2>3, <2>7, <2>10, JoinedOneFine
  <2>12. Fine(s, u, N)
    BY <2>6, <2>7 DEF Fine
  <2>13. Fine(s, v, N)
    <3>1. \A m \in {n} : m \in N
      BY <2>6
    <3> QED BY <2>11, <2>12, <3>1, FineTrans
  <2> QED BY <2>1, <2>2, <2>4, <2>13
<1>6. Len(q) \in G
  <2> HIDE DEF G
  <2> QED BY <1>1, <1>4, <1>5, UpTo
<1> QED BY <1>3, <1>6

(* The steps of a foreground request's end.                                *)
FgLanded(s, r) == [s EXCEPT !.read[r] = [state |-> "landed"], !.quiet = Speed # "thin"]
FgBrings(s, r, S, ok) ==
  [s EXCEPT
    !.here = IF ok THEN @ \cup S ELSE @,
    !.fg = [p \in Pieces |-> IF @[p] = r THEN Nobody ELSE @[p]],
    !.read = [q \in Readers |->
      IF @[q].state = "flying" THEN Landed(@[q], r) ELSE @[q]]]
FgJoined(s, r) ==
  {n \in InStage(s, "joins") \cup InStage(s, "joins turned") : s.job[n].with = r}
FgGoOn(s, r) == [JoinedGoOn(s, SetToSeq(FgJoined(s, r))) EXCEPT !.read[r] = Over]

(* s and t differ in the bytes that are there and in the time only.        *)
PlainSame(s, t) ==
  /\ t.job = s.job /\ t.turns = s.turns /\ t.wantQ = s.wantQ /\ t.placeQ = s.placeQ
  /\ t.fg = s.fg /\ t.list = s.list /\ t.read = s.read

(* r's request brings nothing any more, and no parked read waits for it.   *)
FgBrought(s, t, r) ==
  /\ t.job = s.job /\ t.turns = s.turns /\ t.wantQ = s.wantQ /\ t.placeQ = s.placeQ
  /\ t.list = s.list
  /\ t.fg = [p \in Pieces |-> IF s.fg[p] = r THEN Nobody ELSE s.fg[p]]
  /\ t.read = [m \in Readers |->
       IF s.read[m].state = "flying" THEN Landed(s.read[m], r) ELSE s.read[m]]

(* The states on the way through FgEnds: landed, later, kicked, brought,   *)
(* those that joined gone on (q, to g), the read over.                     *)
FgSteps(c, r, d, e, s1, s2, q, g, w) ==
  /\ Safe(d) /\ d = WithRead(c, r, FgOver)
  /\ Safe(e) /\ PlainSame(d, e)
  /\ Safe(s1) /\ s1 = Kick(e)
  /\ Safe(s2) /\ FgBrought(s1, s2, r)
  /\ JoinedAre(s2, q) /\ Range(q) = FgJoined(s2, r)
  /\ Safe(g) /\ g = JoinedGoOn(s2, q)
  /\ Safe(w) /\ w = WithRead(g, r, Over) /\ WaitEnds(w)

LEMMA FgEndsIs ==
  ASSUME Constants, Safe(b), NEW r \in Readers, NEW ok \in BOOLEAN, FgEnds(r, ok)
  PROVE  \E d, e, s1, s2, q, g, w : FgSteps(b, r, d, e, s1, s2, q, g, w)
<1>1. PICK c : c = b
  OBVIOUS
<1>2. Safe(c) /\ Good(c) /\ c \in State
  BY <1>1 DEF Safe, Good
<1>3. PICK S : S = c.read[r].pieces
  OBVIOUS
<1>4. S \in SUBSET Pieces
  <2>1. c.read[r].state = "asked" /\ c.read[r] \in Asked \cup Flying \cup {Over, FgOver}
    BY <1>1, <1>2, StateParts DEF FgEnds
  <2> QED BY <1>3, <2>1 DEF Asked, Flying, Over, FgOver
<1>5. PICK x : x = FgOver
  OBVIOUS
<1>6. PICK d : d = WithRead(c, r, x)
  OBVIOUS
<1>7. Safe(d)
  BY <1>2, <1>5, <1>6, NoLongerWaits
<1>8. PICK e, calm : calm = (Speed # "thin") /\ e = [d EXCEPT !.quiet = calm]
  OBVIOUS
<1>9. Safe(e)
  <2>1. calm \in BOOLEAN
    BY <1>8
  <2>2. /\ e \in State /\ e.job = d.job /\ e.turns = d.turns /\ e.wantQ = d.wantQ
        /\ e.placeQ = d.placeQ /\ e.flights = d.flights /\ e.list = d.list /\ e.read = d.read
    BY <1>7, <1>8, <2>1 DEF Safe, Good, State
  <2>3. Fine(d, e, {})
    BY <1>7, <2>2, SameAwaited, PlainFine DEF Safe
  <2> QED BY <1>7, <2>3, FineSafe
<1>10. PICK s1 : s1 = Kick(e)
  OBVIOUS
<1>11. Safe(s1) /\ Good(s1) /\ s1 \in State
  BY <1>9, <1>10, KickSafe DEF Safe, Good
<1>12. PICK h : h = IF ok THEN s1.here \cup S ELSE s1.here
  OBVIOUS
<1>13. PICK f : f = [p \in Pieces |-> IF s1.fg[p] = r THEN Nobody ELSE s1.fg[p]]
  OBVIOUS
<1>14. PICK read : read = [m \in Readers |->
          IF s1.read[m].state = "flying" THEN Landed(s1.read[m], r) ELSE s1.read[m]]
  OBVIOUS
<1>15. PICK s2 : s2 = [s1 EXCEPT !.here = h, !.fg = f, !.read = read]
  OBVIOUS
<1>16. h \in SUBSET Pieces /\ f \in [Pieces -> Readers \cup {Nobody}]
  BY <1>4, <1>11, <1>12, <1>13, StateParts
<1>17. ASSUME NEW m \in Readers
       PROVE  /\ read[m] \in Asked \cup Flying \cup {Over, FgOver}
              /\ read[m].state = "flying" =>
                   s1.read[m].state = "flying" /\ read[m].jobs = s1.read[m].jobs
  <2>1. s1.read[m] \in Asked \cup Flying \cup {Over, FgOver}
    BY <1>11, StateParts
  <2>2. CASE s1.read[m].state = "flying"
    <3>1. s1.read[m] \in Flying
      BY <2>1, <2>2 DEF Asked, Over, FgOver
    <3>2. read[m] = Landed(s1.read[m], r)
      BY <1>14, <2>2
    <3>3. read[m] \in Flying /\ read[m].jobs = s1.read[m].jobs
      BY <3>1, <3>2 DEF Flying, Landed
    <3> QED BY <2>2, <3>3
  <2>3. CASE s1.read[m].state # "flying"
    BY <1>14, <2>1, <2>3
  <2> QED BY <2>2, <2>3
<1>18. read \in [Readers -> Asked \cup Flying \cup {Over, FgOver}]
  <2>1. read = [m \in Readers |-> read[m]]
    BY <1>14
  <2> QED BY <1>17, <2>1
<1>19. /\ s2 \in State /\ s2.job = s1.job /\ s2.turns = s1.turns /\ s2.wantQ = s1.wantQ
       /\ s2.placeQ = s1.placeQ /\ s2.flights = s1.flights /\ s2.list = s1.list /\ s2.read = read
  BY <1>11, <1>15, <1>16, <1>18 DEF State
<1>20. Awaited(s2) \subseteq Awaited(s1)
  BY <1>17, <1>19 DEF Awaited, ByRead, ByList
<1>21. Safe(s2) /\ Good(s2)
  <2>1. Fine(s1, s2, {})
    BY <1>11, <1>19, <1>20, PlainFine
  <2> QED BY <1>11, <2>1, FineSafe DEF Safe
<1>22. PICK J : J = FgJoined(s2, r)
  OBVIOUS
<1>23. PICK q : q = SetToSeq(J)
  OBVIOUS
<1>24. /\ J \in SUBSET Jobs
       /\ \A n \in J : Live(s2, n) /\ s2.job[n].stage \in {"joins", "joins turned"}
  BY <1>22 DEF FgJoined, InStage, Live
<1>25. IsFiniteSet(J)
  BY <1>24, FS_Subset DEF Constants
<1>26. q \in Seq(J) /\ Range(q) = J /\ \A i, j \in 1..Len(q) : i # j => q[i] # q[j]
  BY <1>23, <1>25, SequenceOf
<1>27. JoinedAre(s2, q)
  <2>1. Len(q) \in Nat /\ \A i \in 1..Len(q) : q[i] \in J
    <3>1. q \in Seq(J)
      BY <1>26
    <3> QED BY <3>1
  <2>2. q \in Seq(Jobs)
    <3>1. q \in [1..Len(q) -> Jobs]
      <4>1. q \in Seq(J)
        BY <1>26
      <4>2. DOMAIN q = 1..Len(q) /\ q = [i \in 1..Len(q) |-> q[i]]
        BY <4>1
      <4> QED BY <1>24, <2>1, <4>2
    <3> QED BY <2>1, <3>1
  <2> QED BY <1>24, <1>26, <2>1, <2>2 DEF JoinedAre
<1>28. PICK g : g = JoinedGoOn(s2, q)
  OBVIOUS
<1>29. \E N : Fine(s2, g, N)
  BY <1>21, <1>27, <1>28, JoinedGoOnFine
<1>30. Safe(g)
  BY <1>21, <1>29, FineSafe
<1>31. PICK y : y = Over
  OBVIOUS
<1>32. PICK w : w = WithRead(g, r, y)
  OBVIOUS
<1>33. Safe(w)
  BY <1>30, <1>31, <1>32, NoLongerWaits
<1>34. e = FgLanded(c, r)
  BY <1>5, <1>6, <1>8 DEF WithRead, FgOver, FgLanded
<1>35. s2 = FgBrings(s1, r, S, ok)
  <2>1. PICK z : z = FgBrings(s1, r, S, ok)
    OBVIOUS
  <2>2. z.here = h
    BY <1>11, <1>12, <2>1 DEF FgBrings, State
  <2>3. z.fg = f
    BY <1>11, <1>13, <2>1 DEF FgBrings, State
  <2>4. z.read = read
    <3>1. PICK u : u = [s1 EXCEPT !.here = IF ok THEN @ \cup S ELSE @,
                                 !.fg = [p \in Pieces |-> IF @[p] = r THEN Nobody ELSE @[p]]]
      OBVIOUS
    <3>2. z = [u EXCEPT !.read = [rd \in Readers |->
                IF u.read[rd].state = "flying" THEN Landed(u.read[rd], r)
                ELSE u.read[rd]]]
      BY <2>1, <3>1 DEF FgBrings
    <3>3. u.read = s1.read /\ "read" \in DOMAIN u
      BY <1>11, <3>1 DEF State
    <3> QED BY <1>14, <3>2, <3>3
  <2>5. z = [s1 EXCEPT !.here = z.here, !.fg = z.fg, !.read = z.read]
    BY <1>11, <2>1 DEF FgBrings, State
  <2> QED BY <1>15, <2>1, <2>2, <2>3, <2>4, <2>5
<1>36. w = FgGoOn(s2, r)
  BY <1>22, <1>23, <1>28, <1>31, <1>32 DEF FgGoOn, WithRead
<1>37. WaitEnds(FgGoOn(FgBrings(Kick(FgLanded(b, r)), r, b.read[r].pieces, ok), r))
  BY DEF FgEnds, FgGoOn, FgJoined, FgBrings, FgLanded
<1>38. w = FgGoOn(FgBrings(Kick(FgLanded(b, r)), r, b.read[r].pieces, ok), r)
  BY <1>1, <1>3, <1>10, <1>34, <1>35, <1>36
<1>39. WaitEnds(w)
  BY <1>37, <1>38
<1>41. d = WithRead(c, r, FgOver)
  BY <1>5, <1>6
<1>42. PlainSame(d, e)
  BY <1>7, <1>8 DEF Safe, Good, State, PlainSame
<1>43. FgBrought(s1, s2, r)
  <2>1. s2.fg = f /\ s2.read = read
    BY <1>11, <1>15 DEF State
  <2> QED BY <1>13, <1>14, <1>19, <2>1 DEF FgBrought
<1>44. w = WithRead(g, r, Over)
  BY <1>31, <1>32
<1>45. Range(q) = FgJoined(s2, r)
  BY <1>22, <1>26
<1>46. FgSteps(c, r, d, e, s1, s2, q, g, w)
  BY <1>7, <1>9, <1>10, <1>11, <1>21, <1>27, <1>28, <1>30, <1>33, <1>39, <1>41, <1>42, <1>43,
     <1>44, <1>45 DEF FgSteps
<1> QED BY <1>1, <1>46

LEMMA FgEndsSafe ==
  ASSUME Constants, Safe(b), NEW r \in Readers, NEW ok \in BOOLEAN, FgEnds(r, ok)
  PROVE  Safe(b')
<1>1. PICK d, e, s1, s2, q, g, w : FgSteps(b, r, d, e, s1, s2, q, g, w)
  BY FgEndsIs
<1> QED BY <1>1, WaitEndsSafe DEF FgSteps

(* What else stays of a request put on its way.                            *)
Kin(j, k) == k.kind = j.kind /\ k.forLoad = j.forLoad /\ k.urgent = j.urgent

(* Requests under way are aborted: what becomes of n.                      *)
Aborted(s, t, n) ==
  \/ t.job[n] = s.job[n]
  \/ /\ Live(s, n) /\ s.job[n].stage = "sent"
     /\ Live(t, n) /\ t.job[n].stage = "aborted" /\ Kin(s.job[n], t.job[n])
Aborts(s, t) ==
  /\ t.turns = s.turns /\ t.wantQ = s.wantQ /\ t.placeQ = s.placeQ
  /\ t.fg = s.fg /\ t.list = s.list /\ t.read = s.read
  /\ \A n \in Jobs : Aborted(s, t, n)

(* A synchronous read aborts requests under way and takes their place.     *)
LEMMA SyncReadIs ==
  ASSUME Constants, Safe(b), NEW p \in Pieces, NEW ok \in BOOLEAN, SyncRead(p, ok)
  PROVE  \E t : Safe(t) /\ Aborts(b, t) /\ WaitEnds(t)
<1>1. PICK c : c = b
  OBVIOUS
<1>2. Safe(c) /\ Good(c) /\ c \in State
  BY <1>1 DEF Safe, Good
<1>3. PICK h, calm : h = (IF ok THEN c.here \cup {p} ELSE c.here) /\ calm = (Speed # "thin")
  OBVIOUS
<1>4. PICK jobs : jobs = [n \in Jobs |->
         IF c.job[n] # NoJob /\ c.job[n].piece = p /\ c.job[n].stage = "sent"
         THEN [c.job[n] EXCEPT !.stage = "aborted"] ELSE c.job[n]]
  OBVIOUS
<1>5. PICK t : t = [c EXCEPT !.here = h, !.quiet = calm, !.job = jobs]
  OBVIOUS
<1>6. ASSUME NEW n \in Jobs
      PROVE  /\ jobs[n] \in Job \cup {NoJob} /\ (jobs[n] = NoJob <=> c.job[n] = NoJob)
             /\ c.job[n] # NoJob =>
                  /\ jobs[n].piece = c.job[n].piece /\ (May(c.job[n]) => May(jobs[n]))
                  /\ c.job[n].stage \in {"turn", "queued"} => jobs[n].stage = c.job[n].stage
  <2>1. c.job[n] \in Job \cup {NoJob}
    BY <1>2, StateParts
  <2>2. CASE c.job[n] # NoJob /\ c.job[n].piece = p /\ c.job[n].stage = "sent"
    <3>1. jobs[n] = [c.job[n] EXCEPT !.stage = "aborted"] /\ c.job[n] \in Job
      BY <1>4, <2>1, <2>2
    <3>2. jobs[n] \in Job /\ jobs[n].piece = c.job[n].piece /\ (May(c.job[n]) => May(jobs[n]))
      BY <3>1 DEF Job, Stages, May
    <3>3. jobs[n] # NoJob
      BY <3>2 DEF Job, NoJob
    <3> QED BY <2>2, <3>2, <3>3
  <2>3. CASE ~(c.job[n] # NoJob /\ c.job[n].piece = p /\ c.job[n].stage = "sent")
    BY <1>4, <2>1, <2>3
  <2> QED BY <2>2, <2>3
<1>7. jobs \in [Jobs -> Job \cup {NoJob}]
  <2>1. jobs = [n \in Jobs |-> jobs[n]]
    BY <1>4
  <2> QED BY <1>6, <2>1
<1>8. /\ t \in State /\ t.job = jobs /\ t.turns = c.turns /\ t.wantQ = c.wantQ
      /\ t.placeQ = c.placeQ /\ t.flights = c.flights /\ t.list = c.list /\ t.read = c.read
  <2>1. h \in SUBSET Pieces /\ calm \in BOOLEAN
    BY <1>2, <1>3, StateParts
  <2> QED BY <1>2, <1>5, <1>7, <2>1 DEF State
<1>9. Awaited(t) = Awaited(c)
  BY <1>8, SameAwaited
<1>10. TurnsOK(t) /\ QueuesOK(t)
  BY <1>2, <1>6, <1>8 DEF Good, TurnsOK, QueuesOK, Queued, Live
<1>11. FlightsOK(t)
  BY <1>2, <1>6, <1>8 DEF Good, FlightsOK, Live
<1>12. AwaitedOK(t) /\ Kept(t, {})
  BY <1>2, <1>6, <1>8, <1>9 DEF Safe, Good, AwaitedOK, Kept, Live
<1>13. Safe(t)
  BY <1>8, <1>10, <1>11, <1>12 DEF Safe, Good
<1>14. Aborts(c, t)
  <2> SUFFICES ASSUME NEW n \in Jobs PROVE Aborted(c, t, n)
    BY <1>2, <1>5, <1>8 DEF Aborts, State
  <2>1. CASE c.job[n] # NoJob /\ c.job[n].piece = p /\ c.job[n].stage = "sent"
    <3>1. t.job[n] = [c.job[n] EXCEPT !.stage = "aborted"] /\ c.job[n] \in Job
      BY <1>2, <1>4, <1>8, <2>1, StateParts
    <3>2. t.job[n] \in Job /\ t.job[n].stage = "aborted" /\ Kin(c.job[n], t.job[n])
      BY <3>1 DEF Job, Stages, Kin
    <3> QED BY <2>1, <3>2 DEF Aborted, Live, Job, NoJob
  <2>2. CASE ~(c.job[n] # NoJob /\ c.job[n].piece = p /\ c.job[n].stage = "sent")
    BY <1>4, <1>8, <2>2 DEF Aborted
  <2> QED BY <2>1, <2>2
<1>15. WaitEnds(t)
  BY <1>1, <1>3, <1>4, <1>5 DEF SyncRead
<1> QED BY <1>1, <1>13, <1>14, <1>15

LEMMA SyncReadSafe ==
  ASSUME Constants, Safe(b), NEW p \in Pieces, NEW ok \in BOOLEAN, SyncRead(p, ok)
  PROVE  Safe(b')
<1>1. PICK t : Safe(t) /\ WaitEnds(t)
  BY SyncReadIs
<1> QED BY <1>1, WaitEndsSafe

----------------------------------------------------------------------------
(* Time, and all of it.                                                    *)

LEMMA TimesSafe ==
  ASSUME Constants, Safe(b), Timer \/ QuietPasses \/ LoadOver \/ Expire
  PROVE  Safe(b')
<1>1. PICK s, t : s = b /\ t = b'
  OBVIOUS
<1>2. Safe(s) /\ Good(s) /\ s \in State
  BY <1>1 DEF Safe, Good
<1>3. CASE Timer
  <2>1. t = Kick(s)
    BY <1>1, <1>3 DEF Timer
  <2> QED BY <1>1, <1>2, <2>1, KickSafe
<1>4. CASE QuietPasses
  <2>1. t = [s EXCEPT !.quiet = TRUE]
    BY <1>1, <1>4 DEF QuietPasses
  <2>2. /\ t \in State /\ t.job = s.job /\ t.turns = s.turns /\ t.wantQ = s.wantQ
        /\ t.placeQ = s.placeQ /\ t.flights = s.flights /\ t.list = s.list /\ t.read = s.read
    BY <1>2, <2>1 DEF State
  <2>3. Fine(s, t, {})
    BY <1>2, <2>2, SameAwaited, PlainFine
  <2> QED BY <1>1, <1>2, <2>3, FineSafe
<1>5. CASE LoadOver
  <2>1. PICK x \in BOOLEAN : x = FALSE
    OBVIOUS
  <2>2. t = [s EXCEPT !.recent = x]
    BY <1>1, <1>5, <2>1 DEF LoadOver
  <2> QED BY <1>1, <1>2, <2>2, RecentSafe
<1>6. CASE Expire
  <2>1. s.spare \in Seq(Nat) /\ s.spare # <<>> /\ t = [s EXCEPT !.spare = Tail(s.spare)]
    BY <1>1, <1>2, <1>6, StateParts DEF Expire
  <2>2. PICK u : u = Tail(s.spare)
    OBVIOUS
  <2>3. u \in Seq(Nat) /\ t = [s EXCEPT !.spare = u]
    BY <2>1, <2>2, HeadTailProperties
  <2>4. t \in State /\ Same(s, t) /\ t.job = s.job /\ t.turns = s.turns
    BY <1>2, <2>3, SetSpare
  <2>5. Fine(s, t, {})
    BY <1>2, <2>4, SameAwaited, PlainFine DEF Same
  <2> QED BY <1>1, <1>2, <2>5, FineSafe
<1> QED BY <1>3, <1>4, <1>5, <1>6

LEMMA InitSafe ==
  ASSUME Constants, Init
  PROVE  Safe(b)
<1>1. PICK s : s = b
  OBVIOUS
<1>2. /\ s.job = [n \in Jobs |-> NoJob] /\ s.wantQ = <<>> /\ s.placeQ = <<>> /\ s.turns = <<>>
      /\ s.flights = [p \in Pieces |-> Nobody] /\ s.list = [l \in Lists |-> Over]
      /\ s.read = [r \in Readers |-> Over]
  BY <1>1 DEF Init
<1>3. s \in State
  BY <1>1 DEF Init, State
<1>4. Range(<<>>) = {}
  BY DEF Range
<1>5. Awaited(s) = {}
  <2>1. \A r \in Readers : s.read[r].state # "flying"
    BY <1>2 DEF Over
  <2>2. \A l \in Lists : s.list[l] = Over
    BY <1>2
  <2> QED BY <2>1, <2>2 DEF Awaited, ByRead, ByList
<1>6. TurnsOK(s) /\ QueuesOK(s)
  BY <1>2, <1>4 DEF TurnsOK, QueuesOK, Queued
<1>7. FlightsOK(s)
  BY <1>2 DEF FlightsOK
<1>8. AwaitedOK(s) /\ Kept(s, {})
  BY <1>5 DEF AwaitedOK, Kept
<1> QED BY <1>1, <1>3, <1>6, <1>7, <1>8 DEF Safe, Good

LEMMA CallsSafe ==
  ASSUME Constants, Safe(b), Calls
  PROVE  Safe(b')
<1>1. CASE \E r \in Readers, S \in SUBSET Pieces : Read(r, S)
  BY <1>1, ReadSafe
<1>2. CASE \E p \in Pieces, ok \in BOOLEAN : SyncRead(p, ok)
  BY <1>2, SyncReadSafe
<1>3. CASE \E l \in Lists, order \in Orders, hold \in BOOLEAN :
             WantList(l, order, "announced", hold)
  <2>1. PICK kind \in {"announced", "place"} : kind = "announced"
    OBVIOUS
  <2>2. PICK l \in Lists, q \in Orders, hold \in BOOLEAN : WantList(l, q, kind, hold)
    BY <1>3, <2>1
  <2> QED BY <2>2, WantListSafe
<1>4. CASE \E l \in Lists, order \in Orders : WantList(l, order, "place", FALSE)
  <2>1. PICK kind \in {"announced", "place"}, hold \in BOOLEAN : kind = "place" /\ hold = FALSE
    OBVIOUS
  <2>2. PICK l \in Lists, q \in Orders : WantList(l, q, kind, hold)
    BY <1>4, <2>1
  <2> QED BY <2>2, WantListSafe
<1>5. CASE \E p \in Pieces, kind \in {"ahead", "fill"} : FetchPartBg(p, kind)
  BY <1>5, FetchPartBgSafe
<1> QED BY <1>1, <1>2, <1>3, <1>4, <1>5 DEF Calls

LEMMA StepSafe ==
  ASSUME Constants, IInv, [Next]_vars
  PROVE  IInv'
<1> SUFFICES Safe(b')
  BY DEF IInv
<1>0. Safe(b)
  BY DEF IInv
<1>1. CASE Calls
  BY <1>0, <1>1, CallsSafe
<1>2. CASE Timer \/ QuietPasses \/ LoadOver \/ Expire
  BY <1>0, <1>2, TimesSafe
<1>3. CASE \E n \in Jobs, answer \in {"ok", "refused", "down"} : BgEnds(n, answer)
  BY <1>0, <1>3, BgEndsSafe
<1>4. CASE \E r \in Readers, ok \in BOOLEAN : FgEnds(r, ok)
  BY <1>0, <1>4, FgEndsSafe
<1>5. CASE \E n \in Jobs : Retry(n) \/ Drop(n)
  BY <1>0, <1>5, RetrySafe, DropSafe
<1>6. CASE \E r \in Readers : ReadAsks(r)
  BY <1>0, <1>6, ReadAsksSafe
<1>7. CASE \E l \in Lists : ListEnds(l) \/ \E p \in Pieces : ListAsks(l, p)
  BY <1>0, <1>7, ListEndsSafe, ListAsksSafe
<1>8. CASE UNCHANGED vars
  <2>1. b' = b
    BY <1>8 DEF vars
  <2> QED BY <1>0, <2>1
<1> QED BY <1>1, <1>2, <1>3, <1>4, <1>5, <1>6, <1>7, <1>8 DEF Next

LEMMA SafeMayGo ==
  ASSUME IInv
  PROVE  WaitedForMayGo
<1>1. WaitedFor = Awaited(b)
  BY DEF WaitedFor, Awaited, ByRead, ByList
<1>2. \A n \in Awaited(b) : b.job[n] # NoJob /\ (b.job[n].urgent \/ b.job[n].forLoad)
  BY DEF IInv, Safe, Good, AwaitedOK, Live, Kept, May
<1> QED BY <1>1, <1>2 DEF WaitedForMayGo

(* The downloads, the turns, the lists and the reads are always what their *)
(* types say; who stands in a queue is a request in that queue's stage, so *)
(* none has a turn and a place among the units too, and a piece on its way *)
(* is a request's for that piece.                                          *)
THEOREM LinkTypes ==
  ASSUME Constants PROVE Spec => [](b \in State /\ TurnsOK(b) /\ QueuesOK(b) /\ FlightsOK(b))
<1>1. Init => IInv
  BY InitSafe DEF IInv
<1>2. IInv /\ [Next]_vars => IInv'
  BY StepSafe
<1>3. IInv => b \in State /\ TurnsOK(b) /\ QueuesOK(b) /\ FlightsOK(b)
  BY DEF IInv, Safe, Good
<1> QED BY <1>1, <1>2, <1>3, PTL DEF Spec

(* No download the game waits for is held back by the silence its own wait *)
(* makes on the link: whatever joined it, in whatever order lists, reads,  *)
(* failures and retries come, it may go during a load or goes first        *)
(* (http-backend.js wantRange, fetchAhead; net-link.js promote, forLoad).  *)
THEOREM WaitedForMayGoAlways ==
  ASSUME Constants PROVE Spec => []WaitedForMayGo
<1>1. Init => IInv
  BY InitSafe DEF IInv
<1>2. IInv /\ [Next]_vars => IInv'
  BY StepSafe
<1>3. IInv => WaitedForMayGo
  BY SafeMayGo
<1> QED BY <1>1, <1>2, <1>3, PTL DEF Spec

----------------------------------------------------------------------------
(* Where each request is, and who is under way for whom.                   *)

Limits ==
  /\ MaxBackground \in Nat \ {0} /\ WantRequests \in Nat \ {0} /\ PlaceRequests \in Nat \ {0}

RestStages == {"queued", "turn", "joins", "joins turned", "sent", "aborted", "pause"}
JoinStages == {"joins", "joins turned"}

(* A request is in the queue its stage names; one that joined waits for a  *)
(* reader of A.                                                            *)
Placed(s, n, A) ==
  /\ s.job[n].stage \in RestStages
  /\ s.job[n].stage = "queued" => n \in Queued(s)
  /\ s.job[n].stage = "turn" => n \in Range(s.turns)
  /\ s.job[n].stage \in JoinStages => s.job[n].with \in A
PlacedBut(s, X, A) == \A n \in Jobs \ X : Live(s, n) => Placed(s, n, A)

(* What is announced may go during a load, what is only predicted may not. *)
LoadsOK(s) == \A n \in Jobs : s.job[n].kind = "announced" => s.job[n].forLoad
PredictedOK(s) == \A n \in Range(s.placeQ) : s.job[n].kind = "place" /\ ~s.job[n].forLoad

(* Readers of A bring pieces and are waited for; the reads are as in W.    *)
BroughtOK(s, A) == \A p \in Pieces : s.fg[p] \in A \cup {Nobody}
ReadsOK(s, A, W) ==
  \A r \in Readers : /\ s.read[r].state = W[r].state
                     /\ s.read[r].state = "flying" => s.read[r].readers \subseteq A

(* A list waits for requests under way, the game for none but its own.     *)
Unmet(s, o) == \A p \in DOMAIN o : o[p].job = Nobody \/ Live(s, o[p].job)
ListsOK(s) ==
  \A l \in Lists : s.list[l] # Over =>
    (s.list[l].hold => s.list[l].kind = "announced") /\ Unmet(s, s.list[l].on)

Tidy(s, X, A, W) ==
  /\ PlacedBut(s, X, A) /\ LoadsOK(s) /\ PredictedOK(s)
  /\ BroughtOK(s, A) /\ ReadsOK(s, A, W) /\ ListsOK(s)

(* The queues of units are pumped: none urgent waits in them, and one that *)
(* waits has one of its kind under way before it.                          *)
Pumped(s) ==
  /\ \A n \in Queued(s) : ~s.job[n].urgent
  /\ s.wantQ # <<>> => Started(s, "announced") # {}
  /\ s.wantQ = <<>> /\ s.placeQ # <<>> => Started(s, "place") # {}

LEMMA TidyMore ==
  ASSUME NEW s, NEW X, NEW A, NEW W, Tidy(s, X, A, W), NEW Y, X \subseteq Y
  PROVE  Tidy(s, Y, A, W)
BY DEF Tidy, PlacedBut

LEMMA ListsKept ==
  ASSUME NEW s, ListsOK(s), NEW t, t.list = s.list, \A m \in Jobs : Live(s, m) => Live(t, m)
  PROVE  ListsOK(t)
<1> SUFFICES ASSUME NEW l \in Lists, s.list[l] # Over
             PROVE  (s.list[l].hold => s.list[l].kind = "announced") /\ Unmet(t, s.list[l].on)
  BY DEF ListsOK
<1>1. (s.list[l].hold => s.list[l].kind = "announced") /\ Unmet(s, s.list[l].on)
  BY DEF ListsOK
<1> QED BY <1>1 DEF Unmet, Live

(* One request changes.                                                    *)
LEMMA OneTidy ==
  ASSUME NEW s, NEW X, NEW A, NEW W, Tidy(s, X, A, W), NEW t, NEW n \in Jobs, Same(s, t),
         Live(t, n), \A m \in Jobs \ {n} : t.job[m] = s.job[m],
         Range(s.turns) \ {n} \subseteq Range(t.turns),
         NEW Y, \A m \in X : m \in Y \/ m = n, n \in Y \/ Placed(t, n, A),
         t.job[n].kind = "announced" => t.job[n].forLoad,
         n \in Range(s.placeQ) => t.job[n].kind = "place" /\ ~t.job[n].forLoad,
         Range(s.placeQ) \subseteq Jobs
  PROVE  Tidy(t, Y, A, W)
<1>1. Queued(t) = Queued(s)
  BY DEF Same, Queued
<1>2. PlacedBut(t, Y, A)
  <2> SUFFICES ASSUME NEW m \in Jobs \ Y, Live(t, m) PROVE Placed(t, m, A)
    BY DEF PlacedBut
  <2>1. CASE m = n
    BY <2>1
  <2>2. CASE m # n
    <3>1. m \in Jobs \ X /\ t.job[m] = s.job[m]
      BY <2>2
    <3>2. Placed(s, m, A)
      BY <3>1 DEF Tidy, PlacedBut, Live
    <3> QED BY <1>1, <2>2, <3>1, <3>2 DEF Placed
  <2> QED BY <2>1, <2>2
<1>3. LoadsOK(t)
  <2> SUFFICES ASSUME NEW m \in Jobs, t.job[m].kind = "announced" PROVE t.job[m].forLoad
    BY DEF LoadsOK
  <2>1. CASE m = n
    BY <2>1
  <2>2. CASE m # n
    BY <2>2 DEF Tidy, LoadsOK
  <2> QED BY <2>1, <2>2
<1>4. PredictedOK(t)
  <2> SUFFICES ASSUME NEW m \in Range(s.placeQ) PROVE t.job[m].kind = "place" /\ ~t.job[m].forLoad
    BY DEF PredictedOK, Same
  <2>1. CASE m = n
    BY <2>1
  <2>2. CASE m # n
    BY <2>2 DEF Tidy, PredictedOK
  <2> QED BY <2>1, <2>2
<1>5. BroughtOK(t, A) /\ ReadsOK(t, A, W)
  BY DEF Same, Tidy, BroughtOK, ReadsOK
<1>6. ListsOK(t)
  <2>1. \A m \in Jobs : Live(s, m) => Live(t, m)
    BY DEF Live
  <2> QED BY <2>1, ListsKept DEF Same, Tidy
<1> QED BY <1>2, <1>3, <1>4, <1>5, <1>6 DEF Tidy

(* One that is not queued changes: the queues are pumped as before.        *)
LEMMA OnePumped ==
  ASSUME NEW s, Pumped(s), NEW t, NEW n \in Jobs, t.wantQ = s.wantQ, t.placeQ = s.placeQ,
         \A m \in Jobs \ {n} : t.job[m] = s.job[m], n \notin Queued(s), Queued(s) \subseteq Jobs,
         s.job[n].kind \in {"announced", "place"} /\ s.job[n].stage # "queued" =>
           t.job[n].kind = s.job[n].kind /\ t.job[n].stage # "queued"
  PROVE  Pumped(t)
<1>1. Queued(t) = Queued(s)
  BY DEF Queued
<1>2. \A m \in Queued(t) : ~t.job[m].urgent
  BY <1>1 DEF Pumped
<1>3. ASSUME NEW kind \in {"announced", "place"} PROVE Started(s, kind) \subseteq Started(t, kind)
  BY DEF Started
<1>4. Started(s, "announced") \subseteq Started(t, "announced")
      /\ Started(s, "place") \subseteq Started(t, "place")
  BY <1>3
<1> QED BY <1>2, <1>4 DEF Pumped

LEMMA QueuedJobs ==
  ASSUME NEW s, Good(s)
  PROVE  Queued(s) \subseteq Jobs /\ Range(s.placeQ) \subseteq Jobs /\ Range(s.placeQ) \subseteq Queued(s)
BY DEF Good, QueuesOK, Queued, Live

(* What else stays of a request put on its way.                            *)
LEMMA StageKin ==
  ASSUME NEW s \in State, NEW n, Live(s, n), NEW stage \in Stages, NEW t, t = Stage(s, n, stage)
  PROVE  /\ OnOne(s, t, n, {stage}) /\ t.turns = s.turns /\ t.spare = s.spare
         /\ t.quiet = s.quiet /\ t.recent = s.recent
         /\ Kin(s.job[n], t.job[n]) /\ t.job[n].with = s.job[n].with
<1>1. s.job[n] \in Job /\ n \in Jobs
  BY LiveIs
<1>2. PICK j : j = [s.job[n] EXCEPT !.stage = stage]
  OBVIOUS
<1>3. /\ j \in Job /\ j.stage = stage /\ Grows(s.job[n], j) /\ Kin(s.job[n], j)
      /\ j.with = s.job[n].with
  BY <1>1, <1>2 DEF Job, Grows, Kin
<1>4. t = [s EXCEPT !.job = [s.job EXCEPT ![n] = j]]
  BY <1>2 DEF Stage
<1>5. WithJob(s, t, n, j) /\ t.turns = s.turns /\ t.spare = s.spare
  BY <1>1, <1>3, <1>4, SetJob
<1>6. /\ t \in State /\ Same(s, t) /\ t.job = [s.job EXCEPT ![n] = j]
      /\ t.quiet = s.quiet /\ t.recent = s.recent
  BY <1>5 DEF WithJob
<1>7. t.job[n] = j /\ \A m \in Jobs \ {n} : t.job[m] = s.job[m]
  BY <1>1, <1>6, StateParts
<1>8. Live(t, n)
  BY <1>1, <1>3, <1>6, <1>7, LiveIs
<1> QED BY <1>3, <1>5, <1>6, <1>7, <1>8 DEF OnOne

LEMMA JoinsKin ==
  ASSUME NEW s \in State, NEW n, Live(s, n), NEW stage \in Stages, NEW t, t = Joins(s, n, stage)
  PROVE  /\ OnOne(s, t, n, {stage}) /\ t.turns = s.turns
         /\ Kin(s.job[n], t.job[n]) /\ t.job[n].with = s.fg[s.job[n].piece]
<1>1. OnOne(s, t, n, {stage}) /\ t.turns = s.turns
  BY JoinsIs
<1>2. PICK u : u = Stage(s, n, stage)
  OBVIOUS
<1>3. u \in State /\ Kin(s.job[n], u.job[n]) /\ Live(u, n)
  BY <1>2, StageKin DEF OnOne
<1>4. u.job[n] \in Job /\ n \in Jobs
  BY <1>3, LiveIs
<1>5. PICK f, k : f = s.fg[s.job[n].piece] /\ k = [u.job[n] EXCEPT !.with = f]
  OBVIOUS
<1>6. k.with = f /\ Kin(u.job[n], k)
  BY <1>4, <1>5 DEF Job, Kin
<1>7. t.job = [u.job EXCEPT ![n] = k]
  BY <1>2, <1>3, <1>5 DEF Joins, State
<1>8. t.job[n] = k
  BY <1>3, <1>4, <1>7, StateParts
<1> QED BY <1>1, <1>3, <1>5, <1>6, <1>8 DEF Kin

LEMMA BeginKin ==
  ASSUME Constants, NEW s \in State, NEW n, Live(s, n), NEW t, t = Begin(s, n)
  PROVE  /\ OnOne(s, t, n, {"sent", "joins turned"}) /\ t.turns = s.turns
         /\ Kin(s.job[n], t.job[n])
         /\ t.job[n].stage = "joins turned" =>
              t.job[n].with = s.fg[s.job[n].piece] /\ s.fg[s.job[n].piece] # Nobody
<1>1. OnOne(s, t, n, {"sent", "joins turned"}) /\ t.turns = s.turns
  BY BeginIs
<1>2. CASE s.fg[s.job[n].piece] # Nobody
  <2>0. PICK stage \in Stages : stage = "joins turned"
    BY DEF Stages
  <2>1. PICK u : u = Joins(s, n, stage)
    OBVIOUS
  <2>2. Kin(s.job[n], u.job[n]) /\ u.job[n].with = s.fg[s.job[n].piece] /\ u \in State
    BY <2>1, JoinsKin DEF OnOne
  <2>3. t = [u EXCEPT !.spare = Append(u.spare, Size[s.job[n].piece])]
    BY <1>2, <2>0, <2>1 DEF Begin
  <2>4. t.job = u.job
    BY <2>2, <2>3 DEF State
  <2> QED BY <1>1, <1>2, <2>2, <2>4
<1>3. CASE s.fg[s.job[n].piece] = Nobody
  <2>0. PICK stage \in Stages : stage = "sent"
    BY DEF Stages
  <2>1. t = Stage(s, n, stage)
    BY <1>3, <2>0 DEF Begin
  <2>2. OnOne(s, t, n, {stage}) /\ Kin(s.job[n], t.job[n])
    BY <2>1, StageKin
  <2>3. t.job[n].stage = "sent"
    BY <2>0, <2>2 DEF OnOne
  <2> QED BY <1>1, <2>2, <2>3
<1> QED BY <1>2, <1>3

(* What the calls below do: t is as tidy as s was, and as pumped.          *)
StaysTidy(s, t, Y, A, W) == Tidy(t, Y, A, W) /\ (Pumped(s) => Pumped(t))

LEMMA StaysTrans ==
  ASSUME NEW s, NEW t, NEW u, NEW X, NEW Y, NEW A, NEW W,
         StaysTidy(s, t, X, A, W), StaysTidy(t, u, Y, A, W)
  PROVE  StaysTidy(s, u, Y, A, W)
BY DEF StaysTidy

(* A turn given.                                                           *)
LEMMA BeginTidy ==
  ASSUME Constants, NEW s, Good(s), NEW X, NEW A, NEW W, Tidy(s, X, A, W),
         NEW n, Live(s, n), n \notin Queued(s),
         NEW u \in State, Same(s, u), u.job = s.job, Range(s.turns) \ {n} \subseteq Range(u.turns),
         NEW t, t = Begin(u, n)
  PROVE  StaysTidy(s, t, X \ {n}, A, W)
<1>1. n \in Jobs /\ Live(u, n) /\ s.job[n] \in Job /\ s \in State
  BY LiveIs DEF Live, Good
<1>2. /\ OnOne(u, t, n, {"sent", "joins turned"}) /\ t.turns = u.turns
      /\ Kin(u.job[n], t.job[n])
      /\ t.job[n].stage = "joins turned" =>
           t.job[n].with = u.fg[u.job[n].piece] /\ u.fg[u.job[n].piece] # Nobody
  BY <1>1, BeginKin
<1>3. /\ Same(s, t) /\ Live(t, n) /\ t.job[n].stage \in {"sent", "joins turned"}
      /\ \A m \in Jobs \ {n} : t.job[m] = s.job[m]
  BY <1>2 DEF OnOne, Same
<1>4. Kin(s.job[n], t.job[n])
  BY <1>2
<1>5. u.fg = s.fg /\ s.job[n].piece \in Pieces
  BY <1>1 DEF Same, Job
<1>6. t.job[n].stage = "joins turned" => t.job[n].with \in A
  BY <1>2, <1>5 DEF Tidy, BroughtOK
<1>7. Placed(t, n, A)
  BY <1>3, <1>6 DEF Placed, RestStages, JoinStages
<1>8. t.job[n].kind = "announced" => t.job[n].forLoad
  BY <1>1, <1>4 DEF Kin, Tidy, LoadsOK
<1>9. n \notin Range(s.placeQ) /\ Range(s.placeQ) \subseteq Jobs /\ Queued(s) \subseteq Jobs
  BY QueuedJobs
<1>10. Range(s.turns) \ {n} \subseteq Range(t.turns)
  BY <1>2
<1>11. Tidy(t, X \ {n}, A, W)
  <2>1. PICK Y : Y = X \ {n}
    OBVIOUS
  <2>2. \A m \in X : m \in Y \/ m = n
    BY <2>1
  <2>3. Tidy(t, Y, A, W)
    BY <1>1, <1>3, <1>7, <1>8, <1>9, <1>10, <2>2, OneTidy
  <2> QED BY <2>1, <2>3
<1>12. ASSUME Pumped(s) PROVE Pumped(t)
  <2>1. t.wantQ = s.wantQ /\ t.placeQ = s.placeQ
    BY <1>3 DEF Same
  <2>2. t.job[n].kind = s.job[n].kind /\ t.job[n].stage # "queued"
    BY <1>3, <1>4 DEF Kin
  <2> QED BY <1>1, <1>3, <1>9, <1>12, <2>1, <2>2, OnePumped
<1> QED BY <1>11, <1>12 DEF StaysTidy

LEMMA KickOneTidy ==
  ASSUME Constants, NEW X, NEW A, NEW W, NEW acc, Good(acc.s), Tidy(acc.s, X, A, W),
         acc = [s |-> acc.s, stop |-> acc.stop],
         NEW n, Live(acc.s, n), n \notin Queued(acc.s), NEW t, t = KickOne(acc, n)
  PROVE  StaysTidy(acc.s, t.s, X, A, W)
<1>1. PICK s : s = acc.s
  OBVIOUS
<1>2. s \in State /\ Good(s) /\ Tidy(s, X, A, W) /\ Live(s, n) /\ n \notin Queued(s)
  BY <1>1 DEF Good
<1>3. PICK q : q = From(s.turns, n)
  OBVIOUS
<1>4. q \in Seq(Jobs) /\ Range(q) = Range(s.turns) \ {n}
  BY <1>2, <1>3, FromIs, StateParts
<1>5. PICK u : u = [s EXCEPT !.turns = q]
  OBVIOUS
<1>6. u \in State /\ Same(s, u) /\ u.job = s.job /\ u.turns = q
  BY <1>2, <1>4, <1>5, SetTurns
<1>7. PICK v : v = Begin(u, n)
  OBVIOUS
<1>8. StaysTidy(s, v, X \ {n}, A, W)
  <2>1. Range(s.turns) \ {n} \subseteq Range(u.turns)
    BY <1>4, <1>6
  <2> QED BY <1>2, <1>6, <1>7, <2>1, BeginTidy
<1>9. StaysTidy(s, v, X, A, W)
  <2>1. X \ {n} \subseteq X
    OBVIOUS
  <2> QED BY <1>8, <2>1, TidyMore DEF StaysTidy
<1>10. \/ t = acc
       \/ t = [acc EXCEPT !.s = v]
       \/ t = [acc EXCEPT !.stop = ~s.job[n].urgent]
  BY <1>1, <1>3, <1>5, <1>7 DEF KickOne
<1>11. t.s \in {s, v}
  BY <1>1, <1>10
<1>12. StaysTidy(s, s, X, A, W)
  BY <1>2 DEF StaysTidy
<1> QED BY <1>1, <1>9, <1>11, <1>12

LEMMA KickTidy ==
  ASSUME Constants, NEW s, Good(s), NEW X, NEW A, NEW W, Tidy(s, X, A, W), NEW t, t = Kick(s)
  PROVE  StaysTidy(s, t, X, A, W)
<1>0. s \in State /\ TurnsOK(s) /\ QueuesOK(s)
  BY DEF Good
<1>1. Len(s.turns) \in Nat /\ \A i \in 1..Len(s.turns) : s.turns[i] \in Range(s.turns)
  BY <1>0, StateParts DEF Range
<1>2. PICK k : KickRuns(k, s)
  BY <1>1, KickIs
<1>3. /\ k[0] = [s |-> s, stop |-> FALSE]
      /\ \A i \in 1..Len(s.turns) : k[i] = KickOne(k[i - 1], s.turns[i])
      /\ Kick(s) = k[Len(s.turns)].s
  BY <1>2 DEF KickRuns
<1> DEFINE G == {i \in 0..Len(s.turns) :
                   /\ Moves(s, k[i].s, {}) /\ k[i] = [s |-> k[i].s, stop |-> k[i].stop]
                   /\ StaysTidy(s, k[i].s, X, A, W)}
<1>4. 0 \in G
  <2>1. Moves(s, k[0].s, {}) /\ k[0] = [s |-> k[0].s, stop |-> k[0].stop] /\ k[0].s = s
    BY <1>0, <1>3, NoneMoves
  <2>2. StaysTidy(s, k[0].s, X, A, W)
    BY <2>1 DEF StaysTidy
  <2> QED BY <1>1, <2>1, <2>2
<1>5. \A i \in 0..(Len(s.turns) - 1) : i \in G => i + 1 \in G
  <2> SUFFICES ASSUME NEW i \in 0..(Len(s.turns) - 1), i \in G PROVE i + 1 \in G
    OBVIOUS
  <2>1. i + 1 \in 1..Len(s.turns) /\ i + 1 \in 0..Len(s.turns) /\ (i + 1) - 1 = i
    BY <1>1
  <2>2. PICK n, acc, u : n = s.turns[i + 1] /\ acc = k[i] /\ u = k[i + 1]
    OBVIOUS
  <2>3. u = KickOne(acc, n) /\ n \in Range(s.turns)
    BY <1>1, <1>3, <2>1, <2>2
  <2>4. /\ Moves(s, acc.s, {}) /\ acc = [s |-> acc.s, stop |-> acc.stop]
        /\ StaysTidy(s, acc.s, X, A, W)
    BY <2>2
  <2>5. Moves(s, u.s, {}) /\ u = [s |-> u.s, stop |-> u.stop]
    BY <1>0, <2>3, <2>4, KickOneMoves
  <2>6. PICK v : v = acc.s
    OBVIOUS
  <2>7. Good(v) /\ Queued(v) = Queued(s)
    BY <1>0, <2>4, <2>6, MovesFine, MovesKeeps DEF Fine
  <2>8. Live(s, n) /\ s.job[n].stage = "turn" /\ n \in Jobs /\ n \notin Queued(s)
    BY <1>0, <2>3 DEF TurnsOK, QueuesOK, Live
  <2>9. Live(v, n) /\ n \notin Queued(v)
    BY <2>4, <2>6, <2>7, <2>8 DEF Moves, JobMoves
  <2>10. StaysTidy(v, u.s, X, A, W)
    BY <2>3, <2>4, <2>6, <2>7, <2>9, KickOneTidy DEF StaysTidy
  <2>11. StaysTidy(s, u.s, X, A, W)
    BY <2>4, <2>6, <2>10, StaysTrans
  <2> QED BY <2>1, <2>2, <2>5, <2>11
<1>6. Len(s.turns) \in G
  <2> HIDE DEF G
  <2> QED BY <1>1, <1>4, <1>5, UpTo
<1> QED BY <1>3, <1>6

(* A request is put in its place among the turns, and the link looks.      *)
LEMMA PutTidy ==
  ASSUME Constants, NEW s, Good(s), NEW X, NEW A, NEW W, Tidy(s, X, A, W),
         NEW n, Live(s, n), n \notin Queued(s), NEW j \in Job, Grows(s.job[n], j), j.stage = "turn",
         j.kind = s.job[n].kind, j.kind = "announced" => j.forLoad,
         NEW q \in Seq(Jobs), Range(q) = Range(s.turns) \cup {n},
         NEW u, WithJob(s, u, n, j), NEW t, t = Kick([u EXCEPT !.turns = q])
  PROVE  StaysTidy(s, t, X \ {n}, A, W)
<1>1. /\ n \in Jobs /\ u \in State /\ Same(s, u) /\ u.job = [s.job EXCEPT ![n] = j]
      /\ s \in State /\ TurnsOK(s) /\ QueuesOK(s)
  BY DEF Live, WithJob, Good
<1>2. PICK v : v = [u EXCEPT !.turns = q]
  OBVIOUS
<1>3. v \in State /\ Same(u, v) /\ v.job = u.job /\ v.turns = q
  BY <1>1, <1>2, SetTurns
<1>4. v.job[n] = j /\ \A m \in Jobs \ {n} : v.job[m] = s.job[m]
  BY <1>1, <1>3, StateParts
<1>5. Same(s, v) /\ Live(v, n)
  BY <1>1, <1>3, <1>4, LiveIs DEF Same
<1>6. Moves(s, v, {n})
  BY <1>1, <1>3, <1>4, <1>5, OneMoves
<1>7. Good(v)
  BY <1>6, MovesFine DEF Fine
<1>8. PICK Y : Y = X \ {n}
  OBVIOUS
<1>9. n \notin Range(s.placeQ) /\ Range(s.placeQ) \subseteq Jobs /\ Queued(s) \subseteq Jobs
  BY QueuedJobs
<1>10. Placed(v, n, A)
  BY <1>3, <1>4 DEF Placed, RestStages, JoinStages
<1>11. Tidy(v, Y, A, W)
  <2>1. \A m \in X : m \in Y \/ m = n
    BY <1>8
  <2>2. Range(s.turns) \ {n} \subseteq Range(v.turns)
    BY <1>3
  <2> QED BY <1>1, <1>4, <1>5, <1>9, <1>10, <2>1, <2>2, OneTidy
<1>12. StaysTidy(v, t, Y, A, W)
  BY <1>2, <1>7, <1>11, KickTidy
<1>13. ASSUME Pumped(s) PROVE Pumped(v)
  <2>1. v.wantQ = s.wantQ /\ v.placeQ = s.placeQ
    BY <1>5 DEF Same
  <2> QED BY <1>1, <1>4, <1>9, <1>13, <2>1, OnePumped
<1> QED BY <1>8, <1>11, <1>12, <1>13, StaysTrans DEF StaysTidy

LEMMA AskTidy ==
  ASSUME Constants, NEW s, Good(s), NEW X, NEW A, NEW W, Tidy(s, X, A, W),
         NEW n, Live(s, n), n \notin Queued(s), s.job[n].stage # "turn", NEW t, t = Ask(s, n)
  PROVE  StaysTidy(s, t, X \ {n}, A, W)
<1>1. s.job[n] \in Job /\ n \in Jobs /\ s \in State /\ TurnsOK(s) /\ QueuesOK(s)
  BY LiveIs DEF Good
<1>2. n \notin Range(s.turns)
  BY DEF Good, TurnsOK
<1>3. CASE s.fg[s.job[n].piece] # Nobody
  <2>1. PICK stage \in Stages : stage = "joins"
    BY DEF Stages
  <2>2. t = Joins(s, n, stage)
    BY <1>3, <2>1 DEF Ask
  <2>3. /\ OnOne(s, t, n, {stage}) /\ t.turns = s.turns
        /\ Kin(s.job[n], t.job[n]) /\ t.job[n].with = s.fg[s.job[n].piece]
    BY <1>1, <2>2, JoinsKin
  <2>4. /\ Same(s, t) /\ Live(t, n) /\ t.job[n].stage = "joins"
        /\ \A m \in Jobs \ {n} : t.job[m] = s.job[m]
    BY <2>1, <2>3 DEF OnOne
  <2>5. t.job[n].with \in A
    <3>1. s.job[n].piece \in Pieces
      BY <1>1 DEF Job
    <3> QED BY <1>3, <2>3, <3>1 DEF Tidy, BroughtOK
  <2>6. Placed(t, n, A)
    BY <2>4, <2>5 DEF Placed, RestStages, JoinStages
  <2>7. t.job[n].kind = "announced" => t.job[n].forLoad
    BY <1>1, <2>3 DEF Kin, Tidy, LoadsOK
  <2>8. n \notin Range(s.placeQ) /\ Range(s.placeQ) \subseteq Jobs /\ Queued(s) \subseteq Jobs
    BY QueuedJobs
  <2>9. PICK Y : Y = X \ {n}
    OBVIOUS
  <2>10. \A m \in X : m \in Y \/ m = n
    BY <2>9
  <2>11. Tidy(t, Y, A, W)
    BY <1>1, <2>3, <2>4, <2>6, <2>7, <2>8, <2>10, OneTidy
  <2>12. ASSUME Pumped(s) PROVE Pumped(t)
    <3>1. t.wantQ = s.wantQ /\ t.placeQ = s.placeQ
      BY <2>4 DEF Same
    <3>2. t.job[n].kind = s.job[n].kind /\ t.job[n].stage # "queued"
      BY <2>3, <2>4 DEF Kin
    <3> QED BY <1>1, <2>4, <2>8, <2>12, <3>1, <3>2, OnePumped
  <2> QED BY <2>9, <2>11, <2>12 DEF StaysTidy
<1>4. CASE s.fg[s.job[n].piece] = Nobody /\ s.turns = <<>> /\ MayStart(s, n)
  <2>1. t = Begin(s, n)
    BY <1>4 DEF Ask
  <2>2. Same(s, s) /\ s.job = s.job /\ Range(s.turns) \ {n} \subseteq Range(s.turns)
    BY DEF Same
  <2> QED BY <1>1, <2>1, <2>2, BeginTidy
<1>5. CASE s.fg[s.job[n].piece] = Nobody /\ ~(s.turns = <<>> /\ MayStart(s, n))
  <2>1. PICK i : i = [s.job[n] EXCEPT !.prio = Prio[s.job[n].kind]]
    OBVIOUS
  <2>2. i \in Job /\ Grows(s.job[n], i) /\ Kin(s.job[n], i)
    <3>1. Prio[s.job[n].kind] \in Nat
      BY <1>1 DEF Job, Kinds, Prio
    <3> QED BY <1>1, <2>1, <3>1 DEF Job, Grows, Kin
  <2>3. PICK u : u = [s EXCEPT !.job[n].prio = Prio[s.job[n].kind]]
    OBVIOUS
  <2>4. u = [s EXCEPT !.job = [s.job EXCEPT ![n] = i]]
    BY <2>1, <2>3
  <2>5. WithJob(s, u, n, i) /\ u.turns = s.turns
    BY <1>1, <2>2, <2>4, SetJob
  <2>6. u \in State /\ u.job[n] = i /\ Live(u, n) /\ Same(s, u) /\ u.job = [s.job EXCEPT ![n] = i]
    BY <1>1, <2>2, <2>5, StateParts, LiveIs DEF WithJob
  <2>7. PICK stage \in Stages : stage = "turn"
    BY DEF Stages
  <2>8. PICK v : v = Stage(u, n, stage)
    OBVIOUS
  <2>9. PICK j : j = [i EXCEPT !.stage = stage]
    OBVIOUS
  <2>10. j \in Job /\ Grows(s.job[n], j) /\ j.stage = "turn" /\ Kin(s.job[n], j)
    BY <2>2, <2>7, <2>9 DEF Job, Grows, Kin
  <2>11. v = [s EXCEPT !.job = [s.job EXCEPT ![n] = j]]
    <3>1. v = [u EXCEPT !.job = [u.job EXCEPT ![n] = j]]
      BY <2>6, <2>8, <2>9 DEF Stage
    <3>2. v = [s EXCEPT !.job = [u.job EXCEPT ![n] = j]]
      BY <2>4, <3>1
    <3>3. [u.job EXCEPT ![n] = j] = [s.job EXCEPT ![n] = j]
      BY <2>6
    <3> QED BY <3>2, <3>3
  <2>12. WithJob(s, v, n, j) /\ v.turns = s.turns
    BY <1>1, <2>10, <2>11, SetJob
  <2>13. PICK q : q = InOrder(u, n, s.turns)
    OBVIOUS
  <2>14. q \in Seq(Jobs) /\ Range(q) = Range(s.turns) \cup {n}
    BY <1>1, <2>13, InOrderIs, StateParts
  <2>15. t = Kick([v EXCEPT !.turns = q])
    BY <1>5, <2>3, <2>7, <2>8, <2>12, <2>13 DEF Ask
  <2>16. j.kind = s.job[n].kind /\ (j.kind = "announced" => j.forLoad)
    BY <1>1, <2>10 DEF Kin, Tidy, LoadsOK
  <2> QED BY <2>10, <2>12, <2>14, <2>15, <2>16, PutTidy
<1> QED BY <1>3, <1>4, <1>5

LEMMA ReorderTidy ==
  ASSUME Constants, NEW s, Good(s), NEW X, NEW A, NEW W, Tidy(s, X, A, W), NEW n, Live(s, n),
         NEW j \in Job, Grows(s.job[n], j), j.stage = s.job[n].stage, j.kind = s.job[n].kind,
         j.with = s.job[n].with, j.kind = "announced" => j.forLoad,
         n \in Range(s.placeQ) => ~j.forLoad,
         NEW u, u = [s EXCEPT !.job = [s.job EXCEPT ![n] = j]], NEW t, t = Reorder(u, n)
  PROVE  Tidy(t, X, A, W)
<1>1. s.job[n] \in Job /\ n \in Jobs /\ s \in State /\ TurnsOK(s) /\ QueuesOK(s)
  BY LiveIs DEF Good
<1>2. WithJob(s, u, n, j) /\ u.turns = s.turns
  BY <1>1, SetJob
<1>3. /\ u \in State /\ u.job[n] = j /\ Live(u, n) /\ Same(s, u)
      /\ \A m \in Jobs \ {n} : u.job[m] = s.job[m]
  <2>1. u \in State /\ Same(s, u) /\ u.job = [s.job EXCEPT ![n] = j]
    BY <1>2 DEF WithJob
  <2>2. u.job[n] = j /\ \A m \in Jobs \ {n} : u.job[m] = s.job[m]
    BY <1>1, <2>1, StateParts
  <2> QED BY <1>1, <2>1, <2>2, LiveIs
<1>4. CASE j.stage # "turn"
  <2>1. t = u
    BY <1>3, <1>4 DEF Reorder
  <2>2. n \in X \/ Placed(u, n, A)
    <3>1. Queued(u) = Queued(s)
      BY <1>3 DEF Same, Queued
    <3>2. n \in X \/ Placed(s, n, A)
      BY <1>1 DEF Tidy, PlacedBut
    <3>3. u.job[n].stage = s.job[n].stage /\ u.job[n].with = s.job[n].with /\ u.turns = s.turns
      BY <1>2, <1>3
    <3> QED BY <3>1, <3>2, <3>3 DEF Placed
  <2>3. n \in Range(s.placeQ) => j.kind = "place" /\ ~j.forLoad
    BY DEF Tidy, PredictedOK
  <2>4. Range(s.placeQ) \subseteq Jobs /\ Range(s.turns) \ {n} \subseteq Range(u.turns)
    BY <1>2, QueuedJobs
  <2>5. \A m \in X : m \in X \/ m = n
    OBVIOUS
  <2>6. /\ Same(s, u) /\ Live(u, n) /\ u.job[n].kind = "announced" => u.job[n].forLoad
        /\ n \in Range(s.placeQ) => u.job[n].kind = "place" /\ ~u.job[n].forLoad
    BY <1>3, <2>3
  <2>7. Tidy(u, X, A, W)
    BY <1>1, <1>3, <2>2, <2>4, <2>5, <2>6, OneTidy
  <2> QED BY <2>1, <2>7
<1>5. CASE j.stage = "turn"
  <2>1. n \notin Queued(s) /\ n \in Jobs
    BY <1>1, <1>5 DEF QueuesOK
  <2>2. PICK r : r = From(s.turns, n)
    OBVIOUS
  <2>3. r \in Seq(Jobs) /\ Range(r) = Range(s.turns) \ {n}
    BY <1>1, <2>2, FromIs, StateParts
  <2>4. PICK q : q = InOrder(u, n, r)
    OBVIOUS
  <2>5. q \in Seq(Jobs) /\ Range(q) = Range(s.turns) \cup {n}
    <3>1. q \in Seq(Jobs) /\ Range(q) = Range(r) \cup {n}
      BY <1>1, <2>3, <2>4, InOrderIs
    <3> QED BY <2>3, <3>1
  <2>6. t = Kick([u EXCEPT !.turns = q])
    BY <1>2, <1>3, <1>5, <2>2, <2>4 DEF Reorder
  <2>7. StaysTidy(s, t, X \ {n}, A, W)
    BY <1>2, <1>5, <2>1, <2>5, <2>6, PutTidy
  <2>8. X \ {n} \subseteq X
    OBVIOUS
  <2> QED BY <2>7, <2>8, TidyMore DEF StaysTidy
<1> QED BY <1>4, <1>5

LEMMA PromoteTidy ==
  ASSUME Constants, NEW s, Good(s), NEW X, NEW A, NEW W, Tidy(s, X, A, W), NEW n, Live(s, n),
         NEW t, t = Promote(s, n)
  PROVE  Tidy(t, X, A, W)
<1>1. s.job[n] \in Job /\ n \in Jobs
  BY LiveIs DEF Good
<1>2. CASE s.job[n].urgent
  BY <1>2 DEF Promote
<1>3. CASE ~s.job[n].urgent
  <2>1. PICK j : j = [s.job[n] EXCEPT !.urgent = TRUE]
    OBVIOUS
  <2>2. /\ j \in Job /\ Grows(s.job[n], j) /\ j.stage = s.job[n].stage /\ j.kind = s.job[n].kind
        /\ j.with = s.job[n].with /\ j.forLoad = s.job[n].forLoad
    BY <1>1, <2>1 DEF Job, Grows
  <2>3. PICK u : u = [s EXCEPT !.job = [s.job EXCEPT ![n] = j]]
    OBVIOUS
  <2>4. t = Reorder(u, n)
    BY <1>3, <2>1, <2>3 DEF Promote
  <2>5. (j.kind = "announced" => j.forLoad) /\ (n \in Range(s.placeQ) => ~j.forLoad)
    BY <1>1, <2>2 DEF Tidy, LoadsOK, PredictedOK
  <2> QED BY <2>2, <2>3, <2>4, <2>5, ReorderTidy
<1> QED BY <1>2, <1>3

LEMMA ForLoadTidy ==
  ASSUME Constants, NEW s, Good(s), NEW X, NEW A, NEW W, Tidy(s, X, A, W), NEW n, Live(s, n),
         s.job[n].stage # "queued", NEW t, t = ForLoad(s, n)
  PROVE  Tidy(t, X, A, W)
<1>1. s.job[n] \in Job /\ n \in Jobs /\ s \in State /\ n \notin Range(s.placeQ)
  BY LiveIs DEF Good, QueuesOK, Queued
<1>2. CASE s.job[n].forLoad
  BY <1>2 DEF ForLoad
<1>3. CASE ~s.job[n].forLoad
  <2> DEFINE p == IF s.job[n].stage = "turn" THEN 0 ELSE s.job[n].prio
  <2>1. PICK j : j = [[s.job[n] EXCEPT !.forLoad = TRUE] EXCEPT !.prio = p]
    OBVIOUS
  <2>2. /\ j \in Job /\ Grows(s.job[n], j) /\ j.stage = s.job[n].stage /\ j.forLoad
        /\ j.kind = s.job[n].kind /\ j.with = s.job[n].with
    BY <1>1, <2>1 DEF Job, Grows
  <2>3. PICK u : u = [s EXCEPT !.job = [s.job EXCEPT ![n] = j]]
    OBVIOUS
  <2>4. t = Reorder(u, n)
    BY <1>1, <1>3, <2>1, <2>3, StateParts DEF ForLoad
  <2> QED BY <1>1, <2>2, <2>3, <2>4, ReorderTidy
<1> QED BY <1>2, <1>3

----------------------------------------------------------------------------
(* Units.                                                                  *)

SettleLeaves(s, t, n) ==
  /\ t.turns = s.turns /\ t.wantQ = s.wantQ /\ t.placeQ = s.placeQ /\ t.fg = s.fg
  /\ t.here = s.here
  /\ t.job[n] = NoJob /\ \A m \in Jobs \ {n} : t.job[m] = s.job[m]
  /\ \A r \in Readers :
       /\ t.read[r].state = s.read[r].state
       /\ s.read[r].state = "flying" => t.read[r].readers = s.read[r].readers
  /\ \A l \in Lists : t.list[l] # Over =>
       /\ s.list[l] # Over /\ t.list[l].hold = s.list[l].hold /\ t.list[l].kind = s.list[l].kind
       /\ DOMAIN t.list[l].on = DOMAIN s.list[l].on
       /\ \A p \in DOMAIN s.list[l].on :
            t.list[l].on[p].job \in {s.list[l].on[p].job, Nobody} \ {n}

LEMMA SettleIs ==
  ASSUME Constants, NEW s \in State, NEW n, Live(s, n), NEW t, t = Settle(s, n)
  PROVE  SettleLeaves(s, t, n)
<1>1. n \in Jobs /\ s.job[n] \in Job /\ n # Nobody
  BY LiveIs DEF Constants
<1>2. PICK jobs, flights : /\ jobs = [s.job EXCEPT ![n] = NoJob]
                           /\ flights = [s.flights EXCEPT ![s.job[n].piece] = IF @ = n THEN Nobody ELSE @]
  OBVIOUS
<1>3. PICK list : list = [l \in Lists |->
        IF s.list[l] = Over THEN Over
        ELSE [s.list[l] EXCEPT !.on = [q \in DOMAIN @ |->
               IF @[q].job = n THEN [@[q] EXCEPT !.job = Nobody] ELSE @[q]]]]
  OBVIOUS
<1>4. PICK read : read = [r \in Readers |->
        IF s.read[r].state = "flying" THEN [s.read[r] EXCEPT !.jobs = @ \ {n}] ELSE s.read[r]]
  OBVIOUS
<1>5. t = [s EXCEPT !.job = jobs, !.flights = flights, !.list = list, !.read = read]
  BY <1>2, <1>3, <1>4 DEF Settle
<1>6. /\ t.job = jobs /\ t.list = list /\ t.read = read /\ t.turns = s.turns /\ t.here = s.here
      /\ t.wantQ = s.wantQ /\ t.placeQ = s.placeQ /\ t.fg = s.fg
  BY ZenonT(60), <1>5 DEF State
<1>7. jobs[n] = NoJob /\ \A m \in Jobs \ {n} : jobs[m] = s.job[m]
  BY <1>1, <1>2, StateParts
<1>8. ASSUME NEW r \in Readers
      PROVE  /\ read[r].state = s.read[r].state
             /\ s.read[r].state = "flying" => read[r].readers = s.read[r].readers
  <2>1. s.read[r] \in Asked \cup Flying \cup {Over, FgOver}
    BY StateParts
  <2>2. CASE s.read[r].state = "flying"
    <3>1. s.read[r] \in Flying
      BY <2>1, <2>2 DEF Asked, Over, FgOver
    <3>2. read[r] = [s.read[r] EXCEPT !.jobs = @ \ {n}]
      BY <1>4, <2>2
    <3> QED BY <3>1, <3>2 DEF Flying
  <2>3. CASE s.read[r].state # "flying"
    BY <1>4, <2>3
  <2> QED BY <2>2, <2>3
<1>9. ASSUME NEW l \in Lists, list[l] # Over
      PROVE  /\ s.list[l] # Over /\ list[l].hold = s.list[l].hold /\ list[l].kind = s.list[l].kind
             /\ DOMAIN list[l].on = DOMAIN s.list[l].on
             /\ \A p \in DOMAIN s.list[l].on :
                  list[l].on[p].job \in {s.list[l].on[p].job, Nobody} \ {n}
  <2> DEFINE o == s.list[l].on
             w == [q \in DOMAIN o |-> IF o[q].job = n THEN [o[q] EXCEPT !.job = Nobody] ELSE o[q]]
  <2>0. s.list[l] # Over
    BY <1>3, <1>9
  <2>1. s.list[l] \in OpenList
    BY <2>0, StateParts
  <2>2. o \in Parts
    BY <2>1 DEF OpenList
  <2>3. PICK D \in SUBSET Pieces : o \in [D -> Part]
    BY <2>2 DEF Parts
  <2>4. w \in [D -> Part] /\ \A q \in D : w[q].job \in {o[q].job, Nobody} \ {n}
    BY <1>1, <2>3 DEF Part
  <2>6. list[l] = [s.list[l] EXCEPT !.on = w]
    BY <1>3, <2>0
  <2> HIDE DEF w
  <2>7. list[l].hold = s.list[l].hold /\ list[l].kind = s.list[l].kind /\ list[l].on = w
    BY <2>1, <2>6 DEF OpenList
  <2>8. DOMAIN w = D /\ DOMAIN o = D
    BY <2>3, <2>4
  <2> HIDE DEF o
  <2>9. o = s.list[l].on
    BY DEF o
  <2> QED BY <2>0, <2>4, <2>7, <2>8, <2>9
<1>10. \A l \in Lists : t.list[l] # Over =>
       /\ s.list[l] # Over /\ t.list[l].hold = s.list[l].hold /\ t.list[l].kind = s.list[l].kind
       /\ DOMAIN t.list[l].on = DOMAIN s.list[l].on
       /\ \A p \in DOMAIN s.list[l].on :
            t.list[l].on[p].job \in {s.list[l].on[p].job, Nobody} \ {n}
  BY <1>6, <1>9
<1>11. \A r \in Readers :
       /\ t.read[r].state = s.read[r].state
       /\ s.read[r].state = "flying" => t.read[r].readers = s.read[r].readers
  BY <1>6, <1>8
<1> QED BY <1>6, <1>7, <1>10, <1>11 DEF SettleLeaves

(* A request settled; the queues are pumped as before if it was no unit    *)
(* under way.                                                              *)
LEMMA SettleTidy ==
  ASSUME Constants, NEW s, Good(s), NEW X, NEW A, NEW W, Tidy(s, X, A, W),
         NEW n, Live(s, n), n \notin Queued(s), NEW t, t = Settle(s, n)
  PROVE  /\ Tidy(t, X \ {n}, A, W) /\ t.job[n] = NoJob
         /\ t.wantQ = s.wantQ /\ t.placeQ = s.placeQ
         /\ Pumped(s) /\ (s.job[n].kind \in {"announced", "place"} => s.job[n].stage = "queued")
              => Pumped(t)
<1>1. s \in State /\ n \in Jobs /\ n # Nobody
  BY DEF Good, Live, Constants
<1>2. SettleLeaves(s, t, n)
  BY <1>1, SettleIs
<1>3. /\ t.turns = s.turns /\ t.wantQ = s.wantQ /\ t.placeQ = s.placeQ /\ t.fg = s.fg
      /\ t.job[n] = NoJob /\ \A m \in Jobs \ {n} : t.job[m] = s.job[m]
  BY <1>2 DEF SettleLeaves
<1>4. Queued(t) = Queued(s) /\ Queued(s) \subseteq Jobs /\ Range(s.placeQ) \subseteq Jobs
      /\ n \notin Range(s.placeQ)
  BY <1>3, QueuedJobs DEF Queued
<1>5. PlacedBut(t, X \ {n}, A)
  <2> SUFFICES ASSUME NEW m \in Jobs \ (X \ {n}), Live(t, m) PROVE Placed(t, m, A)
    BY DEF PlacedBut
  <2>1. m # n
    BY <1>3 DEF Live
  <2>2. m \in Jobs \ X /\ t.job[m] = s.job[m]
    BY <1>3, <2>1
  <2>3. Placed(s, m, A)
    BY <2>2 DEF Tidy, PlacedBut, Live
  <2> QED BY <1>3, <1>4, <2>2, <2>3 DEF Placed
<1>6. LoadsOK(t)
  <2> SUFFICES ASSUME NEW m \in Jobs, t.job[m].kind = "announced" PROVE t.job[m].forLoad
    BY DEF LoadsOK
  <2>1. m # n
    BY <1>3 DEF NoJob
  <2> QED BY <1>3, <2>1 DEF Tidy, LoadsOK
<1>7. PredictedOK(t)
  BY <1>3, <1>4 DEF Tidy, PredictedOK
<1>8. BroughtOK(t, A)
  BY <1>3 DEF Tidy, BroughtOK
<1>9. ReadsOK(t, A, W)
  BY <1>2 DEF Tidy, ReadsOK, SettleLeaves
<1>10. ListsOK(t)
  <2> SUFFICES ASSUME NEW l \in Lists, t.list[l] # Over
               PROVE  (t.list[l].hold => t.list[l].kind = "announced") /\ Unmet(t, t.list[l].on)
    BY DEF ListsOK
  <2>1. /\ s.list[l] # Over /\ t.list[l].hold = s.list[l].hold /\ t.list[l].kind = s.list[l].kind
        /\ DOMAIN t.list[l].on = DOMAIN s.list[l].on
        /\ \A p \in DOMAIN s.list[l].on :
             t.list[l].on[p].job \in {s.list[l].on[p].job, Nobody} \ {n}
    BY <1>2 DEF SettleLeaves
  <2>2. (s.list[l].hold => s.list[l].kind = "announced") /\ Unmet(s, s.list[l].on)
    BY <2>1 DEF Tidy, ListsOK
  <2>3. Unmet(t, t.list[l].on)
    <3> SUFFICES ASSUME NEW p \in DOMAIN t.list[l].on
                 PROVE  t.list[l].on[p].job = Nobody \/ Live(t, t.list[l].on[p].job)
      BY DEF Unmet
    <3>1. PICK x, y : x = t.list[l].on[p].job /\ y = s.list[l].on[p].job
      OBVIOUS
    <3>2. x \in {y, Nobody} \ {n} /\ (y = Nobody \/ Live(s, y))
      BY <2>1, <2>2, <3>1 DEF Unmet
    <3>3. x = Nobody \/ Live(t, x)
      BY <1>3, <3>2 DEF Live
    <3> QED BY <3>1, <3>3
  <2> QED BY <2>1, <2>2, <2>3
<1>11. ASSUME Pumped(s), s.job[n].kind \in {"announced", "place"} => s.job[n].stage = "queued"
       PROVE  Pumped(t)
  BY <1>1, <1>3, <1>4, <1>11, OnePumped
<1> QED BY <1>3, <1>5, <1>6, <1>7, <1>8, <1>9, <1>10, <1>11 DEF Tidy

LEMMA RunWantTidy ==
  ASSUME Constants, NEW s, Good(s), NEW X, NEW A, NEW W, Tidy(s, X, A, W),
         NEW n, Live(s, n), n \notin Queued(s), s.job[n].stage = "queued",
         NEW t, t = RunWant(s, n)
  PROVE  Tidy(t, X \ {n}, A, W) /\ t.wantQ = s.wantQ /\ t.placeQ = s.placeQ
<1>1. s \in State /\ TurnsOK(s) /\ QueuesOK(s) /\ n \in Jobs /\ s.job[n] \in Job
  BY LiveIs DEF Good
<1>2. n \notin Range(s.turns)
  BY DEF Good, TurnsOK
<1>3. CASE s.job[n].piece \in s.here
  <2>1. t = Settle(s, n)
    BY <1>3 DEF RunWant
  <2> QED BY <2>1, SettleTidy
<1>4. CASE s.job[n].piece \notin s.here /\ s.job[n].kind = "announced"
  <2>1. PICK j : j = [s.job[n] EXCEPT !.urgent = TRUE]
    OBVIOUS
  <2>2. /\ j \in Job /\ Grows(s.job[n], j) /\ j.stage = s.job[n].stage /\ j.kind = s.job[n].kind
        /\ j.forLoad = s.job[n].forLoad
    BY <1>1, <2>1 DEF Job, Grows
  <2>3. PICK u : u = [s EXCEPT !.job = [s.job EXCEPT ![n] = j]]
    OBVIOUS
  <2>4. WithJob(s, u, n, j) /\ u.turns = s.turns
    BY <1>1, <2>2, <2>3, SetJob
  <2>5. /\ u \in State /\ u.job[n] = j /\ Live(u, n) /\ Same(s, u)
        /\ \A m \in Jobs \ {n} : u.job[m] = s.job[m]
    <3>1. u \in State /\ Same(s, u) /\ u.job = [s.job EXCEPT ![n] = j]
      BY <2>4 DEF WithJob
    <3>2. u.job[n] = j /\ \A m \in Jobs \ {n} : u.job[m] = s.job[m]
      BY <1>1, <3>1, StateParts
    <3> QED BY <1>1, <2>2, <3>1, <3>2, LiveIs
  <2>6. Moves(s, u, {n})
    BY <1>1, <1>2, <2>2, <2>4, <2>5, OneMoves
  <2>7. Good(u) /\ Queued(u) = Queued(s)
    BY <1>1, <2>6, MovesFine, MovesKeeps DEF Fine
  <2>8. t = Ask(u, n)
    BY <1>4, <2>1, <2>3 DEF RunWant
  <2>9. PICK Z : Z = X \cup {n}
    OBVIOUS
  <2>10. Tidy(u, Z, A, W)
    <3>1. /\ n \in Z /\ (\A m \in X : m \in Z \/ m = n) /\ n \notin Range(s.placeQ)
          /\ Range(s.placeQ) \subseteq Jobs /\ Range(s.turns) \ {n} \subseteq Range(u.turns)
      BY <2>4, <2>9, QueuedJobs
    <3>2. u.job[n].kind = "announced" => u.job[n].forLoad
      BY <1>1, <2>2, <2>5 DEF Tidy, LoadsOK
    <3> QED BY <1>1, <2>5, <3>1, <3>2, OneTidy
  <2>11. StaysTidy(u, t, Z \ {n}, A, W)
    BY <2>2, <2>5, <2>7, <2>8, <2>10, AskTidy
  <2>12. Moves(u, t, {n})
    BY <2>2, <2>5, <2>7, <2>8, AskMoves DEF Good
  <2>13. Z \ {n} = X \ {n}
    BY <2>9
  <2> QED BY <2>5, <2>11, <2>12, <2>13 DEF StaysTidy, Moves, Same
<1>5. CASE s.job[n].piece \notin s.here /\ s.job[n].kind # "announced"
  <2>1. t = Ask(s, n)
    BY <1>5 DEF RunWant
  <2>2. Moves(s, t, {n}) /\ StaysTidy(s, t, X \ {n}, A, W)
    BY <1>1, <2>1, AskMoves, AskTidy
  <2> QED BY <2>2 DEF StaysTidy, Moves, Same
<1> QED BY <1>3, <1>4, <1>5

(* The queue pumpWant starts the first of.                                 *)
NextUnits(s) ==
  IF Urgent(s, s.wantQ) # <<>> THEN Urgent(s, s.wantQ)
  ELSE IF Urgent(s, s.placeQ) # <<>> THEN Urgent(s, s.placeQ)
  ELSE IF s.wantQ # <<>>
       THEN IF Cardinality(Started(s, "announced")) < WantRequests THEN s.wantQ ELSE <<>>
  ELSE IF Cardinality(Started(s, "place")) < PlaceRequests THEN s.placeQ ELSE <<>>

OneLessQueued(s, t) == \E n \in Queued(s) : Queued(t) \subseteq Queued(s) \ {n}

LEMMA PumpOneTidy ==
  ASSUME Constants, NEW s, Good(s), NEW X, NEW A, NEW W, Tidy(s, X, A, W), NEW t, t = PumpOne(s)
  PROVE  /\ Tidy(t, X, A, W)
         /\ NextUnits(s) = <<>> => t = s
         /\ NextUnits(s) # <<>> => OneLessQueued(s, t)
<1>1. s \in State /\ s.wantQ \in Seq(Jobs) /\ s.placeQ \in Seq(Jobs)
  BY StateParts DEF Good
<1>2. PICK q : q = NextUnits(s)
  OBVIOUS
<1>3. t = IF q = <<>> THEN s
          ELSE RunWant([s EXCEPT !.wantQ = From(@, q[1]), !.placeQ = From(@, q[1])], q[1])
  BY <1>2 DEF PumpOne, NextUnits
<1>4. CASE q = <<>>
  BY <1>2, <1>3, <1>4
<1>5. CASE q # <<>>
  <2>1. q \in {Urgent(s, s.wantQ), Urgent(s, s.placeQ), s.wantQ, s.placeQ}
    BY <1>2, <1>5 DEF NextUnits
  <2>2. q \in Seq(Jobs) /\ Range(q) \subseteq Queued(s)
    <3>1. Urgent(s, s.wantQ) \in Seq(Jobs) /\ Range(Urgent(s, s.wantQ)) \subseteq Range(s.wantQ)
      BY <1>1, AmongAre DEF Urgent
    <3>2. Urgent(s, s.placeQ) \in Seq(Jobs) /\ Range(Urgent(s, s.placeQ)) \subseteq Range(s.placeQ)
      BY <1>1, AmongAre DEF Urgent
    <3> QED BY <1>1, <2>1, <3>1, <3>2 DEF Queued
  <2>3. PICK n : n = q[1]
    OBVIOUS
  <2>4. n \in Queued(s)
    <3>1. 1 \in DOMAIN q
      BY <1>5, <2>2
    <3> QED BY <2>2, <2>3, <3>1 DEF Range
  <2>5. Live(s, n) /\ s.job[n].stage = "queued" /\ n \in Jobs
    BY <2>4 DEF Good, QueuesOK, Live
  <2>6. PICK w, p : w = From(s.wantQ, n) /\ p = From(s.placeQ, n)
    OBVIOUS
  <2>7. /\ w \in Seq(Jobs) /\ Range(w) = Range(s.wantQ) \ {n}
        /\ p \in Seq(Jobs) /\ Range(p) = Range(s.placeQ) \ {n}
    BY <1>1, <2>6, FromIs
  <2>8. PICK u : u = WithQueues(s, w, p)
    OBVIOUS
  <2>9. Fine(s, u, {}) /\ u.job = s.job /\ Queued(u) = Queued(s) \ {n}
    <3>1. Range(w) \subseteq Queued(s) /\ Range(p) \subseteq Queued(s)
      BY <2>7 DEF Queued
    <3>2. Fine(s, u, {}) /\ u.job = s.job /\ Queued(u) = Range(w) \cup Range(p)
      BY <2>7, <2>8, <3>1, QueuesFine
    <3> QED BY <2>7, <3>2 DEF Queued
  <2>10. /\ u.turns = s.turns /\ u.placeQ = p /\ u.fg = s.fg /\ u.list = s.list /\ u.read = s.read
    BY <1>1, <2>8 DEF WithQueues, State
  <2>11. t = RunWant(u, n)
    BY <1>3, <1>5, <2>3, <2>6, <2>8 DEF WithQueues
  <2>12. Good(u) /\ Live(u, n) /\ u.job[n].stage = "queued" /\ n \notin Queued(u)
    BY <2>5, <2>9 DEF Fine, Live
  <2>13. PICK Z : Z = X \cup {n}
    OBVIOUS
  <2>14. Tidy(u, Z, A, W)
    <3>1. PlacedBut(u, Z, A)
      <4> SUFFICES ASSUME NEW m \in Jobs \ Z, Live(u, m) PROVE Placed(u, m, A)
        BY DEF PlacedBut
      <4>1. m # n /\ m \in Jobs \ X /\ u.job[m] = s.job[m]
        BY <2>9, <2>13
      <4>2. Placed(s, m, A)
        BY <4>1 DEF Tidy, PlacedBut, Live
      <4> QED BY <2>9, <2>10, <4>1, <4>2 DEF Placed
    <3>2. LoadsOK(u) /\ BroughtOK(u, A) /\ ReadsOK(u, A, W)
      BY <2>9, <2>10 DEF Tidy, LoadsOK, BroughtOK, ReadsOK
    <3>3. PredictedOK(u)
      BY <2>7, <2>9, <2>10 DEF Tidy, PredictedOK
    <3>4. ListsOK(u)
      <4>1. \A m \in Jobs : Live(s, m) => Live(u, m)
        BY <2>9 DEF Live
      <4> QED BY <2>10, <4>1, ListsKept DEF Tidy
    <3> QED BY <3>1, <3>2, <3>3, <3>4 DEF Tidy
  <2>15. Tidy(t, Z \ {n}, A, W) /\ t.wantQ = u.wantQ /\ t.placeQ = u.placeQ
    BY <2>11, <2>12, <2>14, RunWantTidy
  <2>16. Z \ {n} \subseteq X
    BY <2>13
  <2>17. Tidy(t, X, A, W)
    BY <2>15, <2>16, TidyMore
  <2>18. OneLessQueued(s, t)
    <3>1. Queued(t) = Queued(u)
      BY <2>15 DEF Queued
    <3> QED BY <2>4, <2>9, <3>1 DEF OneLessQueued
  <2> QED BY <1>2, <1>5, <2>17, <2>18
<1> QED BY <1>4, <1>5

LEMMA EmptyRange ==
  ASSUME NEW T, NEW q \in Seq(T)
  PROVE  Range(q) = {} <=> q = <<>>
<1>1. DOMAIN q = 1..Len(q) /\ Len(q) \in Nat
  OBVIOUS
<1>2. CASE q = <<>>
  BY <1>2 DEF Range
<1>3. CASE q # <<>>
  <2>1. 1 \in DOMAIN q
    BY <1>1, <1>3
  <2> QED BY <1>3, <2>1 DEF Range
<1> QED BY <1>2, <1>3

(* Nothing more to start: the queues are pumped.                           *)
LEMMA IdlePumped ==
  ASSUME Limits, NEW s, Good(s), NextUnits(s) = <<>>
  PROVE  Pumped(s)
<1>1. s.wantQ \in Seq(Jobs) /\ s.placeQ \in Seq(Jobs)
  BY StateParts DEF Good
<1>2. Urgent(s, s.wantQ) = <<>> /\ Urgent(s, s.placeQ) = <<>>
  BY DEF NextUnits
<1>3. Range(<<>>) = {}
  BY DEF Range
<1>4. ASSUME NEW q \in Seq(Jobs), Urgent(s, q) = <<>>
      PROVE  \A n \in Range(q) : ~s.job[n].urgent
  <2>1. PICK S : S = {n \in Range(q) : s.job[n].urgent}
    OBVIOUS
  <2>2. Range(Among(q, S)) = Range(q) \cap S
    BY AmongAre
  <2>3. Among(q, S) = <<>>
    BY <1>4, <2>1 DEF Urgent
  <2>4. Range(q) \cap S = {}
    BY <1>3, <2>2, <2>3
  <2> QED BY <2>1, <2>4
<1>5. \A n \in Queued(s) : ~s.job[n].urgent
  BY <1>1, <1>2, <1>4 DEF Queued
<1>6. Cardinality({}) = 0
  BY FS_EmptySet
<1>7. ASSUME s.wantQ # <<>> PROVE Started(s, "announced") # {}
  <2>1. ~(Cardinality(Started(s, "announced")) < WantRequests)
    BY <1>2, <1>7 DEF NextUnits
  <2> QED BY <1>6, <2>1 DEF Limits
<1>8. ASSUME s.wantQ = <<>>, s.placeQ # <<>> PROVE Started(s, "place") # {}
  <2>1. ~(Cardinality(Started(s, "place")) < PlaceRequests)
    BY <1>2, <1>8 DEF NextUnits
  <2> QED BY <1>6, <2>1 DEF Limits
<1> QED BY <1>5, <1>7, <1>8 DEF Pumped

LEMMA QueuedFinite ==
  ASSUME Constants, NEW s, Good(s)
  PROVE  IsFiniteSet(Queued(s)) /\ Cardinality(Queued(s)) \in Nat
<1>1. Queued(s) \in SUBSET Jobs
  BY QueuedJobs
<1>2. IsFiniteSet(Queued(s))
  BY <1>1, FS_Subset DEF Constants
<1> QED BY <1>2, FS_CardinalityType

LEMMA OneLessIs ==
  ASSUME Constants, NEW s, Good(s), NEW t, Good(t), OneLessQueued(s, t)
  PROVE  Cardinality(Queued(t)) + 1 <= Cardinality(Queued(s))
<1>1. PICK n \in Queued(s) : Queued(t) \subseteq Queued(s) \ {n}
  BY DEF OneLessQueued
<1>2. PICK S, T : S = Queued(s) /\ T = Queued(t)
  OBVIOUS
<1>3. IsFiniteSet(S) /\ Cardinality(S) \in Nat /\ IsFiniteSet(T) /\ Cardinality(T) \in Nat
  BY <1>2, QueuedFinite
<1>4. IsFiniteSet(S \ {n}) /\ Cardinality(S \ {n}) = Cardinality(S) - 1
  BY <1>1, <1>2, <1>3, FS_RemoveElement
<1>5. Cardinality(T) <= Cardinality(S \ {n})
  BY <1>1, <1>2, <1>4, FS_Subset
<1> QED BY <1>2, <1>3, <1>4, <1>5

(* All of pumpWant: the queues are pumped after it, whatever they were.    *)
LEMMA PumpTidy ==
  ASSUME Constants, Limits, NEW s, Good(s), NEW X, NEW A, NEW W, Tidy(s, X, A, W),
         NEW t, t = Pump(s)
  PROVE  Tidy(t, X, A, W) /\ Pumped(t)
<1>1. PICK n : n = Cardinality(InStage(s, "queued"))
  OBVIOUS
<1>2. n \in Nat /\ Cardinality(Queued(s)) <= n
  <2>1. InStage(s, "queued") \in SUBSET Jobs
    BY DEF InStage
  <2>2. IsFiniteSet(InStage(s, "queued"))
    BY <2>1, FS_Subset DEF Constants
  <2>3. Queued(s) \in SUBSET InStage(s, "queued")
    BY DEF Good, QueuesOK, Live, InStage
  <2> QED BY <1>1, <2>2, <2>3, FS_Subset, FS_CardinalityType
<1>3. PICK k : PumpRuns(k, s, n)
  BY <1>1, <1>2, PumpIs
<1>4. k[0] = s /\ (\A i \in 1..n : k[i] = PumpOne(k[i - 1])) /\ t = k[n]
  BY <1>3 DEF PumpRuns
<1> DEFINE G == {i \in 0..n :
                   /\ Good(k[i]) /\ Tidy(k[i], X, A, W)
                   /\ NextUnits(k[i]) = <<>> \/ Cardinality(Queued(k[i])) + i <= n}
<1>5. 0 \in G
  BY <1>2, <1>4, QueuedFinite
<1>6. \A i \in 0..(n - 1) : i \in G => i + 1 \in G
  <2> SUFFICES ASSUME NEW i \in 0..(n - 1), i \in G PROVE i + 1 \in G
    OBVIOUS
  <2>1. i + 1 \in 1..n /\ i + 1 \in 0..n /\ (i + 1) - 1 = i /\ i \in Nat
    BY <1>2
  <2>2. PICK u, v : u = k[i] /\ v = k[i + 1]
    OBVIOUS
  <2>3. v = PumpOne(u)
    BY <1>4, <2>1, <2>2
  <2>4. /\ Good(u) /\ Tidy(u, X, A, W)
        /\ NextUnits(u) = <<>> \/ Cardinality(Queued(u)) + i <= n
    BY <2>2
  <2>5. Good(v)
    BY <2>3, <2>4, PumpOneFine DEF Fine
  <2>6. /\ Tidy(v, X, A, W) /\ (NextUnits(u) = <<>> => v = u)
        /\ NextUnits(u) # <<>> => OneLessQueued(u, v)
    BY <2>3, <2>4, PumpOneTidy
  <2>7. NextUnits(v) = <<>> \/ Cardinality(Queued(v)) + (i + 1) <= n
    <3>1. CASE NextUnits(u) = <<>>
      BY <2>6, <3>1
    <3>2. CASE NextUnits(u) # <<>>
      <4>1. Cardinality(Queued(v)) + 1 <= Cardinality(Queued(u))
        BY <2>4, <2>5, <2>6, <3>2, OneLessIs
      <4>2. Cardinality(Queued(v)) \in Nat /\ Cardinality(Queued(u)) \in Nat
        BY <2>4, <2>5, QueuedFinite
      <4> QED BY <1>2, <2>1, <2>4, <3>2, <4>1, <4>2
    <3> QED BY <3>1, <3>2
  <2> QED BY <2>1, <2>2, <2>5, <2>6, <2>7
<1>7. n \in G
  <2> HIDE DEF G
  <2> QED BY <1>2, <1>5, <1>6, UpTo
<1>8. /\ Good(t) /\ Tidy(t, X, A, W)
      /\ NextUnits(t) = <<>> \/ Cardinality(Queued(t)) + n <= n
  BY <1>4, <1>7
<1>9. CASE NextUnits(t) = <<>>
  BY <1>8, <1>9, IdlePumped
<1>10. CASE NextUnits(t) # <<>>
  <2>1. Cardinality(Queued(t)) = 0
    BY <1>2, <1>8, <1>10, QueuedFinite
  <2>2. Queued(t) = {}
    BY <1>8, <2>1, QueuedFinite, FS_EmptySet
  <2>3. t.wantQ \in Seq(Jobs) /\ t.placeQ \in Seq(Jobs)
    BY <1>8, StateParts DEF Good
  <2>4. t.wantQ = <<>> /\ t.placeQ = <<>>
    BY <2>2, <2>3, EmptyRange DEF Queued
  <2>5. Pumped(t)
    BY <2>2, <2>4 DEF Pumped
  <2> QED BY <1>8, <2>5
<1> QED BY <1>9, <1>10

----------------------------------------------------------------------------
(* Lists.                                                                  *)

LEMMA NewJobKin ==
  ASSUME NEW kind, NEW p, NEW stage, NEW j, j = NewJob(kind, p, stage)
  PROVE  j.kind = kind /\ j.stage = stage /\ j.forLoad = (kind \in {"announced", "ahead"})
BY DEF NewJob

(* A job added, in no queue or in the one of its kind.                     *)
LEMMA AddedTidy ==
  ASSUME Constants, NEW s, Good(s), NEW X, NEW A, NEW W, Tidy(s, X, A, W),
         NEW n \in FreeJobs(s), NEW kind \in Kinds, NEW p \in Pieces, NEW stage \in Stages,
         NEW w \in Seq(Jobs), NEW q \in Seq(Jobs),
         Range(s.wantQ) \subseteq Range(w), Range(s.placeQ) \subseteq Range(q),
         Range(w) \cup Range(q) \subseteq Queued(s) \cup {n},
         Range(q) \subseteq Range(s.placeQ) \cup {n}, n \in Range(q) => kind = "place",
         n \in Range(w) \cup Range(q) => stage = "queued",
         NEW Y, X \subseteq Y, n \in Y \/ (stage = "queued" /\ n \in Range(w) \cup Range(q)),
         NEW t, t = JobAdded(s, n, kind, p, stage, w, q)
  PROVE  Tidy(t, Y, A, W)
<1>1. s \in State /\ n \in Jobs /\ ~Live(s, n)
  BY DEF Good, FreeJobs, Live
<1>2. /\ t.list = s.list /\ t.read = s.read /\ t.turns = s.turns /\ t.fg = s.fg
      /\ Live(t, n) /\ t.job[n] = NewJob(kind, p, stage)
      /\ \A m \in Jobs \ {n} : t.job[m] = s.job[m]
      /\ Queued(t) = Range(w) \cup Range(q)
  BY JobMade
<1>3. t.placeQ = q
  BY <1>1 DEF JobAdded, State
<1>4. /\ t.job[n].kind = kind /\ t.job[n].stage = stage
      /\ t.job[n].forLoad = (kind \in {"announced", "ahead"})
  BY <1>2, NewJobKin
<1>5. PlacedBut(t, Y, A)
  <2> SUFFICES ASSUME NEW m \in Jobs \ Y, Live(t, m) PROVE Placed(t, m, A)
    BY DEF PlacedBut
  <2>1. CASE m = n
    BY <1>2, <1>4, <2>1 DEF Placed, RestStages, JoinStages
  <2>2. CASE m # n
    <3>1. m \in Jobs \ X /\ t.job[m] = s.job[m]
      BY <1>2, <2>2
    <3>2. Placed(s, m, A)
      BY <3>1 DEF Tidy, PlacedBut, Live
    <3>3. Queued(s) \subseteq Queued(t)
      BY <1>2 DEF Queued
    <3> QED BY <1>2, <3>1, <3>2, <3>3 DEF Placed
  <2> QED BY <2>1, <2>2
<1>6. LoadsOK(t)
  <2> SUFFICES ASSUME NEW m \in Jobs, t.job[m].kind = "announced" PROVE t.job[m].forLoad
    BY DEF LoadsOK
  <2>1. CASE m = n
    BY <1>4, <2>1
  <2>2. CASE m # n
    BY <1>2, <2>2 DEF Tidy, LoadsOK
  <2> QED BY <2>1, <2>2
<1>7. PredictedOK(t)
  <2> SUFFICES ASSUME NEW m \in Range(q) PROVE t.job[m].kind = "place" /\ ~t.job[m].forLoad
    BY <1>3 DEF PredictedOK
  <2>1. CASE m = n
    BY <1>4, <2>1
  <2>2. CASE m # n
    <3>1. m \in Range(s.placeQ) /\ m \in Jobs
      BY <2>2, QueuedJobs
    <3> QED BY <1>2, <2>2, <3>1 DEF Tidy, PredictedOK
  <2> QED BY <2>1, <2>2
<1>8. BroughtOK(t, A) /\ ReadsOK(t, A, W)
  BY <1>2 DEF Tidy, BroughtOK, ReadsOK
<1>9. ListsOK(t)
  <2>1. \A m \in Jobs : Live(s, m) => Live(t, m)
    BY <1>1, <1>2 DEF Live
  <2> QED BY <1>2, <2>1, ListsKept DEF Tidy
<1> QED BY <1>5, <1>6, <1>7, <1>8, <1>9 DEF Tidy

LEMMA WantUnitTidy ==
  ASSUME Constants, NEW s, Good(s), FreeJobs(s) # {}, NEW kind \in {"announced", "place"},
         NEW p \in Pieces, NEW X, NEW A, NEW W, Tidy(s, X, A, W), NEW t, t = WantUnit(s, p, kind)
  PROVE  Tidy(t, X, A, W)
<1>1. PICK n : n = CHOOSE m \in Jobs : s.job[m] = NoJob
  OBVIOUS
<1>2. n \in FreeJobs(s) /\ n \in Jobs /\ n # Nobody
  BY <1>1 DEF FreeJobs, Constants
<1>3. s \in State /\ s.wantQ \in Seq(Jobs) /\ s.placeQ \in Seq(Jobs)
  BY StateParts DEF Good
<1>4. PICK w : w = IF kind = "place" THEN s.wantQ ELSE Append(s.wantQ, n)
  OBVIOUS
<1>5. PICK q : q = IF kind = "place" THEN Append(s.placeQ, n) ELSE s.placeQ
  OBVIOUS
<1>6. /\ Append(s.wantQ, n) \in Seq(Jobs) /\ Range(Append(s.wantQ, n)) = Range(s.wantQ) \cup {n}
      /\ Append(s.placeQ, n) \in Seq(Jobs) /\ Range(Append(s.placeQ, n)) = Range(s.placeQ) \cup {n}
  BY <1>2, <1>3, AppendRange
<1>8. PICK stage \in Stages : stage = "queued"
  BY DEF Stages
<1>9. PICK jobs, flights : /\ jobs = [s.job EXCEPT ![n] = NewJob(kind, p, stage)]
                           /\ flights = [s.flights EXCEPT ![p] = n]
  OBVIOUS
<1>10. t = [s EXCEPT !.job = jobs, !.flights = flights, !.wantQ = w, !.placeQ = q]
  <2>1. PICK u : u = [s EXCEPT !.job = jobs, !.flights = flights]
    OBVIOUS
  <2>2. t = IF kind = "place" THEN [u EXCEPT !.placeQ = Append(@, n)]
            ELSE [u EXCEPT !.wantQ = Append(@, n)]
    BY <1>1, <1>8, <1>9, <2>1 DEF WantUnit
  <2> QED BY ZenonT(60), <1>3, <1>4, <1>5, <2>1, <2>2 DEF State
<1>11. t = JobAdded(s, n, kind, p, stage, w, q)
  BY <1>9, <1>10 DEF JobAdded
<1>12. kind \in Kinds /\ X \subseteq X
  BY DEF Kinds
<1>13. n \notin Range(s.placeQ)
  <2>1. ~Live(s, n)
    BY <1>2 DEF FreeJobs, Live
  <2> QED BY <2>1 DEF Good, QueuesOK, Queued
<1>14. /\ w \in Seq(Jobs) /\ q \in Seq(Jobs)
       /\ Range(s.wantQ) \subseteq Range(w) /\ Range(s.placeQ) \subseteq Range(q)
       /\ Range(w) \cup Range(q) \subseteq Queued(s) \cup {n}
       /\ Range(q) \subseteq Range(s.placeQ) \cup {n} /\ n \in Range(w) \cup Range(q)
       /\ n \in Range(q) => kind = "place"
  <2>1. CASE kind = "place"
    BY <1>3, <1>4, <1>5, <1>6, <2>1 DEF Queued
  <2>2. CASE kind # "place"
    BY <1>3, <1>4, <1>5, <1>6, <1>13, <2>2 DEF Queued
  <2> QED BY <2>1, <2>2
<1> QED BY <1>2, <1>8, <1>11, <1>12, <1>14, AddedTidy

LEMMA AdoptTidy ==
  ASSUME Constants, NEW s, Good(s), NEW X, NEW A, NEW W, Tidy(s, X, A, W),
         NEW n, Live(s, n), s.job[n].stage = "queued", NEW t, t = Adopt(s, n)
  PROVE  Tidy(t, X, A, W)
<1>1. s \in State /\ n \in Jobs /\ s.job[n] \in Job
  BY LiveIs DEF Good
<1>2. PICK j : j = [[s.job[n] EXCEPT !.kind = "announced"] EXCEPT !.forLoad = TRUE]
  OBVIOUS
<1>3. j \in Job /\ j.stage = "queued" /\ j.forLoad /\ j.kind = "announced"
  BY <1>1, <1>2 DEF Job, Kinds
<1>4. PICK w, q : w = Append(s.wantQ, n) /\ q = From(s.placeQ, n)
  OBVIOUS
<1>5. /\ w \in Seq(Jobs) /\ Range(w) = Range(s.wantQ) \cup {n}
      /\ q \in Seq(Jobs) /\ Range(q) = Range(s.placeQ) \ {n}
  BY <1>1, <1>4, AppendRange, FromIs, StateParts
<1>6. PICK jobs : jobs = [s.job EXCEPT ![n] = j]
  OBVIOUS
<1>7. /\ jobs \in [Jobs -> Job \cup {NoJob}] /\ jobs[n] = j
      /\ \A m \in Jobs \ {n} : jobs[m] = s.job[m]
  BY <1>1, <1>3, <1>6, StateParts
<1>8. t = [s EXCEPT !.placeQ = q, !.wantQ = w, !.job = jobs]
  BY <1>1, <1>2, <1>4, <1>6, StateParts DEF Adopt
<1>9. /\ t \in State /\ t.job = jobs /\ t.wantQ = w /\ t.placeQ = q /\ t.fg = s.fg
      /\ t.list = s.list /\ t.read = s.read /\ t.turns = s.turns
  BY <1>1, <1>5, <1>7, <1>8 DEF State
<1>10. Live(t, n) /\ t.job[n] = j /\ \A m \in Jobs \ {n} : t.job[m] = s.job[m]
  BY <1>1, <1>3, <1>7, <1>9, LiveIs
<1>11. Queued(s) \subseteq Queued(t) /\ n \in Queued(t)
  BY <1>5, <1>9 DEF Queued
<1>12. PlacedBut(t, X, A)
  <2> SUFFICES ASSUME NEW m \in Jobs \ X, Live(t, m) PROVE Placed(t, m, A)
    BY DEF PlacedBut
  <2>1. CASE m = n
    BY <1>3, <1>10, <1>11, <2>1 DEF Placed, RestStages, JoinStages
  <2>2. CASE m # n
    <3>1. t.job[m] = s.job[m]
      BY <1>10, <2>2
    <3>2. Placed(s, m, A)
      BY <3>1 DEF Tidy, PlacedBut, Live
    <3> QED BY <1>9, <1>11, <3>1, <3>2 DEF Placed
  <2> QED BY <2>1, <2>2
<1>13. LoadsOK(t)
  <2> SUFFICES ASSUME NEW m \in Jobs, t.job[m].kind = "announced" PROVE t.job[m].forLoad
    BY DEF LoadsOK
  <2>1. CASE m = n
    BY <1>3, <1>10, <2>1
  <2>2. CASE m # n
    BY <1>10, <2>2 DEF Tidy, LoadsOK
  <2> QED BY <2>1, <2>2
<1>14. PredictedOK(t)
  <2> SUFFICES ASSUME NEW m \in Range(s.placeQ) \ {n}
               PROVE  t.job[m].kind = "place" /\ ~t.job[m].forLoad
    BY <1>5, <1>9 DEF PredictedOK
  <2>1. m \in Jobs
    BY QueuedJobs
  <2> QED BY <1>10, <2>1 DEF Tidy, PredictedOK
<1>15. BroughtOK(t, A) /\ ReadsOK(t, A, W)
  BY <1>9 DEF Tidy, BroughtOK, ReadsOK
<1>16. ListsOK(t)
  <2>1. \A m \in Jobs : Live(s, m) => Live(t, m)
    BY <1>10 DEF Live
  <2> QED BY <1>9, <2>1, ListsKept DEF Tidy
<1> QED BY <1>12, <1>13, <1>14, <1>15, <1>16 DEF Tidy

LEMMA JoinTidy ==
  ASSUME Constants, NEW s, Good(s), NEW X, NEW A, NEW W, Tidy(s, X, A, W),
         NEW n, Live(s, n), NEW t, t = Join(s, n)
  PROVE  Tidy(t, X, A, W)
<1>1. CASE s.job[n].kind = "place" /\ s.job[n].stage = "queued"
  BY <1>1, AdoptTidy DEF Join
<1>2. CASE s.job[n].kind = "place" /\ s.job[n].stage # "queued"
  <2>1. t = ForLoad(s, n)
    BY <1>2 DEF Join
  <2> QED BY <1>2, <2>1, ForLoadTidy
<1>3. CASE s.job[n].kind # "place"
  <2>1. t = Promote(s, n)
    BY <1>3 DEF Join
  <2> QED BY <2>1, PromoteTidy
<1> QED BY <1>1, <1>2, <1>3

LEMMA WantPieceTidy ==
  ASSUME Constants, NEW s, Good(s), FreeJobs(s) # {}, NEW kind \in {"announced", "place"},
         NEW p \in Pieces, NEW X, NEW A, NEW W, Tidy(s, X, A, W), NEW t, t = WantPiece(s, p, kind)
  PROVE  Tidy(t, X, A, W)
<1>1. CASE p \in s.here \/ (p \notin s.here /\ s.flights[p] # Nobody /\ kind = "place")
  BY <1>1 DEF WantPiece
<1>2. CASE p \notin s.here /\ s.flights[p] = Nobody
  <2>1. t = WantUnit(s, p, kind)
    BY <1>2 DEF WantPiece
  <2> QED BY <2>1, WantUnitTidy
<1>3. CASE p \notin s.here /\ s.flights[p] # Nobody /\ kind # "place"
  <2>1. PICK n : n = s.flights[p]
    OBVIOUS
  <2>2. t = Join(s, n) /\ Live(s, n)
    BY <1>3, <2>1 DEF WantPiece, Good, FlightsOK
  <2> QED BY <2>2, JoinTidy
<1> QED BY <1>1, <1>2, <1>3

LEMMA WantEachTidy ==
  ASSUME Constants, NEW s, Good(s), NEW q \in Seq(Pieces), NEW kind \in {"announced", "place"},
         Cardinality(FreeJobs(s)) >= Len(q), NEW X, NEW A, NEW W, Tidy(s, X, A, W),
         NEW t, t = WantEach(s, q, kind)
  PROVE  Tidy(t, X, A, W)
<1>1. Len(q) \in Nat /\ \A i \in 1..Len(q) : q[i] \in Pieces
  OBVIOUS
<1>2. PICK k : WantRuns(k, s, q, kind)
  BY <1>1, WantIs
<1>3. /\ k[0] = s /\ t = k[Len(q)]
      /\ \A i \in 1..Len(q) : k[i] = WantPiece(k[i - 1], q[i], kind)
  BY <1>2 DEF WantRuns
<1> DEFINE G == {i \in 0..Len(q) : /\ Good(k[i]) /\ Tidy(k[i], X, A, W)
                                   /\ Cardinality(FreeJobs(k[i])) + i >= Len(q)}
<1>4. 0 \in G
  <2>1. Cardinality(FreeJobs(s)) + 0 >= Len(q)
    BY <1>1, FreeFinite
  <2> QED BY <1>1, <1>3, <2>1
<1>5. \A i \in 0..(Len(q) - 1) : i \in G => i + 1 \in G
  <2> SUFFICES ASSUME NEW i \in 0..(Len(q) - 1), i \in G PROVE i + 1 \in G
    OBVIOUS
  <2>1. /\ i \in Nat /\ i + 1 \in 1..Len(q) /\ i + 1 \in 0..Len(q) /\ (i + 1) - 1 = i
        /\ i < Len(q)
    BY <1>1
  <2>2. PICK u, v, p : u = k[i] /\ v = k[i + 1] /\ p = q[i + 1]
    OBVIOUS
  <2>3. v = WantPiece(u, p, kind) /\ p \in Pieces
    BY <1>1, <1>3, <2>1, <2>2
  <2>4. Good(u) /\ Tidy(u, X, A, W) /\ Cardinality(FreeJobs(u)) + i >= Len(q)
    BY <2>2
  <2>5. FreeJobs(u) # {}
    <3>1. Cardinality(FreeJobs(u)) \in Nat
      BY FreeFinite
    <3>2. Cardinality(FreeJobs(u)) # 0
      BY <1>1, <2>1, <2>4, <3>1
    <3>3. Cardinality({}) = 0
      BY FS_EmptySet
    <3> QED BY <3>2, <3>3
  <2>6. Wants(u, v) /\ AtMostOneLess(u, v)
    BY <2>3, <2>4, <2>5, WantPieceIs
  <2>7. Tidy(v, X, A, W)
    BY <2>3, <2>4, <2>5, WantPieceTidy
  <2>8. Cardinality(FreeJobs(v)) + 1 >= Cardinality(FreeJobs(u))
    BY <2>6, OneFreeLess
  <2>9. Cardinality(FreeJobs(v)) + (i + 1) >= Len(q)
    BY <1>1, <2>1, <2>4, <2>8, FreeFinite
  <2> QED BY <2>1, <2>2, <2>6, <2>7, <2>9 DEF Wants
<1>6. Len(q) \in G
  <2> HIDE DEF G
  <2> QED BY <1>1, <1>4, <1>5, UpTo
<1> QED BY <1>3, <1>6

----------------------------------------------------------------------------
(* Answers.                                                                *)

(* Neither requests nor queues nor who waits change.                       *)
LEMMA PlainTidy ==
  ASSUME NEW s, NEW X, NEW A, NEW W, Tidy(s, X, A, W), NEW t, t.job = s.job, t.turns = s.turns,
         t.wantQ = s.wantQ, t.placeQ = s.placeQ, t.fg = s.fg, t.list = s.list, t.read = s.read
  PROVE  StaysTidy(s, t, X, A, W)
<1>1. Queued(t) = Queued(s)
  BY DEF Queued
<1>2. PlacedBut(t, X, A)
  <2> SUFFICES ASSUME NEW m \in Jobs \ X, Live(t, m) PROVE Placed(t, m, A)
    BY DEF PlacedBut
  <2>1. Placed(s, m, A)
    BY DEF Tidy, PlacedBut, Live
  <2> QED BY <1>1, <2>1 DEF Placed
<1>3. LoadsOK(t) /\ PredictedOK(t) /\ BroughtOK(t, A) /\ ReadsOK(t, A, W)
  BY DEF Tidy, LoadsOK, PredictedOK, BroughtOK, ReadsOK
<1>4. ListsOK(t)
  <2>1. \A m \in Jobs : Live(s, m) => Live(t, m)
    BY DEF Live
  <2> QED BY <2>1, ListsKept DEF Tidy
<1>5. ASSUME Pumped(s) PROVE Pumped(t)
  <2>1. Started(t, "announced") = Started(s, "announced") /\ Started(t, "place") = Started(s, "place")
    BY DEF Started
  <2> QED BY <1>1, <1>5, <2>1 DEF Pumped
<1> QED BY <1>2, <1>3, <1>4, <1>5 DEF StaysTidy, Tidy

(* A request under way, in no queue, goes on to another stage.             *)
LEMMA StageTidy ==
  ASSUME Constants, NEW s, Good(s), NEW X, NEW A, NEW W, Tidy(s, X, A, W),
         NEW n, Live(s, n), s.job[n].stage \notin {"turn", "queued"},
         NEW stage \in Stages, stage # "queued", NEW t, t = Stage(s, n, stage),
         NEW Y, \A m \in X : m \in Y \/ m = n, n \in Y \/ stage \in {"sent", "aborted", "pause"}
  PROVE  StaysTidy(s, t, Y, A, W) /\ OnOne(s, t, n, {stage})
<1>1. s \in State /\ n \in Jobs /\ s.job[n] \in Job /\ n \notin Range(s.turns) /\ n \notin Queued(s)
  BY LiveIs, InNoQueue DEF Good
<1>2. /\ OnOne(s, t, n, {stage}) /\ t.turns = s.turns /\ t.spare = s.spare
      /\ Kin(s.job[n], t.job[n])
  BY <1>1, StageKin
<1>3. /\ Same(s, t) /\ Live(t, n) /\ t.job[n].stage = stage
      /\ \A m \in Jobs \ {n} : t.job[m] = s.job[m]
  BY <1>2 DEF OnOne
<1>4. n \in Y \/ Placed(t, n, A)
  BY <1>3 DEF Placed, RestStages, JoinStages
<1>5. t.job[n].kind = "announced" => t.job[n].forLoad
  BY <1>1, <1>2 DEF Kin, Tidy, LoadsOK
<1>6. n \notin Range(s.placeQ) /\ Range(s.placeQ) \subseteq Jobs /\ Queued(s) \subseteq Jobs
  BY <1>1, QueuedJobs
<1>7. Range(s.turns) \ {n} \subseteq Range(t.turns)
  BY <1>2
<1>8. Tidy(t, Y, A, W)
  BY <1>1, <1>3, <1>4, <1>5, <1>6, <1>7, OneTidy
<1>9. ASSUME Pumped(s) PROVE Pumped(t)
  <2>1. t.wantQ = s.wantQ /\ t.placeQ = s.placeQ
    BY <1>3 DEF Same
  <2>2. t.job[n].kind = s.job[n].kind /\ t.job[n].stage # "queued"
    BY <1>2, <1>3 DEF Kin
  <2> QED BY <1>1, <1>3, <1>6, <1>9, <2>1, <2>2, OnePumped
<1> QED BY <1>2, <1>8, <1>9 DEF StaysTidy

LEMMA StageTaken ==
  ASSUME Constants, NEW s, Good(s), NEW X, NEW A, NEW W, Tidy(s, X, A, W),
         NEW n, Live(s, n), s.job[n].stage \notin {"turn", "queued"},
         NEW stage \in {"sent", "aborted", "pause"}, NEW t, t = Stage(s, n, stage)
  PROVE  StaysTidy(s, t, X \ {n}, A, W) /\ OnOne(s, t, n, {stage})
<1>1. PICK Y : Y = X \ {n}
  OBVIOUS
<1>2. \A m \in X : m \in Y \/ m = n
  BY <1>1
<1>3. stage \in Stages /\ stage # "queued"
  BY DEF Stages
<1> QED BY <1>1, <1>2, <1>3, StageTidy

LEMMA AnsweredTidy ==
  ASSUME Constants, Limits, NEW s, Good(s), NEW X, NEW A, NEW W, Tidy(s, X, A, W),
         NEW n, Live(s, n), s.job[n].stage \notin {"turn", "queued"},
         NEW answer, NEW t, t = Answered(s, n, answer)
  PROVE  StaysTidy(s, t, X \ {n}, A, W)
<1>1. s \in State /\ n \in Jobs /\ s.job[n] \in Job /\ n \notin Range(s.turns) /\ n \notin Queued(s)
  BY LiveIs, InNoQueue DEF Good
<1>2. PICK h : h = IF answer = "ok" THEN s.here \cup {s.job[n].piece} ELSE s.here
  OBVIOUS
<1>3. h \in SUBSET Pieces
  BY <1>1, <1>2, StateParts DEF Job
<1>4. PICK u : u = IF answer = "ok" THEN [s EXCEPT !.here = @ \cup {s.job[n].piece}] ELSE s
  OBVIOUS
<1>5. /\ Fine(s, u, {}) /\ u.job = s.job /\ u.turns = s.turns /\ Queued(u) = Queued(s)
      /\ StaysTidy(s, u, X, A, W)
  <2>1. CASE answer = "ok"
    <3>1. u = [s EXCEPT !.here = h]
      BY <1>2, <1>4, <2>1
    <3>2. /\ u.wantQ = s.wantQ /\ u.placeQ = s.placeQ /\ u.fg = s.fg /\ u.list = s.list
          /\ u.read = s.read /\ u.job = s.job /\ u.turns = s.turns
      BY <1>1, <3>1 DEF State
    <3>3. StaysTidy(s, u, X, A, W)
      BY <3>2, PlainTidy
    <3> QED BY <1>3, <3>1, <3>3, HereFine
  <2>2. CASE answer # "ok"
    BY <1>4, <2>2, FineNone DEF StaysTidy
  <2> QED BY <2>1, <2>2
<1>6. Good(u) /\ Live(u, n) /\ Tidy(u, X, A, W)
  BY <1>5 DEF Fine, Live, StaysTidy
<1>7. PICK v : v = Settle(u, n)
  OBVIOUS
<1>8. Fine(u, v, {n})
  BY <1>1, <1>5, <1>6, <1>7, SettleFine
<1>9. PICK Y : Y = X \ {n}
  OBVIOUS
<1>10. /\ Tidy(v, Y, A, W)
       /\ Pumped(u) /\ (u.job[n].kind \in {"announced", "place"} => u.job[n].stage = "queued")
            => Pumped(v)
  BY <1>1, <1>5, <1>6, <1>7, <1>9, SettleTidy
<1>11. StaysTidy(u, t, Y, A, W)
  <2>1. CASE t = v /\ u.job[n].kind \in {"ahead", "fill"}
    BY <1>10, <2>1 DEF StaysTidy
  <2>2. CASE t = Pump(v)
    <3>1. Good(v)
      BY <1>8 DEF Fine
    <3>2. Tidy(t, Y, A, W) /\ Pumped(t)
      BY <1>10, <2>2, <3>1, PumpTidy
    <3> QED BY <3>2 DEF StaysTidy
  <2>3. CASE t = Stage(u, n, "pause")
    <3>1. PICK stage \in Stages : stage = "pause"
      BY DEF Stages
    <3>2. t = Stage(u, n, stage) /\ stage # "queued" /\ stage \in {"sent", "aborted", "pause"}
      BY <2>3, <3>1
    <3>3. \A m \in X : m \in Y \/ m = n
      BY <1>9
    <3>4. u.job[n].stage \notin {"turn", "queued"}
      BY <1>5
    <3> QED BY <1>6, <3>2, <3>3, <3>4, StageTidy
  <2>4. \/ t = v /\ s.job[n].kind \in {"ahead", "fill"}
        \/ t = Pump(v) \/ t = Stage(u, n, "pause")
    BY <1>4, <1>7 DEF Answered
  <2>5. u.job[n].kind = s.job[n].kind
    BY <1>5
  <2> QED BY <2>1, <2>2, <2>3, <2>4, <2>5
<1> QED BY <1>5, <1>9, <1>11, StaysTrans

(* One that joined a reader's request goes on.                             *)
LEMMA JoinedOneTidy ==
  ASSUME Constants, Limits, NEW s, Good(s), NEW X, NEW A, NEW W, Tidy(s, X, A, W),
         NEW n, Live(s, n), s.job[n].stage \in {"joins", "joins turned"},
         NEW t, t = JoinedGoesOn(s, n)
  PROVE  StaysTidy(s, t, X \ {n}, A, W)
<1>1. s \in State /\ n \notin Range(s.turns) /\ n \notin Queued(s)
  BY InNoQueue DEF Good
<1>2. CASE s.job[n].piece \in s.here
  <2>1. PICK answer : answer = "ok"
    OBVIOUS
  <2>2. t = Answered(s, n, answer)
    BY <1>2, <2>1 DEF JoinedGoesOn
  <2> QED BY <2>2, AnsweredTidy
<1>3. CASE s.job[n].piece \notin s.here /\ s.job[n].stage = "joins"
  <2>1. t = Ask(s, n)
    BY <1>3 DEF JoinedGoesOn
  <2>2. s.job[n].stage # "turn"
    BY <1>3
  <2> QED BY <1>1, <2>1, <2>2, AskTidy
<1>4. CASE s.job[n].piece \notin s.here /\ s.job[n].stage # "joins"
  <2>0. PICK stage \in {"sent", "aborted", "pause"} : stage = "sent"
    OBVIOUS
  <2>1. PICK u : u = Stage(s, n, stage)
    OBVIOUS
  <2>2. PICK Y : Y = X \ {n}
    OBVIOUS
  <2>3. StaysTidy(s, u, Y, A, W) /\ OnOne(s, u, n, {stage}) /\ u.spare = s.spare
    <3>1. s.job[n].stage \notin {"turn", "queued"}
      OBVIOUS
    <3>2. StaysTidy(s, u, X \ {n}, A, W)
      BY <2>1, <3>1, StageTaken
    <3>3. OnOne(s, u, n, {stage})
      BY <2>1, <3>1, StageTaken
    <3>4. u.spare = s.spare
      BY <1>1, <2>1 DEF Stage, State
    <3> QED BY <2>2, <3>2, <3>3, <3>4
  <2>4. PICK w : w = IF s.spare = <<>> THEN s.spare ELSE Tail(s.spare)
    OBVIOUS
  <2>5. t = [u EXCEPT !.spare = w]
    BY <1>4, <2>0, <2>1, <2>3, <2>4 DEF JoinedGoesOn
  <2>6. /\ t.wantQ = u.wantQ /\ t.placeQ = u.placeQ /\ t.fg = u.fg /\ t.list = u.list
        /\ t.read = u.read /\ t.job = u.job /\ t.turns = u.turns
    BY <2>3, <2>5 DEF OnOne, State
  <2>7. StaysTidy(u, t, Y, A, W)
    BY <2>3, <2>6, PlainTidy DEF StaysTidy
  <2> QED BY <2>2, <2>3, <2>7, StaysTrans
<1> QED BY <1>2, <1>3, <1>4

(* All of them do: none is out of place then.                              *)
LEMMA JoinedGoOnTidy ==
  ASSUME Constants, Limits, NEW s, Good(s), NEW q, JoinedAre(s, q), NEW A, NEW W,
         Tidy(s, Range(q), A, W), NEW t, t = JoinedGoOn(s, q)
  PROVE  StaysTidy(s, t, {}, A, W) /\ Good(t)
<1>1. Len(q) \in Nat /\ DOMAIN q = 1..Len(q) /\ \A i \in 1..Len(q) : q[i] \in Jobs
  <2>1. q \in Seq(Jobs)
    BY DEF JoinedAre
  <2> QED BY <2>1
<1>2. PICK k : JoinedRuns(k, s, q)
  BY <1>1, JoinedIs
<1>3. /\ k[0] = s /\ t = k[Len(q)]
      /\ \A i \in 1..Len(q) : k[i] = JoinedGoesOn(k[i - 1], q[i])
  BY <1>2 DEF JoinedRuns
<1> DEFINE Gone(i) == {q[j] : j \in 1..i}
           Left(i) == {q[j] : j \in (i + 1)..Len(q)}
           G == {i \in 0..Len(q) : Fine(s, k[i], Gone(i)) /\ StaysTidy(s, k[i], Left(i), A, W)}
<1>4. 0 \in G
  <2>1. Fine(s, s, Gone(0))
    <3> HIDE DEF Gone
    <3> QED BY FineNone, FineBut
  <2>2. Left(0) = Range(q)
    BY <1>1 DEF Range
  <2>3. StaysTidy(s, s, Left(0), A, W)
    <3> HIDE DEF Left
    <3> QED BY <2>2 DEF StaysTidy
  <2> HIDE DEF Gone, Left
  <2> QED BY <1>1, <1>3, <2>1, <2>3
<1>5. \A i \in 0..(Len(q) - 1) : i \in G => i + 1 \in G
  <2> SUFFICES ASSUME NEW i \in 0..(Len(q) - 1), i \in G PROVE i + 1 \in G
    OBVIOUS
  <2>1. i + 1 \in 1..Len(q) /\ i + 1 \in 0..Len(q) /\ (i + 1) - 1 = i
    BY <1>1
  <2>2. PICK u, v, n : u = k[i] /\ v = k[i + 1] /\ n = q[i + 1]
    OBVIOUS
  <2>3. v = JoinedGoesOn(u, n) /\ n \in Jobs
    BY <1>1, <1>3, <2>1, <2>2
  <2>4. PICK M, N, X, Y : M = Gone(i) /\ N = Gone(i + 1) /\ X = Left(i) /\ Y = Left(i + 1)
    OBVIOUS
  <2>5. n \notin M
    <3>1. \A j \in 1..i : j \in 1..Len(q) /\ j # i + 1
      BY <1>1, <2>1
    <3>2. \A j \in 1..i : q[j] # q[i + 1]
      BY <2>1, <3>1 DEF JoinedAre
    <3> QED BY <2>2, <2>4, <3>2
  <2>6. M \subseteq N /\ n \in N
    BY <1>1, <2>1, <2>2, <2>4
  <2>7. Fine(s, u, M) /\ Good(u) /\ StaysTidy(s, u, X, A, W)
    BY <2>2, <2>4 DEF Fine
  <2>8. Live(s, n) /\ s.job[n].stage \in {"joins", "joins turned"}
    BY <2>1, <2>2 DEF JoinedAre
  <2>9. u.job[n] = s.job[n]
    BY <2>3, <2>5, <2>7, <2>8 DEF Fine
  <2>10. Live(u, n) /\ u.job[n].stage \in {"joins", "joins turned"}
    BY <2>8, <2>9 DEF Live
  <2>11. Fine(u, v, {n})
    BY <2>3, <2>7, <2>10, JoinedOneFine
  <2>12. Fine(s, u, N)
    BY <2>6, <2>7 DEF Fine
  <2>13. Fine(s, v, N)
    <3>1. \A m \in {n} : m \in N
      BY <2>6
    <3> QED BY <2>11, <2>12, <3>1, FineTrans
  <2>14. StaysTidy(u, v, X \ {n}, A, W)
    BY <2>3, <2>7, <2>10, JoinedOneTidy DEF StaysTidy
  <2>15. X \ {n} \subseteq Y
    <3>1. \A j \in (i + 1)..Len(q) : j = i + 1 \/ j \in ((i + 1) + 1)..Len(q)
      BY <1>1, <2>1
    <3> QED BY <2>2, <2>4, <3>1
  <2>16. StaysTidy(u, v, Y, A, W)
    BY <2>14, <2>15, TidyMore DEF StaysTidy
  <2>17. StaysTidy(s, v, Y, A, W)
    BY <2>7, <2>16, StaysTrans
  <2> QED BY <2>1, <2>2, <2>4, <2>13, <2>17
<1>6. Len(q) \in G
  <2> HIDE DEF G
  <2> QED BY <1>1, <1>4, <1>5, UpTo
<1>7. Left(Len(q)) = {}
  BY <1>1
<1>8. Fine(s, t, Gone(Len(q))) /\ StaysTidy(s, t, Left(Len(q)), A, W)
  BY <1>3, <1>6
<1> QED BY <1>7, <1>8 DEF Fine

(* The downloads of q go first, one after the other.                       *)
LEMMA PromoteEachTidy ==
  ASSUME Constants, Limits, NEW s, Good(s), NEW q \in Seq(Jobs), NEW X, NEW A, NEW W,
         Tidy(s, X, A, W), NEW t, t = PromoteEach(s, q)
  PROVE  StaysTidy(s, t, X, A, W)
<1>1. Len(q) \in Nat /\ \A i \in 1..Len(q) : q[i] \in Jobs
  OBVIOUS
<1>2. PICK k : PromoteRuns(k, s, q)
  BY <1>1, PromoteIs
<1>3. /\ k[0] = s /\ t = k[Len(q)]
      /\ \A i \in 1..Len(q) : k[i] = PromoteOne(k[i - 1], q[i])
  BY <1>2 DEF PromoteRuns
<1> DEFINE G == {i \in 0..Len(q) : Good(k[i]) /\ StaysTidy(s, k[i], X, A, W)}
<1>4. 0 \in G
  <2>1. StaysTidy(s, s, X, A, W)
    BY DEF StaysTidy
  <2> QED BY <1>1, <1>3, <2>1
<1>5. \A i \in 0..(Len(q) - 1) : i \in G => i + 1 \in G
  <2> SUFFICES ASSUME NEW i \in 0..(Len(q) - 1), i \in G PROVE i + 1 \in G
    OBVIOUS
  <2>1. i + 1 \in 1..Len(q) /\ i + 1 \in 0..Len(q) /\ (i + 1) - 1 = i
    BY <1>1
  <2>2. PICK u, v, n : u = k[i] /\ v = k[i + 1] /\ n = q[i + 1]
    OBVIOUS
  <2>3. v = PromoteOne(u, n) /\ n \in Jobs
    BY <1>1, <1>3, <2>1, <2>2
  <2>4. Good(u) /\ StaysTidy(s, u, X, A, W)
    BY <2>2
  <2>5. Good(v) /\ StaysTidy(u, v, X, A, W)
    <3>1. CASE u.job[n] = NoJob
      <4>1. v = u
        BY <2>3, <3>1 DEF PromoteOne
      <4> QED BY <2>4, <4>1 DEF StaysTidy
    <3>2. CASE u.job[n] # NoJob
      <4>1. PICK w : w = Promote(u, n)
        OBVIOUS
      <4>2. Live(u, n) /\ u \in State /\ TurnsOK(u) /\ QueuesOK(u) /\ Tidy(u, X, A, W)
        BY <2>3, <2>4, <3>2 DEF Live, Good, StaysTidy
      <4>3. Moves(u, w, {n})
        BY <4>1, <4>2, PromoteMoves
      <4>4. Good(w)
        BY <2>4, <4>3, MovesFine DEF Fine
      <4>5. Tidy(w, X, A, W)
        BY <2>4, <4>1, <4>2, PromoteTidy
      <4>6. v = Pump(w)
        BY <2>3, <3>2, <4>1 DEF PromoteOne
      <4>7. Fine(w, v, {})
        BY <4>4, <4>6, PumpFine
      <4>8. Tidy(v, X, A, W) /\ Pumped(v)
        BY <4>4, <4>5, <4>6, PumpTidy
      <4> QED BY <4>7, <4>8 DEF Fine, StaysTidy
    <3> QED BY <3>1, <3>2
  <2>6. StaysTidy(s, v, X, A, W)
    BY <2>4, <2>5, StaysTrans
  <2> QED BY <2>1, <2>2, <2>5, <2>6
<1>6. Len(q) \in G
  <2> HIDE DEF G
  <2> QED BY <1>1, <1>4, <1>5, UpTo
<1> QED BY <1>3, <1>6

----------------------------------------------------------------------------
(* Between the steps.                                                      *)

NoneLands(s) == \A r \in Readers : s.read[r].state # "landed"
Rest(s) == Tidy(s, {}, Demand(s), s.read) /\ Pumped(s) /\ NoneLands(s)

(* W: how the reads stand, A of them asked for, none landing.              *)
Standing(A, W) ==
  A = {r \in Readers : W[r].state = "asked"} /\ \A r \in Readers : W[r].state # "landed"

LEMMA RestIs ==
  ASSUME NEW t, NEW A, NEW W, Tidy(t, {}, A, W), Pumped(t), Standing(A, W)
  PROVE  Rest(t)
<1>1. \A r \in Readers : t.read[r].state = W[r].state
  BY DEF Tidy, ReadsOK
<1>2. Demand(t) = A /\ NoneLands(t)
  BY <1>1 DEF Standing, Demand, NoneLands
<1>3. ReadsOK(t, A, t.read)
  BY DEF Tidy, ReadsOK
<1>4. Tidy(t, {}, A, t.read)
  BY <1>3 DEF Tidy
<1> QED BY <1>2, <1>4 DEF Rest

LEMMA RestStands ==
  ASSUME NEW s, Rest(s)
  PROVE  Standing(Demand(s), s.read)
BY DEF Rest, Standing, Demand, NoneLands

LEMMA RestStays ==
  ASSUME NEW s, Rest(s), NEW t, StaysTidy(s, t, {}, Demand(s), s.read)
  PROVE  Rest(t)
<1>1. PICK A, W : A = Demand(s) /\ W = s.read
  OBVIOUS
<1>2. Tidy(t, {}, A, W) /\ Pumped(t) /\ Standing(A, W)
  BY <1>1, RestStands DEF Rest, StaysTidy
<1> QED BY <1>2, RestIs

LEMMA WaitEndsTidy ==
  ASSUME Constants, NEW s, Safe(s), NEW A, NEW W, Tidy(s, {}, A, W), Pumped(s), Standing(A, W),
         WaitEnds(s)
  PROVE  Rest(b')
<1>1. PICK recent \in BOOLEAN : b' = Kick([s EXCEPT !.recent = recent])
  BY DEF WaitEnds
<1>2. PICK u : u = [s EXCEPT !.recent = recent]
  OBVIOUS
<1>3. Safe(u) /\ Good(u) /\ s \in State
  BY <1>2, RecentSafe DEF Safe, Good
<1>4. /\ u.job = s.job /\ u.turns = s.turns /\ u.wantQ = s.wantQ /\ u.placeQ = s.placeQ
      /\ u.fg = s.fg /\ u.list = s.list /\ u.read = s.read
  BY <1>2, <1>3 DEF State
<1>5. PICK v, X : v = b' /\ X = {}
  OBVIOUS
<1>6. v = Kick(u) /\ Tidy(s, X, A, W)
  BY <1>1, <1>2, <1>5
<1>7. StaysTidy(s, u, X, A, W)
  BY <1>4, <1>6, PlainTidy
<1>8. StaysTidy(u, v, X, A, W)
  BY <1>3, <1>6, <1>7, KickTidy DEF StaysTidy
<1>9. Tidy(v, {}, A, W) /\ Pumped(v)
  BY <1>5, <1>7, <1>8 DEF StaysTidy
<1> QED BY <1>5, <1>9, RestIs

LEMMA WaitEndsRest ==
  ASSUME Constants, NEW s, Safe(s), Rest(s), WaitEnds(s)
  PROVE  Rest(b')
<1>1. PICK A, W : A = Demand(s) /\ W = s.read
  OBVIOUS
<1>2. Tidy(s, {}, A, W) /\ Pumped(s) /\ Standing(A, W)
  BY <1>1, RestStands DEF Rest
<1> QED BY <1>2, WaitEndsTidy

----------------------------------------------------------------------------
(* Lists.                                                                  *)

WithList(s, l, x) == [s EXCEPT !.list = [s.list EXCEPT ![l] = x]]

ListMay(s, x) == x # Over => (x.hold => x.kind = "announced") /\ Unmet(s, x.on)

LEMMA ListSetTidy ==
  ASSUME Constants, NEW s, Good(s), NEW X, NEW A, NEW W, Tidy(s, X, A, W),
         NEW l \in Lists, NEW x \in OpenList \cup {Over}, ListMay(s, x), NEW t, t = WithList(s, l, x)
  PROVE  StaysTidy(s, t, X, A, W) /\ Good(t)
<1>1. s \in State
  BY DEF Good
<1>2. PICK list : list = [s.list EXCEPT ![l] = x]
  OBVIOUS
<1>3. /\ list \in [Lists -> OpenList \cup {Over}] /\ list[l] = x
      /\ \A m \in Lists \ {l} : list[m] = s.list[m]
  BY <1>1, <1>2, StateParts
<1>4. /\ t \in State /\ t.job = s.job /\ t.turns = s.turns /\ t.wantQ = s.wantQ /\ t.fg = s.fg
      /\ t.placeQ = s.placeQ /\ t.flights = s.flights /\ t.list = list /\ t.read = s.read
  BY <1>1, <1>2, <1>3 DEF State, WithList
<1>5. Queued(t) = Queued(s)
  BY <1>4 DEF Queued
<1>6. ListsOK(t)
  <2> SUFFICES ASSUME NEW m \in Lists, list[m] # Over
               PROVE  (list[m].hold => list[m].kind = "announced") /\ Unmet(t, list[m].on)
    BY <1>4 DEF ListsOK
  <2>1. (list[m].hold => list[m].kind = "announced") /\ Unmet(s, list[m].on)
    <3>1. CASE m = l
      BY <1>3, <3>1 DEF ListMay
    <3>2. CASE m # l
      BY <1>3, <3>2 DEF Tidy, ListsOK
    <3> QED BY <3>1, <3>2
  <2> QED BY <1>4, <2>1 DEF Unmet, Live
<1>7. PlacedBut(t, X, A)
  <2> SUFFICES ASSUME NEW m \in Jobs \ X, Live(t, m) PROVE Placed(t, m, A)
    BY DEF PlacedBut
  <2>1. Placed(s, m, A)
    BY <1>4 DEF Tidy, PlacedBut, Live
  <2> QED BY <1>4, <1>5, <2>1 DEF Placed
<1>8. LoadsOK(t) /\ PredictedOK(t) /\ BroughtOK(t, A) /\ ReadsOK(t, A, W)
  BY <1>4 DEF Tidy, LoadsOK, PredictedOK, BroughtOK, ReadsOK
<1>9. ASSUME Pumped(s) PROVE Pumped(t)
  <2>1. Started(t, "announced") = Started(s, "announced") /\ Started(t, "place") = Started(s, "place")
    BY <1>4 DEF Started
  <2> QED BY <1>4, <1>5, <1>9, <2>1 DEF Pumped
<1>10. TurnsOK(t) /\ QueuesOK(t) /\ FlightsOK(t)
  BY <1>4, <1>5 DEF Good, TurnsOK, QueuesOK, FlightsOK, Live
<1>11. AwaitedOK(t)
  <2> SUFFICES ASSUME NEW n \in Jobs, ByRead(t, n) \/ ByList(t, n) PROVE Live(t, n)
    BY DEF AwaitedOK, Awaited
  <2>1. CASE ByRead(t, n)
    <3>1. ByRead(s, n)
      BY <1>4, <2>1 DEF ByRead
    <3> QED BY <1>4, <3>1 DEF Good, AwaitedOK, Awaited, Live
  <2>2. CASE ByList(t, n)
    <3>1. PICK m \in Lists : t.list[m] # Over /\ \E p \in DOMAIN t.list[m].on : t.list[m].on[p].job = n
      BY <2>2 DEF ByList
    <3>2. Unmet(t, t.list[m].on)
      BY <1>6, <3>1 DEF ListsOK
    <3> QED BY <3>1, <3>2 DEF Unmet, Constants
  <2> QED BY <2>1, <2>2
<1> QED BY <1>4, <1>6, <1>7, <1>8, <1>9, <1>10, <1>11 DEF StaysTidy, Tidy, Good

LEMMA ListEndsRest ==
  ASSUME Constants, Limits, Safe(b), Rest(b), NEW l \in Lists, ListEnds(l)
  PROVE  Rest(b')
<1>1. PICK c, x, u : c = b /\ x = Over /\ u = WithList(c, l, x)
  OBVIOUS
<1>2. Safe(c) /\ Good(c) /\ Rest(c)
  BY <1>1 DEF Safe
<1>3. x \in OpenList \cup {Over} /\ ListMay(c, x)
  BY <1>1 DEF ListMay
<1>4. PICK X, A, W : X = {} /\ A = Demand(c) /\ W = c.read
  OBVIOUS
<1>5. Tidy(c, X, A, W)
  BY <1>2, <1>4 DEF Rest
<1>6. StaysTidy(c, u, X, A, W)
  BY <1>1, <1>2, <1>3, <1>5, ListSetTidy
<1>7. Rest(u)
  BY <1>2, <1>4, <1>6, RestStays
<1>8. Safe(u)
  <2>1. \A p \in DOMAIN x.on : x # Over /\ x.kind = "announced" /\ x.on[p].job \in Jobs =>
          Live(c, x.on[p].job) /\ May(c.job[x.on[p].job])
    BY <1>1
  <2>2. u = [c EXCEPT !.list = [c.list EXCEPT ![l] = x]]
    BY <1>1 DEF WithList
  <2> QED BY <1>2, <1>3, <2>1, <2>2, ListSet
<1>9. CASE b.list[l].hold
  <2>1. WaitEnds(u)
    BY <1>1, <1>9 DEF ListEnds, WithList
  <2> QED BY <1>7, <1>8, <2>1, WaitEndsRest
<1>10. CASE ~b.list[l].hold
  <2>1. b' = u
    BY <1>1, <1>10 DEF ListEnds, WithList
  <2> QED BY <1>7, <2>1
<1> QED BY <1>9, <1>10

LEMMA PumpRest ==
  ASSUME Constants, Limits, NEW s, Good(s), NEW A, NEW W, Tidy(s, {}, A, W), Standing(A, W),
         NEW t, t = Pump(s)
  PROVE  Rest(t)
<1>1. PICK X : X = {}
  OBVIOUS
<1>2. Tidy(s, X, A, W)
  BY <1>1
<1>3. Tidy(t, X, A, W) /\ Pumped(t)
  BY <1>2, PumpTidy
<1>4. Tidy(t, {}, A, W)
  BY <1>1, <1>3
<1> QED BY <1>3, <1>4, RestIs

LEMMA WantListRest ==
  ASSUME Constants, Limits, Safe(b), Rest(b), NEW l \in Lists, NEW q \in Orders,
         NEW kind \in {"announced", "place"}, NEW hold \in BOOLEAN, WantList(l, q, kind, hold)
  PROVE  Rest(b')
<1>1. PICK s, c : s = WantEach(c, q, kind) /\ c = b
  OBVIOUS
<1>2. q \in Seq(Pieces) /\ Len(q) \in Nat /\ Range(q) \subseteq Pieces
  BY OrderIs DEF Range
<1>3. Cardinality(FreeJobs(c)) >= Len(q)
  BY <1>1 DEF WantList, Free, FreeJobs
<1>4. Good(c) /\ Rest(c)
  BY <1>1 DEF Safe
<1>5. PICK X, A, W : X = {} /\ A = Demand(c) /\ W = c.read
  OBVIOUS
<1>6. Tidy(c, X, A, W) /\ Standing(A, W)
  BY <1>4, <1>5, RestStands DEF Rest
<1>7. Wants(c, s)
  BY <1>1, <1>2, <1>3, <1>4, WantEachIs
<1>8. Good(s) /\ s \in State
  BY <1>7 DEF Wants, Good
<1>9. Tidy(s, X, A, W)
  BY <1>1, <1>2, <1>3, <1>4, <1>6, WantEachTidy
<1>10. PICK on : on = [p \in Range(q) \ c.here |-> [job |-> s.flights[p], joined |-> c.flights[p] # Nobody]]
  OBVIOUS
<1>11. on \in Parts
  <2>1. \A p \in Range(q) \ c.here : on[p] \in Part
    BY <1>2, <1>8, <1>10, StateParts DEF Part
  <2>2. on \in [Range(q) \ c.here -> Part]
    BY <1>10, <2>1
  <2> QED BY <1>2, <2>2 DEF Parts
<1>12. PICK h : h = (hold /\ kind # "place")
  OBVIOUS
<1>13. PICK x : x = [state |-> "open", kind |-> kind, hold |-> h, on |-> on]
  OBVIOUS
<1>14. x \in OpenList \cup {Over} /\ x.hold = h /\ x.kind = kind /\ x.on = on
  BY <1>11, <1>12, <1>13 DEF OpenList
<1>15. ListMay(s, x)
  <2>1. h => kind = "announced"
    BY <1>12
  <2>2. Unmet(s, on)
    <3> SUFFICES ASSUME NEW p \in DOMAIN on PROVE on[p].job = Nobody \/ Live(s, on[p].job)
      BY DEF Unmet
    <3>1. p \in Pieces /\ on[p].job = s.flights[p]
      BY <1>2, <1>10
    <3> QED BY <1>8, <3>1 DEF Good, FlightsOK
  <2> QED BY <1>14, <2>1, <2>2 DEF ListMay
<1>16. PICK t : t = WithList(s, l, x)
  OBVIOUS
<1>17. Tidy(t, X, A, W) /\ Good(t)
  BY <1>8, <1>9, <1>14, <1>15, <1>16, ListSetTidy DEF StaysTidy
<1>18. PICK v : v = b'
  OBVIOUS
<1>19. v = Pump(t)
  BY <1>1, <1>10, <1>12, <1>13, <1>16, <1>18 DEF WantList, WithList
<1>20. Tidy(t, {}, A, W)
  BY <1>5, <1>17
<1> QED BY <1>6, <1>17, <1>18, <1>19, <1>20, PumpRest

LEMMA ListAsksRest ==
  ASSUME Constants, Limits, Safe(b), Rest(b), NEW l \in Lists, NEW p \in Pieces, ListAsks(l, p)
  PROVE  Rest(b')
<1>1. PICK c : c = b
  OBVIOUS
<1>2. Good(c) /\ c \in State /\ Rest(c)
  BY <1>1 DEF Safe, Good
<1>3. c.list[l] \in OpenList /\ c.list[l] # Over /\ p \in DOMAIN c.list[l].on /\ FreeJobs(c) # {}
  <2>1. c.list[l] # Over /\ p \in DOMAIN c.list[l].on /\ Free(c) > 0
    BY <1>1 DEF ListAsks
  <2>2. Cardinality(FreeJobs(c)) # 0
    BY <2>1, FreeFinite DEF Free, FreeJobs
  <2>3. Cardinality({}) = 0
    BY FS_EmptySet
  <2> QED BY ZenonT(60), <1>2, <2>1, <2>2, <2>3, StateParts
<1>4. PICK o : o = c.list[l].on
  OBVIOUS
<1>5. PICK D \in SUBSET Pieces : o \in [D -> Part]
  BY <1>3, <1>4 DEF OpenList, Parts
<1>6. p \in D
  BY <1>3, <1>4, <1>5
<1>7. PICK X, A, W : X = {} /\ A = Demand(c) /\ W = c.read
  OBVIOUS
<1>8. Tidy(c, X, A, W) /\ Standing(A, W)
  BY <1>2, <1>7, RestStands DEF Rest
<1>9. ListMay(c, c.list[l])
  BY <1>8 DEF Tidy, ListsOK, ListMay
<1>10. Unmet(c, o) /\ (c.list[l].hold => c.list[l].kind = "announced")
  BY <1>3, <1>4, <1>9 DEF ListMay
<1>11. CASE p \in c.here
  <2>1. PICK y : y = [o[p] EXCEPT !.joined = FALSE]
    OBVIOUS
  <2>2. y \in Part /\ y.job = o[p].job
    BY <1>5, <1>6, <2>1 DEF Part
  <2>3. PICK on : on = [o EXCEPT ![p] = y]
    OBVIOUS
  <2>4. on \in [D -> Part] /\ \A q \in D : on[q].job = o[q].job
    BY <1>5, <1>6, <2>2, <2>3
  <2>5. PICK x : x = [c.list[l] EXCEPT !.on = on]
    OBVIOUS
  <2>6. on \in Parts
    BY <2>4 DEF Parts
  <2>7. /\ x \in OpenList \cup {Over} /\ x.kind = c.list[l].kind /\ x.hold = c.list[l].hold
        /\ x.on = on
    BY <1>3, <2>5, <2>6 DEF OpenList
  <2>8. Unmet(c, on)
    BY <1>5, <1>10, <2>4 DEF Unmet
  <2>9. ListMay(c, x)
    BY <1>10, <2>7, <2>8 DEF ListMay
  <2>10. PICK t : t = WithList(c, l, x)
    OBVIOUS
  <2>11. StaysTidy(c, t, X, A, W)
    BY <1>2, <1>8, <2>7, <2>9, <2>10, ListSetTidy
  <2>12. b' = t
    BY <1>1, <1>4, <1>11, <2>1, <2>3, <2>5, <2>10 DEF ListAsks, WithList
  <2>13. Rest(t)
    BY <1>2, <1>7, <2>11, RestStays
  <2> QED BY <2>12, <2>13
<1>12. CASE p \notin c.here
  <2>1. PICK kind, s : kind = c.list[l].kind /\ s = WantUnit(c, p, kind)
    OBVIOUS
  <2>2. kind \in {"announced", "place"}
    BY <1>3, <2>1 DEF OpenList
  <2>3. /\ Good(s) /\ s.list = c.list /\ s.read = c.read /\ s.here = c.here
        /\ \A m \in Jobs : Live(c, m) => Live(s, m) /\ s.job[m] = c.job[m]
    BY <1>2, <1>3, <2>1, <2>2, WantUnitIs
  <2>4. Tidy(s, X, A, W) /\ s \in State
    BY <1>2, <1>3, <1>8, <2>1, <2>2, <2>3, WantUnitTidy DEF Good
  <2>5. PICK y : y = [job |-> s.flights[p], joined |-> FALSE]
    OBVIOUS
  <2>6. y \in Part /\ y.job = s.flights[p]
    BY <2>4, <2>5, StateParts DEF Part
  <2>7. PICK on : on = [o EXCEPT ![p] = y]
    OBVIOUS
  <2>8. on \in [D -> Part] /\ on[p] = y /\ \A q \in D \ {p} : on[q] = o[q]
    BY <1>5, <1>6, <2>6, <2>7
  <2>9. PICK x : x = [c.list[l] EXCEPT !.on = on]
    OBVIOUS
  <2>10. on \in Parts
    BY <2>8 DEF Parts
  <2>11. /\ x \in OpenList \cup {Over} /\ x.kind = c.list[l].kind /\ x.hold = c.list[l].hold
         /\ x.on = on
    BY <1>3, <2>9, <2>10 DEF OpenList
  <2>12. Unmet(s, on)
    <3> SUFFICES ASSUME NEW q \in D PROVE on[q].job = Nobody \/ Live(s, on[q].job)
      BY <2>8 DEF Unmet
    <3>1. CASE q = p
      BY <2>3, <2>6, <2>8, <3>1 DEF Good, FlightsOK
    <3>2. CASE q # p
      <4>1. on[q].job = o[q].job
        BY <2>8, <3>2
      <4>2. o[q].job = Nobody \/ Live(c, o[q].job)
        BY <1>5, <1>10 DEF Unmet
      <4> QED BY <2>3, <4>1, <4>2 DEF Live
    <3> QED BY <3>1, <3>2
  <2>13. ListMay(s, x)
    BY <1>10, <2>11, <2>12 DEF ListMay
  <2>14. PICK t : t = WithList(s, l, x)
    OBVIOUS
  <2>15. Tidy(t, X, A, W) /\ Good(t)
    BY <2>3, <2>4, <2>11, <2>13, <2>14, ListSetTidy DEF StaysTidy
  <2>16. PICK v : v = b'
    OBVIOUS
  <2>17. v = Pump(t)
    BY <1>1, <1>4, <1>12, <2>1, <2>3, <2>5, <2>7, <2>9, <2>14, <2>16 DEF ListAsks, WithList
  <2>18. Tidy(t, {}, A, W)
    BY <1>7, <2>15
  <2> QED BY <1>8, <2>15, <2>16, <2>17, <2>18, PumpRest
<1> QED BY <1>11, <1>12

----------------------------------------------------------------------------
(* Background requests.                                                    *)

(* The record of a request under way, in no queue, replaced.               *)
LEMMA RecordTidy ==
  ASSUME Constants, NEW s, Good(s), NEW X, NEW A, NEW W, Tidy(s, X, A, W),
         NEW n, Live(s, n), s.job[n].stage \notin {"turn", "queued"}, NEW j \in Job,
         Grows(s.job[n], j), j.kind = s.job[n].kind, j.forLoad = s.job[n].forLoad,
         j.stage \notin {"turn", "queued"}, NEW Y, \A m \in X : m \in Y \/ m = n,
         n \in Y \/ j.stage = "pause", NEW t, t = WithRecord(s, n, j)
  PROVE  /\ StaysTidy(s, t, Y, A, W) /\ Good(t) /\ t.job[n] = j /\ Live(t, n)
         /\ n \notin Queued(t) /\ n \notin Range(t.turns)
<1>1. s \in State /\ n \in Jobs /\ s.job[n] \in Job /\ n \notin Range(s.turns) /\ n \notin Queued(s)
  BY LiveIs, InNoQueue DEF Good
<1>2. WithJob(s, t, n, j) /\ t.turns = s.turns
  BY <1>1, SetJob DEF WithRecord
<1>3. t \in State /\ Same(s, t) /\ t.job = [s.job EXCEPT ![n] = j]
  BY <1>2 DEF WithJob
<1>4. t.job[n] = j /\ \A m \in Jobs \ {n} : t.job[m] = s.job[m]
  BY <1>1, <1>3, StateParts
<1>5. Live(t, n) /\ Queued(t) = Queued(s)
  BY <1>1, <1>3, <1>4, LiveIs DEF Same, Queued
<1>6. Moves(s, t, {n})
  BY <1>1, <1>2, <1>3, <1>4, <1>5, OneMoves DEF Good
<1>7. Good(t)
  BY <1>6, MovesFine DEF Fine
<1>8. n \in Y \/ Placed(t, n, A)
  BY <1>4 DEF Placed, RestStages, JoinStages
<1>9. t.job[n].kind = "announced" => t.job[n].forLoad
  BY <1>1, <1>4 DEF Tidy, LoadsOK
<1>10. n \notin Range(s.placeQ) /\ Range(s.placeQ) \subseteq Jobs /\ Queued(s) \subseteq Jobs
  BY <1>1, QueuedJobs
<1>11. Range(s.turns) \ {n} \subseteq Range(t.turns)
  BY <1>2
<1>12. Tidy(t, Y, A, W)
  <2>1. n \in Range(s.placeQ) => t.job[n].kind = "place" /\ ~t.job[n].forLoad
    BY <1>10
  <2>2. Range(s.placeQ) \subseteq Jobs
    BY <1>10
  <2>3. n \in Jobs /\ Same(s, t) /\ Live(t, n)
    BY <1>1, <1>3, <1>5
  <2> QED BY <1>4, <1>8, <1>9, <1>11, <2>1, <2>2, <2>3, OneTidy, ZenonT(60)
<1>13. ASSUME Pumped(s) PROVE Pumped(t)
  <2>1. t.wantQ = s.wantQ /\ t.placeQ = s.placeQ
    BY <1>3 DEF Same
  <2>2. t.job[n].kind = s.job[n].kind /\ t.job[n].stage # "queued"
    BY <1>4
  <2> QED BY <1>1, <1>4, <1>10, <1>13, <2>1, <2>2, OnePumped
<1> QED BY <1>1, <1>2, <1>4, <1>5, <1>7, <1>12, <1>13 DEF StaysTidy

LEMMA BgEndsRest ==
  ASSUME Constants, Limits, Safe(b), Rest(b), NEW n \in Jobs, NEW answer, BgEnds(n, answer)
  PROVE  Rest(b')
<1>1. PICK c, v : c = b /\ v = b'
  OBVIOUS
<1>2. Good(c) /\ Live(c, n) /\ c.job[n].stage \in {"sent", "aborted"} /\ Rest(c)
  BY <1>1 DEF BgEnds, Live, Safe
<1>3. c.job[n] \in Job /\ c.job[n].stage \notin {"turn", "queued"}
  BY <1>2, LiveIs DEF Good
<1>4. PICK j : j = [c.job[n] EXCEPT !.stage = "over"]
  OBVIOUS
<1>5. /\ j \in Job /\ Grows(c.job[n], j) /\ j.stage = "over" /\ j.kind = c.job[n].kind
      /\ j.forLoad = c.job[n].forLoad
  BY <1>3, <1>4 DEF Job, Stages, Grows
<1>6. PICK X, Y, A, W : X = {} /\ Y = {n} /\ A = Demand(c) /\ W = c.read
  OBVIOUS
<1>7. Tidy(c, X, A, W) /\ Pumped(c)
  BY <1>2, <1>6 DEF Rest
<1>8. PICK u : u = WithRecord(c, n, j)
  OBVIOUS
<1>9. StaysTidy(c, u, Y, A, W) /\ Good(u) /\ u.job[n] = j /\ Live(u, n)
  <2>1. /\ \A m \in X : m \in Y \/ m = n
        /\ n \in Y /\ j.stage \notin {"turn", "queued"}
    BY <1>5, <1>6
  <2> QED BY <1>2, <1>3, <1>5, <1>7, <1>8, <2>1, RecordTidy
<1>10. PICK k : k = Kick(u)
  OBVIOUS
<1>11. StaysTidy(u, k, Y, A, W)
  BY <1>9, <1>10, KickTidy DEF StaysTidy
<1>12. Fine(u, k, {}) /\ Good(k)
  <2>1. Fine(u, k, {})
    BY <1>9, <1>10, KickMoves, MovesFine DEF Good
  <2> QED BY <2>1 DEF Fine
<1>13. k.job[n] = j /\ Live(k, n)
  BY <1>5, <1>9, <1>12 DEF Fine, Live
<1>14. v = Answered(k, n, answer)
  BY <1>1, <1>4, <1>8, <1>10 DEF BgEnds, Stage, WithRecord
<1>15. StaysTidy(k, v, Y \ {n}, A, W)
  <2>1. k.job[n].stage \notin {"turn", "queued"}
    BY <1>5, <1>13
  <2> QED BY <1>11, <1>12, <1>13, <1>14, <2>1, AnsweredTidy DEF StaysTidy
<1>16. StaysTidy(k, v, X, A, W)
  <2>1. Y \ {n} = X
    BY <1>6
  <2> QED BY <1>15, <2>1
<1>17. StaysTidy(c, v, X, A, W)
  BY <1>9, <1>11, <1>16, StaysTrans
<1> QED BY <1>1, <1>2, <1>6, <1>17, RestStays

LEMMA RetryRest ==
  ASSUME Constants, Limits, Safe(b), Rest(b), NEW n \in Jobs, Retry(n)
  PROVE  Rest(b')
<1>1. PICK c, v : c = b /\ v = b'
  OBVIOUS
<1>2. Good(c) /\ Live(c, n) /\ c.job[n].stage = "pause" /\ Rest(c)
  BY <1>1 DEF Retry, Live, Safe
<1>3. c.job[n] \in Job /\ c.job[n].stage \notin {"turn", "queued"}
  BY <1>2, LiveIs DEF Good
<1>4. PICK j : j = [c.job[n] EXCEPT !.tries = @ + 1]
  OBVIOUS
<1>5. /\ j \in Job /\ Grows(c.job[n], j) /\ j.stage = "pause" /\ j.kind = c.job[n].kind
      /\ j.forLoad = c.job[n].forLoad
  BY <1>2, <1>3, <1>4 DEF Job, Grows
<1>6. PICK X, A, W : X = {} /\ A = Demand(c) /\ W = c.read
  OBVIOUS
<1>7. Tidy(c, X, A, W) /\ Pumped(c) /\ Standing(A, W)
  BY <1>2, <1>6, RestStands DEF Rest
<1>8. PICK u : u = WithRecord(c, n, j)
  OBVIOUS
<1>9. /\ StaysTidy(c, u, X, A, W) /\ Good(u) /\ u.job[n] = j /\ Live(u, n)
      /\ n \notin Queued(u) /\ n \notin Range(u.turns)
  <2>1. /\ \A m \in X : m \in X \/ m = n
        /\ j.stage \notin {"turn", "queued"}
    BY <1>5
  <2> QED BY <1>2, <1>3, <1>5, <1>7, <1>8, <2>1, RecordTidy
<1>10. v = IF u.job[n].piece \in u.here THEN Pump(Settle(u, n)) ELSE Ask(u, n)
  BY <1>1, <1>4, <1>8 DEF Retry, WithRecord
<1>11. X \ {n} = {}
  BY <1>6
<1>12. CASE u.job[n].piece \in u.here
  <2>1. PICK w : w = Settle(u, n)
    OBVIOUS
  <2>2. Good(w)
    BY <1>9, <2>1, SettleFine DEF Fine
  <2>3. Tidy(w, X \ {n}, A, W)
    BY <1>9, <2>1, SettleTidy DEF StaysTidy
  <2>4. Tidy(w, {}, A, W)
    BY <1>11, <2>3
  <2>5. v = Pump(w)
    BY <1>10, <1>12, <2>1
  <2> QED BY <1>1, <1>7, <2>2, <2>4, <2>5, PumpRest
<1>13. CASE u.job[n].piece \notin u.here
  <2>1. v = Ask(u, n) /\ u.job[n].stage # "turn"
    BY <1>5, <1>9, <1>10, <1>13
  <2>2. StaysTidy(u, v, X \ {n}, A, W)
    BY <1>9, <2>1, AskTidy DEF StaysTidy
  <2>3. StaysTidy(u, v, X, A, W)
    BY <1>6, <1>11, <2>2
  <2>4. StaysTidy(c, v, X, A, W)
    BY <1>9, <2>3, StaysTrans
  <2> QED BY <1>1, <1>2, <1>6, <2>4, RestStays
<1> QED BY <1>12, <1>13

LEMMA DropRest ==
  ASSUME Constants, Limits, Safe(b), Rest(b), NEW n \in Jobs, Drop(n)
  PROVE  Rest(b')
<1>1. PICK c, v : c = b /\ v = b'
  OBVIOUS
<1>2. Good(c) /\ c \in State /\ n \in Range(c.turns) /\ Rest(c) /\ c.job[n].kind = "ahead"
  BY <1>1 DEF Drop, Safe, Good
<1>3. Live(c, n) /\ c.job[n].stage = "turn" /\ n \notin Queued(c)
  BY <1>2 DEF Good, TurnsOK, QueuesOK
<1>4. PICK q : q = From(c.turns, n)
  OBVIOUS
<1>5. q \in Seq(Jobs) /\ Range(q) = Range(c.turns) \ {n}
  BY <1>2, <1>4, FromIs, StateParts
<1>6. PICK u : u = [c EXCEPT !.turns = q]
  OBVIOUS
<1>7. u \in State /\ Same(c, u) /\ u.job = c.job /\ u.turns = q
  BY <1>2, <1>5, <1>6, SetTurns
<1>8. Good(u) /\ Queued(u) = Queued(c)
  <2>1. Awaited(u) = Awaited(c) /\ Queued(u) = Queued(c)
    BY <1>7, SameAwaited DEF Same, Queued
  <2>2. TurnsOK(u)
    BY <1>2, <1>5, <1>7 DEF Good, TurnsOK, Live
  <2>3. QueuesOK(u) /\ FlightsOK(u) /\ AwaitedOK(u)
    BY <1>2, <1>7, <2>1 DEF Good, QueuesOK, FlightsOK, AwaitedOK, Live, Same
  <2> QED BY <1>7, <2>1, <2>2, <2>3 DEF Good
<1>9. PICK X, Y, A, W : X = {} /\ Y = {n} /\ A = Demand(c) /\ W = c.read
  OBVIOUS
<1>10. Tidy(c, X, A, W) /\ Pumped(c) /\ Standing(A, W)
  BY <1>2, <1>9, RestStands DEF Rest
<1>11. Live(u, n) /\ \A m \in Jobs \ {n} : u.job[m] = c.job[m]
  BY <1>3, <1>7 DEF Live
<1>12. Tidy(u, Y, A, W)
  <2>1. n \in Y /\ \A m \in X : m \in Y \/ m = n
    BY <1>9
  <2>2. /\ n \notin Range(c.placeQ) /\ Range(c.placeQ) \subseteq Jobs
        /\ Range(c.turns) \ {n} \subseteq Range(u.turns)
    BY <1>2, <1>3, <1>5, <1>7, QueuedJobs
  <2>3. u.job[n].kind # "announced"
    BY <1>2, <1>7
  <2> QED BY <1>7, <1>10, <1>11, <2>1, <2>2, <2>3, OneTidy
<1>13. Pumped(u)
  <2>1. u.wantQ = c.wantQ /\ u.placeQ = c.placeQ
    BY <1>7 DEF Same
  <2>2. Started(u, "announced") = Started(c, "announced") /\ Started(u, "place") = Started(c, "place")
    BY <1>7 DEF Started
  <2> QED BY <1>7, <1>8, <1>10, <2>1, <2>2 DEF Pumped
<1>14. PICK w : w = Settle(u, n)
  OBVIOUS
<1>15. n \notin Range(u.turns) /\ n \notin Queued(u)
  BY <1>3, <1>5, <1>7, <1>8
<1>16. Good(w)
  BY <1>8, <1>11, <1>14, <1>15, SettleFine DEF Fine
<1>17. Tidy(w, Y \ {n}, A, W) /\ Pumped(w)
  <2>1. u.job[n].kind = "ahead"
    BY <1>2, <1>7
  <2> QED BY <1>8, <1>11, <1>12, <1>13, <1>14, <1>15, <2>1, SettleTidy
<1>18. Tidy(w, X, A, W)
  <2>1. Y \ {n} = X
    BY <1>9
  <2> QED BY <1>17, <2>1
<1>19. v = Kick(w)
  BY <1>1, <1>4, <1>6, <1>14 DEF Drop
<1>20. StaysTidy(w, v, X, A, W)
  BY <1>16, <1>18, <1>19, KickTidy
<1>21. StaysTidy(c, v, X, A, W)
  BY <1>17, <1>20 DEF StaysTidy
<1> QED BY <1>1, <1>2, <1>9, <1>21, RestStays

LEMMA FetchPartBgRest ==
  ASSUME Constants, Limits, Safe(b), Rest(b), NEW p \in Pieces, NEW kind \in {"ahead", "fill"},
         FetchPartBg(p, kind)
  PROVE  Rest(b')
<1>1. PICK c, v : c = b /\ v = b'
  OBVIOUS
<1>2. Good(c) /\ c \in State /\ Free(c) > 0 /\ Rest(c)
  BY <1>1 DEF FetchPartBg, Safe, Good
<1>3. FreeJobs(c) # {}
  <2>1. Cardinality(FreeJobs(c)) # 0
    BY <1>2, FreeFinite DEF Free, FreeJobs
  <2>2. Cardinality({}) = 0
    BY FS_EmptySet
  <2> QED BY <2>1, <2>2
<1>4. PICK n : n = CHOOSE m \in Jobs : c.job[m] = NoJob
  OBVIOUS
<1>5. n \in FreeJobs(c) /\ n \in Jobs /\ ~Live(c, n) /\ c.job[n] = NoJob
  BY <1>3, <1>4 DEF FreeJobs, Live
<1>6. PICK stage \in Stages : stage = "new"
  BY DEF Stages
<1>7. PICK w, q : w = c.wantQ /\ q = c.placeQ
  OBVIOUS
<1>8. /\ w \in Seq(Jobs) /\ q \in Seq(Jobs) /\ Range(w) \cup Range(q) = Queued(c)
      /\ n \notin Queued(c)
  BY <1>2, <1>5, <1>7, StateParts DEF Queued, Good, QueuesOK
<1>9. kind \in Kinds
  BY DEF Kinds
<1>10. PICK u : u = JobAdded(c, n, kind, p, stage, w, q)
  OBVIOUS
<1>11. /\ Good(u) /\ u.list = c.list /\ u.read = c.read
       /\ Live(u, n) /\ u.job[n] = NewJob(kind, p, stage)
       /\ \A m \in Jobs \ {n} : u.job[m] = c.job[m]
       /\ Queued(u) = Range(w) \cup Range(q)
  BY <1>2, <1>5, <1>8, <1>9, <1>10, JobMade
<1>12. u.job[n].stage = "new"
  BY <1>6, <1>9, <1>11, NewJobIs
<1>13. v = Ask(u, n)
  <2>1. u = [c EXCEPT !.job = [c.job EXCEPT ![n] = NewJob(kind, p, stage)],
                      !.flights = [c.flights EXCEPT ![p] = n]]
    BY <1>2, <1>7, <1>10 DEF JobAdded, State
  <2> QED BY <1>1, <1>4, <1>6, <2>1 DEF FetchPartBg
<1>14. PICK X, Y, A, W : X = {} /\ Y = {n} /\ A = Demand(c) /\ W = c.read
  OBVIOUS
<1>15. Tidy(c, X, A, W) /\ Pumped(c)
  BY <1>2, <1>14 DEF Rest
<1>16. Tidy(u, Y, A, W)
  <2>1. /\ Range(c.wantQ) \subseteq Range(w) /\ Range(c.placeQ) \subseteq Range(q)
        /\ Range(w) \cup Range(q) \subseteq Queued(c) \cup {n}
        /\ Range(q) \subseteq Range(c.placeQ) \cup {n} /\ n \notin Range(w) \cup Range(q)
    BY <1>7, <1>8
  <2>2. X \subseteq Y /\ n \in Y /\ n \notin Range(q)
    BY <1>14, <2>1
  <2> QED BY <1>2, <1>5, <1>6, <1>8, <1>9, <1>10, <1>15, <2>1, <2>2, AddedTidy
<1>17. Pumped(u)
  <2>1. u.wantQ = c.wantQ /\ u.placeQ = c.placeQ
    BY <1>2, <1>7, <1>10 DEF JobAdded, State
  <2>2. c.job[n].kind \notin {"announced", "place"} /\ Queued(c) \subseteq Jobs
    BY <1>2, <1>5, QueuedJobs DEF NoJob
  <2> QED BY <1>5, <1>8, <1>11, <1>15, <2>1, <2>2, OnePumped
<1>18. StaysTidy(u, v, Y \ {n}, A, W)
  <2>1. n \notin Queued(u) /\ u.job[n].stage # "turn"
    BY <1>8, <1>11, <1>12
  <2> QED BY <1>11, <1>13, <1>16, <2>1, AskTidy
<1>19. StaysTidy(c, v, X, A, W)
  <2>1. Y \ {n} = X
    BY <1>14
  <2>2. StaysTidy(u, v, X, A, W)
    BY <1>18, <2>1
  <2> QED BY <1>17, <2>2 DEF StaysTidy
<1> QED BY <1>1, <1>2, <1>14, <1>19, RestStays

----------------------------------------------------------------------------
(* Reads.                                                                  *)

(* Only the reads and who brings what change: those that joined a request  *)
(* must still find it.                                                     *)
LEMMA ReadersTidy ==
  ASSUME NEW s, NEW X, NEW A, NEW W, Tidy(s, X, A, W), NEW t, t.job = s.job, t.turns = s.turns,
         t.wantQ = s.wantQ, t.placeQ = s.placeQ, t.list = s.list, NEW Y, X \subseteq Y,
         NEW B, NEW V, BroughtOK(t, B), ReadsOK(t, B, V),
         \A n \in Jobs \ Y : Live(s, n) /\ s.job[n].stage \in JoinStages /\ s.job[n].with \in A =>
           s.job[n].with \in B
  PROVE  StaysTidy(s, t, Y, B, V)
<1>1. Queued(t) = Queued(s)
  BY DEF Queued
<1>2. PlacedBut(t, Y, B)
  <2> SUFFICES ASSUME NEW n \in Jobs \ Y, Live(t, n) PROVE Placed(t, n, B)
    BY DEF PlacedBut
  <2>1. Live(s, n) /\ n \in Jobs \ X
    BY DEF Live
  <2>2. Placed(s, n, A)
    BY <2>1 DEF Tidy, PlacedBut
  <2>3. s.job[n].stage \in JoinStages => s.job[n].with \in B
    BY <2>1, <2>2 DEF Placed
  <2> QED BY <1>1, <2>2, <2>3 DEF Placed
<1>3. LoadsOK(t) /\ PredictedOK(t)
  BY DEF Tidy, LoadsOK, PredictedOK
<1>4. ListsOK(t)
  <2>1. \A m \in Jobs : Live(s, m) => Live(t, m)
    BY DEF Live
  <2> QED BY <2>1, ListsKept DEF Tidy
<1>5. ASSUME Pumped(s) PROVE Pumped(t)
  <2>1. Started(t, "announced") = Started(s, "announced") /\ Started(t, "place") = Started(s, "place")
    BY DEF Started
  <2> QED BY <1>1, <1>5, <2>1 DEF Pumped
<1> QED BY <1>2, <1>3, <1>4, <1>5 DEF StaysTidy, Tidy

(* What a read's record leaves of the state.                               *)
LEMMA WithReadIs ==
  ASSUME NEW s \in State, NEW r \in Readers, NEW x \in Asked \cup Flying \cup {Over, FgOver},
         NEW t, t = WithRead(s, r, x)
  PROVE  /\ t \in State /\ t.job = s.job /\ t.turns = s.turns /\ t.wantQ = s.wantQ
         /\ t.placeQ = s.placeQ /\ t.list = s.list /\ t.fg = s.fg /\ t.here = s.here
         /\ t.read[r] = x /\ \A m \in Readers \ {r} : t.read[m] = s.read[m]
<1>1. PICK read : read = [s.read EXCEPT ![r] = x]
  OBVIOUS
<1>2. /\ read \in [Readers -> Asked \cup Flying \cup {Over, FgOver}] /\ read[r] = x
      /\ \A m \in Readers \ {r} : read[m] = s.read[m]
  BY <1>1, StateParts
<1>3. /\ t \in State /\ t.job = s.job /\ t.turns = s.turns /\ t.wantQ = s.wantQ
      /\ t.placeQ = s.placeQ /\ t.list = s.list /\ t.fg = s.fg /\ t.here = s.here
      /\ t.read = read
  BY <1>1, <1>2 DEF State, WithRead
<1> QED BY <1>2, <1>3

LEMMA ReadSetTidy ==
  ASSUME NEW s \in State, NEW X, NEW A, NEW W, Tidy(s, X, A, W), NEW r \in Readers,
         NEW x \in Asked \cup Flying \cup {Over, FgOver}, NEW B, A \subseteq B,
         x.state = "flying" => x.readers \subseteq B, NEW t, t = WithRead(s, r, x)
  PROVE  StaysTidy(s, t, X, B, t.read)
<1>1. /\ t.job = s.job /\ t.turns = s.turns /\ t.wantQ = s.wantQ /\ t.placeQ = s.placeQ
      /\ t.list = s.list /\ t.fg = s.fg
      /\ t.read[r] = x /\ \A m \in Readers \ {r} : t.read[m] = s.read[m]
  BY WithReadIs
<1>2. BroughtOK(t, B)
  BY <1>1 DEF Tidy, BroughtOK
<1>3. PICK V : V = t.read
  OBVIOUS
<1>4. ReadsOK(t, B, V)
  <2> SUFFICES ASSUME NEW m \in Readers, t.read[m].state = "flying"
               PROVE  t.read[m].readers \subseteq B
    BY <1>3 DEF ReadsOK
  <2>1. CASE m = r
    BY <1>1, <2>1
  <2>2. CASE m # r
    BY <1>1, <2>2 DEF Tidy, ReadsOK
  <2> QED BY <2>1, <2>2
<1>5. \A n \in Jobs \ X : Live(s, n) /\ s.job[n].stage \in JoinStages /\ s.job[n].with \in A =>
        s.job[n].with \in B
  OBVIOUS
<1>6. StaysTidy(s, t, X, B, V)
  BY <1>1, <1>2, <1>4, <1>5, ReadersTidy
<1> QED BY <1>3, <1>6

LEMMA StandingSet ==
  ASSUME NEW s \in State, NoneLands(s), NEW r \in Readers, s.read[r].state # "asked",
         NEW x \in Asked \cup Flying \cup {Over, FgOver}, x.state # "landed",
         NEW B, B = IF x.state = "asked" THEN Demand(s) \cup {r} ELSE Demand(s),
         NEW t, t = WithRead(s, r, x)
  PROVE  Standing(B, t.read)
<1>1. t.read[r] = x /\ \A m \in Readers \ {r} : t.read[m] = s.read[m]
  BY WithReadIs
<1>2. \A m \in Readers : t.read[m].state # "landed"
  BY <1>1 DEF NoneLands
<1>3. B = {m \in Readers : t.read[m].state = "asked"}
  <2>1. \A m \in B : m \in Readers
    BY DEF Demand
  <2>2. ASSUME NEW m \in Readers PROVE m \in B <=> t.read[m].state = "asked"
    <3>1. CASE m = r
      BY <1>1, <3>1 DEF Demand
    <3>2. CASE m # r
      BY <1>1, <3>2 DEF Demand
    <3> QED BY <3>1, <3>2
  <2> QED BY <2>1, <2>2
<1> QED BY <1>2, <1>3 DEF Standing

LEMMA AskMissingRest ==
  ASSUME Constants, Limits, Safe(b), Rest(b), NEW r \in Readers, b.read[r].state # "asked",
         NEW S \in SUBSET Pieces, AskMissing(b, r, S)
  PROVE  Rest(b')
<1>1. PICK c, v : c = b /\ v = b'
  OBVIOUS
<1>2. Safe(c) /\ c \in State /\ Rest(c) /\ NoneLands(c) /\ c.read[r].state # "asked"
  BY <1>1 DEF Safe, Good, Rest
<1>3. PICK X, A, W : X = {} /\ A = Demand(c) /\ W = c.read
  OBVIOUS
<1>4. Tidy(c, X, A, W) /\ Pumped(c)
  BY <1>2, <1>3 DEF Rest
<1>5. CASE S \subseteq c.here
  <2>1. PICK x : x = Over
    OBVIOUS
  <2>2. PICK u : u = WithRead(c, r, x)
    OBVIOUS
  <2>3. /\ x \in Asked \cup {Over, FgOver} /\ x \in Asked \cup Flying \cup {Over, FgOver}
        /\ x.state = "over"
    BY <2>1 DEF Over
  <2>4. Safe(u)
    BY <1>2, <2>2, <2>3, NoLongerWaits
  <2>5. WaitEnds(u)
    BY <1>1, <1>5, <2>1, <2>2 DEF AskMissing, WithRead
  <2>6. PICK V : V = u.read
    OBVIOUS
  <2>7. StaysTidy(c, u, X, A, V)
    BY <1>2, <1>4, <2>2, <2>3, <2>6, ReadSetTidy
  <2>8. Tidy(u, {}, A, V) /\ Pumped(u)
    BY <1>3, <1>4, <2>7 DEF StaysTidy
  <2>9. Standing(A, V)
    <3>1. A = IF x.state = "asked" THEN Demand(c) \cup {r} ELSE Demand(c)
      BY <1>3, <2>3
    <3>2. x.state # "landed"
      BY <2>3
    <3> QED BY <1>2, <2>2, <2>3, <2>6, <3>1, <3>2, StandingSet
  <2> QED BY <2>4, <2>5, <2>8, <2>9, WaitEndsTidy
<1>6. CASE ~(S \subseteq c.here)
  <2>1. PICK x : x = [state |-> "asked", pieces |-> S \ c.here]
    OBVIOUS
  <2>2. PICK u : u = WithRead(c, r, x)
    OBVIOUS
  <2>3. x \in Asked \cup Flying \cup {Over, FgOver} /\ x.state = "asked"
    BY <2>1 DEF Asked
  <2>4. PICK f : f = [p \in Pieces |-> IF p \in S \ c.here THEN r ELSE c.fg[p]]
    OBVIOUS
  <2>5. u \in State /\ u.fg = c.fg
    BY <1>2, <2>2, <2>3, WithReadIs
  <2>6. v = [u EXCEPT !.fg = f]
    BY <1>1, <1>6, <2>1, <2>2, <2>4, <2>5 DEF AskMissing, WithRead
  <2>7. PICK V, B : V = u.read /\ B = A \cup {r}
    OBVIOUS
  <2>8. StaysTidy(c, u, X, B, V)
    <3>1. A \subseteq B
      BY <2>7
    <3> QED BY <1>2, <1>4, <2>2, <2>3, <2>7, <3>1, ReadSetTidy
  <2>9. /\ v.job = u.job /\ v.turns = u.turns /\ v.wantQ = u.wantQ /\ v.placeQ = u.placeQ
        /\ v.list = u.list /\ v.read = u.read /\ v.fg = f
    BY <2>5, <2>6 DEF State
  <2>10. BroughtOK(v, B)
    BY <1>4, <2>4, <2>7, <2>9 DEF Tidy, BroughtOK
  <2>11. ReadsOK(v, B, V)
    BY <2>8, <2>9 DEF StaysTidy, Tidy, ReadsOK
  <2>12. StaysTidy(u, v, X, B, V)
    BY <2>8, <2>9, <2>10, <2>11, ReadersTidy DEF StaysTidy
  <2>13. Tidy(v, {}, B, V) /\ Pumped(v)
    BY <1>3, <1>4, <2>8, <2>12 DEF StaysTidy
  <2>14. Standing(B, V)
    <3>1. B = IF x.state = "asked" THEN Demand(c) \cup {r} ELSE Demand(c)
      BY <1>3, <2>3, <2>7
    <3>2. x.state # "landed"
      BY <2>3
    <3> QED BY <1>2, <2>2, <2>3, <2>7, <3>1, <3>2, StandingSet
  <2> QED BY <1>1, <2>13, <2>14, RestIs
<1> QED BY <1>5, <1>6

LEMMA ReadRest ==
  ASSUME Constants, Limits, Safe(b), Rest(b), NEW r \in Readers, NEW S \in SUBSET Pieces, Read(r, S)
  PROVE  Rest(b')
<1>1. PICK c, v : c = b /\ v = b'
  OBVIOUS
<1>2. Safe(c) /\ Good(c) /\ c \in State /\ Rest(c) /\ NoneLands(c)
  BY <1>1 DEF Safe, Good, Rest
<1>3. PICK flying, fgs : /\ flying = {c.flights[p] : p \in S} \ {Nobody}
                         /\ fgs = {c.fg[p] : p \in S} \ {Nobody}
  OBVIOUS
<1>4. c.read[r].state # "asked"
  BY <1>1 DEF Read, Over
<1>5. CASE flying \cup fgs = {}
  <2>1. AskMissing(b, r, S)
    BY <1>1, <1>3, <1>5 DEF Read
  <2> QED BY <1>1, <1>4, <2>1, AskMissingRest
<1>6. CASE flying \cup fgs # {}
  <2>1. \A n \in flying : Live(c, n)
    BY <1>2, <1>3 DEF Good, FlightsOK
  <2>2. flying \in SUBSET Jobs /\ fgs \in SUBSET Readers
    BY <1>2, <1>3, <2>1, StateParts DEF Live
  <2>3. PICK x : x = [state |-> "flying", pieces |-> S, jobs |-> flying, readers |-> fgs]
    OBVIOUS
  <2>4. x \in Flying /\ x.jobs = flying /\ x.readers = fgs /\ x.state = "flying"
    BY <2>2, <2>3 DEF Flying
  <2>5. PICK w : w = WithRead(c, r, x)
    OBVIOUS
  <2>6. Good(w)
    BY <1>2, <2>1, <2>4, <2>5, ReadSet
  <2>7. PICK q : q = SetToSeq(flying)
    OBVIOUS
  <2>8. IsFiniteSet(flying)
    BY <2>2, FS_Subset DEF Constants
  <2>9. q \in Seq(flying) /\ Range(q) = flying
    BY <2>7, <2>8, SequenceOf
  <2>10. q \in Seq(Jobs)
    BY <2>2, <2>9
  <2>11. v = PromoteEach(w, q)
    BY <1>1, <1>3, <1>6, <2>3, <2>5, <2>7 DEF Read, WithRead
  <2>12. PICK X, A, W, V : X = {} /\ A = Demand(c) /\ W = c.read /\ V = w.read
    OBVIOUS
  <2>13. Tidy(c, X, A, W) /\ Pumped(c)
    BY <1>2, <2>12 DEF Rest
  <2>14. x.readers \subseteq A
    BY <1>3, <2>4, <2>13 DEF Tidy, BroughtOK
  <2>15. StaysTidy(c, w, X, A, V)
    <3>1. x \in Asked \cup Flying \cup {Over, FgOver} /\ A \subseteq A
      BY <2>4
    <3> QED BY <1>2, <2>5, <2>12, <2>13, <2>14, <3>1, ReadSetTidy
  <2>16. StaysTidy(w, v, X, A, V)
    BY <2>6, <2>10, <2>11, <2>15, PromoteEachTidy DEF StaysTidy
  <2>17. Tidy(v, {}, A, V) /\ Pumped(v)
    BY <2>12, <2>13, <2>15, <2>16 DEF StaysTidy
  <2>18. Standing(A, V)
    <3>1. A = IF x.state = "asked" THEN Demand(c) \cup {r} ELSE Demand(c)
      BY <2>4, <2>12
    <3>2. x.state # "landed" /\ x \in Asked \cup Flying \cup {Over, FgOver}
      BY <2>4
    <3> QED BY <1>2, <1>4, <2>5, <2>12, <3>1, <3>2, StandingSet
  <2> QED BY <1>1, <2>17, <2>18, RestIs
<1> QED BY <1>5, <1>6

LEMMA ReadAsksRest ==
  ASSUME Constants, Limits, Safe(b), Rest(b), NEW r \in Readers, ReadAsks(r)
  PROVE  Rest(b')
<1>1. /\ b.read[r] \in Asked \cup Flying \cup {Over, FgOver} /\ b.read[r].state = "flying"
      /\ b.read[r].state # "asked"
  BY StateParts DEF Safe, Good, ReadAsks
<1>2. b.read[r].pieces \in SUBSET Pieces
  BY <1>1 DEF Asked, Flying, Over, FgOver
<1>3. PICK S : S = b.read[r].pieces
  OBVIOUS
<1>4. S \in SUBSET Pieces /\ AskMissing(b, r, S)
  BY <1>2, <1>3 DEF ReadAsks
<1> QED BY <1>1, <1>4, AskMissingRest

----------------------------------------------------------------------------

LEMMA FgEndsRest ==
  ASSUME Constants, Limits, Safe(b), Rest(b), NEW r \in Readers, NEW ok \in BOOLEAN, FgEnds(r, ok)
  PROVE  Rest(b')
<1>1. PICK c : c = b
  OBVIOUS
<1>2. Safe(c) /\ c \in State /\ Rest(c) /\ NoneLands(c) /\ c.read[r].state = "asked"
  BY <1>1 DEF Safe, Good, Rest, FgEnds
<1>3. PICK d, e, s1, s2, q, g, w : FgSteps(c, r, d, e, s1, s2, q, g, w)
  BY <1>1, FgEndsIs
<1>4. PICK X, A, W, V : X = {} /\ A = Demand(c) /\ W = c.read /\ V = d.read
  OBVIOUS
<1>5. Tidy(c, X, A, W) /\ Pumped(c)
  BY <1>2, <1>4 DEF Rest
<1>6. StaysTidy(c, d, X, A, V) /\ d \in State
  <2>1. PICK x : x = FgOver
    OBVIOUS
  <2>2. x \in Asked \cup Flying \cup {Over, FgOver} /\ x.state # "flying" /\ A \subseteq A
    BY <2>1 DEF FgOver
  <2>3. d = WithRead(c, r, x)
    BY <1>3, <2>1 DEF FgSteps
  <2> QED BY <1>2, <1>4, <1>5, <2>2, <2>3, ReadSetTidy, WithReadIs
<1>7. StaysTidy(d, e, X, A, V) /\ e.read = V
  <2>1. PlainSame(d, e) /\ Tidy(d, X, A, V)
    BY <1>3, <1>6 DEF FgSteps, StaysTidy
  <2> QED BY <1>4, <2>1, PlainTidy DEF PlainSame
<1>8. StaysTidy(e, s1, X, A, V) /\ s1.read = V
  <2>1. Good(e) /\ s1 = Kick(e) /\ Tidy(e, X, A, V)
    BY <1>3, <1>7 DEF FgSteps, Safe, StaysTidy
  <2>2. StaysTidy(e, s1, X, A, V)
    BY <2>1, KickTidy
  <2>3. Moves(e, s1, {})
    BY <2>1, KickMoves DEF Good
  <2> QED BY <1>7, <2>2, <2>3 DEF Moves, Same
<1>9. PICK Y, B : Y = Range(q) /\ B = A \ {r}
  OBVIOUS
<1>10. StaysTidy(s1, s2, Y, B, V)
  <2>1. Tidy(s1, X, A, V) /\ FgBrought(s1, s2, r) /\ Y = FgJoined(s2, r)
    BY <1>3, <1>8, <1>9 DEF StaysTidy, FgSteps
  <2>2. BroughtOK(s2, B)
    BY <1>9, <2>1 DEF FgBrought, Tidy, BroughtOK
  <2>3. ASSUME NEW m \in Readers
        PROVE  /\ s2.read[m].state = V[m].state
               /\ s2.read[m].state = "flying" => s2.read[m].readers \subseteq B
    <3>1. s1.read[m] = V[m] /\ (V[m].state = "flying" => V[m].readers \subseteq A)
      BY <1>8, <2>1 DEF Tidy, ReadsOK
    <3>2. CASE V[m].state = "flying"
      <4>1. s2.read[m] = Landed(V[m], r)
        BY <2>1, <3>1, <3>2 DEF FgBrought
      <4>2. V[m] \in Flying
        <5>1. s1 \in State
          BY <1>3 DEF FgSteps, Safe, Good
        <5>2. s1.read[m] \in Asked \cup Flying \cup {Over, FgOver}
          BY <5>1, StateParts
        <5> QED BY <3>1, <3>2, <5>2 DEF Asked, Over, FgOver
      <4>3. s2.read[m].state = V[m].state /\ s2.read[m].readers = V[m].readers \ {r}
        BY <4>1, <4>2 DEF Landed, Flying
      <4> QED BY <1>9, <3>1, <3>2, <4>3
    <3>3. CASE V[m].state # "flying"
      <4>1. s2.read[m] = V[m]
        BY <2>1, <3>1, <3>3 DEF FgBrought
      <4> QED BY <3>3, <4>1
    <3> QED BY <3>2, <3>3
  <2>4. ReadsOK(s2, B, V)
    BY <2>3 DEF ReadsOK
  <2>5. ASSUME NEW n \in Jobs \ Y, Live(s1, n), s1.job[n].stage \in JoinStages, s1.job[n].with \in A
        PROVE  s1.job[n].with \in B
    <3>1. n \in InStage(s2, "joins") \cup InStage(s2, "joins turned")
      BY <2>1, <2>5 DEF FgBrought, InStage, Live, JoinStages
    <3>2. s2.job[n].with # r
      BY <2>1, <3>1 DEF FgJoined
    <3> QED BY <1>9, <2>1, <2>5, <3>2 DEF FgBrought
  <2>6. X \subseteq Y
    BY <1>4
  <2> QED BY <2>1, <2>2, <2>4, <2>5, <2>6, ReadersTidy DEF FgBrought
<1>11. StaysTidy(s2, g, X, B, V) /\ g \in State
  <2>1. Good(s2) /\ JoinedAre(s2, q) /\ g = JoinedGoOn(s2, q) /\ Tidy(s2, Range(q), B, V)
    BY <1>3, <1>9, <1>10 DEF FgSteps, Safe, StaysTidy
  <2>2. StaysTidy(s2, g, {}, B, V) /\ Good(g)
    BY <2>1, JoinedGoOnTidy
  <2> QED BY <1>4, <2>2 DEF Good
<1>12. PICK Z : Z = w.read
  OBVIOUS
<1>13. w = WithRead(g, r, Over) /\ Over \in Asked \cup Flying \cup {Over, FgOver}
  BY <1>3 DEF FgSteps
<1>14. StaysTidy(g, w, X, B, Z)
  <2>1. PICK x : x = Over
    OBVIOUS
  <2>2. x \in Asked \cup Flying \cup {Over, FgOver} /\ x.state # "flying" /\ B \subseteq B
    BY <2>1 DEF Over
  <2>3. Tidy(g, X, B, V) /\ w = WithRead(g, r, x)
    BY <1>11, <1>13, <2>1 DEF StaysTidy
  <2> QED BY <1>11, <1>12, <2>2, <2>3, ReadSetTidy
<1>15. Tidy(w, {}, B, Z) /\ Pumped(w)
  BY <1>4, <1>5, <1>6, <1>7, <1>8, <1>10, <1>11, <1>14 DEF StaysTidy
<1>16. ASSUME NEW m \in Readers \ {r} PROVE Z[m].state = c.read[m].state
  <2>1. w.read[m] = g.read[m]
    BY <1>11, <1>13, WithReadIs
  <2>2. g.read[m].state = V[m].state
    BY <1>11 DEF StaysTidy, Tidy, ReadsOK
  <2>3. d.read[m] = c.read[m]
    <3>1. PICK x : x = FgOver
      OBVIOUS
    <3>2. x \in Asked \cup Flying \cup {Over, FgOver} /\ d = WithRead(c, r, x)
      BY <1>3, <3>1 DEF FgSteps
    <3> QED BY <1>2, <3>2, WithReadIs
  <2> QED BY <1>4, <1>12, <2>1, <2>2, <2>3
<1>17. Z[r].state = "over"
  <2>1. w.read[r] = Over
    BY <1>11, <1>13, WithReadIs
  <2> QED BY <1>12, <2>1 DEF Over
<1>18. Standing(B, Z)
  <2>1. \A m \in Readers : Z[m].state # "landed"
    BY <1>2, <1>16, <1>17 DEF NoneLands
  <2>2. B = {m \in Readers : Z[m].state = "asked"}
    BY <1>4, <1>9, <1>16, <1>17 DEF Demand
  <2> QED BY <2>1, <2>2 DEF Standing
<1>19. Safe(w) /\ WaitEnds(w)
  BY <1>3 DEF FgSteps
<1> QED BY <1>15, <1>18, <1>19, WaitEndsTidy

LEMMA AbortsTidy ==
  ASSUME NEW s, NEW X, NEW A, NEW W, Tidy(s, X, A, W), NEW t, Aborts(s, t),
         Good(s)
  PROVE  StaysTidy(s, t, X, A, W)
<1>1. Queued(t) = Queued(s) /\ Queued(s) \subseteq Jobs /\ Range(s.placeQ) \subseteq Queued(s)
  BY QueuedJobs DEF Aborts, Queued
<1>2. \A n \in Jobs : Live(s, n) <=> Live(t, n)
  BY DEF Aborts, Aborted, Live
<1>3. PlacedBut(t, X, A)
  <2> SUFFICES ASSUME NEW n \in Jobs \ X, Live(t, n) PROVE Placed(t, n, A)
    BY DEF PlacedBut
  <2>1. Placed(s, n, A)
    BY <1>2 DEF Tidy, PlacedBut
  <2>2. CASE t.job[n] = s.job[n]
    BY <1>1, <2>1, <2>2 DEF Placed, Aborts
  <2>3. CASE t.job[n].stage = "aborted"
    BY <2>3 DEF Placed, RestStages, JoinStages
  <2> QED BY <2>2, <2>3 DEF Aborts, Aborted
<1>4. ASSUME NEW n \in Jobs
      PROVE  \/ t.job[n] = s.job[n]
             \/ Kin(s.job[n], t.job[n]) /\ s.job[n].stage = "sent" /\ t.job[n].stage = "aborted"
  BY DEF Aborts, Aborted
<1>5. LoadsOK(t)
  BY <1>4 DEF Tidy, LoadsOK, Kin
<1>6. PredictedOK(t)
  BY <1>1, <1>4 DEF Tidy, PredictedOK, Kin, Aborts
<1>7. BroughtOK(t, A) /\ ReadsOK(t, A, W)
  BY DEF Tidy, BroughtOK, ReadsOK, Aborts
<1>8. ListsOK(t)
  BY <1>2, ListsKept DEF Tidy, Aborts
<1>9. ASSUME Pumped(s) PROVE Pumped(t)
  <2>1. \A n \in Queued(t) : ~t.job[n].urgent
    BY <1>1, <1>4, <1>9 DEF Pumped, Kin
  <2>2. Started(t, "announced") = Started(s, "announced") /\ Started(t, "place") = Started(s, "place")
    BY <1>4 DEF Started, Kin
  <2> QED BY <1>9, <2>1, <2>2 DEF Pumped, Aborts
<1> QED BY <1>3, <1>5, <1>6, <1>7, <1>8, <1>9 DEF StaysTidy, Tidy

LEMMA SyncReadRest ==
  ASSUME Constants, Limits, Safe(b), Rest(b), NEW p \in Pieces, NEW ok \in BOOLEAN, SyncRead(p, ok)
  PROVE  Rest(b')
<1>1. PICK c : c = b
  OBVIOUS
<1>2. PICK t : Safe(t) /\ Aborts(c, t) /\ WaitEnds(t)
  BY <1>1, SyncReadIs
<1>3. Good(c) /\ Rest(c)
  BY <1>1 DEF Safe
<1>4. PICK X, A, W : X = {} /\ A = Demand(c) /\ W = c.read
  OBVIOUS
<1>5. Tidy(c, X, A, W)
  BY <1>3, <1>4 DEF Rest
<1>6. StaysTidy(c, t, X, A, W)
  BY <1>2, <1>3, <1>5, AbortsTidy
<1>7. Rest(t)
  BY <1>3, <1>4, <1>6, RestStays
<1> QED BY <1>2, <1>7, WaitEndsRest

LEMMA TimesRest ==
  ASSUME Constants, Limits, Safe(b), Rest(b), Timer \/ QuietPasses \/ LoadOver \/ Expire
  PROVE  Rest(b')
<1>1. PICK s, t : s = b /\ t = b'
  OBVIOUS
<1>2. Good(s) /\ s \in State /\ Rest(s)
  BY <1>1 DEF Safe, Good
<1>3. PICK X, A, W : X = {} /\ A = Demand(s) /\ W = s.read
  OBVIOUS
<1>4. Tidy(s, X, A, W)
  BY <1>2, <1>3 DEF Rest
<1>5. CASE Timer
  <2>1. t = Kick(s)
    BY <1>1, <1>5 DEF Timer
  <2>2. StaysTidy(s, t, X, A, W)
    BY <1>2, <1>4, <2>1, KickTidy
  <2> QED BY <1>1, <1>2, <1>3, <2>2, RestStays
<1>6. CASE QuietPasses \/ LoadOver \/ Expire
  <2>1. \/ t = [s EXCEPT !.quiet = TRUE] \/ t = [s EXCEPT !.recent = FALSE]
        \/ t = [s EXCEPT !.spare = Tail(s.spare)]
    BY <1>1, <1>6 DEF QuietPasses, LoadOver, Expire
  <2>2. /\ t.job = s.job /\ t.turns = s.turns /\ t.wantQ = s.wantQ /\ t.placeQ = s.placeQ
        /\ t.fg = s.fg /\ t.list = s.list /\ t.read = s.read
    BY <1>2, <2>1 DEF State
  <2>3. StaysTidy(s, t, X, A, W)
    BY <1>4, <2>2, PlainTidy
  <2> QED BY <1>1, <1>2, <1>3, <2>3, RestStays
<1> QED BY <1>5, <1>6

LEMMA InitRest ==
  ASSUME Constants, Init
  PROVE  Rest(b)
<1>1. PICK s : s = b
  OBVIOUS
<1>2. /\ s.job = [n \in Jobs |-> NoJob] /\ s.wantQ = <<>> /\ s.placeQ = <<>> /\ s.turns = <<>>
      /\ s.fg = [p \in Pieces |-> Nobody] /\ s.list = [l \in Lists |-> Over]
      /\ s.read = [r \in Readers |-> Over]
  BY <1>1 DEF Init
<1>3. Range(<<>>) = {}
  BY DEF Range
<1>4. \A n \in Jobs : ~Live(s, n)
  BY <1>2 DEF Live
<1>5. \A r \in Readers : s.read[r].state = "over"
  BY <1>2 DEF Over
<1>6. PlacedBut(s, {}, Demand(s))
  BY <1>4 DEF PlacedBut
<1>7. LoadsOK(s)
  BY <1>2 DEF LoadsOK, NoJob
<1>8. PredictedOK(s)
  BY <1>2, <1>3 DEF PredictedOK
<1>9. BroughtOK(s, Demand(s))
  BY <1>2 DEF BroughtOK
<1>10. ReadsOK(s, Demand(s), s.read)
  BY <1>5 DEF ReadsOK
<1>11. ListsOK(s)
  BY <1>2 DEF ListsOK
<1>12. Pumped(s)
  BY <1>2, <1>3 DEF Pumped, Queued
<1>13. NoneLands(s)
  BY <1>5 DEF NoneLands
<1> QED BY <1>1, <1>6, <1>7, <1>8, <1>9, <1>10, <1>11, <1>12, <1>13 DEF Rest, Tidy

LEMMA CallsRest ==
  ASSUME Constants, Limits, Safe(b), Rest(b), Calls
  PROVE  Rest(b')
<1>1. CASE \E r \in Readers, S \in SUBSET Pieces : Read(r, S)
  BY <1>1, ReadRest
<1>2. CASE \E p \in Pieces, ok \in BOOLEAN : SyncRead(p, ok)
  BY <1>2, SyncReadRest
<1>3. CASE \E l \in Lists, order \in Orders, hold \in BOOLEAN :
             WantList(l, order, "announced", hold)
  <2>1. PICK kind \in {"announced", "place"} : kind = "announced"
    OBVIOUS
  <2>2. PICK l \in Lists, q \in Orders, hold \in BOOLEAN : WantList(l, q, kind, hold)
    BY <1>3, <2>1
  <2> QED BY <2>2, WantListRest
<1>4. CASE \E l \in Lists, order \in Orders : WantList(l, order, "place", FALSE)
  <2>1. PICK kind \in {"announced", "place"}, hold \in BOOLEAN : kind = "place" /\ hold = FALSE
    OBVIOUS
  <2>2. PICK l \in Lists, q \in Orders : WantList(l, q, kind, hold)
    BY <1>4, <2>1
  <2> QED BY <2>2, WantListRest
<1>5. CASE \E p \in Pieces, kind \in {"ahead", "fill"} : FetchPartBg(p, kind)
  BY <1>5, FetchPartBgRest
<1> QED BY <1>1, <1>2, <1>3, <1>4, <1>5 DEF Calls

LEMMA StepRest ==
  ASSUME Constants, Limits, IInv /\ Rest(b), [Next]_vars
  PROVE  IInv' /\ Rest(b)'
<1>0. Safe(b) /\ Rest(b)
  BY DEF IInv
<1> SUFFICES Rest(b')
  BY StepSafe
<1>1. CASE Calls
  BY <1>0, <1>1, CallsRest
<1>2. CASE Timer \/ QuietPasses \/ LoadOver \/ Expire
  BY <1>0, <1>2, TimesRest
<1>3. CASE \E n \in Jobs, answer \in {"ok", "refused", "down"} : BgEnds(n, answer)
  BY <1>0, <1>3, BgEndsRest
<1>4. CASE \E r \in Readers, ok \in BOOLEAN : FgEnds(r, ok)
  BY <1>0, <1>4, FgEndsRest
<1>5. CASE \E n \in Jobs : Retry(n) \/ Drop(n)
  BY <1>0, <1>5, RetryRest, DropRest
<1>6. CASE \E r \in Readers : ReadAsks(r)
  BY <1>0, <1>6, ReadAsksRest
<1>7. CASE \E l \in Lists : ListEnds(l) \/ \E p \in Pieces : ListAsks(l, p)
  BY <1>0, <1>7, ListEndsRest, ListAsksRest
<1>8. CASE UNCHANGED vars
  <2>1. b' = b
    BY <1>8 DEF vars
  <2> QED BY <1>0, <2>1
<1> QED BY <1>1, <1>2, <1>3, <1>4, <1>5, <1>6, <1>7, <1>8 DEF Next

----------------------------------------------------------------------------
(* Nothing under way.                                                      *)

(* kick passes n by without a look at what comes after it.                 *)
Passed(s, n) == Silenced(s) /\ ~s.job[n].urgent /\ ~s.job[n].forLoad
Begun(s, n) == s.job[n].stage \in {"sent", "joins turned"}

LEMMA BeginsOne ==
  ASSUME Constants, NEW s \in State, NEW m, Live(s, m),
         NEW t, t = Begin([s EXCEPT !.turns = From(@, m)], m)
  PROVE  Begun(t, m) /\ \A n \in Jobs \ {m} : t.job[n] = s.job[n]
<1>1. PICK q : q = From(s.turns, m)
  OBVIOUS
<1>2. q \in Seq(Jobs)
  BY <1>1, FromIs, StateParts
<1>3. PICK u : u = [s EXCEPT !.turns = q]
  OBVIOUS
<1>4. u \in State /\ u.job = s.job
  BY <1>2, <1>3, SetTurns
<1>5. Live(u, m) /\ t = Begin(u, m)
  BY <1>1, <1>3, <1>4 DEF Live
<1>6. OnOne(u, t, m, {"sent", "joins turned"})
  BY <1>4, <1>5, BeginIs
<1> QED BY <1>4, <1>6 DEF OnOne, Begun

(* Who has begun stays so.                                                 *)
LEMMA KickOneKeeps ==
  ASSUME Constants, NEW acc, acc.s \in State, NEW m, Live(acc.s, m),
         acc = [s |-> acc.s, stop |-> acc.stop], NEW t, t = KickOne(acc, m),
         NEW n \in Jobs, Begun(acc.s, n)
  PROVE  Begun(t.s, n)
<1>1. CASE t.s = acc.s
  BY <1>1
<1>2. CASE t.s = Begin([acc.s EXCEPT !.turns = From(@, m)], m)
  <2>1. PICK s, v : s = acc.s /\ v = t.s
    OBVIOUS
  <2>2. Begun(v, m) /\ \A x \in Jobs \ {m} : v.job[x] = s.job[x]
    BY <1>2, <2>1, BeginsOne
  <2> QED BY <2>1, <2>2 DEF Begun
<1>3. t.s = acc.s \/ t.s = Begin([acc.s EXCEPT !.turns = From(@, m)], m)
  <2>1. PICK s, stop : s = acc.s /\ stop = acc.stop
    OBVIOUS
  <2>2. acc = [s |-> s, stop |-> stop]
    BY <2>1
  <2>3. \/ t = acc
        \/ t = [acc EXCEPT !.s = Begin([s EXCEPT !.turns = From(@, m)], m)]
        \/ \E x : t = [acc EXCEPT !.stop = x]
    BY <2>1 DEF KickOne
  <2> QED BY <2>1, <2>2, <2>3
<1> QED BY <1>1, <1>2, <1>3

(* Nothing on its way, no read of the game: the first that is not silent   *)
(* may start.                                                              *)
LEMMA MayStartIdle ==
  ASSUME Limits, NEW s, BgCount(s) = 0, Demand(s) = {}, s.quiet, NEW n, ~Passed(s, n)
  PROVE  MayStart(s, n)
<1>1. Silenced(s) => s.job[n].urgent \/ s.job[n].forLoad
  BY DEF Passed
<1>2. BgCount(s) < MaxBackground /\ ~(BgCount(s) > 0)
  BY DEF Limits
<1> QED BY <1>1, <1>2 DEF MayStart

LEMMA KickIdle ==
  ASSUME Constants, Limits, NEW s, Good(s), BgCount(s) = 0, Demand(s) = {}, s.quiet, Kick(s) = s
  PROVE  \A n \in Range(s.turns) : Passed(s, n)
<1>1. s \in State /\ TurnsOK(s) /\ QueuesOK(s) /\ s.turns \in Seq(Jobs) /\ Len(s.turns) \in Nat
  BY StateParts DEF Good
<1>2. \A i \in 1..Len(s.turns) : s.turns[i] \in Range(s.turns)
  BY <1>1 DEF Range
<1>3. PICK k : KickRuns(k, s)
  BY <1>1, KickIs
<1>4. /\ k[0] = [s |-> s, stop |-> FALSE] /\ s = k[Len(s.turns)].s
      /\ \A i \in 1..Len(s.turns) : k[i] = KickOne(k[i - 1], s.turns[i])
  BY <1>3 DEF KickRuns
<1> DEFINE Still(i) == /\ k[i] = [s |-> s, stop |-> FALSE]
                      /\ \A j \in 1..i : Passed(s, s.turns[j])
           Some(i) == \E n \in Range(s.turns) : Begun(k[i].s, n)
           G == {i \in 0..Len(s.turns) : /\ Moves(s, k[i].s, {})
                                         /\ k[i] = [s |-> k[i].s, stop |-> k[i].stop]
                                         /\ Still(i) \/ Some(i)}
<1>5. 0 \in G
  <2>1. Moves(s, s, {})
    BY <1>1, NoneMoves
  <2>2. k[0].s = s /\ k[0] = [s |-> k[0].s, stop |-> k[0].stop]
    BY <1>4
  <2>3. Still(0)
    BY <1>4
  <2> QED BY <1>1, <2>1, <2>2, <2>3
<1>6. \A i \in 0..(Len(s.turns) - 1) : i \in G => i + 1 \in G
  <2> SUFFICES ASSUME NEW i \in 0..(Len(s.turns) - 1), i \in G PROVE i + 1 \in G
    OBVIOUS
  <2>1. i + 1 \in 1..Len(s.turns) /\ i + 1 \in 0..Len(s.turns) /\ (i + 1) - 1 = i
    BY <1>1
  <2>2. PICK acc, t, m : acc = k[i] /\ t = k[i + 1] /\ m = s.turns[i + 1]
    OBVIOUS
  <2>3. t = KickOne(acc, m) /\ m \in Range(s.turns)
    BY <1>2, <1>4, <2>1, <2>2
  <2>4. Moves(s, acc.s, {}) /\ acc = [s |-> acc.s, stop |-> acc.stop]
    BY <2>2
  <2>5. Moves(s, t.s, {}) /\ t = [s |-> t.s, stop |-> t.stop]
    BY <1>1, <2>3, <2>4, KickOneMoves
  <2>6. acc.s \in State /\ Live(acc.s, m) /\ Live(s, m) /\ s.job[m].stage = "turn"
    BY <1>1, <2>3, <2>4 DEF Moves, JobMoves, TurnsOK, Live
  <2>7. Still(i + 1) \/ Some(i + 1)
    <3>1. CASE Some(i)
      <4>1. PICK n \in Range(s.turns) : Begun(acc.s, n)
        BY <2>2, <3>1
      <4>2. n \in Jobs
        BY <1>1, <4>1 DEF TurnsOK, Live
      <4>3. Begun(t.s, n)
        BY <2>3, <2>4, <2>6, <4>1, <4>2, KickOneKeeps
      <4> QED BY <2>2, <4>1, <4>3
    <3>2. CASE Still(i)
      <4>1. acc = [s |-> s, stop |-> FALSE] /\ acc.s = s /\ ~acc.stop
        BY <2>2, <3>2
      <4>2. CASE Passed(s, m)
        <5>1. t = acc
          BY <2>3, <4>1, <4>2 DEF KickOne, Passed
        <5>2. \A j \in 1..(i + 1) : j \in 1..i \/ j = i + 1
          OBVIOUS
        <5>3. \A j \in 1..(i + 1) : Passed(s, s.turns[j])
          BY <2>2, <3>2, <4>2, <5>2
        <5> QED BY <2>2, <4>1, <5>1, <5>3
      <4>3. CASE ~Passed(s, m)
        <5>1. MayStart(s, m)
          BY <4>3, MayStartIdle
        <5>2. t = [acc EXCEPT !.s = Begin([s EXCEPT !.turns = From(@, m)], m)]
          BY <2>3, <4>1, <4>3, <5>1 DEF KickOne, Passed
        <5>3. t.s = Begin([s EXCEPT !.turns = From(@, m)], m)
          BY <4>1, <5>2
        <5>4. PICK v : v = t.s
          OBVIOUS
        <5>5. Begun(v, m)
          BY <1>1, <2>6, <5>3, <5>4, BeginsOne
        <5> QED BY <2>2, <2>3, <5>4, <5>5
      <4> QED BY <4>2, <4>3
    <3> QED BY <3>1, <3>2
  <2> HIDE DEF Still, Some
  <2> QED BY <2>1, <2>2, <2>5, <2>7
<1>7. Len(s.turns) \in G
  <2> HIDE DEF G
  <2> QED BY <1>1, <1>5, <1>6, UpTo
<1>8. ~Some(Len(s.turns))
  BY <1>1, <1>4 DEF TurnsOK, Begun
<1>9. \A j \in 1..Len(s.turns) : Passed(s, s.turns[j])
  BY <1>7, <1>8
<1> QED BY <1>1, <1>9 DEF Range

(* Quiet: NothingUnderWay, of a state.                                     *)
Idle(s) ==
  /\ \A n \in Jobs : s.job[n] # NoJob => s.job[n].stage \notin {"sent", "aborted", "pause"}
  /\ \A r \in Readers : s.read[r] # Over =>
       s.read[r].state = "flying" /\ s.read[r].jobs \cup s.read[r].readers # {}
  /\ \A l \in Lists : s.list[l] # Over =>
       \E p \in DOMAIN s.list[l].on : s.list[l].on[p].job # Nobody
  /\ s.quiet /\ ~s.recent /\ s.spare = <<>> /\ Kick(s) = s

(* In such a state every download is queued or waits for its turn, and     *)
(* every read and list that is not over waits for one.                     *)
LEMMA IdleIs ==
  ASSUME Constants, NEW s, Safe(s), Rest(s), Idle(s)
  PROVE  /\ Demand(s) = {} /\ BgCount(s) = 0
         /\ \A n \in Jobs : Live(s, n) =>
              \/ s.job[n].stage = "queued" /\ n \in Queued(s)
              \/ s.job[n].stage = "turn" /\ n \in Range(s.turns)
         /\ \A r \in Readers : s.read[r] # Over => \E n \in Awaited(s) : Live(s, n)
         /\ \A l \in Lists : s.list[l] # Over =>
              /\ \E n \in Jobs : Live(s, n)
              /\ s.list[l].hold => \E n \in Awaited(s) : Live(s, n)
<1>1. Good(s) /\ s \in State
  BY DEF Safe, Good
<1>2. Demand(s) = {}
  <2> SUFFICES ASSUME NEW r \in Readers, s.read[r].state = "asked" PROVE FALSE
    BY DEF Demand
  <2>1. s.read[r] # Over
    BY DEF Over
  <2> QED BY <2>1 DEF Idle
<1>3. PICK A, W : A = Demand(s) /\ W = s.read
  OBVIOUS
<1>4. Tidy(s, {}, A, W) /\ A = {}
  BY <1>2, <1>3 DEF Rest
<1>5. BgCount(s) = 0
  <2>1. PICK X : X = InStage(s, "sent") \cup InStage(s, "aborted")
    OBVIOUS
  <2>2. BgCount(s) = Cardinality(X) + Len(s.spare)
    BY <2>1 DEF BgCount
  <2>3. X = {}
    BY <2>1 DEF InStage, Idle
  <2>4. Cardinality(X) = 0
    BY <2>3, FS_EmptySet
  <2>5. Len(s.spare) = 0
    BY DEF Idle
  <2> QED BY <2>2, <2>4, <2>5
<1>6. ASSUME NEW n \in Jobs, Live(s, n)
      PROVE  \/ s.job[n].stage = "queued" /\ n \in Queued(s)
             \/ s.job[n].stage = "turn" /\ n \in Range(s.turns)
  <2>1. Placed(s, n, A)
    BY <1>4, <1>6 DEF Tidy, PlacedBut
  <2>2. s.job[n].stage \notin JoinStages
    BY <1>4, <2>1 DEF Placed
  <2>3. s.job[n].stage \notin {"sent", "aborted", "pause"}
    BY <1>6 DEF Idle, Live
  <2> QED BY <2>1, <2>2, <2>3 DEF Placed, RestStages, JoinStages
<1>7. ASSUME NEW r \in Readers, s.read[r] # Over PROVE \E n \in Awaited(s) : Live(s, n)
  <2>1. s.read[r].state = "flying" /\ s.read[r].jobs \cup s.read[r].readers # {}
    BY <1>7 DEF Idle
  <2>2. s.read[r].readers = {}
    BY <1>4, <2>1 DEF Tidy, ReadsOK
  <2>3. s.read[r] \in Flying
    <3>1. s.read[r] \in Asked \cup Flying \cup {Over, FgOver}
      BY <1>1, StateParts
    <3> QED BY <2>1, <3>1 DEF Asked, Over, FgOver
  <2>4. PICK n : n \in s.read[r].jobs
    BY <2>1, <2>2
  <2>5. n \in Jobs
    BY <2>3, <2>4 DEF Flying
  <2>6. n \in Awaited(s)
    BY <2>1, <2>4, <2>5 DEF Awaited, ByRead
  <2> QED BY <1>1, <2>6 DEF Good, AwaitedOK
<1>8. ASSUME NEW l \in Lists, s.list[l] # Over
      PROVE  /\ \E n \in Jobs : Live(s, n)
             /\ s.list[l].hold => \E n \in Awaited(s) : Live(s, n)
  <2>1. PICK p \in DOMAIN s.list[l].on : s.list[l].on[p].job # Nobody
    BY <1>8 DEF Idle
  <2>2. PICK n : n = s.list[l].on[p].job
    OBVIOUS
  <2>3. (s.list[l].hold => s.list[l].kind = "announced") /\ Unmet(s, s.list[l].on)
    BY <1>4, <1>8 DEF Tidy, ListsOK
  <2>4. Live(s, n) /\ n \in Jobs
    BY <2>1, <2>2, <2>3 DEF Unmet, Live
  <2>5. s.list[l].hold => n \in Awaited(s)
    BY <1>8, <2>1, <2>2, <2>3, <2>4 DEF Awaited, ByList
  <2> QED BY <2>4, <2>5
<1> QED BY <1>2, <1>5, <1>6, <1>7, <1>8

(* A unit queued behind no announced one started keeps the queue going.    *)
LEMMA QueuedStarts ==
  ASSUME Constants, NEW s, Safe(s), Rest(s), NEW n \in Queued(s)
  PROVE  /\ ~s.job[n].urgent
         /\ \E m \in Jobs : Live(s, m) /\ s.job[m].stage # "queued"
         /\ s.job[n].forLoad => \E m \in Jobs : /\ Live(s, m) /\ s.job[m].stage # "queued"
                                                /\ s.job[m].forLoad
<1>1. Pumped(s) /\ LoadsOK(s) /\ PredictedOK(s) /\ s \in State
  BY DEF Rest, Tidy, Safe, Good
<1>2. ASSUME NEW kind \in {"announced", "place"}, Started(s, kind) # {}
      PROVE  \E m \in Jobs : /\ Live(s, m) /\ s.job[m].stage # "queued" /\ s.job[m].kind = kind
  <2>1. PICK m \in Jobs : s.job[m].kind = kind /\ s.job[m].stage # "queued"
    BY <1>2 DEF Started
  <2>2. s.job[m] # NoJob
    BY <2>1 DEF NoJob
  <2> QED BY <2>1, <2>2 DEF Live
<1>3. PICK want, place \in {"announced", "place"} : want = "announced" /\ place = "place"
  OBVIOUS
<1>4. CASE n \in Range(s.wantQ)
  <2>1. s.wantQ # <<>>
    BY <1>1, <1>4, StateParts, EmptyRange
  <2>2. Started(s, want) # {}
    BY <1>1, <1>3, <2>1 DEF Pumped
  <2>3. PICK m \in Jobs : Live(s, m) /\ s.job[m].stage # "queued" /\ s.job[m].kind = want
    BY <1>2, <2>2
  <2>4. s.job[m].forLoad
    BY <1>1, <1>3, <2>3 DEF LoadsOK
  <2> QED BY <1>1, <2>3, <2>4 DEF Pumped
<1>5. CASE n \notin Range(s.wantQ)
  <2>1. n \in Range(s.placeQ)
    BY <1>5 DEF Queued
  <2>2. s.placeQ # <<>>
    BY <1>1, <2>1, StateParts, EmptyRange
  <2>3. Started(s, want) # {} \/ Started(s, place) # {}
    BY <1>1, <1>3, <2>2 DEF Pumped
  <2>4. \E m \in Jobs : Live(s, m) /\ s.job[m].stage # "queued"
    BY <1>2, <2>3
  <2>5. ~s.job[n].forLoad
    BY <1>1, <2>1 DEF PredictedOK
  <2> QED BY <1>1, <2>4, <2>5 DEF Pumped
<1> QED BY <1>4, <1>5

LEMMA IdleIsOver ==
  ASSUME Constants, Limits, NEW s, Safe(s), Rest(s), Idle(s)
  PROVE  /\ \A l \in Lists : s.list[l] = Over
         /\ \A r \in Readers : s.read[r] = Over
         /\ \A n \in Jobs : s.job[n] = NoJob
<1>1. Good(s) /\ Demand(s) = {} /\ BgCount(s) = 0 /\ s.quiet /\ ~s.recent /\ Kick(s) = s
  BY IdleIs DEF Safe, Idle
<1>2. \A n \in Range(s.turns) : Passed(s, n)
  BY <1>1, KickIdle
<1>3. \A n \in Jobs : Live(s, n) =>
        \/ s.job[n].stage = "queued" /\ n \in Queued(s)
        \/ s.job[n].stage = "turn" /\ n \in Range(s.turns)
  BY IdleIs
<1>4. ASSUME NEW n \in Range(s.turns) PROVE FALSE
  <2>1. Waiting(s)
    BY <1>1, <1>2, <1>4 DEF Passed, Silenced
  <2>2. PICK m \in Awaited(s) : Live(s, m)
    <3>1. CASE \E l \in Lists : s.list[l] # Over /\ s.list[l].hold
      BY <3>1, IdleIs
    <3>2. CASE \E r \in Readers : s.read[r] # Over
      BY <3>2, IdleIs
    <3> QED BY <2>1, <3>1, <3>2 DEF Waiting
  <2>3. m \in Jobs /\ (s.job[m].urgent \/ s.job[m].forLoad)
    BY <2>2 DEF Safe, Kept, May, Awaited
  <2>4. m \notin Range(s.turns)
    BY <1>2, <2>3 DEF Passed
  <2>5. m \in Queued(s)
    BY <1>3, <2>2, <2>3, <2>4
  <2>6. PICK x \in Jobs : Live(s, x) /\ s.job[x].stage # "queued" /\ s.job[x].forLoad
    BY <2>3, <2>5, QueuedStarts
  <2>7. x \in Range(s.turns)
    BY <1>3, <2>6
  <2> QED BY <1>2, <2>6, <2>7 DEF Passed
<1>5. ASSUME NEW n \in Jobs, Live(s, n) PROVE FALSE
  <2>1. n \in Queued(s)
    BY <1>3, <1>4, <1>5
  <2>2. PICK m \in Jobs : Live(s, m) /\ s.job[m].stage # "queued"
    BY <2>1, QueuedStarts
  <2>3. m \in Range(s.turns)
    BY <1>3, <2>2
  <2> QED BY <1>4, <2>3
<1>6. \A l \in Lists : s.list[l] = Over
  BY <1>5, IdleIs
<1>7. \A r \in Readers : s.read[r] = Over
  <2> SUFFICES ASSUME NEW r \in Readers, s.read[r] # Over PROVE FALSE
    OBVIOUS
  <2>1. PICK n \in Awaited(s) : Live(s, n)
    BY IdleIs
  <2> QED BY <1>5, <2>1 DEF Live
<1> QED BY <1>5, <1>6, <1>7 DEF Live

(* Nobody waits for nothing: whatever lists, reads, failures, retries and  *)
(* aborts came before, when nothing is on its way any more, no read is     *)
(* parked, no list is open and no download is left: the game never hangs   *)
(* on a turn the silence of its own wait keeps from being given, on a unit *)
(* nobody takes out of its queue or on a request that was over already     *)
(* (http-backend.js pumpWant, fetchAhead; net-link.js kick).               *)
THEOREM NobodyHangsAlways ==
  ASSUME Constants, Limits PROVE Spec => []NobodyHangs
<1>1. Init => IInv /\ Rest(b)
  BY InitSafe, InitRest DEF IInv
<1>2. (IInv /\ Rest(b)) /\ [Next]_vars => (IInv /\ Rest(b))'
  BY StepRest
<1>3. IInv /\ Rest(b) => NobodyHangs
  <2> SUFFICES ASSUME Safe(b), Rest(b), NothingUnderWay
               PROVE  /\ \A l \in Lists : b.list[l] = Over
                      /\ \A r \in Readers : b.read[r] = Over
                      /\ \A n \in Jobs : b.job[n] = NoJob
    BY DEF IInv, NobodyHangs
  <2>1. PICK s : s = b
    OBVIOUS
  <2>2. Idle(s)
    BY <2>1 DEF NothingUnderWay, Idle
  <2> QED BY <2>1, <2>2, IdleIsOver
<1> QED BY <1>1, <1>2, <1>3, PTL DEF Spec

----------------------------------------------------------------------------
(* The order of the turns.                                                 *)

(* Going up: q by the numbers f.                                           *)
Up(q, f) == \A i, j \in 1..Len(q) : i < j => f[q[i]] <= f[q[j]]

LEMMA UpEmpty ==
  ASSUME NEW f
  PROVE  Up(<<>>, f)
BY DEF Up

LEMMA UpSame ==
  ASSUME NEW q \in Seq(Jobs), NEW f, NEW g, Up(q, f), \A m \in Range(q) : g[m] = f[m]
  PROVE  Up(q, g)
<1>1. \A i \in 1..Len(q) : q[i] \in Range(q)
  BY DEF Range
<1> QED BY <1>1 DEF Up

(* One that comes after all.                                               *)
LEMMA UpAppend ==
  ASSUME NEW q \in Seq(Jobs), NEW f \in [Jobs -> Nat], Up(q, f), NEW n \in Jobs,
         \A m \in Range(q) : f[m] <= f[n]
  PROVE  Up(Append(q, n), f)
<1>1. PICK a : a = Append(q, n)
  OBVIOUS
<1>2. Len(a) = Len(q) + 1 /\ Len(q) \in Nat /\ a[Len(q) + 1] = n /\ \A i \in 1..Len(q) : a[i] = q[i]
  BY <1>1
<1>3. \A i \in 1..Len(q) : q[i] \in Range(q)
  BY DEF Range
<1>4. ASSUME NEW i \in 1..Len(a), NEW j \in 1..Len(a), i < j PROVE f[a[i]] <= f[a[j]]
  <2>1. i \in 1..Len(q)
    BY <1>2, <1>4
  <2>2. CASE j \in 1..Len(q)
    BY <1>2, <1>4, <2>1, <2>2 DEF Up
  <2>3. CASE j \notin 1..Len(q)
    <3>1. j = Len(q) + 1
      BY <1>2, <2>3
    <3> QED BY <1>2, <1>3, <2>1, <3>1
  <2> QED BY <2>2, <2>3
<1> QED BY <1>1, <1>4 DEF Up

LEMMA UpConcat ==
  ASSUME NEW u \in Seq(Jobs), NEW v \in Seq(Jobs), NEW f \in [Jobs -> Nat], Up(u, f), Up(v, f),
         \A m \in Range(u), x \in Range(v) : f[m] <= f[x]
  PROVE  Up(u \o v, f)
<1>1. PICK c : c = u \o v
  OBVIOUS
<1>2. Len(c) = Len(u) + Len(v) /\ Len(u) \in Nat /\ Len(v) \in Nat
  BY <1>1
<1>3. \A i \in 1..Len(c) : c[i] = IF i <= Len(u) THEN u[i] ELSE v[i - Len(u)]
  BY <1>1
<1>4. (\A i \in 1..Len(u) : u[i] \in Range(u)) /\ \A i \in 1..Len(v) : v[i] \in Range(v)
  BY DEF Range
<1>5. ASSUME NEW i \in 1..Len(c), NEW j \in 1..Len(c), i < j PROVE f[c[i]] <= f[c[j]]
  <2>1. CASE j <= Len(u)
    <3>1. i \in 1..Len(u) /\ j \in 1..Len(u) /\ c[i] = u[i] /\ c[j] = u[j]
      BY <1>2, <1>3, <1>5, <2>1
    <3> QED BY <1>5, <3>1 DEF Up
  <2>2. CASE ~(i <= Len(u))
    <3>1. PICK x, y : x = i - Len(u) /\ y = j - Len(u)
      OBVIOUS
    <3>2. x \in 1..Len(v) /\ y \in 1..Len(v) /\ x < y /\ c[i] = v[x] /\ c[j] = v[y]
      BY <1>2, <1>3, <1>5, <2>2, <3>1
    <3> QED BY <3>2 DEF Up
  <2>3. CASE i <= Len(u) /\ ~(j <= Len(u))
    <3>1. PICK y : y = j - Len(u)
      OBVIOUS
    <3>2. i \in 1..Len(u) /\ y \in 1..Len(v) /\ c[i] = u[i] /\ c[j] = v[y]
      BY <1>2, <1>3, <2>3, <3>1
    <3> QED BY <1>4, <3>2
  <2> QED BY <2>1, <2>2, <2>3
<1> QED BY <1>1, <1>5 DEF Up

(* What is left out leaves the others in their order.                      *)
LEMMA UpAmong ==
  ASSUME NEW q \in Seq(Jobs), NEW f \in [Jobs -> Nat], Up(q, f), NEW S
  PROVE  Up(Among(q, S), f)
<1>1. Len(q) \in Nat /\ DOMAIN q = 1..Len(q) /\ \A i \in 1..Len(q) : q[i] \in Jobs
  OBVIOUS
<1>2. PICK k : IsAmong(k, q, S, Len(q)) /\ Among(q, S) = k[Len(q)]
  BY <1>1, AmongIs
<1> DEFINE Before(i) == \A m \in Range(k[i]) : \E j \in 1..i : m = q[j]
           G == {i \in 0..Len(q) : k[i] \in Seq(Jobs) /\ Up(k[i], f) /\ Before(i)}
<1>3. k[0] = <<>> /\ \A i \in 1..Len(q) :
        k[i] = IF q[i] \in S THEN Append(k[i - 1], q[i]) ELSE k[i - 1]
  <2>1. 0 \in 0..Len(q) /\ \A i \in 1..Len(q) : i \in 0..Len(q) /\ i # 0
    BY <1>1
  <2>2. \A i \in 0..Len(q) : k[i] = IF i = 0 THEN <<>>
          ELSE IF q[i] \in S THEN Append(k[i - 1], q[i]) ELSE k[i - 1]
    BY <1>2 DEF IsAmong
  <2> QED BY <2>1, <2>2
<1>4. 0 \in G
  <2>1. <<>> \in Seq(Jobs) /\ Range(<<>>) = {} /\ 0 \in 0..Len(q)
    BY <1>1 DEF Range
  <2>2. Before(0)
    BY <1>3, <2>1
  <2> HIDE DEF Before
  <2> QED BY <1>3, <2>1, <2>2, UpEmpty
<1>5. \A i \in 0..(Len(q) - 1) : i \in G => i + 1 \in G
  <2> SUFFICES ASSUME NEW i \in 0..(Len(q) - 1), i \in G PROVE i + 1 \in G
    OBVIOUS
  <2>1. i \in Nat /\ i + 1 \in 1..Len(q) /\ i + 1 \in 0..Len(q) /\ (i + 1) - 1 = i
    BY <1>1
  <2>2. PICK n, u, v : n = q[i + 1] /\ u = k[i] /\ v = k[i + 1]
    OBVIOUS
  <2>3. v = IF n \in S THEN Append(u, n) ELSE u
    BY <1>3, <2>1, <2>2
  <2>4. u \in Seq(Jobs) /\ Up(u, f) /\ n \in Jobs /\ \A m \in Range(u) : \E j \in 1..i : m = q[j]
    BY <1>1, <2>1, <2>2
  <2>5. 1..(i + 1) = (1..i) \cup {i + 1}
    BY <2>1
  <2>6. CASE n \notin S
    BY <2>1, <2>2, <2>3, <2>4, <2>5, <2>6
  <2>7. CASE n \in S
    <3>1. v \in Seq(Jobs) /\ Range(v) = Range(u) \cup {n} /\ v = Append(u, n)
      BY <2>3, <2>4, <2>7, AppendRange
    <3>2. ASSUME NEW m \in Range(u) PROVE f[m] <= f[n]
      <4>1. PICK j \in 1..i : m = q[j]
        BY <2>4
      <4>2. j \in 1..Len(q) /\ j < i + 1
        BY <1>1, <2>1
      <4> QED BY <2>1, <2>2, <4>1, <4>2 DEF Up
    <3>3. Up(v, f)
      BY <2>4, <3>1, <3>2, UpAppend
    <3>4. \A m \in Range(v) : \E j \in 1..(i + 1) : m = q[j]
      BY <2>2, <2>4, <2>5, <3>1
    <3> QED BY <2>1, <2>2, <3>1, <3>3, <3>4
  <2> QED BY <2>6, <2>7
<1>6. Len(q) \in G
  <2> HIDE DEF G
  <2> QED BY <1>1, <1>4, <1>5, UpTo
<1> QED BY <1>2, <1>6

(* The rank of each request in s.                                          *)
Ranks(s) == [n \in Jobs |-> IF s.job[n] # NoJob THEN Rank(s, n) ELSE 0]

LEMMA RanksAre ==
  ASSUME NEW s \in State
  PROVE  /\ Ranks(s) \in [Jobs -> Nat]
         /\ \A n : Live(s, n) => Ranks(s)[n] = Rank(s, n) /\ Rank(s, n) \in Nat
<1>1. ASSUME NEW n, Live(s, n) PROVE Rank(s, n) \in Nat
  <2>1. s.job[n].prio \in Nat
    BY <1>1, LiveIs DEF Job
  <2> QED BY <2>1 DEF Rank
<1> QED BY <1>1 DEF Ranks, Live

LEMMA SameRank ==
  ASSUME NEW s, NEW t, NEW n \in Jobs, t.job[n] = s.job[n]
  PROVE  Ranks(t)[n] = Ranks(s)[n]
BY DEF Ranks, Rank

LEMMA UpInOrder ==
  ASSUME NEW s \in State, NEW n, Live(s, n), NEW q \in Seq(Jobs), Up(q, Ranks(s)),
         \A m \in Range(q) : Live(s, m)
  PROVE  Up(InOrder(s, n, q), Ranks(s))
<1>1. PICK f : f = Ranks(s)
  OBVIOUS
<1>2. f \in [Jobs -> Nat] /\ n \in Jobs /\ f[n] = Rank(s, n)
  BY <1>1, RanksAre DEF Live
<1>3. \A m \in Range(q) : f[m] = Rank(s, m) /\ m \in Jobs
  BY <1>1, RanksAre DEF Live
<1>4. PICK first : first = {m \in Range(q) : Rank(s, m) <= Rank(s, n)}
  OBVIOUS
<1>5. PICK rest : rest = Range(q) \ first
  OBVIOUS
<1>6. PICK u, v : u = Among(q, first) /\ v = Among(q, rest)
  OBVIOUS
<1>7. u \in Seq(Jobs) /\ Range(u) = Range(q) \cap first
  BY <1>6, AmongAre
<1>8. v \in Seq(Jobs) /\ Range(v) = Range(q) \cap rest
  BY <1>6, AmongAre
<1>9. Up(u, f) /\ Up(v, f)
  BY <1>1, <1>2, <1>6, UpAmong
<1>10. PICK e : e = <<n>>
  OBVIOUS
<1>11. e \in Seq(Jobs) /\ Range(e) = {n} /\ Up(e, f)
  BY <1>2, <1>10 DEF Range, Up
<1>12. PICK w : w = u \o e
  OBVIOUS
<1>13. w \in Seq(Jobs) /\ Range(w) = Range(u) \cup {n}
  BY <1>7, <1>11, <1>12, ConcatRange
<1>14. \A m \in Range(u) : f[m] <= f[n]
  BY <1>2, <1>3, <1>4, <1>7
<1>15. Up(w, f)
  <2>1. \A m \in Range(u), x \in Range(e) : f[m] <= f[x]
    BY <1>11, <1>14
  <2> QED BY <1>2, <1>7, <1>9, <1>11, <1>12, <2>1, UpConcat
<1>16. \A m \in Range(w), x \in Range(v) : f[m] <= f[x]
  <2> SUFFICES ASSUME NEW m \in Range(w), NEW x \in Range(v) PROVE f[m] <= f[x]
    OBVIOUS
  <2>1. x \in Range(q) /\ x \notin first
    BY <1>5, <1>8
  <2>2. f[m] <= f[n] /\ m \in Jobs
    <3>1. CASE m \in Range(u)
      BY <1>3, <1>7, <1>14, <3>1
    <3>2. CASE m = n
      BY <1>2, <3>2
    <3> QED BY <1>13, <3>1, <3>2
  <2>3. ~(f[x] <= f[n]) /\ x \in Jobs
    BY <1>2, <1>3, <1>4, <2>1
  <2>4. f[x] \in Nat /\ f[n] \in Nat /\ f[m] \in Nat
    BY <1>2, <2>2, <2>3
  <2> QED BY <2>2, <2>3, <2>4
<1>17. Up(w \o v, f)
  BY <1>2, <1>8, <1>9, <1>13, <1>15, <1>16, UpConcat
<1>18. InOrder(s, n, q) = w \o v
  BY <1>4, <1>5, <1>6, <1>10, <1>12 DEF InOrder
<1> QED BY <1>1, <1>17, <1>18

(* A step that began in c has come to s.  The turns are in the order of    *)
(* their ranks; who waited for one in c still does, its rank no lower, or  *)
(* has begun or is gone; and who has begun since passes nobody who has     *)
(* waited all the time, but those it may pass.                             *)
Sorted(s) == Up(s.turns, Ranks(s))
Waits(c, s, m) ==
  m \in Range(s.turns) /\ Grows(c.job[m], s.job[m]) /\ Ranks(s)[m] <= Ranks(c)[m]
Out(s, m) == Live(s, m) => Begun(s, m)
Starts(c, s, n) == Live(s, n) /\ Begun(s, n) /\ ~(Live(c, n) /\ Begun(c, n))
Excused(c, m) == Speed # "fast" /\ ~c.job[m].urgent /\ ~c.job[m].forLoad
Passes(c, s, n, m) == Ranks(c)[m] < Ranks(s)[n] /\ ~Excused(c, m)
Fair(c, s, n) == \A m \in Range(c.turns) \cap Range(s.turns) : ~Passes(c, s, n, m)
Ord(c, s) ==
  /\ Sorted(s)
  /\ \A m \in Range(c.turns) : Waits(c, s, m) \/ Out(s, m)
  /\ \A n \in Jobs : Starts(c, s, n) => Fair(c, s, n)

LEMMA OrdNone ==
  ASSUME NEW c, Good(c), Sorted(c)
  PROVE  Ord(c, c)
<1>1. ASSUME NEW m \in Range(c.turns) PROVE Waits(c, c, m)
  <2>1. Live(c, m) /\ c \in State
    BY DEF Good, TurnsOK
  <2>2. Ranks(c)[m] \in Nat
    BY <2>1, RanksAre
  <2> QED BY <2>2 DEF Waits, Grows
<1> QED BY <1>1 DEF Ord, Starts

LEMMA TurnsAre ==
  ASSUME NEW s \in State
  PROVE  s.turns \in Seq(Jobs) /\ Len(s.turns) \in Nat /\ Range(s.turns) \subseteq Jobs
<1>1. s.turns \in Seq(Jobs)
  BY StateParts
<1> QED BY <1>1 DEF Range

(* The turns and the requests as they were.                                *)
LEMMA PlainOrd ==
  ASSUME NEW c, NEW s, Ord(c, s), NEW t, t.job = s.job, t.turns = s.turns
  PROVE  Ord(c, t)
<1>1. Ranks(t) = Ranks(s)
  BY DEF Ranks, Rank
<1> QED BY <1>1 DEF Ord, Sorted, Waits, Out, Starts, Live, Begun, Fair, Passes

(* One request changes that waits for no turn, or no more.                 *)
LEMMA LeaveOrd ==
  ASSUME NEW c, Good(c), NEW s, Ord(c, s), s \in State, NEW t, t \in State, NEW n \in Jobs,
         \A m \in Jobs \ {n} : t.job[m] = s.job[m],
         Range(t.turns) = Range(s.turns) \ {n}, Up(t.turns, Ranks(s)),
         n \in Range(c.turns) => Out(t, n),
         Starts(c, t, n) => Fair(c, t, n)
  PROVE  Ord(c, t)
<1>1. \A m \in Jobs \ {n} : Ranks(t)[m] = Ranks(s)[m]
  BY SameRank
<1>2. Range(t.turns) \subseteq Jobs \ {n} /\ t.turns \in Seq(Jobs)
  BY TurnsAre
<1>3. Sorted(t)
  BY <1>1, <1>2, UpSame DEF Sorted
<1>4. ASSUME NEW m \in Range(c.turns) PROVE Waits(c, t, m) \/ Out(t, m)
  <2>1. Waits(c, s, m) \/ Out(s, m)
    BY DEF Ord
  <2>2. m \in Jobs
    BY DEF Good, TurnsOK, Live
  <2>3. CASE m = n
    BY <2>3
  <2>4. CASE m # n
    <3>1. t.job[m] = s.job[m] /\ Ranks(t)[m] = Ranks(s)[m]
      BY <1>1, <2>2, <2>4
    <3> QED BY <2>1, <2>4, <3>1 DEF Waits, Out, Live, Begun
  <2> QED BY <2>3, <2>4
<1>5. ASSUME NEW m \in Jobs \ {n}, Starts(c, t, m) PROVE Fair(c, t, m)
  <2>1. t.job[m] = s.job[m] /\ Ranks(t)[m] = Ranks(s)[m]
    BY <1>1
  <2>2. Starts(c, s, m)
    BY <1>5, <2>1 DEF Starts, Live, Begun
  <2>3. Fair(c, s, m)
    BY <2>2 DEF Ord
  <2> QED BY <2>1, <2>3 DEF Fair, Passes
<1> QED BY <1>3, <1>4, <1>5 DEF Ord

(* Its changes let nobody pass: it began before, or it has not.            *)
LEMMA StaysFair ==
  ASSUME NEW c, Good(c), NEW s, Ord(c, s), s \in State, NEW t, t \in State, NEW n \in Jobs,
         Range(t.turns) \subseteq Range(s.turns),
         Starts(c, t, n) => Starts(c, s, n) /\ Ranks(t)[n] <= Ranks(s)[n]
  PROVE  Starts(c, t, n) => Fair(c, t, n)
<1> SUFFICES ASSUME Starts(c, t, n), NEW m \in Range(c.turns) \cap Range(t.turns)
             PROVE  ~Passes(c, t, n, m)
  BY DEF Fair
<1>1. ~Passes(c, s, n, m)
  BY DEF Ord, Fair
<1>2. Live(c, m) /\ c \in State
  BY DEF Good, TurnsOK
<1>3. Ranks(c)[m] \in Nat /\ Ranks(s)[n] \in Nat /\ Ranks(t)[n] \in Nat
  BY <1>2, RanksAre
<1> QED BY <1>1, <1>3 DEF Passes

(* One request waits for its turn, put in its place.                       *)
LEMMA PutOrd ==
  ASSUME NEW c, Good(c), NEW s, Ord(c, s), s \in State, TurnsOK(s), NEW t, t \in State,
         NEW n \in Jobs, \A m \in Jobs \ {n} : t.job[m] = s.job[m], t.job[n].stage = "turn",
         Range(t.turns) = Range(s.turns) \cup {n}, Sorted(t),
         n \in Range(c.turns) =>
           n \in Range(s.turns) /\ Grows(s.job[n], t.job[n]) /\ Ranks(t)[n] <= Ranks(s)[n]
  PROVE  Ord(c, t)
<1>1. \A m \in Jobs \ {n} : Ranks(t)[m] = Ranks(s)[m]
  BY SameRank
<1>2. ASSUME NEW m \in Range(c.turns) PROVE Waits(c, t, m) \/ Out(t, m)
  <2>1. Waits(c, s, m) \/ Out(s, m)
    BY DEF Ord
  <2>2. m \in Jobs /\ Live(c, m) /\ c \in State
    BY DEF Good, TurnsOK, Live
  <2>3. CASE m = n
    <3>1. Live(s, n) /\ s.job[n].stage = "turn"
      BY <2>3 DEF TurnsOK
    <3>2. Waits(c, s, n)
      BY <2>1, <2>3, <3>1 DEF Out, Begun
    <3>3. Grows(c.job[n], t.job[n])
      BY <2>3, <3>2 DEF Waits, Grows
    <3>4. Ranks(c)[n] \in Nat /\ Ranks(s)[n] \in Nat /\ Ranks(t)[n] \in Nat
      BY RanksAre, <2>2
    <3> QED BY <2>3, <3>2, <3>3, <3>4 DEF Waits
  <2>4. CASE m # n
    <3>1. t.job[m] = s.job[m] /\ Ranks(t)[m] = Ranks(s)[m]
      BY <1>1, <2>2, <2>4
    <3> QED BY <2>1, <3>1 DEF Waits, Out, Live, Begun
  <2> QED BY <2>3, <2>4
<1>3. ASSUME NEW m \in Jobs, Starts(c, t, m) PROVE Fair(c, t, m)
  <2>1. m # n
    BY <1>3 DEF Starts, Begun
  <2>2. t.job[m] = s.job[m] /\ Ranks(t)[m] = Ranks(s)[m]
    BY <1>1, <2>1
  <2>3. Fair(c, s, m)
    BY <1>3, <2>2 DEF Ord, Starts, Live, Begun
  <2>4. Range(c.turns) \cap Range(t.turns) \subseteq Range(s.turns)
    OBVIOUS
  <2> QED BY <2>2, <2>3, <2>4 DEF Fair, Passes
<1> QED BY <1>2, <1>3 DEF Ord

(* Who neither waits for a turn nor has begun did not wait in c.           *)
LEMMA NotThere ==
  ASSUME NEW c, NEW s, Ord(c, s), TurnsOK(s), NEW n, Live(s, n), s.job[n].stage # "turn", ~Begun(s, n)
  PROVE  n \notin Range(c.turns)
BY DEF Ord, Waits, Out, TurnsOK

----------------------------------------------------------------------------
(* The link's operations keep the order.                                   *)

LEMMA StagePrio ==
  ASSUME NEW s \in State, NEW n, Live(s, n), NEW stage \in Stages, NEW t, t = Stage(s, n, stage)
  PROVE  t.job[n].prio = s.job[n].prio
<1>1. PICK j \in Job : WithJob(s, t, n, j) /\ j.prio = s.job[n].prio
  BY SetStage
<1>2. n \in Jobs
  BY DEF Live
<1> QED BY <1>1, <1>2, StateParts DEF WithJob

LEMMA JoinsPrio ==
  ASSUME NEW s \in State, NEW n, Live(s, n), NEW stage \in Stages, NEW t, t = Joins(s, n, stage)
  PROVE  t.job[n].prio = s.job[n].prio
<1>1. PICK u : u = Stage(s, n, stage)
  OBVIOUS
<1>2. u \in State /\ Live(u, n) /\ u.job[n].prio = s.job[n].prio
  BY <1>1, StageKin, StagePrio DEF OnOne
<1>3. u.job[n] \in Job /\ n \in Jobs
  BY <1>2, LiveIs
<1>4. PICK k : k = [u.job[n] EXCEPT !.with = s.fg[s.job[n].piece]]
  OBVIOUS
<1>5. k.prio = u.job[n].prio
  BY <1>3, <1>4 DEF Job
<1>6. t.job = [u.job EXCEPT ![n] = k]
  BY <1>1, <1>2, <1>4 DEF Joins, State
<1>7. t.job[n] = k
  BY <1>2, <1>3, <1>6, StateParts
<1> QED BY <1>2, <1>5, <1>7

(* A turn taken.                                                           *)
LEMMA BeginRank ==
  ASSUME Constants, NEW s \in State, NEW n, Live(s, n), NEW t, t = Begin(s, n)
  PROVE  /\ OnOne(s, t, n, {"sent", "joins turned"}) /\ t.turns = s.turns
         /\ Begun(t, n) /\ Ranks(t)[n] = Ranks(s)[n]
<1>1. /\ OnOne(s, t, n, {"sent", "joins turned"}) /\ t.turns = s.turns
      /\ Kin(s.job[n], t.job[n])
  BY BeginKin
<1>2. t.job[n].prio = s.job[n].prio
  <2>1. CASE s.fg[s.job[n].piece] # Nobody
    <3>1. PICK stage \in Stages : stage = "joins turned"
      BY DEF Stages
    <3>2. PICK u : u = Joins(s, n, stage)
      OBVIOUS
    <3>3. u.job[n].prio = s.job[n].prio /\ u \in State
      BY <3>2, JoinsPrio, JoinsIs DEF OnOne
    <3>4. t = [u EXCEPT !.spare = Append(u.spare, Size[s.job[n].piece])]
      BY <2>1, <3>1, <3>2 DEF Begin
    <3>5. t.job = u.job
      BY <3>3, <3>4 DEF State
    <3> QED BY <3>3, <3>5
  <2>2. CASE s.fg[s.job[n].piece] = Nobody
    <3>1. PICK stage \in Stages : stage = "sent"
      BY DEF Stages
    <3>2. t = Stage(s, n, stage)
      BY <2>2, <3>1 DEF Begin
    <3> QED BY <3>2, StagePrio
  <2> QED BY <2>1, <2>2
<1>3. Live(t, n) /\ n \in Jobs
  BY <1>1 DEF OnOne, Live
<1>4. Ranks(t)[n] = Ranks(s)[n]
  BY <1>1, <1>2, <1>3 DEF Ranks, Rank, Kin, Live
<1> QED BY <1>1, <1>4 DEF OnOne, Begun

LEMMA UpFrom ==
  ASSUME NEW s \in State, Sorted(s), NEW n
  PROVE  Up(From(s.turns, n), Ranks(s))
<1>1. PICK f, q : f = Ranks(s) /\ q = s.turns
  OBVIOUS
<1>2. f \in [Jobs -> Nat] /\ q \in Seq(Jobs) /\ Up(q, f)
  BY <1>1, RanksAre, TurnsAre DEF Sorted
<1>3. Up(Among(q, Jobs \ {n}), f)
  BY <1>2, UpAmong
<1> QED BY <1>1, <1>3 DEF From

(* A turn given to n, who passes nobody.                                   *)
Leads(c, s, n) == \A m \in Range(c.turns) \cap (Range(s.turns) \ {n}) : ~Passes(c, s, n, m)
Given(s, n) == Begin([s EXCEPT !.turns = From(@, n)], n)
GivenIs(s, t, n) ==
  /\ t \in State /\ Range(t.turns) = Range(s.turns) \ {n}
  /\ Live(t, n) /\ Ranks(t)[n] = Ranks(s)[n]
  /\ \A m \in Jobs \ {n} : t.job[m] = s.job[m]
LEMMA GivenOrd ==
  ASSUME Constants, NEW c, Good(c), NEW s, Ord(c, s), s \in State, NEW n, Live(s, n),
         Leads(c, s, n), NEW t, t = Given(s, n)
  PROVE  Ord(c, t) /\ GivenIs(s, t, n)
<1>1. PICK q : q = From(s.turns, n)
  OBVIOUS
<1>2. q \in Seq(Jobs) /\ Range(q) = Range(s.turns) \ {n} /\ Up(q, Ranks(s))
  <2>1. Sorted(s)
    BY DEF Ord
  <2>2. Up(q, Ranks(s))
    BY <1>1, <2>1, UpFrom
  <2> QED BY <1>1, <2>2, FromIs, StateParts
<1>3. PICK u : u = [s EXCEPT !.turns = q]
  OBVIOUS
<1>4. u \in State /\ u.job = s.job /\ u.turns = q
  BY <1>2, <1>3, SetTurns
<1>5. Live(u, n) /\ t = Begin(u, n) /\ n \in Jobs
  BY <1>1, <1>3, <1>4 DEF Live, Given
<1>6. /\ OnOne(u, t, n, {"sent", "joins turned"}) /\ t.turns = u.turns
      /\ Begun(t, n) /\ Ranks(t)[n] = Ranks(u)[n]
  BY <1>4, <1>5, BeginRank
<1>7. t \in State /\ \A m \in Jobs \ {n} : t.job[m] = s.job[m]
  BY <1>4, <1>6 DEF OnOne
<1>8. Ranks(t)[n] = Ranks(s)[n]
  BY <1>4, <1>5, <1>6, SameRank
<1>9. Fair(c, t, n)
  BY <1>2, <1>4, <1>6, <1>8 DEF Fair, Passes, Leads
<1>10. Out(t, n)
  BY <1>6 DEF Out
<1>11. Range(t.turns) = Range(s.turns) \ {n} /\ Up(t.turns, Ranks(s))
  BY <1>2, <1>4, <1>6
<1>12. Ord(c, t)
  BY <1>5, <1>7, <1>9, <1>10, <1>11, LeaveOrd
<1> QED BY <1>6, <1>7, <1>8, <1>11, <1>12 DEF OnOne, GivenIs

(* Kick's state: those before the i-th are gone, or stay for a reason.     *)
Bare(s, n) == Speed # "fast" /\ ~s.job[n].urgent /\ ~s.job[n].forLoad
Looked(c, s, acc, i) ==
  /\ Ord(c, acc.s) /\ acc.s \in State /\ acc = [s |-> acc.s, stop |-> acc.stop]
  /\ \A m \in Range(acc.s.turns) : m \in Range(s.turns) /\ acc.s.job[m] = s.job[m]
  /\ \A j \in 1..i : s.turns[j] \in Range(acc.s.turns) => acc.stop \/ Bare(s, s.turns[j])
  /\ \A m \in Range(s.turns) : Live(acc.s, m) /\ Ranks(acc.s)[m] = Ranks(s)[m]

(* Who would be passed waits before n, and was left for a reason.          *)
LEMMA NonePassed ==
  ASSUME NEW c, Good(c), NEW s \in State, TurnsOK(s), Sorted(s), NEW acc, NEW i \in Nat,
         i + 1 \in 1..Len(s.turns), Looked(c, s, acc, i), ~acc.stop, NEW n, n = s.turns[i + 1],
         NEW m \in Range(c.turns) \cap (Range(acc.s.turns) \ {n})
  PROVE  ~Passes(c, acc.s, n, m)
<1>1. PICK u : u = acc.s
  OBVIOUS
<1>2. /\ Ord(c, u) /\ u \in State
      /\ m \in Range(s.turns) /\ m \in Range(u.turns) /\ u.job[m] = s.job[m]
      /\ \A j \in 1..i : s.turns[j] \in Range(u.turns) => Bare(s, s.turns[j])
      /\ \A x \in Range(s.turns) : Ranks(u)[x] = Ranks(s)[x]
  BY <1>1 DEF Looked
<1>3. Live(c, m) /\ c \in State /\ Live(s, m) /\ s.job[m].stage = "turn"
  BY <1>2 DEF Good, TurnsOK
<1>4. Waits(c, u, m)
  <2>1. ~Out(u, m)
    BY <1>2, <1>3 DEF Out, Live, Begun
  <2> QED BY <1>2, <2>1 DEF Ord
<1>5. n \in Range(s.turns) /\ s.turns \in Seq(Jobs)
  <2>1. s.turns \in Seq(Jobs)
    BY TurnsAre
  <2> QED BY <2>1 DEF Range
<1>6. PICK j \in 1..Len(s.turns) : m = s.turns[j]
  BY <1>2, <1>5 DEF Range
<1> SUFFICES ASSUME Passes(c, u, n, m) PROVE FALSE
  BY <1>1
<1>7. Ranks(s)[m] < Ranks(s)[n] /\ Ranks(s)[n] \in Nat /\ Ranks(s)[m] \in Nat
  <2>1. Ranks(s)[m] <= Ranks(c)[m] /\ Ranks(c)[m] < Ranks(s)[n]
    BY <1>2, <1>4, <1>5 DEF Waits, Passes
  <2>2. Ranks(c)[m] \in Nat /\ Ranks(s)[m] \in Nat /\ Ranks(s)[n] \in Nat
    <3>1. m \in Jobs /\ n \in Jobs
      BY <1>3, <1>5, TurnsAre DEF Live
    <3> QED BY <1>3, <3>1, RanksAre
  <2> QED BY <2>1, <2>2
<1>8. ~(i + 1 < j)
  BY <1>6, <1>7 DEF Sorted, Up
<1>9. j # i + 1
  BY <1>6
<1>10. j \in 1..i
  BY <1>6, <1>8, <1>9, TurnsAre
<1>11. Bare(s, m)
  BY <1>2, <1>6, <1>10
<1>12. Excused(c, m)
  BY <1>2, <1>4, <1>11 DEF Bare, Excused, Waits, Grows
<1> QED BY <1>12 DEF Passes

LEMMA KickOneOrd ==
  ASSUME Constants, NEW c, Good(c), NEW s \in State, TurnsOK(s), Sorted(s), NEW acc, NEW i \in Nat,
         i + 1 \in 1..Len(s.turns), Looked(c, s, acc, i), NEW n, n = s.turns[i + 1],
         NEW t, t = KickOne(acc, n)
  PROVE  Looked(c, s, t, i + 1)
<1>1. PICK u, stop : u = acc.s /\ stop = acc.stop
  OBVIOUS
<1>2. /\ Ord(c, u) /\ u \in State /\ acc = [s |-> u, stop |-> stop]
      /\ \A m \in Range(u.turns) : m \in Range(s.turns) /\ u.job[m] = s.job[m]
      /\ \A j \in 1..i : s.turns[j] \in Range(u.turns) => stop \/ Bare(s, s.turns[j])
      /\ \A m \in Range(s.turns) : Live(u, m) /\ Ranks(u)[m] = Ranks(s)[m]
  BY <1>1 DEF Looked
<1>3. n \in Range(s.turns) /\ s.turns \in Seq(Jobs) /\ n \in Jobs
  <2>1. s.turns \in Seq(Jobs)
    BY TurnsAre
  <2> QED BY <2>1 DEF Range
<1>4. \A j \in 1..(i + 1) : j \in 1..i \/ j = i + 1
  OBVIOUS
<1>5. CASE stop \/ (Silenced(u) /\ ~u.job[n].urgent /\ ~u.job[n].forLoad)
  <2>1. t = acc
    BY <1>1, <1>5 DEF KickOne
  <2>2. n \in Range(u.turns) => stop \/ Bare(s, n)
    BY <1>2, <1>5 DEF Bare, Silenced
  <2>3. \A j \in 1..(i + 1) : s.turns[j] \in Range(u.turns) => stop \/ Bare(s, s.turns[j])
    BY <1>2, <1>4, <2>2
  <2> QED BY <1>1, <1>2, <2>1, <2>3 DEF Looked
<1>6. CASE ~stop /\ ~(Silenced(u) /\ ~u.job[n].urgent /\ ~u.job[n].forLoad) /\ MayStart(u, n)
  <2>1. PICK v : v = Given(u, n)
    OBVIOUS
  <2>2. t = [acc EXCEPT !.s = v]
    BY <1>1, <1>6, <2>1 DEF KickOne, Given
  <2>3. t = [s |-> v, stop |-> stop] /\ t.s = v /\ t.stop = stop
    BY <1>2, <2>2
  <2>4. Leads(c, u, n)
    BY <1>1, <1>6, NonePassed DEF Leads
  <2>5. Live(u, n)
    BY <1>2, <1>3
  <2>6. /\ Ord(c, v) /\ v \in State /\ Range(v.turns) = Range(u.turns) \ {n}
        /\ Live(v, n) /\ Ranks(v)[n] = Ranks(u)[n]
        /\ \A m \in Jobs \ {n} : v.job[m] = u.job[m]
    BY <1>2, <2>1, <2>4, <2>5, GivenOrd DEF GivenIs
  <2>7. \A m \in Range(v.turns) : m \in Range(s.turns) /\ v.job[m] = s.job[m]
    BY <1>2, <2>6, TurnsAre
  <2>8. \A j \in 1..(i + 1) : s.turns[j] \in Range(v.turns) => stop \/ Bare(s, s.turns[j])
    BY <1>2, <1>4, <2>6
  <2>9. ASSUME NEW m \in Range(s.turns) PROVE Live(v, m) /\ Ranks(v)[m] = Ranks(s)[m]
    <3>1. m \in Jobs /\ Live(u, m) /\ Ranks(u)[m] = Ranks(s)[m]
      BY <1>2, TurnsAre
    <3>2. CASE m = n
      BY <2>6, <3>1, <3>2
    <3>3. CASE m # n
      <4>1. v.job[m] = u.job[m]
        BY <2>6, <3>1, <3>3
      <4> QED BY <3>1, <4>1, SameRank DEF Live
    <3> QED BY <3>2, <3>3
  <2> QED BY <2>3, <2>6, <2>7, <2>8, <2>9 DEF Looked
<1>7. CASE ~stop /\ ~(Silenced(u) /\ ~u.job[n].urgent /\ ~u.job[n].forLoad) /\ ~MayStart(u, n)
  <2>1. ~u.job[n].urgent
    BY <1>7 DEF MayStart
  <2>2. t = [acc EXCEPT !.stop = ~u.job[n].urgent]
    BY <1>1, <1>7 DEF KickOne
  <2>3. t = [s |-> u, stop |-> TRUE] /\ t.s = u /\ t.stop
    BY <1>2, <2>1, <2>2
  <2> QED BY <1>2, <2>3 DEF Looked
<1> QED BY <1>5, <1>6, <1>7

LEMMA KickOrd ==
  ASSUME Constants, NEW c, Good(c), NEW s, Ord(c, s), s \in State, TurnsOK(s), NEW t, t = Kick(s)
  PROVE  Ord(c, t)
<1>1. Len(s.turns) \in Nat
  BY TurnsAre
<1>2. PICK k : KickRuns(k, s)
  BY <1>1, KickIs
<1>3. /\ k[0] = [s |-> s, stop |-> FALSE]
      /\ \A i \in 1..Len(s.turns) : k[i] = KickOne(k[i - 1], s.turns[i])
      /\ Kick(s) = k[Len(s.turns)].s
  BY <1>2 DEF KickRuns
<1>4. Sorted(s)
  BY DEF Ord
<1> DEFINE G == {i \in 0..Len(s.turns) : Looked(c, s, k[i], i)}
<1>5. 0 \in G
  <2>1. \A m \in Range(s.turns) : Live(s, m)
    BY DEF TurnsOK
  <2>2. PICK acc : acc = k[0]
    OBVIOUS
  <2>3. acc = [s |-> s, stop |-> FALSE] /\ acc.s = s
    BY <1>3, <2>2
  <2>4. Looked(c, s, acc, 0)
    BY <2>1, <2>3 DEF Looked
  <2> QED BY <1>1, <2>2, <2>4
<1>6. \A i \in 0..(Len(s.turns) - 1) : i \in G => i + 1 \in G
  <2> SUFFICES ASSUME NEW i \in 0..(Len(s.turns) - 1), i \in G PROVE i + 1 \in G
    OBVIOUS
  <2>1. i \in Nat /\ i + 1 \in 1..Len(s.turns) /\ i + 1 \in 0..Len(s.turns) /\ (i + 1) - 1 = i
    BY <1>1
  <2>2. PICK n, acc, u : n = s.turns[i + 1] /\ acc = k[i] /\ u = k[i + 1]
    OBVIOUS
  <2>3. u = KickOne(acc, n) /\ Looked(c, s, acc, i)
    BY <1>3, <2>1, <2>2
  <2>4. Looked(c, s, u, i + 1)
    BY <1>4, <2>1, <2>2, <2>3, KickOneOrd
  <2> QED BY <2>1, <2>2, <2>4
<1>7. Len(s.turns) \in G
  <2> HIDE DEF G
  <2> QED BY <1>1, <1>5, <1>6, UpTo
<1> QED BY <1>3, <1>7 DEF Looked

(* One request, n, put in its place among the turns r, then the link       *)
(* looks: u has its new rank, w its new stage.                             *)
Put(c, s, u, r, w, n) ==
  /\ u \in State /\ Live(u, n) /\ \A m \in Jobs \ {n} : u.job[m] = s.job[m]
  /\ r \in Seq(Jobs) /\ Up(r, Ranks(s)) /\ Range(r) = Range(s.turns) \ {n}
  /\ w \in State /\ w.turns = InOrder(u, n, r) /\ \A m \in Jobs \ {n} : w.job[m] = s.job[m]
  /\ Live(w, n) /\ w.job[n].stage = "turn" /\ Ranks(w)[n] = Ranks(u)[n]
  /\ n \in Range(c.turns) =>
       n \in Range(s.turns) /\ Grows(s.job[n], w.job[n]) /\ Ranks(w)[n] <= Ranks(s)[n]

LEMMA PutKickOrd ==
  ASSUME Constants, NEW c, Good(c), NEW s, Ord(c, s), s \in State, TurnsOK(s), NEW n \in Jobs,
         NEW u, NEW r, NEW w, Put(c, s, u, r, w, n), NEW t, t = Kick(w)
  PROVE  Ord(c, t)
<1>0. /\ u \in State /\ Live(u, n) /\ \A m \in Jobs \ {n} : u.job[m] = s.job[m]
      /\ r \in Seq(Jobs) /\ Up(r, Ranks(s)) /\ Range(r) = Range(s.turns) \ {n}
      /\ w \in State /\ w.turns = InOrder(u, n, r) /\ \A m \in Jobs \ {n} : w.job[m] = s.job[m]
      /\ Live(w, n) /\ w.job[n].stage = "turn" /\ Ranks(w)[n] = Ranks(u)[n]
  BY DEF Put
<1>1. \A m \in Jobs \ {n} : Ranks(u)[m] = Ranks(s)[m] /\ Ranks(w)[m] = Ranks(s)[m]
  BY <1>0, SameRank
<1>2. Range(r) \subseteq Jobs \ {n} /\ \A m \in Range(r) : Live(s, m) /\ s.job[m].stage = "turn"
  BY <1>0, TurnsAre DEF TurnsOK
<1>3. Up(r, Ranks(u))
  BY <1>0, <1>1, <1>2, UpSame
<1>4. \A m \in Range(r) : Live(u, m)
  BY <1>0, <1>2 DEF Live
<1>5. PICK q : q = InOrder(u, n, r)
  OBVIOUS
<1>6. q \in Seq(Jobs) /\ Range(q) = Range(r) \cup {n}
  BY <1>0, <1>5, InOrderIs
<1>7. Up(q, Ranks(u))
  BY <1>0, <1>3, <1>4, <1>5, UpInOrder
<1>8. Up(q, Ranks(w))
  <2>1. \A m \in Range(q) : Ranks(w)[m] = Ranks(u)[m]
    BY <1>0, <1>1, <1>2, <1>6
  <2> QED BY <1>6, <1>7, <2>1, UpSame
<1>9. Sorted(w) /\ Range(w.turns) = Range(s.turns) \cup {n}
  BY <1>0, <1>5, <1>6, <1>8 DEF Sorted
<1>10. Ord(c, w)
  <2>1. n \in Range(c.turns) =>
          n \in Range(s.turns) /\ Grows(s.job[n], w.job[n]) /\ Ranks(w)[n] <= Ranks(s)[n]
    BY DEF Put
  <2> QED BY <1>0, <1>9, <2>1, PutOrd
<1>11. TurnsOK(w)
  <2> SUFFICES ASSUME NEW m \in Range(w.turns) PROVE Live(w, m) /\ w.job[m].stage = "turn"
    BY DEF TurnsOK
  <2>1. CASE m = n
    BY <1>0, <2>1
  <2>2. CASE m # n
    <3>1. m \in Range(r) /\ w.job[m] = s.job[m]
      BY <1>0, <1>2, <1>5, <1>6, <2>2
    <3> QED BY <1>2, <3>1 DEF Live
  <2> QED BY <2>1, <2>2
<1> QED BY <1>0, <1>10, <1>11, KickOrd

LEMMA AskOrd ==
  ASSUME Constants, NEW c, Good(c), NEW s, Ord(c, s), s \in State, TurnsOK(s), NEW n, Live(s, n),
         s.job[n].stage # "turn", ~Begun(s, n), NEW t, t = Ask(s, n)
  PROVE  Ord(c, t)
<1>1. s.job[n] \in Job /\ n \in Jobs
  BY LiveIs
<1>2. n \notin Range(s.turns) /\ n \notin Range(c.turns) /\ Range(s.turns) \ {n} = Range(s.turns)
  BY NotThere DEF TurnsOK
<1>3. Up(s.turns, Ranks(s)) /\ s.turns \in Seq(Jobs)
  BY TurnsAre DEF Ord, Sorted
<1>4. CASE s.fg[s.job[n].piece] # Nobody
  <2>1. PICK stage \in Stages : stage = "joins"
    BY DEF Stages
  <2>2. t = Joins(s, n, stage)
    BY <1>4, <2>1 DEF Ask
  <2>3. OnOne(s, t, n, {stage}) /\ t.turns = s.turns
    BY <2>2, JoinsIs
  <2>4. t \in State /\ (\A m \in Jobs \ {n} : t.job[m] = s.job[m]) /\ t.job[n].stage = "joins"
    BY <2>1, <2>3 DEF OnOne
  <2>5. ~Starts(c, t, n)
    BY <2>4 DEF Starts, Begun
  <2> QED BY <1>1, <1>2, <1>3, <2>3, <2>4, <2>5, LeaveOrd
<1>5. CASE s.fg[s.job[n].piece] = Nobody /\ s.turns = <<>> /\ MayStart(s, n)
  <2>1. t = Begin(s, n)
    BY <1>5 DEF Ask
  <2>2. OnOne(s, t, n, {"sent", "joins turned"}) /\ t.turns = s.turns
    BY <2>1, BeginIs
  <2>3. t \in State /\ \A m \in Jobs \ {n} : t.job[m] = s.job[m]
    BY <2>2 DEF OnOne
  <2>4. Fair(c, t, n)
    <3>1. t.turns = <<>>
      BY <1>5, <2>2
    <3>2. Range(<<>>) = {}
      BY DEF Range
    <3> QED BY <3>1, <3>2 DEF Fair
  <2>5. Range(t.turns) = Range(s.turns) \ {n} /\ Up(t.turns, Ranks(s))
    BY <1>2, <1>3, <2>2
  <2>6. /\ n \in Range(c.turns) => Out(t, n)
        /\ Starts(c, t, n) => Fair(c, t, n)
    BY <1>2, <2>4
  <2> QED BY <1>1, <2>3, <2>5, <2>6, LeaveOrd
<1>6. CASE s.fg[s.job[n].piece] = Nobody /\ ~(s.turns = <<>> /\ MayStart(s, n))
  <2>1. PICK i : i = [s.job[n] EXCEPT !.prio = Prio[s.job[n].kind]]
    OBVIOUS
  <2>2. i \in Job
    <3>1. Prio[s.job[n].kind] \in Nat
      BY <1>1 DEF Job, Kinds, Prio
    <3> QED BY <1>1, <2>1, <3>1 DEF Job
  <2>3. PICK u : u = [s EXCEPT !.job[n].prio = Prio[s.job[n].kind]]
    OBVIOUS
  <2>4. u = [s EXCEPT !.job = [s.job EXCEPT ![n] = i]]
    BY <2>1, <2>3
  <2>5. WithJob(s, u, n, i) /\ u.turns = s.turns
    BY <1>1, <2>2, <2>4, SetJob
  <2>6. u \in State /\ Live(u, n) /\ \A m \in Jobs \ {n} : u.job[m] = s.job[m]
    <3>1. u \in State /\ u.job = [s.job EXCEPT ![n] = i]
      BY <2>5 DEF WithJob
    <3>2. u.job[n] = i /\ \A m \in Jobs \ {n} : u.job[m] = s.job[m]
      BY <1>1, <3>1, StateParts
    <3> QED BY <1>1, <2>2, <3>1, <3>2, LiveIs
  <2>7. PICK stage \in Stages : stage = "turn"
    BY DEF Stages
  <2>8. PICK v : v = Stage(u, n, stage)
    OBVIOUS
  <2>9. OnOne(u, v, n, {stage}) /\ v.turns = u.turns /\ Kin(u.job[n], v.job[n])
    BY <2>6, <2>8, StageKin
  <2>10. v.job[n].prio = u.job[n].prio
    BY <2>6, <2>8, StagePrio
  <2>11. v \in State /\ Live(v, n) /\ v.job[n].stage = "turn"
         /\ \A m \in Jobs \ {n} : v.job[m] = s.job[m]
    BY <2>6, <2>7, <2>9 DEF OnOne
  <2>12. PICK q : q = InOrder(u, n, s.turns)
    OBVIOUS
  <2>13. q \in Seq(Jobs)
    BY <1>1, <1>3, <2>12, InOrderIs
  <2>14. PICK w : w = [v EXCEPT !.turns = q]
    OBVIOUS
  <2>15. w \in State /\ w.job = v.job /\ w.turns = q
    BY <2>11, <2>13, <2>14, SetTurns
  <2>16. Ranks(w)[n] = Ranks(u)[n]
    BY <1>1, <2>6, <2>9, <2>10, <2>11, <2>15 DEF Ranks, Rank, Kin, Live
  <2>17. t = Kick(w)
    BY <1>6, <2>3, <2>5, <2>7, <2>8, <2>9, <2>12, <2>14 DEF Ask
  <2>18. Live(w, n) /\ w.job[n].stage = "turn" /\ \A m \in Jobs \ {n} : w.job[m] = s.job[m]
    BY <2>11, <2>15 DEF Live
  <2>19. Put(c, s, u, s.turns, w, n)
    BY <1>2, <1>3, <2>6, <2>12, <2>15, <2>16, <2>18 DEF Put
  <2> QED BY <1>1, <2>17, <2>19, PutKickOrd
<1> QED BY <1>4, <1>5, <1>6

LEMMA ReorderOrd ==
  ASSUME Constants, NEW c, Good(c), NEW s, Ord(c, s), s \in State, TurnsOK(s), NEW n, Live(s, n),
         NEW j \in Job, Grows(s.job[n], j), j.stage = s.job[n].stage,
         NEW u, u = [s EXCEPT !.job = [s.job EXCEPT ![n] = j]], Ranks(u)[n] <= Ranks(s)[n],
         NEW t, t = Reorder(u, n)
  PROVE  Ord(c, t)
<1>1. s.job[n] \in Job /\ n \in Jobs
  BY LiveIs
<1>2. WithJob(s, u, n, j) /\ u.turns = s.turns
  BY <1>1, SetJob
<1>3. u \in State /\ u.job[n] = j /\ Live(u, n) /\ \A m \in Jobs \ {n} : u.job[m] = s.job[m]
  <2>1. u \in State /\ u.job = [s.job EXCEPT ![n] = j]
    BY <1>2 DEF WithJob
  <2>2. u.job[n] = j /\ \A m \in Jobs \ {n} : u.job[m] = s.job[m]
    BY <1>1, <2>1, StateParts
  <2> QED BY <1>1, <2>1, <2>2, LiveIs
<1>4. CASE j.stage # "turn"
  <2>1. t = u
    BY <1>3, <1>4 DEF Reorder
  <2>2. n \notin Range(s.turns) /\ Range(t.turns) = Range(s.turns) \ {n}
    BY <1>2, <1>4, <2>1 DEF TurnsOK
  <2>3. Up(t.turns, Ranks(s))
    BY <1>2, <2>1 DEF Ord, Sorted
  <2>4. n \in Range(c.turns) => Out(t, n)
    <3>1. n \in Range(c.turns) => Out(s, n)
      BY <2>2 DEF Ord, Waits
    <3> QED BY <1>3, <2>1, <3>1 DEF Out, Begun
  <2>5. Starts(c, t, n) => Starts(c, s, n)
    BY <1>3, <2>1 DEF Starts, Begun
  <2>6. Starts(c, t, n) => Fair(c, t, n)
    BY <1>1, <1>3, <2>1, <2>2, <2>5, StaysFair
  <2>7. t \in State /\ \A m \in Jobs \ {n} : t.job[m] = s.job[m]
    BY <1>3, <2>1
  <2>8. Range(t.turns) = Range(s.turns) \ {n}
    BY <2>2
  <2> QED BY <1>1, <2>3, <2>4, <2>6, <2>7, <2>8, LeaveOrd
<1>5. CASE j.stage = "turn"
  <2>1. PICK r : r = From(s.turns, n)
    OBVIOUS
  <2>2. r \in Seq(Jobs) /\ Range(r) = Range(s.turns) \ {n} /\ Up(r, Ranks(s))
    <3>1. Sorted(s)
      BY DEF Ord
    <3>2. Up(r, Ranks(s))
      BY <2>1, <3>1, UpFrom
    <3> QED BY <2>1, <3>2, FromIs, StateParts
  <2>3. PICK q : q = InOrder(u, n, r)
    OBVIOUS
  <2>4. q \in Seq(Jobs)
    BY <1>1, <2>2, <2>3, InOrderIs
  <2>5. PICK w : w = [u EXCEPT !.turns = q]
    OBVIOUS
  <2>6. w \in State /\ w.job = u.job /\ w.turns = q
    <3>1. u \in State
      BY <1>3
    <3>2. \A v \in State : w = [v EXCEPT !.turns = q] => w \in State /\ w.job = v.job /\ w.turns = q
      BY <2>4, SetTurns
    <3> QED BY ZenonT(60), <2>5, <3>1, <3>2
  <2>7. t = Kick(w)
    BY <1>2, <1>3, <1>5, <2>1, <2>3, <2>5 DEF Reorder
  <2>8. Ranks(w)[n] = Ranks(u)[n]
    BY <1>1, <2>6, SameRank
  <2>9. /\ Live(w, n) /\ w.job[n].stage = "turn" /\ Grows(s.job[n], w.job[n])
        /\ \A m \in Jobs \ {n} : w.job[m] = s.job[m]
    BY <1>3, <1>5, <2>6 DEF Live
  <2>10. n \in Range(c.turns) => n \in Range(s.turns)
    <3>1. ~Out(s, n)
      BY <1>5 DEF Out, Begun
    <3> QED BY <3>1 DEF Ord, Waits
  <2>11. n \in Range(c.turns) =>
           n \in Range(s.turns) /\ Grows(s.job[n], w.job[n]) /\ Ranks(w)[n] <= Ranks(s)[n]
    BY <2>8, <2>9, <2>10
  <2>12. u \in State /\ Live(u, n) /\ \A m \in Jobs \ {n} : u.job[m] = s.job[m]
    BY <1>3
  <2>13. w \in State /\ w.turns = InOrder(u, n, r)
    BY <2>3, <2>6
  <2>14. /\ Live(w, n) /\ w.job[n].stage = "turn"
         /\ \A m \in Jobs \ {n} : w.job[m] = s.job[m]
    BY <2>9
  <2>15. r \in Seq(Jobs) /\ Up(r, Ranks(s)) /\ Range(r) = Range(s.turns) \ {n}
    BY <2>2
  <2>16. Put(c, s, u, r, w, n)
    BY <2>8, <2>11, <2>12, <2>13, <2>14, <2>15 DEF Put
  <2> QED BY <1>1, <2>7, <2>16, PutKickOrd
<1> QED BY <1>4, <1>5

LEMMA PromoteOrd ==
  ASSUME Constants, NEW c, Good(c), NEW s, Ord(c, s), s \in State, TurnsOK(s), NEW n, Live(s, n),
         NEW t, t = Promote(s, n)
  PROVE  Ord(c, t)
<1>1. s.job[n] \in Job /\ n \in Jobs
  BY LiveIs
<1>2. CASE s.job[n].urgent
  BY <1>2 DEF Promote
<1>3. CASE ~s.job[n].urgent
  <2>1. PICK j : j = [s.job[n] EXCEPT !.urgent = TRUE]
    OBVIOUS
  <2>2. j \in Job /\ Grows(s.job[n], j) /\ j.stage = s.job[n].stage /\ j.urgent
        /\ j.prio = s.job[n].prio
    BY <1>1, <2>1 DEF Job, Grows
  <2>3. PICK u : u = [s EXCEPT !.job = [s.job EXCEPT ![n] = j]]
    OBVIOUS
  <2>4. t = Reorder(u, n)
    BY <1>3, <2>1, <2>3 DEF Promote
  <2>5. u.job[n] = j
    BY <1>1, <2>3, StateParts DEF State
  <2>6. Ranks(u)[n] <= Ranks(s)[n]
    <3>1. j.prio \in Nat /\ j # NoJob /\ s.job[n] # NoJob
      BY <1>1, <2>2 DEF Job, NoJob
    <3> QED BY <1>1, <1>3, <2>2, <2>5, <3>1 DEF Ranks, Rank
  <2> QED BY <2>2, <2>3, <2>4, <2>6, ReorderOrd
<1> QED BY <1>2, <1>3

LEMMA ForLoadOrd ==
  ASSUME Constants, NEW c, Good(c), NEW s, Ord(c, s), s \in State, TurnsOK(s), NEW n, Live(s, n),
         NEW t, t = ForLoad(s, n)
  PROVE  Ord(c, t)
<1>1. s.job[n] \in Job /\ n \in Jobs
  BY LiveIs
<1>2. CASE s.job[n].forLoad
  BY <1>2 DEF ForLoad
<1>3. CASE ~s.job[n].forLoad
  <2> DEFINE p == IF s.job[n].stage = "turn" THEN 0 ELSE s.job[n].prio
  <2>1. PICK j : j = [[s.job[n] EXCEPT !.forLoad = TRUE] EXCEPT !.prio = p]
    OBVIOUS
  <2>2. j \in Job /\ Grows(s.job[n], j) /\ j.stage = s.job[n].stage
        /\ j.urgent = s.job[n].urgent /\ j.prio = p
    BY <1>1, <2>1 DEF Job, Grows
  <2>3. PICK u : u = [s EXCEPT !.job = [s.job EXCEPT ![n] = j]]
    OBVIOUS
  <2>4. t = Reorder(u, n)
    BY <1>1, <1>3, <2>1, <2>3, StateParts DEF ForLoad
  <2>5. u.job[n] = j
    BY <1>1, <2>3, StateParts DEF State
  <2>6. Ranks(u)[n] <= Ranks(s)[n]
    <3>1. s.job[n].prio \in Nat /\ j # NoJob /\ s.job[n] # NoJob
      BY <1>1, <2>2 DEF Job, NoJob
    <3>2. p \in Nat /\ p <= s.job[n].prio
      BY <3>1
    <3> HIDE DEF p
    <3> QED BY <1>1, <2>2, <2>5, <3>1, <3>2 DEF Ranks, Rank
  <2> QED BY <2>2, <2>3, <2>4, <2>6, ReorderOrd
<1> QED BY <1>2, <1>3

----------------------------------------------------------------------------
(* Units and lists keep the order.                                         *)

(* A request that waits for no turn is gone.                               *)
LEMMA SettleOrd ==
  ASSUME Constants, NEW c, Good(c), NEW s, Good(s), Ord(c, s), NEW n, Live(s, n),
         n \notin Queued(s), n \notin Range(s.turns),
         NEW t, t = Settle(s, n)
  PROVE  Ord(c, t)
<1>1. s \in State /\ n \in Jobs
  BY DEF Good, Live
<1>2. SettleLeaves(s, t, n)
  BY <1>1, SettleIs
<1>3. t \in State
  BY SettleFine DEF Fine, Good
<1>4. t.turns = s.turns /\ t.job[n] = NoJob /\ \A m \in Jobs \ {n} : t.job[m] = s.job[m]
  BY <1>2 DEF SettleLeaves
<1>5. Range(t.turns) = Range(s.turns) \ {n} /\ Up(t.turns, Ranks(s))
  BY <1>4 DEF Ord, Sorted
<1>6. Out(t, n) /\ ~Starts(c, t, n)
  BY <1>4 DEF Out, Starts, Live
<1> QED BY <1>1, <1>3, <1>4, <1>5, <1>6, LeaveOrd

LEMMA RunWantOrd ==
  ASSUME Constants, NEW c, Good(c), NEW s, Good(s), Ord(c, s), NEW n, Live(s, n),
         n \notin Queued(s), s.job[n].stage = "queued", NEW t, t = RunWant(s, n)
  PROVE  Ord(c, t)
<1>1. s \in State /\ TurnsOK(s) /\ QueuesOK(s) /\ n \in Jobs /\ s.job[n] \in Job
  BY LiveIs DEF Good
<1>2. n \notin Range(s.turns)
  BY DEF Good, TurnsOK
<1>3. CASE s.job[n].piece \in s.here
  <2>1. t = Settle(s, n)
    BY <1>3 DEF RunWant
  <2> QED BY <1>2, <2>1, SettleOrd
<1>4. CASE s.job[n].piece \notin s.here /\ s.job[n].kind = "announced"
  <2>1. PICK j : j = [s.job[n] EXCEPT !.urgent = TRUE]
    OBVIOUS
  <2>2. j \in Job /\ Grows(s.job[n], j) /\ j.stage = "queued"
    BY <1>1, <2>1 DEF Job, Grows
  <2>3. PICK u : u = [s EXCEPT !.job = [s.job EXCEPT ![n] = j]]
    OBVIOUS
  <2>4. WithJob(s, u, n, j) /\ u.turns = s.turns
    BY <1>1, <2>2, <2>3, SetJob
  <2>5. u \in State /\ u.job[n] = j /\ Live(u, n) /\ \A m \in Jobs \ {n} : u.job[m] = s.job[m]
    <3>1. u \in State /\ u.job = [s.job EXCEPT ![n] = j]
      BY <2>4 DEF WithJob
    <3>2. u.job[n] = j /\ \A m \in Jobs \ {n} : u.job[m] = s.job[m]
      BY <1>1, <3>1, StateParts
    <3> QED BY <1>1, <2>2, <3>1, <3>2, LiveIs
  <2>6. ~Begun(u, n) /\ ~Begun(s, n) /\ u.job[n].stage # "turn"
    BY <2>2, <2>5 DEF Begun
  <2>7. Ord(c, u)
    <3>1. n \notin Range(c.turns)
      BY <1>1, <2>6, NotThere
    <3>2. ~Starts(c, u, n)
      BY <2>6 DEF Starts
    <3>3. Range(u.turns) = Range(s.turns) \ {n} /\ Up(u.turns, Ranks(s))
      BY <1>2, <2>4 DEF Ord, Sorted
    <3> QED BY <1>1, <2>5, <3>1, <3>2, <3>3, LeaveOrd
  <2>8. TurnsOK(u)
    BY <1>1, <1>2, <2>4, <2>5 DEF TurnsOK, Live
  <2>9. t = Ask(u, n)
    BY <1>4, <2>1, <2>3 DEF RunWant
  <2> QED BY <2>5, <2>6, <2>7, <2>8, <2>9, AskOrd
<1>5. CASE s.job[n].piece \notin s.here /\ s.job[n].kind # "announced"
  <2>1. t = Ask(s, n)
    BY <1>5 DEF RunWant
  <2>2. ~Begun(s, n)
    BY DEF Begun
  <2> QED BY <1>1, <2>1, <2>2, AskOrd
<1> QED BY <1>3, <1>4, <1>5

LEMMA PumpOneOrd ==
  ASSUME Constants, NEW c, Good(c), NEW s, Good(s), Ord(c, s), NEW t, t = PumpOne(s)
  PROVE  Ord(c, t)
<1>1. s \in State /\ s.wantQ \in Seq(Jobs) /\ s.placeQ \in Seq(Jobs)
  BY StateParts DEF Good
<1>2. CASE t = s
  BY <1>2
<1>3. CASE t # s
  <2>1. \E q \in {Urgent(s, s.wantQ), Urgent(s, s.placeQ), s.wantQ, s.placeQ} :
          /\ q # <<>>
          /\ t = RunWant([s EXCEPT !.wantQ = From(@, q[1]), !.placeQ = From(@, q[1])], q[1])
    BY <1>3 DEF PumpOne
  <2>2. PICK q \in {Urgent(s, s.wantQ), Urgent(s, s.placeQ), s.wantQ, s.placeQ} :
          /\ q # <<>>
          /\ t = RunWant([s EXCEPT !.wantQ = From(@, q[1]), !.placeQ = From(@, q[1])], q[1])
    BY <2>1
  <2>3. q \in Seq(Jobs) /\ Range(q) \subseteq Queued(s)
    <3>1. Urgent(s, s.wantQ) \in Seq(Jobs) /\ Range(Urgent(s, s.wantQ)) \subseteq Range(s.wantQ)
      BY <1>1, AmongAre DEF Urgent
    <3>2. Urgent(s, s.placeQ) \in Seq(Jobs) /\ Range(Urgent(s, s.placeQ)) \subseteq Range(s.placeQ)
      BY <1>1, AmongAre DEF Urgent
    <3> QED BY <1>1, <2>2, <3>1, <3>2 DEF Queued
  <2>4. PICK n : n = q[1]
    OBVIOUS
  <2>5. n \in Queued(s)
    <3>1. 1 \in DOMAIN q
      BY <2>2, <2>3
    <3> QED BY <2>3, <2>4, <3>1 DEF Range
  <2>6. Live(s, n) /\ s.job[n].stage = "queued" /\ n \in Jobs
    BY <2>5 DEF Good, QueuesOK, Live
  <2>7. PICK w, p : w = From(s.wantQ, n) /\ p = From(s.placeQ, n)
    OBVIOUS
  <2>8. /\ w \in Seq(Jobs) /\ Range(w) = Range(s.wantQ) \ {n}
        /\ p \in Seq(Jobs) /\ Range(p) = Range(s.placeQ) \ {n}
    BY <1>1, <2>7, FromIs
  <2>9. PICK u : u = WithQueues(s, w, p)
    OBVIOUS
  <2>10. Fine(s, u, {}) /\ u.job = s.job /\ n \notin Queued(u)
    <3>1. Range(w) \subseteq Queued(s) /\ Range(p) \subseteq Queued(s)
      BY <2>8 DEF Queued
    <3>2. Fine(s, u, {}) /\ u.job = s.job /\ Queued(u) = Range(w) \cup Range(p)
      BY <2>8, <2>9, <3>1, QueuesFine
    <3> QED BY <2>8, <3>2
  <2>11. t = RunWant(u, n)
    BY <2>2, <2>4, <2>7, <2>9 DEF WithQueues
  <2>12. Good(u) /\ Live(u, n) /\ u.job[n].stage = "queued"
    BY <2>6, <2>10 DEF Fine, Live
  <2>13. Ord(c, u)
    <3>1. u.turns = s.turns
      BY <1>1, <2>9 DEF WithQueues, State
    <3> QED BY <2>10, <3>1, PlainOrd
  <2> QED BY <2>10, <2>11, <2>12, <2>13, RunWantOrd
<1> QED BY <1>2, <1>3

LEMMA PumpOrd ==
  ASSUME Constants, NEW c, Good(c), NEW s, Good(s), Ord(c, s), NEW t, t = Pump(s)
  PROVE  Ord(c, t)
<1>1. PICK n : n = Cardinality(InStage(s, "queued"))
  OBVIOUS
<1>2. n \in Nat
  <2>1. InStage(s, "queued") \in SUBSET Jobs
    BY DEF InStage
  <2>2. IsFiniteSet(InStage(s, "queued"))
    BY <2>1, FS_Subset DEF Constants
  <2> QED BY <1>1, <2>2, FS_CardinalityType
<1>3. PICK k : PumpRuns(k, s, n)
  BY <1>1, <1>2, PumpIs
<1>4. k[0] = s /\ (\A i \in 1..n : k[i] = PumpOne(k[i - 1])) /\ t = k[n]
  BY <1>3 DEF PumpRuns
<1> DEFINE G == {i \in 0..n : Good(k[i]) /\ Ord(c, k[i])}
<1>5. 0 \in G
  BY <1>2, <1>4
<1>6. \A i \in 0..(n - 1) : i \in G => i + 1 \in G
  <2> SUFFICES ASSUME NEW i \in 0..(n - 1), i \in G PROVE i + 1 \in G
    OBVIOUS
  <2>1. i + 1 \in 1..n /\ i + 1 \in 0..n /\ (i + 1) - 1 = i
    BY <1>2
  <2>2. PICK u, v : u = k[i] /\ v = k[i + 1]
    OBVIOUS
  <2>3. v = PumpOne(u) /\ Good(u) /\ Ord(c, u)
    BY <1>4, <2>1, <2>2
  <2>4. Good(v) /\ Ord(c, v)
    BY <2>3, PumpOneFine, PumpOneOrd DEF Fine
  <2> QED BY <2>1, <2>2, <2>4
<1>7. n \in G
  <2> HIDE DEF G
  <2> QED BY <1>2, <1>5, <1>6, UpTo
<1> QED BY <1>4, <1>7

(* A unit made: nobody who waited in c is gone.                            *)
AllLive(c, s) == \A m \in Range(c.turns) : Live(s, m)

LEMMA WantUnitOrd ==
  ASSUME Constants, NEW c, Good(c), NEW s, Good(s), Ord(c, s), AllLive(c, s), FreeJobs(s) # {},
         NEW kind \in {"announced", "place"}, NEW p \in Pieces, NEW t, t = WantUnit(s, p, kind)
  PROVE  Ord(c, t)
<1>1. s \in State /\ t \in State /\ TurnsOK(s)
  BY WantUnitIs DEF Good
<1>2. PICK n : n = CHOOSE m \in Jobs : s.job[m] = NoJob
  OBVIOUS
<1>3. n \in Jobs /\ ~Live(s, n)
  BY <1>2 DEF FreeJobs, Live
<1>4. n \notin Range(c.turns) /\ n \notin Range(s.turns)
  BY <1>1, <1>3 DEF AllLive, TurnsOK
<1>5. PICK stage \in Stages : stage = "queued"
  BY DEF Stages
<1>6. PICK j, jobs, flights : /\ j = NewJob(kind, p, stage) /\ jobs = [s.job EXCEPT ![n] = j]
                              /\ flights = [s.flights EXCEPT ![p] = n]
  OBVIOUS
<1>7. PICK u : u = [s EXCEPT !.job = jobs, !.flights = flights]
  OBVIOUS
<1>8. t = IF kind = "place" THEN [u EXCEPT !.placeQ = Append(@, n)]
          ELSE [u EXCEPT !.wantQ = Append(@, n)]
  BY <1>2, <1>5, <1>6, <1>7 DEF WantUnit
<1>9. t.turns = s.turns /\ t.job = jobs
  BY ZenonT(60), <1>1, <1>7, <1>8 DEF State
<1>10. jobs[n] = j /\ \A m \in Jobs \ {n} : jobs[m] = s.job[m]
  BY <1>1, <1>3, <1>6, StateParts
<1>11. j.stage = "queued"
  <2>1. kind \in Kinds
    BY DEF Kinds
  <2> QED BY <1>5, <1>6, <2>1, NewJobIs
<1>12. ~Starts(c, t, n)
  BY <1>9, <1>10, <1>11 DEF Starts, Begun
<1>13. Range(t.turns) = Range(s.turns) \ {n} /\ Up(t.turns, Ranks(s))
  BY <1>4, <1>9 DEF Ord, Sorted
<1>14. \A m \in Jobs \ {n} : t.job[m] = s.job[m]
  BY <1>9, <1>10
<1> QED BY <1>1, <1>3, <1>4, <1>12, <1>13, <1>14, LeaveOrd

LEMMA AdoptOrd ==
  ASSUME Constants, NEW c, Good(c), NEW s, Good(s), Ord(c, s), NEW n, Live(s, n),
         s.job[n].stage = "queued", NEW t, t = Adopt(s, n)
  PROVE  Ord(c, t)
<1>1. s \in State /\ n \in Jobs /\ s.job[n] \in Job /\ TurnsOK(s)
  BY LiveIs DEF Good
<1>2. t \in State
  BY AdoptIs DEF Wants, Good
<1>3. PICK j : j = [[s.job[n] EXCEPT !.kind = "announced"] EXCEPT !.forLoad = TRUE]
  OBVIOUS
<1>4. j.stage = "queued"
  BY <1>1, <1>3 DEF Job
<1>5. PICK w, q : w = Append(s.wantQ, n) /\ q = From(s.placeQ, n)
  OBVIOUS
<1>6. PICK jobs : jobs = [s.job EXCEPT ![n] = j]
  OBVIOUS
<1>7. jobs[n] = j /\ \A m \in Jobs \ {n} : jobs[m] = s.job[m]
  BY <1>1, <1>6, StateParts
<1>8. t = [s EXCEPT !.placeQ = q, !.wantQ = w, !.job = jobs]
  BY <1>1, <1>3, <1>5, <1>6, StateParts DEF Adopt
<1>9. t.job = jobs /\ t.turns = s.turns
  BY <1>1, <1>8 DEF State
<1>10. ~Begun(s, n) /\ ~Starts(c, t, n)
  BY <1>4, <1>7, <1>9 DEF Begun, Starts
<1>11. n \notin Range(c.turns) /\ n \notin Range(s.turns)
  BY <1>1, <1>10, NotThere DEF TurnsOK
<1>12. Range(t.turns) = Range(s.turns) \ {n} /\ Up(t.turns, Ranks(s))
  BY <1>9, <1>11 DEF Ord, Sorted
<1>13. \A m \in Jobs \ {n} : t.job[m] = s.job[m]
  BY <1>7, <1>9
<1> QED BY <1>1, <1>2, <1>10, <1>11, <1>12, <1>13, LeaveOrd

LEMMA JoinOrd ==
  ASSUME Constants, NEW c, Good(c), NEW s, Good(s), Ord(c, s), NEW n, Live(s, n),
         NEW t, t = Join(s, n)
  PROVE  Ord(c, t)
<1>1. s \in State /\ TurnsOK(s)
  BY DEF Good
<1>2. CASE s.job[n].kind = "place" /\ s.job[n].stage = "queued"
  BY <1>2, AdoptOrd DEF Join
<1>3. CASE s.job[n].kind = "place" /\ s.job[n].stage # "queued"
  BY <1>1, <1>3, ForLoadOrd DEF Join
<1>4. CASE s.job[n].kind # "place"
  BY <1>1, <1>4, PromoteOrd DEF Join
<1> QED BY <1>2, <1>3, <1>4

LEMMA WantPieceOrd ==
  ASSUME Constants, NEW c, Good(c), NEW s, Good(s), Ord(c, s), AllLive(c, s), FreeJobs(s) # {},
         NEW kind \in {"announced", "place"}, NEW p \in Pieces, NEW t, t = WantPiece(s, p, kind)
  PROVE  Ord(c, t)
<1>1. CASE t = s
  BY <1>1
<1>2. CASE t = WantUnit(s, p, kind)
  BY <1>2, WantUnitOrd
<1>3. CASE s.flights[p] # Nobody /\ t = Join(s, s.flights[p])
  <2>1. PICK n : n = s.flights[p]
    OBVIOUS
  <2>2. t = Join(s, n) /\ Live(s, n)
    BY <1>3, <2>1 DEF Good, FlightsOK
  <2> QED BY <2>2, JoinOrd
<1> QED BY <1>1, <1>2, <1>3 DEF WantPiece

LEMMA WantEachOrd ==
  ASSUME Constants, NEW c, Good(c), Ord(c, c), NEW q \in Seq(Pieces),
         NEW kind \in {"announced", "place"}, Cardinality(FreeJobs(c)) >= Len(q),
         NEW t, t = WantEach(c, q, kind)
  PROVE  Ord(c, t)
<1>1. Len(q) \in Nat /\ \A i \in 1..Len(q) : q[i] \in Pieces
  OBVIOUS
<1>2. PICK k : WantRuns(k, c, q, kind)
  BY <1>1, WantIs
<1>3. /\ k[0] = c /\ t = k[Len(q)]
      /\ \A i \in 1..Len(q) : k[i] = WantPiece(k[i - 1], q[i], kind)
  BY <1>2 DEF WantRuns
<1> DEFINE G == {i \in 0..Len(q) : /\ Wants(c, k[i]) /\ Ord(c, k[i])
                                   /\ Cardinality(FreeJobs(k[i])) + i >= Len(q)}
<1>4. 0 \in G
  <2>1. Wants(c, c)
    BY DEF Wants
  <2>2. Cardinality(FreeJobs(c)) + 0 >= Len(q)
    BY <1>1, FreeFinite
  <2> QED BY <1>1, <1>3, <2>1, <2>2
<1>5. \A i \in 0..(Len(q) - 1) : i \in G => i + 1 \in G
  <2> SUFFICES ASSUME NEW i \in 0..(Len(q) - 1), i \in G PROVE i + 1 \in G
    OBVIOUS
  <2>1. /\ i \in Nat /\ i + 1 \in 1..Len(q) /\ i + 1 \in 0..Len(q) /\ (i + 1) - 1 = i
        /\ i < Len(q)
    BY <1>1
  <2>2. PICK u, v, p : u = k[i] /\ v = k[i + 1] /\ p = q[i + 1]
    OBVIOUS
  <2>3. v = WantPiece(u, p, kind) /\ p \in Pieces
    BY <1>1, <1>3, <2>1, <2>2
  <2>4. Wants(c, u) /\ Ord(c, u) /\ Cardinality(FreeJobs(u)) + i >= Len(q)
    BY <2>2
  <2>5. Good(u)
    BY <2>4 DEF Wants
  <2>6. FreeJobs(u) # {}
    <3>1. Cardinality(FreeJobs(u)) \in Nat
      BY FreeFinite
    <3>2. Cardinality(FreeJobs(u)) # 0
      BY <1>1, <2>1, <2>4, <3>1
    <3>3. Cardinality({}) = 0
      BY FS_EmptySet
    <3> QED BY <3>2, <3>3
  <2>7. Wants(u, v) /\ AtMostOneLess(u, v)
    BY <2>3, <2>5, <2>6, WantPieceIs
  <2>8. Wants(c, v)
    BY <2>4, <2>7, WantsTrans
  <2>9. Cardinality(FreeJobs(v)) + 1 >= Cardinality(FreeJobs(u))
    BY <2>7, OneFreeLess
  <2>10. Cardinality(FreeJobs(v)) + (i + 1) >= Len(q)
    BY <1>1, <2>1, <2>4, <2>9, FreeFinite
  <2>11. AllLive(c, u)
    BY <2>4 DEF AllLive, Wants, Good, TurnsOK, Live
  <2>12. Ord(c, v)
    BY <2>3, <2>4, <2>5, <2>6, <2>11, WantPieceOrd
  <2> QED BY <2>1, <2>2, <2>8, <2>10, <2>12
<1>6. Len(q) \in G
  <2> HIDE DEF G
  <2> QED BY <1>1, <1>4, <1>5, UpTo
<1> QED BY <1>3, <1>6

----------------------------------------------------------------------------
(* Answers and continuations keep the order.                               *)

(* A request that waits for no turn changes and has not begun.             *)
LEMMA RecordOrd ==
  ASSUME NEW c, Good(c), NEW s, Ord(c, s), s \in State, NEW n \in Jobs,
         n \notin Range(s.turns), n \notin Range(c.turns), NEW j \in Job,
         NEW t, t = WithRecord(s, n, j), ~Begun(t, n)
  PROVE  Ord(c, t)
<1>1. WithJob(s, t, n, j) /\ t.turns = s.turns
  <2>1. t = [s EXCEPT !.job = [s.job EXCEPT ![n] = j]] /\ j \in Job \cup {NoJob} /\ s \in State
    BY DEF WithRecord
  <2> QED BY <2>1, SetJob
<1>2. t \in State /\ t.job = [s.job EXCEPT ![n] = j]
  BY <1>1 DEF WithJob
<1>3. t.job[n] = j /\ \A m \in Jobs \ {n} : t.job[m] = s.job[m]
  BY <1>2, StateParts
<1>4. ~Starts(c, t, n)
  BY DEF Starts
<1>5. Range(t.turns) = Range(s.turns) \ {n} /\ Up(t.turns, Ranks(s))
  BY <1>1 DEF Ord, Sorted
<1>6. Good(c) /\ Ord(c, s) /\ s \in State /\ n \in Jobs /\ n \notin Range(c.turns)
  OBVIOUS
<1> QED BY <1>2, <1>3, <1>4, <1>5, <1>6, LeaveOrd

(* An answer: what waited for its turn in c is answered only as there.     *)
LEMMA AnsweredOrd ==
  ASSUME Constants, NEW c, Good(c), NEW s, Good(s), Ord(c, s), NEW n, Live(s, n),
         s.job[n].stage \notin {"turn", "queued"}, NEW answer,
         n \notin Range(c.turns) \/ answer = "ok", NEW t, t = Answered(s, n, answer)
  PROVE  Ord(c, t)
<1>1. s \in State /\ n \in Jobs /\ s.job[n] \in Job /\ n \notin Range(s.turns) /\ n \notin Queued(s)
  BY LiveIs, InNoQueue DEF Good
<1>2. PICK h : h = s.here \cup {s.job[n].piece}
  OBVIOUS
<1>3. h \in SUBSET Pieces
  BY <1>1, <1>2, StateParts DEF Job
<1>4. PICK u : u = IF answer = "ok" THEN [s EXCEPT !.here = @ \cup {s.job[n].piece}] ELSE s
  OBVIOUS
<1>5. /\ Fine(s, u, {}) /\ u.job = s.job /\ u.turns = s.turns /\ Queued(u) = Queued(s)
      /\ answer = "ok" => s.job[n].piece \in u.here
  <2>1. CASE answer = "ok"
    <3>1. u = [s EXCEPT !.here = h]
      BY <1>2, <1>4, <2>1
    <3>2. u.here = h
      BY <1>1, <3>1 DEF State
    <3> QED BY <1>2, <1>3, <3>1, <3>2, HereFine
  <2>2. CASE answer # "ok"
    BY <1>4, <2>2, FineNone
  <2> QED BY <2>1, <2>2
<1>6. Good(u) /\ Live(u, n) /\ u \in State
  BY <1>5 DEF Fine, Live, Good
<1>7. Ord(c, u)
  BY <1>5, PlainOrd
<1>8. PICK v : v = Settle(u, n)
  OBVIOUS
<1>9. n \notin Queued(u) /\ n \notin Range(u.turns)
  BY <1>1, <1>5
<1>10. Ord(c, v)
  BY <1>6, <1>7, <1>8, <1>9, SettleOrd
<1>11. Good(v)
  BY <1>6, <1>8, <1>9, SettleFine DEF Fine
<1>12. CASE t = v
  BY <1>10, <1>12
<1>13. CASE t = Pump(v)
  BY <1>10, <1>11, <1>13, PumpOrd
<1>14. CASE t = Stage(u, n, "pause") /\ answer # "ok"
  <2>1. PICK j : j = [u.job[n] EXCEPT !.stage = "pause"]
    OBVIOUS
  <2>2. j \in Job /\ j.stage = "pause"
    BY <1>1, <1>5, <2>1 DEF Job, Stages
  <2>3. t = WithRecord(u, n, j)
    BY <1>14, <2>1 DEF Stage, WithRecord
  <2>4. n \notin Range(c.turns)
    BY <1>14
  <2>5. ~Begun(t, n)
    <3>1. t.job = [u.job EXCEPT ![n] = j]
      BY <1>6, <2>3 DEF WithRecord, State
    <3>2. t.job[n] = j
      BY <1>1, <1>6, <3>1, StateParts
    <3> QED BY <2>2, <3>2 DEF Begun
  <2> QED BY <1>1, <1>6, <1>7, <1>9, <2>2, <2>3, <2>4, <2>5, RecordOrd
<1>15. t = v \/ t = Pump(v) \/ (t = Stage(u, n, "pause") /\ s.job[n].piece \notin u.here)
  BY <1>4, <1>8 DEF Answered
<1> QED BY <1>5, <1>12, <1>13, <1>14, <1>15

LEMMA JoinedOneOrd ==
  ASSUME Constants, NEW c, Good(c), NEW s, Good(s), Ord(c, s), NEW n, Live(s, n),
         s.job[n].stage \in JoinStages, NEW t, t = JoinedGoesOn(s, n)
  PROVE  Ord(c, t)
<1>0. s.job[n].stage \notin {"turn", "queued"}
  BY DEF JoinStages
<1>1. s \in State /\ TurnsOK(s) /\ QueuesOK(s) /\ n \in Jobs /\ s.job[n] \in Job
      /\ n \notin Range(s.turns) /\ n \notin Queued(s)
  BY <1>0, LiveIs, InNoQueue DEF Good
<1>2. CASE s.job[n].piece \in s.here
  <2>1. PICK answer : answer = "ok"
    OBVIOUS
  <2>2. t = Answered(s, n, answer)
    BY <1>2, <2>1 DEF JoinedGoesOn
  <2> QED BY <1>0, <2>1, <2>2, AnsweredOrd
<1>3. CASE s.job[n].piece \notin s.here /\ s.job[n].stage = "joins"
  <2>1. t = Ask(s, n)
    BY <1>3 DEF JoinedGoesOn
  <2>2. ~Begun(s, n)
    BY <1>3 DEF Begun
  <2> QED BY <1>1, <1>3, <2>1, <2>2, AskOrd
<1>4. CASE s.job[n].piece \notin s.here /\ s.job[n].stage # "joins"
  <2>0. PICK stage \in Stages : stage = "sent"
    BY DEF Stages
  <2>1. PICK u : u = Stage(s, n, stage)
    OBVIOUS
  <2>2. /\ OnOne(s, u, n, {stage}) /\ u.turns = s.turns /\ u.spare = s.spare
        /\ Kin(s.job[n], u.job[n])
    BY <1>1, <2>1, StageKin
  <2>3. u.job[n].prio = s.job[n].prio
    BY <1>1, <2>1, StagePrio
  <2>4. PICK w : w = IF s.spare = <<>> THEN s.spare ELSE Tail(s.spare)
    OBVIOUS
  <2>5. w \in Seq(Nat)
    <3>1. s.spare \in Seq(Nat)
      BY <1>1, StateParts
    <3>2. s.spare # <<>> => Tail(s.spare) \in Seq(Nat)
      BY <3>1, HeadTailProperties
    <3> QED BY <2>4, <3>1, <3>2
  <2>7. t = [u EXCEPT !.spare = w]
    BY <1>4, <2>0, <2>1, <2>2, <2>4 DEF JoinedGoesOn
  <2>8. u \in State /\ Live(u, n) /\ u.job[n].stage = "sent" /\ \A m \in Jobs \ {n} : u.job[m] = s.job[m]
    BY <2>0, <2>2 DEF OnOne
  <2>9. t \in State /\ t.job = u.job /\ t.turns = u.turns
    BY <2>5, <2>7, <2>8, SetSpare
  <2>10. Live(t, n) /\ Begun(t, n) /\ Begun(s, n)
    BY <1>4, <2>8, <2>9 DEF Live, Begun, JoinStages
  <2>11. Ranks(t)[n] = Ranks(s)[n]
    BY <1>1, <2>2, <2>3, <2>9, <2>10 DEF Ranks, Rank, Kin, Live
  <2>12. Ranks(s)[n] \in Nat
    BY <1>1, RanksAre
  <2>13. Starts(c, t, n) => Starts(c, s, n) /\ Ranks(t)[n] <= Ranks(s)[n]
    <3>1. \A x \in Nat : x <= x
      OBVIOUS
    <3>2. Ranks(t)[n] <= Ranks(s)[n]
      BY <2>11, <2>12, <3>1
    <3> QED BY <2>10, <3>2 DEF Starts
  <2>14. Range(t.turns) = Range(s.turns) \ {n} /\ Up(t.turns, Ranks(s))
    BY <1>1, <2>2, <2>9 DEF Ord, Sorted
  <2>15. Starts(c, t, n) => Fair(c, t, n)
    <3>1. Range(t.turns) \subseteq Range(s.turns)
      BY <2>14
    <3> QED BY <1>1, <2>9, <2>13, <3>1, StaysFair
  <2>16. Out(t, n)
    BY <2>10 DEF Out
  <2>17. \A m \in Jobs \ {n} : t.job[m] = s.job[m]
    BY <2>8, <2>9
  <2>18. Good(c) /\ Ord(c, s)
    OBVIOUS
  <2> QED BY <1>1, <2>9, <2>14, <2>15, <2>16, <2>17, <2>18, LeaveOrd
<1> QED BY <1>2, <1>3, <1>4

LEMMA JoinedGoOnOrd ==
  ASSUME Constants, NEW c, Good(c), NEW s, Good(s), Ord(c, s), NEW q, JoinedAre(s, q),
         NEW t, t = JoinedGoOn(s, q)
  PROVE  Ord(c, t)
<1>1. Len(q) \in Nat /\ \A i \in 1..Len(q) : q[i] \in Jobs
  <2>1. q \in Seq(Jobs)
    BY DEF JoinedAre
  <2> QED BY <2>1
<1>2. PICK k : JoinedRuns(k, s, q)
  BY <1>1, JoinedIs
<1>3. /\ k[0] = s /\ t = k[Len(q)]
      /\ \A i \in 1..Len(q) : k[i] = JoinedGoesOn(k[i - 1], q[i])
  BY <1>2 DEF JoinedRuns
<1> DEFINE Gone(i) == {q[j] : j \in 1..i}
           G == {i \in 0..Len(q) : Fine(s, k[i], Gone(i)) /\ Ord(c, k[i])}
<1>4. 0 \in G
  <2>1. Fine(s, s, Gone(0))
    <3> HIDE DEF Gone
    <3> QED BY FineNone, FineBut
  <2> HIDE DEF Gone
  <2> QED BY <1>1, <1>3, <2>1
<1>5. \A i \in 0..(Len(q) - 1) : i \in G => i + 1 \in G
  <2> SUFFICES ASSUME NEW i \in 0..(Len(q) - 1), i \in G PROVE i + 1 \in G
    OBVIOUS
  <2>1. i + 1 \in 1..Len(q) /\ i + 1 \in 0..Len(q) /\ (i + 1) - 1 = i
    BY <1>1
  <2>2. PICK u, v, n : u = k[i] /\ v = k[i + 1] /\ n = q[i + 1]
    OBVIOUS
  <2>3. v = JoinedGoesOn(u, n) /\ n \in Jobs
    BY <1>1, <1>3, <2>1, <2>2
  <2>4. PICK M, N : M = Gone(i) /\ N = Gone(i + 1)
    OBVIOUS
  <2>5. n \notin M
    <3>1. \A j \in 1..i : j \in 1..Len(q) /\ j # i + 1
      BY <1>1, <2>1
    <3>2. \A j \in 1..i : q[j] # q[i + 1]
      BY <2>1, <3>1 DEF JoinedAre
    <3> QED BY <2>2, <2>4, <3>2
  <2>6. M \subseteq N /\ n \in N
    BY <1>1, <2>1, <2>2, <2>4
  <2>7. Fine(s, u, M) /\ Good(u) /\ Ord(c, u)
    BY <2>2, <2>4 DEF Fine
  <2>8. Live(s, n) /\ s.job[n].stage \in JoinStages
    BY <2>1, <2>2 DEF JoinedAre, JoinStages
  <2>9. u.job[n] = s.job[n]
    BY <2>3, <2>5, <2>7, <2>8 DEF Fine, JoinStages
  <2>10. Live(u, n) /\ u.job[n].stage \in JoinStages
    BY <2>8, <2>9 DEF Live
  <2>11. Fine(u, v, {n})
    BY <2>3, <2>7, <2>10, JoinedOneFine DEF JoinStages
  <2>12. Fine(s, u, N)
    BY <2>6, <2>7 DEF Fine
  <2>13. Fine(s, v, N)
    <3>1. \A m \in {n} : m \in N
      BY <2>6
    <3> QED BY <2>11, <2>12, <3>1, FineTrans
  <2>14. Ord(c, v)
    BY <2>3, <2>7, <2>10, JoinedOneOrd
  <2> QED BY <2>1, <2>2, <2>4, <2>13, <2>14
<1>6. Len(q) \in G
  <2> HIDE DEF G
  <2> QED BY <1>1, <1>4, <1>5, UpTo
<1> QED BY <1>3, <1>6

LEMMA PromoteEachOrd ==
  ASSUME Constants, NEW c, Good(c), NEW s, Good(s), Ord(c, s), NEW q \in Seq(Jobs),
         NEW t, t = PromoteEach(s, q)
  PROVE  Ord(c, t)
<1>1. Len(q) \in Nat /\ \A i \in 1..Len(q) : q[i] \in Jobs
  OBVIOUS
<1>2. PICK k : PromoteRuns(k, s, q)
  BY <1>1, PromoteIs
<1>3. /\ k[0] = s /\ t = k[Len(q)]
      /\ \A i \in 1..Len(q) : k[i] = PromoteOne(k[i - 1], q[i])
  BY <1>2 DEF PromoteRuns
<1> DEFINE G == {i \in 0..Len(q) : Good(k[i]) /\ Ord(c, k[i])}
<1>4. 0 \in G
  BY <1>1, <1>3
<1>5. \A i \in 0..(Len(q) - 1) : i \in G => i + 1 \in G
  <2> SUFFICES ASSUME NEW i \in 0..(Len(q) - 1), i \in G PROVE i + 1 \in G
    OBVIOUS
  <2>1. i + 1 \in 1..Len(q) /\ i + 1 \in 0..Len(q) /\ (i + 1) - 1 = i
    BY <1>1
  <2>2. PICK u, v, n : u = k[i] /\ v = k[i + 1] /\ n = q[i + 1]
    OBVIOUS
  <2>3. v = PromoteOne(u, n) /\ n \in Jobs
    BY <1>1, <1>3, <2>1, <2>2
  <2>4. Good(u) /\ Ord(c, u)
    BY <2>2
  <2>5. Good(v) /\ Ord(c, v)
    <3>1. CASE u.job[n] = NoJob
      BY <2>3, <2>4, <3>1 DEF PromoteOne
    <3>2. CASE u.job[n] # NoJob
      <4>1. PICK w : w = Promote(u, n)
        OBVIOUS
      <4>2. Live(u, n) /\ u \in State /\ TurnsOK(u) /\ QueuesOK(u)
        BY <2>3, <2>4, <3>2 DEF Live, Good
      <4>3. Good(w)
        BY <2>4, <4>1, <4>2, PromoteMoves, MovesFine DEF Fine
      <4>4. Ord(c, w)
        BY <2>4, <4>1, <4>2, PromoteOrd
      <4>5. v = Pump(w)
        BY <2>3, <3>2, <4>1 DEF PromoteOne
      <4> QED BY <4>3, <4>4, <4>5, PumpFine, PumpOrd DEF Fine
    <3> QED BY <3>1, <3>2
  <2> QED BY <2>1, <2>2, <2>5
<1>6. Len(q) \in G
  <2> HIDE DEF G
  <2> QED BY <1>1, <1>4, <1>5, UpTo
<1> QED BY <1>3, <1>6

LEMMA WaitEndsOrd ==
  ASSUME Constants, NEW c, Good(c), NEW s, Good(s), Ord(c, s), WaitEnds(s)
  PROVE  Ord(c, b')
<1>1. PICK recent \in BOOLEAN : b' = Kick([s EXCEPT !.recent = recent])
  BY DEF WaitEnds
<1>2. PICK u, v : u = [s EXCEPT !.recent = recent] /\ v = b'
  OBVIOUS
<1>3. u \in State /\ u.job = s.job /\ u.turns = s.turns
  BY <1>2 DEF Good, State
<1>4. Ord(c, u) /\ TurnsOK(u)
  BY <1>3, PlainOrd DEF Good, TurnsOK, Live
<1>5. v = Kick(u)
  BY <1>1, <1>2
<1>6. Ord(c, v)
  BY <1>3, <1>4, <1>5, KickOrd
<1> QED BY <1>2, <1>6

----------------------------------------------------------------------------
(* Every step keeps the order.                                             *)

InOrderNow == Safe(b) /\ Sorted(b)

LEMMA StartsHere ==
  ASSUME NEW c, Safe(c), Sorted(c)
  PROVE  Good(c) /\ c \in State /\ TurnsOK(c) /\ Ord(c, c)
BY OrdNone DEF Safe, Good

LEMMA ListEndsOrd ==
  ASSUME Constants, Safe(b), Sorted(b), NEW l \in Lists, ListEnds(l)
  PROVE  Ord(b, b')
<1>1. PICK c, x, u : c = b /\ x = Over /\ u = WithList(c, l, x)
  OBVIOUS
<1>2. Safe(c) /\ Good(c) /\ c \in State /\ Ord(c, c)
  BY <1>1, StartsHere
<1>3. u.job = c.job /\ u.turns = c.turns
  BY <1>1, <1>2 DEF WithList, State
<1>4. Ord(c, u)
  BY <1>2, <1>3, PlainOrd
<1>5. Good(u)
  <2>1. \A p \in DOMAIN x.on : x # Over /\ x.kind = "announced" /\ x.on[p].job \in Jobs =>
          Live(c, x.on[p].job) /\ May(c.job[x.on[p].job])
    BY <1>1
  <2>2. u = [c EXCEPT !.list = [c.list EXCEPT ![l] = x]] /\ x \in OpenList \cup {Over}
    BY <1>1 DEF WithList
  <2>3. Safe(u)
    BY <1>2, <2>1, <2>2, ListSet
  <2> QED BY <2>3 DEF Safe
<1>6. PICK v : v = b'
  OBVIOUS
<1>7. Ord(c, v)
  <2>1. CASE b.list[l].hold
    <3>1. WaitEnds(u)
      BY <1>1, <2>1 DEF ListEnds, WithList
    <3> QED BY <1>2, <1>4, <1>5, <1>6, <3>1, WaitEndsOrd
  <2>2. CASE ~b.list[l].hold
    <3>1. v = u
      BY <1>1, <1>6, <2>2 DEF ListEnds, WithList
    <3> QED BY <1>4, <3>1
  <2> QED BY <2>1, <2>2
<1> QED BY <1>1, <1>6, <1>7

LEMMA WantListOrd ==
  ASSUME Constants, Safe(b), Sorted(b), NEW l \in Lists, NEW q \in Orders,
         NEW kind \in {"announced", "place"}, NEW hold \in BOOLEAN, WantList(l, q, kind, hold)
  PROVE  Ord(b, b')
<1>1. PICK c, v : c = b /\ v = b'
  OBVIOUS
<1>2. Good(c) /\ Ord(c, c)
  BY <1>1, StartsHere
<1>3. PICK s, t : WantListSteps(b, q, kind, s, t, b')
  BY WantListIs
<1>4. s = WantEach(c, q, kind) /\ Safe(t) /\ t.job = s.job /\ t.turns = s.turns /\ v = Pump(t)
  BY <1>1, <1>3 DEF WantListSteps
<1>5. q \in Seq(Pieces)
  BY OrderIs
<1>6. Cardinality(FreeJobs(c)) >= Len(q)
  BY <1>1 DEF WantList, Free, FreeJobs
<1>7. Ord(c, s)
  BY <1>2, <1>4, <1>5, <1>6, WantEachOrd
<1>8. Ord(c, t) /\ Good(t)
  BY <1>4, <1>7, PlainOrd DEF Safe
<1>9. Ord(c, v)
  BY <1>2, <1>4, <1>8, PumpOrd
<1> QED BY <1>1, <1>9

LEMMA ListAsksOrd ==
  ASSUME Constants, Safe(b), Sorted(b), NEW l \in Lists, NEW p \in Pieces, ListAsks(l, p)
  PROVE  Ord(b, b')
<1>1. PICK c, v : c = b /\ v = b'
  OBVIOUS
<1>2. Good(c) /\ Ord(c, c) /\ TurnsOK(c)
  BY <1>1, StartsHere
<1>3. PICK s, t : ListAsksSteps(b, l, p, s, t, b')
  BY ListAsksIs
<1>4. PICK kind : kind = c.list[l].kind
  OBVIOUS
<1>5. /\ Safe(s) /\ Safe(t) /\ t.job = s.job /\ t.turns = s.turns
      /\ \/ s = c /\ v = t
         \/ /\ FreeJobs(c) # {} /\ kind \in {"announced", "place"}
            /\ s = WantUnit(c, p, kind) /\ v = Pump(t)
  BY <1>1, <1>3, <1>4 DEF ListAsksSteps
<1>6. CASE s = c /\ v = t
  <2>1. Ord(c, t)
    BY <1>2, <1>5, <1>6, PlainOrd
  <2> QED BY <1>1, <1>6, <2>1
<1>7. CASE /\ FreeJobs(c) # {} /\ kind \in {"announced", "place"}
           /\ s = WantUnit(c, p, kind) /\ v = Pump(t)
  <2>1. AllLive(c, c)
    BY <1>2 DEF AllLive, TurnsOK
  <2>2. Ord(c, s)
    BY <1>2, <1>7, <2>1, WantUnitOrd
  <2>3. Ord(c, t) /\ Good(t)
    BY <1>5, <2>2, PlainOrd DEF Safe
  <2>4. Ord(c, v)
    BY <1>2, <1>7, <2>3, PumpOrd
  <2> QED BY <1>1, <2>4
<1> QED BY <1>5, <1>6, <1>7

LEMMA BgEndsOrd ==
  ASSUME Constants, Safe(b), Sorted(b), NEW n \in Jobs, NEW answer, BgEnds(n, answer)
  PROVE  Ord(b, b')
<1>1. PICK c, v : c = b /\ v = b'
  OBVIOUS
<1>2. /\ Safe(c) /\ Good(c) /\ Ord(c, c) /\ c \in State
      /\ Live(c, n) /\ c.job[n].stage \in {"sent", "aborted"}
  BY <1>1, StartsHere DEF BgEnds, Live
<1>3. c.job[n] \in Job /\ n \notin Range(c.turns) /\ n \notin Queued(c)
  BY <1>2, LiveIs, InNoQueue
<1>4. PICK j : j = [c.job[n] EXCEPT !.stage = "over"]
  OBVIOUS
<1>5. j \in Job /\ Grows(c.job[n], j) /\ j.stage = "over"
  BY <1>3, <1>4 DEF Job, Stages, Grows
<1>6. PICK u : u = WithRecord(c, n, j)
  OBVIOUS
<1>7. Safe(u) /\ u.job[n] = j /\ Live(u, n)
  <2>1. NowIs(c, u, n, j)
    BY <1>2, <1>3, <1>5, <1>6, JobSet
  <2> QED BY <2>1 DEF NowIs
<1>8. u \in State /\ TurnsOK(u) /\ ~Begun(u, n)
  BY <1>5, <1>7 DEF Safe, Good, Begun
<1>9. Ord(c, u)
  BY <1>2, <1>3, <1>5, <1>6, <1>8, RecordOrd
<1>10. PICK k : k = Kick(u)
  OBVIOUS
<1>11. Ord(c, k)
  BY <1>2, <1>8, <1>9, <1>10, KickOrd
<1>12. Safe(k) /\ Fine(u, k, {})
  BY <1>7, <1>10, KickSafe
<1>13. k.job[n] = j /\ Live(k, n)
  BY <1>5, <1>7, <1>12 DEF Fine, Live
<1>14. v = Answered(k, n, answer)
  BY <1>1, <1>4, <1>6, <1>10 DEF BgEnds, Stage, WithRecord
<1>15. Good(k) /\ k.job[n].stage \notin {"turn", "queued"}
  BY <1>5, <1>12, <1>13 DEF Safe
<1>16. Ord(c, v)
  BY <1>2, <1>3, <1>11, <1>13, <1>14, <1>15, AnsweredOrd
<1> QED BY <1>1, <1>16

LEMMA RetryOrd ==
  ASSUME Constants, Safe(b), Sorted(b), NEW n \in Jobs, Retry(n)
  PROVE  Ord(b, b')
<1>1. PICK c, v : c = b /\ v = b'
  OBVIOUS
<1>2. /\ Safe(c) /\ Good(c) /\ Ord(c, c) /\ c \in State
      /\ Live(c, n) /\ c.job[n].stage = "pause"
  BY <1>1, StartsHere DEF Retry, Live
<1>3. c.job[n] \in Job /\ n \notin Range(c.turns) /\ n \notin Queued(c)
  BY <1>2, LiveIs, InNoQueue
<1>4. PICK j : j = [c.job[n] EXCEPT !.tries = @ + 1]
  OBVIOUS
<1>5. j \in Job /\ Grows(c.job[n], j) /\ j.stage = "pause"
  BY <1>2, <1>3, <1>4 DEF Job, Grows
<1>6. PICK u : u = WithRecord(c, n, j)
  OBVIOUS
<1>7. Safe(u) /\ u.job[n] = j /\ Live(u, n) /\ u.turns = c.turns /\ Queued(u) = Queued(c)
  <2>1. NowIs(c, u, n, j)
    BY <1>2, <1>3, <1>5, <1>6, JobSet
  <2> QED BY <2>1 DEF NowIs
<1>8. Good(u) /\ u \in State /\ TurnsOK(u) /\ ~Begun(u, n) /\ u.job[n].stage # "turn"
  BY <1>5, <1>7 DEF Safe, Good, Begun
<1>9. Ord(c, u)
  BY <1>2, <1>3, <1>5, <1>6, <1>8, RecordOrd
<1>10. v = IF u.job[n].piece \in u.here THEN Pump(Settle(u, n)) ELSE Ask(u, n)
  BY <1>1, <1>4, <1>6 DEF Retry, WithRecord
<1>11. CASE u.job[n].piece \in u.here
  <2>1. PICK w : w = Settle(u, n)
    OBVIOUS
  <2>2. n \notin Queued(u) /\ n \notin Range(u.turns)
    BY <1>3, <1>7
  <2>3. Ord(c, w)
    BY <1>2, <1>7, <1>8, <1>9, <2>1, <2>2, SettleOrd
  <2>4. Good(w)
    BY <1>7, <1>8, <2>1, <2>2, SettleFine DEF Fine
  <2>5. v = Pump(w)
    BY <1>10, <1>11, <2>1
  <2>6. Ord(c, v)
    BY <1>2, <2>3, <2>4, <2>5, PumpOrd
  <2> QED BY <1>1, <2>6
<1>12. CASE u.job[n].piece \notin u.here
  <2>1. v = Ask(u, n)
    BY <1>10, <1>12
  <2>2. Ord(c, v)
    BY <1>2, <1>7, <1>8, <1>9, <2>1, AskOrd
  <2> QED BY <1>1, <2>2
<1> QED BY <1>11, <1>12

LEMMA DropOrd ==
  ASSUME Constants, Safe(b), Sorted(b), NEW n \in Jobs, Drop(n)
  PROVE  Ord(b, b')
<1>1. PICK c, v : c = b /\ v = b'
  OBVIOUS
<1>2. Good(c) /\ Ord(c, c) /\ c \in State /\ Sorted(c)
  BY <1>1, StartsHere
<1>3. PICK u, w : DropSteps(b, n, u, w, b')
  BY DropIs
<1>4. /\ Good(u) /\ Live(u, n) /\ u.job = c.job /\ u.turns = From(c.turns, n)
      /\ w = Settle(u, n) /\ Safe(w) /\ v = Kick(w)
  BY <1>1, <1>3 DEF DropSteps
<1>5. u \in State /\ w \in State /\ TurnsOK(w)
  BY <1>4 DEF Good, Safe
<1>6. w.turns = u.turns /\ w.job[n] = NoJob /\ \A m \in Jobs \ {n} : w.job[m] = c.job[m]
  <2>1. SettleLeaves(u, w, n)
    BY <1>4, <1>5, SettleIs
  <2> QED BY <1>4, <2>1 DEF SettleLeaves
<1>7. Range(w.turns) = Range(c.turns) \ {n} /\ Up(w.turns, Ranks(c))
  <2>1. PICK q : q = From(c.turns, n)
    OBVIOUS
  <2>2. Range(q) = Range(c.turns) \ {n}
    BY <1>2, <2>1, FromIs, StateParts
  <2>3. Up(q, Ranks(c))
    BY <1>2, <2>1, UpFrom
  <2> QED BY <1>4, <1>6, <2>1, <2>2, <2>3
<1>8. Out(w, n) /\ ~Starts(c, w, n)
  BY <1>6 DEF Out, Starts, Live
<1>9. Ord(c, w)
  BY <1>2, <1>5, <1>6, <1>7, <1>8, LeaveOrd
<1>10. Ord(c, v)
  BY <1>2, <1>4, <1>5, <1>9, KickOrd
<1> QED BY <1>1, <1>10

LEMMA FetchPartBgOrd ==
  ASSUME Constants, Safe(b), Sorted(b), NEW p \in Pieces, NEW kind \in {"ahead", "fill"},
         FetchPartBg(p, kind)
  PROVE  Ord(b, b')
<1>1. PICK c, v : c = b /\ v = b'
  OBVIOUS
<1>2. Good(c) /\ Ord(c, c) /\ c \in State /\ Sorted(c) /\ TurnsOK(c)
  BY <1>1, StartsHere
<1>3. PICK n, u : FetchSteps(b, n, u, b')
  BY FetchPartBgIs
<1>4. /\ n \in Jobs /\ ~Live(c, n) /\ Live(u, n) /\ u.job[n].stage = "new"
      /\ Safe(u) /\ u.turns = c.turns /\ v = Ask(u, n)
      /\ \A m \in Jobs \ {n} : u.job[m] = c.job[m]
  BY <1>1, <1>3 DEF FetchSteps
<1>5. u \in State /\ TurnsOK(u) /\ ~Begun(u, n) /\ u.job[n].stage # "turn"
  BY <1>4 DEF Safe, Good, Begun
<1>6. n \notin Range(c.turns)
  BY <1>2, <1>4 DEF TurnsOK
<1>7. Range(u.turns) = Range(c.turns) \ {n} /\ Up(u.turns, Ranks(c))
  BY <1>2, <1>4, <1>6 DEF Sorted
<1>8. ~Starts(c, u, n)
  BY <1>5 DEF Starts
<1>9. Ord(c, u)
  BY <1>2, <1>4, <1>5, <1>6, <1>7, <1>8, LeaveOrd
<1>10. Ord(c, v)
  BY <1>2, <1>4, <1>5, <1>9, AskOrd
<1> QED BY <1>1, <1>10

LEMMA AskMissingOrd ==
  ASSUME Constants, Safe(b), Sorted(b), NEW r \in Readers, NEW S \in SUBSET Pieces,
         AskMissing(b, r, S)
  PROVE  Ord(b, b')
<1>1. PICK c, v : c = b /\ v = b'
  OBVIOUS
<1>2. Safe(c) /\ Good(c) /\ Ord(c, c) /\ c \in State
  BY <1>1, StartsHere
<1>3. CASE S \subseteq c.here
  <2>1. PICK x : x = Over
    OBVIOUS
  <2>2. PICK u : u = WithRead(c, r, x)
    OBVIOUS
  <2>3. Good(u)
    BY <1>2, <2>1, <2>2, NoLongerWaits DEF Safe
  <2>4. u.job = c.job /\ u.turns = c.turns
    BY <1>2, <2>2 DEF WithRead, State
  <2>5. Ord(c, u)
    BY <1>2, <2>4, PlainOrd
  <2>6. WaitEnds(u)
    BY <1>1, <1>3, <2>1, <2>2 DEF AskMissing, WithRead
  <2> QED BY <1>1, <1>2, <2>3, <2>5, <2>6, WaitEndsOrd
<1>4. CASE ~(S \subseteq c.here)
  <2>1. PICK x : x = [state |-> "asked", pieces |-> S \ c.here]
    OBVIOUS
  <2>2. PICK f : f = [p \in Pieces |-> IF p \in S \ c.here THEN r ELSE c.fg[p]]
    OBVIOUS
  <2>3. v = [c EXCEPT !.read[r] = x, !.fg = f]
    BY <1>1, <1>2, <1>4, <2>1, <2>2 DEF AskMissing, State
  <2>4. v.job = c.job /\ v.turns = c.turns
    BY <1>2, <2>3 DEF State
  <2>5. Ord(c, v)
    BY <1>2, <2>4, PlainOrd
  <2> QED BY <1>1, <2>5
<1> QED BY <1>3, <1>4

LEMMA ReadOrd ==
  ASSUME Constants, Safe(b), Sorted(b), NEW r \in Readers, NEW S \in SUBSET Pieces, Read(r, S)
  PROVE  Ord(b, b')
<1>1. PICK c, v : c = b /\ v = b'
  OBVIOUS
<1>2. Safe(c) /\ Good(c) /\ Ord(c, c) /\ c \in State
  BY <1>1, StartsHere
<1>3. PICK flying, fgs : /\ flying = {c.flights[p] : p \in S} \ {Nobody}
                         /\ fgs = {c.fg[p] : p \in S} \ {Nobody}
  OBVIOUS
<1>4. CASE flying \cup fgs = {}
  <2>1. AskMissing(b, r, S)
    BY <1>1, <1>3, <1>4 DEF Read
  <2> QED BY <2>1, AskMissingOrd
<1>5. CASE flying \cup fgs # {}
  <2>1. \A n \in flying : Live(c, n)
    BY <1>2, <1>3 DEF Good, FlightsOK
  <2>2. flying \in SUBSET Jobs /\ fgs \in SUBSET Readers
    BY <1>2, <1>3, <2>1, StateParts DEF Live
  <2>3. PICK x : x = [state |-> "flying", pieces |-> S, jobs |-> flying, readers |-> fgs]
    OBVIOUS
  <2>4. x \in Flying /\ x.jobs = flying
    BY <2>2, <2>3 DEF Flying
  <2>5. PICK w : w = WithRead(c, r, x)
    OBVIOUS
  <2>6. Good(w)
    BY <1>2, <2>1, <2>4, <2>5, ReadSet
  <2>7. w.job = c.job /\ w.turns = c.turns
    BY <1>2, <2>5 DEF WithRead, State
  <2>8. Ord(c, w)
    BY <1>2, <2>7, PlainOrd
  <2>9. PICK q : q = SetToSeq(flying)
    OBVIOUS
  <2>10. IsFiniteSet(flying)
    BY <2>2, FS_Subset DEF Constants
  <2>11. q \in Seq(flying)
    BY <2>9, <2>10, SequenceOf
  <2>12. q \in Seq(Jobs)
    BY <2>2, <2>11
  <2>13. v = PromoteEach(w, q)
    BY <1>1, <1>3, <1>5, <2>3, <2>5, <2>9 DEF Read, WithRead
  <2>14. Ord(c, v)
    BY <1>2, <2>6, <2>8, <2>12, <2>13, PromoteEachOrd
  <2> QED BY <1>1, <2>14
<1> QED BY <1>4, <1>5

LEMMA ReadAsksOrd ==
  ASSUME Constants, Safe(b), Sorted(b), NEW r \in Readers, ReadAsks(r)
  PROVE  Ord(b, b')
<1>1. b.read[r] \in Asked \cup Flying \cup {Over, FgOver} /\ b.read[r].state = "flying"
  BY StateParts DEF Safe, Good, ReadAsks
<1>2. b.read[r].pieces \in SUBSET Pieces
  BY <1>1 DEF Asked, Flying, Over, FgOver
<1>3. PICK S : S = b.read[r].pieces
  OBVIOUS
<1>4. S \in SUBSET Pieces /\ AskMissing(b, r, S)
  BY <1>2, <1>3 DEF ReadAsks
<1> QED BY <1>4, AskMissingOrd

LEMMA FgEndsOrd ==
  ASSUME Constants, Safe(b), Sorted(b), NEW r \in Readers, NEW ok \in BOOLEAN, FgEnds(r, ok)
  PROVE  Ord(b, b')
<1>1. PICK c, v : c = b /\ v = b'
  OBVIOUS
<1>2. Safe(c) /\ Good(c) /\ Ord(c, c) /\ c \in State
  BY <1>1, StartsHere
<1>3. PICK d, e, s1, s2, q, g, w : FgSteps(b, r, d, e, s1, s2, q, g, w)
  BY FgEndsIs
<1>4. FgSteps(c, r, d, e, s1, s2, q, g, w)
  BY <1>1, <1>3
<1>5. d.job = c.job /\ d.turns = c.turns
  BY <1>2, <1>4 DEF FgSteps, WithRead, State
<1>6. e.job = d.job /\ e.turns = d.turns /\ Safe(e) /\ s1 = Kick(e)
  BY <1>4 DEF FgSteps, PlainSame
<1>7. Ord(c, e) /\ e \in State /\ TurnsOK(e)
  BY <1>2, <1>5, <1>6, PlainOrd DEF Safe, Good
<1>8. Ord(c, s1)
  BY <1>2, <1>6, <1>7, KickOrd
<1>9. s2.job = s1.job /\ s2.turns = s1.turns /\ Safe(s2) /\ JoinedAre(s2, q) /\ g = JoinedGoOn(s2, q)
  BY <1>4 DEF FgSteps, FgBrought
<1>10. Ord(c, s2) /\ Good(s2)
  BY <1>8, <1>9, PlainOrd DEF Safe
<1>11. Ord(c, g)
  BY <1>2, <1>9, <1>10, JoinedGoOnOrd
<1>12. Safe(g) /\ Safe(w) /\ w = WithRead(g, r, Over) /\ WaitEnds(w)
  BY <1>4 DEF FgSteps
<1>13. w.job = g.job /\ w.turns = g.turns
  BY <1>12 DEF Safe, Good, WithRead, State
<1>14. Ord(c, w) /\ Good(w)
  BY <1>11, <1>12, <1>13, PlainOrd DEF Safe
<1> QED BY <1>1, <1>2, <1>12, <1>14, WaitEndsOrd

LEMMA SyncReadOrd ==
  ASSUME Constants, Safe(b), Sorted(b), NEW p \in Pieces, NEW ok \in BOOLEAN, SyncRead(p, ok)
  PROVE  Ord(b, b')
<1>1. PICK c : c = b
  OBVIOUS
<1>2. Safe(c) /\ Good(c) /\ Ord(c, c) /\ c \in State /\ TurnsOK(c) /\ Sorted(c)
  BY <1>1, StartsHere
<1>3. PICK t : Safe(t) /\ Aborts(b, t) /\ WaitEnds(t)
  BY SyncReadIs
<1>4. Good(t) /\ t.turns = c.turns /\ \A n \in Jobs : Aborted(c, t, n)
  BY <1>1, <1>3 DEF Safe, Aborts
<1>5. Range(c.turns) \subseteq Jobs /\ c.turns \in Seq(Jobs)
  BY <1>2, TurnsAre
<1>6. ASSUME NEW m \in Range(c.turns) PROVE t.job[m] = c.job[m] /\ Ranks(t)[m] = Ranks(c)[m]
  <2>1. m \in Jobs /\ c.job[m].stage # "sent"
    BY <1>2, <1>5 DEF TurnsOK
  <2>2. t.job[m] = c.job[m]
    BY <1>4, <2>1 DEF Aborted
  <2> QED BY <2>1, <2>2, SameRank
<1>7. Sorted(t)
  BY <1>2, <1>4, <1>5, <1>6, UpSame DEF Sorted
<1>8. ASSUME NEW m \in Range(c.turns) PROVE Waits(c, t, m)
  <2>1. Waits(c, c, m)
    <3>1. ~Out(c, m)
      BY <1>2 DEF Out, Begun, TurnsOK
    <3> QED BY <1>2, <3>1 DEF Ord
  <2> QED BY <1>4, <1>6, <2>1 DEF Waits
<1>9. ASSUME NEW n \in Jobs PROVE ~Starts(c, t, n)
  <2>1. CASE t.job[n] = c.job[n]
    BY <2>1 DEF Starts, Live, Begun
  <2>2. CASE t.job[n] # c.job[n]
    <3>1. t.job[n].stage = "aborted"
      BY <1>4, <2>2 DEF Aborted
    <3> QED BY <3>1 DEF Starts, Begun
  <2> QED BY <2>1, <2>2
<1>10. Ord(c, t)
  BY <1>7, <1>8, <1>9 DEF Ord
<1> QED BY <1>1, <1>2, <1>3, <1>4, <1>10, WaitEndsOrd

LEMMA TimesOrd ==
  ASSUME Constants, Safe(b), Sorted(b), Timer \/ QuietPasses \/ LoadOver \/ Expire
  PROVE  Ord(b, b')
<1>1. PICK s, t : s = b /\ t = b'
  OBVIOUS
<1>2. Good(s) /\ Ord(s, s) /\ s \in State /\ TurnsOK(s)
  BY <1>1, StartsHere
<1>3. CASE Timer
  <2>1. t = Kick(s)
    BY <1>1, <1>3 DEF Timer
  <2>2. Ord(s, t)
    BY <1>2, <2>1, KickOrd
  <2> QED BY <1>1, <2>2
<1>4. CASE QuietPasses \/ LoadOver \/ Expire
  <2>1. t.job = s.job /\ t.turns = s.turns
    <3>1. CASE QuietPasses
      <4>1. t = [s EXCEPT !.quiet = TRUE]
        BY <1>1, <3>1 DEF QuietPasses
      <4> QED BY <1>2, <4>1 DEF State
    <3>2. CASE LoadOver
      <4>1. t = [s EXCEPT !.recent = FALSE]
        BY <1>1, <3>2 DEF LoadOver
      <4> QED BY <1>2, <4>1 DEF State
    <3>3. CASE Expire
      <4>1. t = [s EXCEPT !.spare = Tail(s.spare)]
        BY <1>1, <1>2, <3>3 DEF Expire, State
      <4> QED BY <1>2, <4>1 DEF State
    <3> QED BY <1>4, <3>1, <3>2, <3>3
  <2>2. Ord(s, t)
    BY <1>2, <2>1, PlainOrd
  <2> QED BY <1>1, <2>2
<1> QED BY <1>3, <1>4

LEMMA CallsOrd ==
  ASSUME Constants, Safe(b), Sorted(b), Calls
  PROVE  Ord(b, b')
<1>1. CASE \E r \in Readers, S \in SUBSET Pieces : Read(r, S)
  BY <1>1, ReadOrd
<1>2. CASE \E p \in Pieces, ok \in BOOLEAN : SyncRead(p, ok)
  BY <1>2, SyncReadOrd
<1>3. CASE \E l \in Lists, order \in Orders, hold \in BOOLEAN :
             WantList(l, order, "announced", hold)
  <2>1. PICK kind \in {"announced", "place"} : kind = "announced"
    OBVIOUS
  <2>2. PICK l \in Lists, q \in Orders, hold \in BOOLEAN : WantList(l, q, kind, hold)
    BY <1>3, <2>1
  <2> QED BY <2>2, WantListOrd
<1>4. CASE \E l \in Lists, order \in Orders : WantList(l, order, "place", FALSE)
  <2>1. PICK kind \in {"announced", "place"}, hold \in BOOLEAN : kind = "place" /\ hold = FALSE
    OBVIOUS
  <2>2. PICK l \in Lists, q \in Orders : WantList(l, q, kind, hold)
    BY <1>4, <2>1
  <2> QED BY <2>2, WantListOrd
<1>5. CASE \E p \in Pieces, kind \in {"ahead", "fill"} : FetchPartBg(p, kind)
  BY <1>5, FetchPartBgOrd
<1> QED BY <1>1, <1>2, <1>3, <1>4, <1>5 DEF Calls

LEMMA StepOrd ==
  ASSUME Constants, Safe(b), Sorted(b), Next
  PROVE  Ord(b, b')
<1>1. CASE Calls
  BY <1>1, CallsOrd
<1>2. CASE Timer \/ QuietPasses \/ LoadOver \/ Expire
  BY <1>2, TimesOrd
<1>3. CASE \E n \in Jobs, answer \in {"ok", "refused", "down"} : BgEnds(n, answer)
  BY <1>3, BgEndsOrd
<1>4. CASE \E r \in Readers, ok \in BOOLEAN : FgEnds(r, ok)
  BY <1>4, FgEndsOrd
<1>5. CASE \E n \in Jobs : Retry(n) \/ Drop(n)
  BY <1>5, RetryOrd, DropOrd
<1>6. CASE \E r \in Readers : ReadAsks(r)
  BY <1>6, ReadAsksOrd
<1>7. CASE \E l \in Lists : ListEnds(l) \/ \E p \in Pieces : ListAsks(l, p)
  BY <1>7, ListEndsOrd, ListAsksOrd
<1> QED BY <1>1, <1>2, <1>3, <1>4, <1>5, <1>6, <1>7 DEF Next

(* What Ord says of a step's beginning and end.                            *)
LEMMA OrdNonePasses ==
  ASSUME Safe(b), Safe(b'), Ord(b, b')
  PROVE  NonePasses
<1>1. PICK c, v : c = b /\ v = b'
  OBVIOUS
<1>2. Good(c) /\ Good(v) /\ Ord(c, v)
  BY <1>1 DEF Safe
<1>3. ASSUME NEW n \in Jobs, NEW m \in Range(c.turns) \cap Range(v.turns),
             v.job[n] # NoJob, v.job[n].stage = "sent",
             c.job[n] = NoJob \/ c.job[n].stage \notin {"sent", "joins turned"},
             Rank(c, m) < Rank(v, n)
      PROVE  Speed # "fast" /\ ~c.job[m].forLoad /\ ~c.job[m].urgent
  <2>1. Starts(c, v, n)
    BY <1>3 DEF Starts, Live, Begun
  <2>2. ~Passes(c, v, n, m)
    BY <1>2, <2>1 DEF Ord, Fair
  <2>3. Live(c, m)
    BY <1>2 DEF Good, TurnsOK
  <2>4. Ranks(c)[m] = Rank(c, m) /\ Ranks(v)[n] = Rank(v, n)
    BY <1>3, <2>3 DEF Ranks, Live
  <2> QED BY <1>3, <2>2, <2>4 DEF Passes, Excused
<1> QED BY <1>1, <1>3 DEF NonePasses

(* Strict priority: while a download waits for its turn none of a lower    *)
(* rank starts, whatever the calls, the answers and the time, but for one  *)
(* a load keeps silent (net-link.js kick, tryTurn).                        *)
THEOREM NoOvertakingAlways ==
  ASSUME Constants PROVE Spec => NoOvertaking
<1>1. Init => InOrderNow
  <2> SUFFICES ASSUME Init PROVE Sorted(b)
    BY InitSafe DEF InOrderNow
  <2>1. b.turns = <<>>
    BY DEF Init
  <2> QED BY <2>1, UpEmpty DEF Sorted
<1>2. InOrderNow /\ [Next]_vars => InOrderNow' /\ [NonePasses]_vars
  <2> SUFFICES ASSUME InOrderNow, [Next]_vars PROVE InOrderNow' /\ [NonePasses]_vars
    OBVIOUS
  <2>1. Safe(b) /\ Sorted(b)
    BY DEF InOrderNow
  <2>2. Safe(b')
    BY <2>1, StepSafe DEF IInv
  <2>3. CASE Next
    <3>1. Ord(b, b')
      BY <2>1, <2>3, StepOrd
    <3>2. Sorted(b')
      BY <3>1 DEF Ord
    <3>3. NonePasses
      BY <2>1, <2>2, <3>1, OrdNonePasses
    <3> QED BY <2>2, <3>2, <3>3 DEF InOrderNow
  <2>4. CASE UNCHANGED vars
    <3>1. b' = b
      BY <2>4 DEF vars
    <3> QED BY <2>1, <2>4, <3>1 DEF InOrderNow
  <2> QED BY <2>3, <2>4
<1> QED BY <1>1, <1>2, PTL DEF Spec, NoOvertaking

==============================================================================
