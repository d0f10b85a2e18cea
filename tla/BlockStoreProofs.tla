--------------------------- MODULE BlockStoreProofs ---------------------------
(***************************************************************************)
(* Theorems about module BlockStore, for any keys, block sizes and number  *)
(* of records between sync points, any number of blocks and of crashes:    *)
(* no entry points into another block's bytes; the log of a store that     *)
(* stopped says what the last sync point knew; and what a clean close left *)
(* stays.                                                                  *)
(*                                                                         *)
(* The invariant follows the log's records in use, which say the map of    *)
(* the last sync point; the waiting records, which lead from that map to   *)
(* the store's; and what a sync point that failed left after them.  Every  *)
(* entry, of either map or of a record that waits, has bytes of its own in *)
(* the data file.  A store that is not running keeps of all this what the  *)
(* next start reads.                                                       *)
(***************************************************************************)
EXTENDS BlockStore, FiniteSetTheorems, SequenceTheorems, WellFoundedInduction, TLAPS

Ent == [off : Nat, len : Nat, sum : Nat]
Rec == [kind : {"put", "drop"}, key : Keys, entry : Ent]
Cells == {Garbage} \cup (Nat \X Nat)
Logs == Seq(Rec \cup {Damaged})
IsMap(m) == DOMAIN m \subseteq Keys /\ m \in [DOMAIN m -> Ent]

(* Finitely many keys, blocks of some length, and values that are not each *)
(* other.                                                                  *)
Constants ==
  /\ IsFiniteSet(Keys) /\ Size \in [Keys -> Nat]
  /\ Damaged \notin Rec /\ NoLog \notin Logs

TypeInv ==
  /\ phase \in {"down", "rewriting", "up"}
  /\ data \in Seq(Cells) /\ flushed \in 0..Len(data)
  /\ log \in Logs \cup {NoLog} /\ logEnd \in Nat /\ end \in Nat
  /\ IsMap(map) /\ IsMap(synced) /\ pending \in Seq(Rec)
  /\ failed \in BOOLEAN /\ blocks \in Nat /\ torn \subseteq Keys

(* The cells of d an entry points to are its own or garbage; they are all  *)
(* its own, and no crash can lose them; it is whole in d, and one of the   *)
(* first n blocks.                                                         *)
Owned(d, e) ==
  \A i \in 1..e.len : e.off + i <= Len(d) => d[e.off + i] \in {Garbage, <<e.sum, i>>}
Solid(d, e, safe) ==
  e.off + e.len <= safe /\ \A i \in 1..e.len : d[e.off + i] = <<e.sum, i>>
Held(d, e, n) == e.off + e.len <= Len(d) /\ e.sum <= n /\ Owned(d, e)

(* Records leave the map m: the last one of each key says what m has.      *)
SaysAt(r, m) ==
  IF r.kind = "put" THEN r.key \in DOMAIN m /\ m[r.key] = r.entry ELSE r.key \notin DOMAIN m
Says(l, n, m) ==
  /\ \A i \in 1..n : Final(l, n, i) => SaysAt(l[i], m)
  /\ \A k \in DOMAIN m : \E i \in 1..n : l[i].key = k
(* They lead from the map s to m.                                          *)
AgreeAt(m, s, k) == (k \in DOMAIN m <=> k \in DOMAIN s) /\ (k \in DOMAIN m => m[k] = s[k])
Later(s, p, m) ==
  /\ \A i \in 1..Len(p) : Final(p, Len(p), i) => SaysAt(p[i], m)
  /\ \A k \in Keys \ KeysOf(p) : AgreeAt(m, s, k)

Valid(l, n) ==
  /\ n \in 0..Len(l) /\ \A i \in 1..n : l[i] # Damaged
  /\ n < Len(l) => l[n + 1] = Damaged

(* The log l is valid up to n: after its u records in use come some of p,  *)
(* of keys of T.                                                           *)
LogTail(l, u, n, p, T) ==
  /\ Valid(l, n) /\ u <= n
  /\ \A i \in 1..(n - u) : i <= Len(p) /\ l[u + i] = p[i] /\ p[i].key \in T

LogBooked(l, u, s, p, f, T) ==
  /\ u \in 0..Len(l) /\ Says(l, u, s)
  /\ ~f => Len(l) = u /\ T = {}
  /\ \E n \in 0..Len(l) : LogTail(l, u, n, p, T)
  /\ T \subseteq KeysOf(p)

MapBooked(m, s, p, d, n) ==
  /\ Later(s, p, m)
  /\ \A k \in DOMAIN m : Held(d, m[k], n)
  /\ \A k \in DOMAIN s : Held(d, s[k], n)
  /\ \A i \in 1..Len(p) : Held(d, p[i].entry, n)
  /\ \A k \in DOMAIN m \cap DOMAIN s : k \in KeysOf(p) => m[k].sum # s[k].sum

(* The blocks of c are in m, of keys not in T.                             *)
Kept(c, m, T, d, safe) ==
  \A n \in c : \E k \in DOMAIN m \ T : m[k].sum = n /\ Solid(d, m[k], safe)

(* What the log l of a store that is not running says.                     *)
Leaves(l, s, T, d, n, c, safe) ==
  /\ \A k \in Keys \ T : AgreeAt(Replay(l), s, k)
  /\ \A k \in DOMAIN Replay(l) : Replay(l)[k].sum <= n /\ Owned(d, Replay(l)[k])
  /\ Kept(c, Replay(l), {}, d, safe)

(* The blocks of a clean close that no crash interrupted a rewriting of.   *)
Safe == closed \ exposed

UpInv ==
  phase = "up" =>
    /\ log # NoLog /\ LogBooked(log, logEnd, synced, pending, failed, torn)
    /\ MapBooked(map, synced, pending, data, blocks)
    /\ Kept(Safe, map, KeysOf(pending), data, flushed)
    /\ ~failed => end = Len(data)
DownInv ==
  phase = "down" =>
    IF log = NoLog THEN Safe = {}
    ELSE Leaves(log, synced, torn, data, blocks, Safe, flushed)
RewritingInv ==
  phase = "rewriting" =>
    /\ log = NoLog /\ Kept(Safe, map, {}, data, flushed)
    /\ \A k \in DOMAIN map : Held(data, map[k], blocks)

IInv == TypeInv /\ UpInv /\ DownInv /\ RewritingInv

----------------------------------------------------------------------------
(* Logs and maps.                                                          *)

LEMMA Least ==
  ASSUME NEW N \in SUBSET Nat, N # {}
  PROVE  \E n \in N : \A i \in N : n <= i
<1> DEFINE R == OpToRel(<, Nat)
<1>1. IsWellFoundedOn(R, Nat)
  BY NatLessThanWellFounded
<1>2. \A i, n \in Nat : i < n => <<i, n>> \in R
  BY DEF OpToRel
<1> HIDE DEF R
<1>3. PICK n \in N : \A i \in N : ~(<<i, n>> \in R)
  BY <1>1, WFMin
<1>4. \A i \in N : i \in Nat /\ n \in Nat
  OBVIOUS
<1>5. \A i \in N : ~(i < n)
  BY <1>2, <1>3, <1>4
<1> QED BY <1>4, <1>5

(* Each log has a valid part, ...                                          *)
LEMMA ValidExists ==
  ASSUME NEW S, NEW l \in Seq(S)
  PROVE  \E n \in 0..Len(l) : Valid(l, n)
<1> DEFINE N == {n \in 0..Len(l) : n < Len(l) => l[n + 1] = Damaged}
<1>1. Len(l) \in N /\ N \in SUBSET Nat
  OBVIOUS
<1>2. PICK n \in N : \A i \in N : n <= i
  <2> HIDE DEF N
  <2> QED BY <1>1, Least
<1>3. ASSUME NEW i \in 1..n PROVE l[i] # Damaged
  <2>1. PICK j \in Int : j = i - 1
    OBVIOUS
  <2>2. j \in 0..Len(l) /\ j < n /\ j + 1 = i
    BY <2>1
  <2>3. j \notin N
    <3>1. n \in Int
      OBVIOUS
    <3> HIDE DEF N
    <3> QED BY <1>2, <2>1, <2>2, <3>1
  <2> QED BY <2>2, <2>3
<1> QED BY <1>3 DEF Valid

(* ... and only one.                                                       *)
LEMMA ValidIs ==
  ASSUME NEW S, NEW l \in Seq(S), NEW n, Valid(l, n)
  PROVE  ValidPart(l) = n
<1> DEFINE P(i) == /\ \A j \in 1..i : l[j] # Damaged
                   /\ i < Len(l) => l[i + 1] = Damaged
<1>1. n \in 0..Len(l) /\ P(n)
  BY DEF Valid
<1>2. ASSUME NEW i \in 0..Len(l), P(i) PROVE i = n
  <2>1. CASE i < n
    <3>1. i + 1 \in 1..n /\ i < Len(l)
      BY <1>1, <2>1
    <3> QED BY <1>1, <1>2, <3>1
  <2>2. CASE n < i
    <3>1. n + 1 \in 1..i /\ n < Len(l)
      BY <1>1, <2>2
    <3> QED BY <1>1, <1>2, <3>1
  <2> QED BY <1>1, <2>1, <2>2
<1>3. ValidPart(l) = CHOOSE i \in 0..Len(l) : P(i)
  BY DEF ValidPart
<1> HIDE DEF P
<1> QED BY <1>1, <1>2, <1>3

(* The last record of a key.                                               *)
LEMMA FinalExists ==
  ASSUME NEW l, NEW n \in Nat, NEW i \in 1..n
  PROVE  \E j \in 1..n : Final(l, n, j) /\ l[j].key = l[i].key
<1> DEFINE k == l[i].key
           N == {x \in Nat : n - x \in 1..n /\ l[n - x].key = k}
<1>1. n - i \in N
  OBVIOUS
<1>2. PICK x \in N : \A y \in N : x <= y
  <2>1. N \in SUBSET Nat /\ N # {}
    BY <1>1
  <2> HIDE DEF N
  <2> QED BY <2>1, Least
<1>3. ASSUME NEW j \in (n - x + 1)..n PROVE l[j].key # k
  <2>1. n - j \in Nat /\ n - j < x /\ n - (n - j) = j /\ j \in 1..n
    OBVIOUS
  <2>2. n - j \notin N
    BY <1>2, <2>1
  <2> QED BY <2>1, <2>2
<1>4. Final(l, n, n - x)
  BY <1>3 DEF Final
<1> QED BY <1>4

LEMMA FinalOnly ==
  ASSUME NEW l, NEW n \in Nat, NEW i, NEW j, Final(l, n, i), Final(l, n, j),
         l[i].key = l[j].key
  PROVE  i = j
BY DEF Final

(* The map a log is replayed into.                                         *)
LEMMA ReplaySays ==
  ASSUME NEW l \in Logs, NEW n, Valid(l, n)
  PROVE  Says(l, n, Replay(l)) /\ IsMap(Replay(l))
<1> DEFINE puts == {i \in 1..n : Final(l, n, i) /\ l[i].kind = "put"}
           m == [k \in {l[i].key : i \in puts} |-> l[CHOOSE i \in puts : l[i].key = k].entry]
<1>1. Replay(l) = m
  <2>1. ValidPart(l) = n
    BY ValidIs DEF Logs
  <2> QED BY <2>1 DEF Replay, Replayed
<1>2. n \in Nat /\ \A i \in 1..n : l[i] \in Rec
  BY DEF Valid, Logs
<1>3. DOMAIN m = {l[i].key : i \in puts}
  OBVIOUS
<1>4. ASSUME NEW i \in puts PROVE m[l[i].key] = l[i].entry
  <2>1. \A j \in puts : l[j].key = l[i].key => j = i
    BY <1>2, FinalOnly
  <2>2. (CHOOSE j \in puts : l[j].key = l[i].key) = i
    BY <2>1
  <2> QED BY <2>2
<1>5. \A i \in 1..n : Final(l, n, i) => SaysAt(l[i], m)
  <2> SUFFICES ASSUME NEW i \in 1..n, Final(l, n, i) PROVE SaysAt(l[i], m)
    OBVIOUS
  <2>1. CASE l[i].kind = "put"
    <3>1. i \in puts
      BY <2>1
    <3> HIDE DEF m
    <3> QED BY <1>3, <1>4, <2>1, <3>1 DEF SaysAt
  <2>2. CASE l[i].kind # "put"
    <3>1. ASSUME l[i].key \in DOMAIN m PROVE FALSE
      <4>1. PICK j \in puts : l[j].key = l[i].key
        BY <1>3, <3>1
      <4> QED BY <1>2, <2>2, <4>1, FinalOnly
    <3> HIDE DEF m
    <3> QED BY <2>2, <3>1 DEF SaysAt
  <2> QED BY <2>1, <2>2
<1>6. \A k \in DOMAIN m : \E i \in 1..n : l[i].key = k
  BY <1>3
<1>7. IsMap(m)
  <2>1. DOMAIN m \subseteq Keys
    BY <1>2, <1>3 DEF Rec
  <2>2. \A k \in DOMAIN m : m[k] \in Ent
    <3> SUFFICES ASSUME NEW k \in DOMAIN m PROVE m[k] \in Ent
      OBVIOUS
    <3>1. PICK i \in puts : l[i].key = k
      BY <1>3
    <3> HIDE DEF m
    <3> QED BY <1>2, <1>4, <3>1 DEF Rec
  <2>3. m \in [DOMAIN m -> Ent]
    BY <2>2
  <2> HIDE DEF m
  <2> QED BY <2>1, <2>3 DEF IsMap
<1> HIDE DEF m
<1> QED BY <1>1, <1>5, <1>6, <1>7 DEF Says

(* Replayed, a log whose records in use say s, and that has records of p   *)
(* after them, says s of every key not torn; its entries are those of s or *)
(* of p.                                                                   *)
FromLog(m, s, p, T) ==
  /\ \A k \in Keys \ T : AgreeAt(m, s, k)
  /\ \A k \in DOMAIN m : \/ k \in DOMAIN s /\ m[k] = s[k]
                         \/ \E i \in 1..Len(p) : m[k] = p[i].entry

LEMMA TailReplays ==
  ASSUME NEW l \in Logs, NEW u \in Nat, NEW n, NEW s, NEW p \in Seq(Rec), NEW T,
         LogTail(l, u, n, p, T), Says(l, u, s)
  PROVE  FromLog(Replay(l), s, p, T)
<1> DEFINE m == Replay(l)
<1>1. Says(l, n, m) /\ Valid(l, n) /\ n \in Nat /\ u <= n
  BY ReplaySays DEF LogTail, Valid
<1> HIDE DEF m
<1>2. ASSUME NEW i \in 1..n, u < i
      PROVE  i - u \in 1..Len(p) /\ l[i] = p[i - u] /\ l[i].key \in T
  <2>1. i - u \in 1..(n - u) /\ u + (i - u) = i
    BY <1>1, <1>2
  <2> QED BY <2>1 DEF LogTail
<1>3. ASSUME NEW i, Final(l, n, i), i <= u PROVE Final(l, u, i) /\ i \in 1..u
  BY <1>1, <1>3 DEF Final
<1>4. ASSUME NEW k \in Keys \ T PROVE AgreeAt(m, s, k)
  <2>1. CASE \E i \in 1..n : l[i].key = k
    <3>1. PICK j \in 1..n : l[j].key = k
      BY <2>1
    <3>2. \E i \in 1..n : Final(l, n, i) /\ l[i].key = k
      BY <1>1, <3>1, FinalExists
    <3>3. PICK i \in 1..n : Final(l, n, i) /\ l[i].key = k
      BY <3>2
    <3>4. i <= u
      BY <1>1, <1>2, <3>3
    <3>5. SaysAt(l[i], m)
      BY <1>1, <3>3 DEF Says
    <3>6. SaysAt(l[i], s)
      BY <1>3, <3>3, <3>4 DEF Says
    <3> QED BY <3>3, <3>5, <3>6 DEF SaysAt, AgreeAt
  <2>2. CASE ~\E i \in 1..n : l[i].key = k
    <3>1. k \notin DOMAIN m
      BY <1>1, <2>2 DEF Says
    <3>2. k \notin DOMAIN s
      BY <1>1, <2>2 DEF Says
    <3> QED BY <3>1, <3>2 DEF AgreeAt
  <2> QED BY <2>1, <2>2
<1>5. ASSUME NEW k \in DOMAIN m
      PROVE  \/ k \in DOMAIN s /\ m[k] = s[k]
             \/ \E i \in 1..Len(p) : m[k] = p[i].entry
  <2>1. PICK i \in 1..n : Final(l, n, i) /\ l[i].key = k
    <3>1. PICK j \in 1..n : l[j].key = k
      BY <1>1, <1>5 DEF Says
    <3> QED BY <1>1, <3>1, FinalExists
  <2>2. m[k] = l[i].entry /\ l[i].kind = "put"
    BY <1>1, <2>1 DEF Says, SaysAt
  <2>3. CASE i <= u
    BY <1>3, <2>1, <2>2, <2>3 DEF Says, SaysAt
  <2>4. CASE u < i
    BY <1>2, <2>2, <2>4
  <2> QED BY <1>1, <2>3, <2>4
<1> QED BY <1>4, <1>5 DEF m, FromLog

(* Written at the end, bytes are appended.                                 *)
LEMMA WriteAtEnd ==
  ASSUME NEW S, NEW s \in Seq(S), NEW b \in Seq(S)
  PROVE  WriteAt(s, Len(s), b) = s \o b
<1>1. SubSeq(s, 1, Len(s)) = s
  OBVIOUS
<1>2. SubSeq(s, Len(s) + Len(b) + 1, Len(s)) = <<>>
  OBVIOUS
<1>3. (s \o b) \o <<>> = s \o b
  OBVIOUS
<1> QED BY <1>1, <1>2, <1>3 DEF WriteAt

LEMMA AppendedAt ==
  ASSUME NEW S, NEW s \in Seq(S), NEW b \in Seq(S)
  PROVE  /\ s \o b \in Seq(S) /\ Len(s \o b) = Len(s) + Len(b)
         /\ \A i \in 1..Len(s) : (s \o b)[i] = s[i]
         /\ \A i \in 1..Len(b) : (s \o b)[Len(s) + i] = b[i]
OBVIOUS

(* Of records written after a log, the part left whole is valid.           *)
LEMMA PartWritten ==
  ASSUME NEW l \in Logs, NEW s, Says(l, Len(l), s), LogTail(l, Len(l), Len(l), <<>>, {}),
         NEW p \in Seq(Rec), NEW b \in Seq(Rec \cup {Damaged}),
         Len(b) <= Len(p) + 1, Len(b) = Len(p) + 1 => b[Len(b)] = Damaged,
         \A i \in 1..Len(b) : i <= Len(p) => b[i] \in {p[i], Damaged}
  PROVE  /\ l \o b \in Logs /\ Len(l) \in 0..Len(l \o b) /\ Says(l \o b, Len(l), s)
         /\ \E n \in 0..Len(l \o b) : LogTail(l \o b, Len(l), n, p, KeysOf(p))
<1> DEFINE q == l \o b
<1>1. q \in Logs /\ Len(q) = Len(l) + Len(b)
  BY DEF Logs
<1>2. \A i \in 1..Len(l) : q[i] = l[i] /\ l[i] # Damaged
  BY DEF Logs, LogTail, Valid
<1>3. \A i \in 1..Len(b) : q[Len(l) + i] = b[i]
  BY DEF Logs
<1>4. Len(l) \in Nat /\ Len(b) \in Nat /\ Len(p) \in Nat /\ Len(q) \in Nat
  BY <1>1 DEF Logs
<1> HIDE DEF q
<1>5. Says(q, Len(l), s)
  <2>1. ASSUME NEW i \in 1..Len(l), Final(q, Len(l), i) PROVE Final(l, Len(l), i)
    BY <1>2, <2>1 DEF Final
  <2>2. \A i \in 1..Len(l) : Final(q, Len(l), i) => SaysAt(q[i], s)
    BY <1>2, <2>1 DEF Says
  <2>3. \A k \in DOMAIN s : \E i \in 1..Len(l) : q[i].key = k
    BY <1>2 DEF Says
  <2> QED BY <2>2, <2>3 DEF Says
<1>6. PICK n \in 0..Len(q) : Valid(q, n)
  BY <1>1, ValidExists DEF Logs
<1>7. Len(l) <= n
  <2> SUFFICES ASSUME n < Len(l) PROVE FALSE
    BY <1>4
  <2>1. n + 1 \in 1..Len(l) /\ n < Len(q)
    BY <1>1, <1>4
  <2> QED BY <1>2, <1>6, <2>1 DEF Valid
<1>8. ASSUME NEW i \in 1..(n - Len(l))
      PROVE  i <= Len(p) /\ q[Len(l) + i] = p[i] /\ p[i].key \in KeysOf(p)
  <2>1. PICK j \in Int : j = Len(l) + i
    BY <1>4
  <2>2. j \in 1..n /\ i \in 1..Len(b)
    BY <1>1, <1>4, <2>1
  <2>3. q[j] = b[i] /\ b[i] # Damaged
    BY <1>3, <1>6, <2>1, <2>2 DEF Valid
  <2>4. i <= Len(p)
    BY <1>4, <2>2, <2>3
  <2>5. b[i] = p[i]
    BY <2>2, <2>3, <2>4
  <2> QED BY <2>1, <2>3, <2>4, <2>5 DEF KeysOf
<1>9. LogTail(q, Len(l), n, p, KeysOf(p))
  BY <1>6, <1>7, <1>8 DEF LogTail
<1>10. Len(l) \in 0..Len(q)
  BY <1>1, <1>4
<1> QED BY <1>1, <1>5, <1>9, <1>10 DEF q

(* Written whole, they make the log say the map they lead to.              *)
LEMMA AllWritten ==
  ASSUME Damaged \notin Rec, NEW l \in Logs, NEW s, Says(l, Len(l), s),
         LogTail(l, Len(l), Len(l), <<>>, {}),
         NEW p \in Seq(Rec), NEW m, IsMap(m), Later(s, p, m)
  PROVE  /\ l \o p \in Logs /\ Len(l \o p) = Len(l) + Len(p)
         /\ Says(l \o p, Len(l \o p), m)
         /\ LogTail(l \o p, Len(l \o p), Len(l \o p), <<>>, {})
<1> DEFINE q == l \o p
<1>1. q \in Logs /\ Len(q) = Len(l) + Len(p)
  BY DEF Logs
<1>2. \A i \in 1..Len(l) : q[i] = l[i] /\ l[i] # Damaged
  BY DEF Logs, LogTail, Valid
<1>3. \A i \in 1..Len(p) : q[Len(l) + i] = p[i]
  BY DEF Logs
<1>4. Len(l) \in Nat /\ Len(p) \in Nat /\ Len(q) \in Nat /\ \A i \in 1..Len(p) : p[i] \in Rec
  BY <1>1 DEF Logs
<1> HIDE DEF q
<1>5. ASSUME NEW i \in 1..Len(q), ~(i \in 1..Len(l))
      PROVE  i - Len(l) \in 1..Len(p) /\ q[i] = p[i - Len(l)]
  <2>1. PICK j \in Int : j = i - Len(l)
    BY <1>4
  <2>2. j \in 1..Len(p) /\ Len(l) + j = i
    BY <1>1, <1>4, <1>5, <2>1
  <2> QED BY <1>3, <2>1, <2>2
<1>6. ASSUME NEW i \in 1..Len(q), Final(q, Len(q), i) PROVE SaysAt(q[i], m)
  <2>1. CASE i \in 1..Len(l)
    <3>1. \A j \in 1..Len(p) : p[j].key # l[i].key
      <4> SUFFICES ASSUME NEW j \in 1..Len(p) PROVE p[j].key # l[i].key
        OBVIOUS
      <4>1. PICK x \in Int : x = Len(l) + j
        BY <1>4
      <4>2. x \in (i + 1)..Len(q) /\ q[x] = p[j]
        BY <1>1, <1>3, <1>4, <2>1, <4>1
      <4> QED BY <1>2, <1>6, <2>1, <4>2 DEF Final
    <3>2. Final(l, Len(l), i)
      <4>1. ASSUME NEW j \in (i + 1)..Len(l) PROVE l[j].key # l[i].key
        <5>1. j \in 1..Len(l) /\ j \in (i + 1)..Len(q)
          BY <1>1, <1>4, <2>1
        <5> QED BY <1>2, <1>6, <2>1, <5>1 DEF Final
      <4> QED BY <2>1, <4>1 DEF Final
    <3>3. SaysAt(l[i], s)
      BY <2>1, <3>2 DEF Says
    <3>4. l[i] \in Rec
      BY <1>2, <2>1 DEF Logs
    <3>5. l[i].key \in Keys \ KeysOf(p)
      BY <3>1, <3>4 DEF Rec, KeysOf
    <3>6. AgreeAt(m, s, l[i].key)
      BY <3>5 DEF Later
    <3>7. q[i] = l[i]
      BY <1>2, <2>1
    <3> QED BY <3>3, <3>6, <3>7 DEF SaysAt, AgreeAt
  <2>2. CASE ~(i \in 1..Len(l))
    <3>1. PICK x \in 1..Len(p) : q[i] = p[x] /\ i = Len(l) + x
      BY <1>4, <1>5, <2>2
    <3>2. Final(p, Len(p), x)
      <4>1. ASSUME NEW j \in (x + 1)..Len(p) PROVE p[j].key # p[x].key
        <5>1. PICK y \in Int : y = Len(l) + j
          BY <1>4
        <5>2. y \in (i + 1)..Len(q) /\ q[y] = p[j]
          BY <1>1, <1>3, <1>4, <3>1, <5>1
        <5> QED BY <1>6, <3>1, <5>2 DEF Final
      <4> QED BY <4>1 DEF Final
    <3>3. SaysAt(p[x], m)
      BY <3>2 DEF Later
    <3> QED BY <3>1, <3>3
  <2> QED BY <2>1, <2>2
<1>7. ASSUME NEW k \in DOMAIN m PROVE \E i \in 1..Len(q) : q[i].key = k
  <2>1. CASE k \in KeysOf(p)
    <3>1. PICK j \in 1..Len(p) : p[j].key = k
      BY <2>1 DEF KeysOf
    <3>2. PICK x \in Int : x = Len(l) + j
      BY <1>4
    <3>3. x \in 1..Len(q) /\ q[x] = p[j]
      BY <1>1, <1>3, <1>4, <3>2
    <3> QED BY <3>1, <3>3
  <2>2. CASE k \notin KeysOf(p)
    <3>1. k \in Keys
      BY <1>7 DEF IsMap
    <3>2. k \in DOMAIN s
      BY <1>7, <2>2, <3>1 DEF Later, AgreeAt
    <3>3. PICK j \in 1..Len(l) : l[j].key = k
      BY <3>2 DEF Says
    <3>4. j \in 1..Len(q) /\ q[j] = l[j]
      BY <1>1, <1>2, <1>4
    <3> QED BY <3>3, <3>4
  <2> QED BY <2>1, <2>2
<1>8. Says(q, Len(q), m)
  BY <1>6, <1>7 DEF Says
<1>9. LogTail(q, Len(q), Len(q), <<>>, {})
  <2>1. \A i \in 1..Len(q) : q[i] # Damaged
    BY <1>2, <1>4, <1>5
  <2>2. Valid(q, Len(q))
    BY <1>4, <2>1 DEF Valid
  <2> QED BY <1>4, <2>2 DEF LogTail
<1> QED BY <1>1, <1>8, <1>9 DEF q

(* No log but its records in use.                                          *)
LEMMA NoTail ==
  ASSUME NEW l \in Logs, NEW s, NEW p \in Seq(Rec), NEW T, LogBooked(l, Len(l), s, p, FALSE, T)
  PROVE  Says(l, Len(l), s) /\ LogTail(l, Len(l), Len(l), <<>>, {}) /\ T = {}
<1>1. Len(l) \in Nat
  BY DEF Logs
<1>2. PICK n \in 0..Len(l) : LogTail(l, Len(l), n, p, T)
  BY DEF LogBooked
<1>3. n = Len(l)
  BY <1>1, <1>2 DEF LogTail
<1> QED BY <1>1, <1>2, <1>3 DEF LogBooked, LogTail

LEMMA WholeLog ==
  ASSUME NEW l \in Logs, NEW s, Says(l, Len(l), s), LogTail(l, Len(l), Len(l), <<>>, {}),
         NEW p \in Seq(Rec), NEW f \in BOOLEAN
  PROVE  LogBooked(l, Len(l), s, p, f, {})
<1>1. Len(l) \in Nat
  BY DEF Logs
<1>2. LogTail(l, Len(l), Len(l), p, {})
  BY <1>1 DEF LogTail
<1> QED BY <1>1, <1>2 DEF LogBooked

(* More records wait.                                                      *)
LEMMA LogWaits ==
  ASSUME NEW l \in Logs, NEW u, NEW s, NEW p \in Seq(Rec), NEW f, NEW T,
         NEW r \in Rec, LogBooked(l, u, s, p, f, T)
  PROVE  LogBooked(l, u, s, Append(p, r), f, T)
<1> DEFINE q == Append(p, r)
<1>1. Len(q) = Len(p) + 1 /\ Len(p) \in Nat /\ \A i \in 1..Len(p) : q[i] = p[i]
  OBVIOUS
<1> HIDE DEF q
<1>2. KeysOf(p) \subseteq KeysOf(q)
  <2> SUFFICES ASSUME NEW k \in KeysOf(p) PROVE k \in KeysOf(q)
    OBVIOUS
  <2>1. PICK i \in 1..Len(p) : p[i].key = k
    BY DEF KeysOf
  <2>2. i \in 1..Len(q) /\ q[i].key = k /\ DOMAIN q = 1..Len(q)
    BY <1>1, <2>1 DEF q
  <2> QED BY <2>2 DEF KeysOf
<1>3. PICK n \in 0..Len(l) : LogTail(l, u, n, p, T)
  BY DEF LogBooked
<1>4. n \in Int /\ u \in Int
  BY DEF LogBooked, Logs
<1>5. LogTail(l, u, n, q, T)
  BY <1>1, <1>3, <1>4 DEF LogTail
<1> QED BY <1>2, <1>5 DEF LogBooked, q

(* A sync point that fails.                                                *)
LEMMA SyncTorn ==
  ASSUME Constants, NEW l \in Logs, NEW s, NEW p \in Seq(Rec), NEW T,
         LogBooked(l, Len(l), s, p, FALSE, T), NEW j \in 0..(Len(p) - 1)
  PROVE  LET q == WriteAt(l, Len(l), SubSeq(p, 1, j) \o <<Damaged>>) IN
           q \in Logs /\ q # NoLog /\ LogBooked(q, Len(l), s, p, TRUE, KeysOf(p))
<1> DEFINE b == SubSeq(p, 1, j) \o <<Damaged>>
<1>1. /\ b \in Seq(Rec \cup {Damaged}) /\ Len(b) = j + 1 /\ b[j + 1] = Damaged
      /\ \A i \in 1..j : b[i] = p[i]
  <2>1. SubSeq(p, 1, j) \in Seq(Rec \cup {Damaged}) /\ Len(SubSeq(p, 1, j)) = j
    OBVIOUS
  <2>2. \A i \in 1..j : SubSeq(p, 1, j)[i] = p[i]
    OBVIOUS
  <2>3. <<Damaged>> \in Seq(Rec \cup {Damaged})
    OBVIOUS
  <2> QED BY <2>1, <2>2, <2>3
<1> HIDE DEF b
<1>2. WriteAt(l, Len(l), b) = l \o b
  BY <1>1, WriteAtEnd DEF Logs
<1>3. \A i \in 1..Len(b) : i <= Len(p) => b[i] \in {p[i], Damaged}
  BY <1>1
<1>4. /\ l \o b \in Logs /\ Len(l) \in 0..Len(l \o b) /\ Says(l \o b, Len(l), s)
      /\ \E n \in 0..Len(l \o b) : LogTail(l \o b, Len(l), n, p, KeysOf(p))
  <2>1. Len(b) <= Len(p) + 1 /\ (Len(b) = Len(p) + 1 => b[Len(b)] = Damaged)
    BY <1>1
  <2> QED BY <1>1, <1>3, <2>1, NoTail, PartWritten
<1>5. LogBooked(l \o b, Len(l), s, p, TRUE, KeysOf(p))
  BY <1>4 DEF LogBooked
<1> QED BY <1>2, <1>4, <1>5 DEF Constants, b

(* One that a crash interrupts.                                            *)
LEMMA LeftWritten ==
  ASSUME Constants, NEW l \in Logs, NEW s, NEW p \in Seq(Rec), NEW T,
         LogBooked(l, Len(l), s, p, FALSE, T), NEW b \in RecordsLeft(p)
  PROVE  LET q == WriteAt(l, Len(l), b) IN
           /\ q \in Logs /\ q # NoLog /\ Len(l) \in 0..Len(q) /\ Says(q, Len(l), s)
           /\ \E n \in 0..Len(q) : LogTail(q, Len(l), n, p, KeysOf(p))
<1>1. PICK n \in 0..Len(p) : \E lost \in SUBSET (1..n) :
        b = [i \in 1..n |-> IF i \in lost THEN Damaged ELSE p[i]]
  BY DEF RecordsLeft
<1>2. \A i \in 1..n : b[i] \in {p[i], Damaged} /\ b[i] \in Rec \cup {Damaged}
  BY <1>1
<1>3. b \in Seq(Rec \cup {Damaged}) /\ Len(b) = n
  <2>1. b \in [1..n -> Rec \cup {Damaged}]
    BY <1>1
  <2> QED BY <2>1
<1>4. WriteAt(l, Len(l), b) = l \o b
  BY <1>3, WriteAtEnd DEF Logs
<1>5. /\ l \o b \in Logs /\ Len(l) \in 0..Len(l \o b) /\ Says(l \o b, Len(l), s)
      /\ \E x \in 0..Len(l \o b) : LogTail(l \o b, Len(l), x, p, KeysOf(p))
  <2>1. /\ Len(b) <= Len(p) + 1 /\ (Len(b) = Len(p) + 1 => b[Len(b)] = Damaged)
        /\ \A i \in 1..Len(b) : i <= Len(p) => b[i] \in {p[i], Damaged}
    BY <1>2, <1>3
  <2> QED BY <1>3, <2>1, NoTail, PartWritten
<1> QED BY <1>4, <1>5 DEF Constants

(* One that is done.                                                       *)
Written(q, l, p, m) ==
  /\ q \in Logs /\ q # NoLog /\ Len(q) = Len(l) + Len(p)
  /\ Says(q, Len(q), m) /\ LogTail(q, Len(q), Len(q), <<>>, {})
  /\ LogBooked(q, Len(q), m, <<>>, FALSE, {})

LEMMA SyncDone ==
  ASSUME Constants, NEW l \in Logs, NEW s, NEW p \in Seq(Rec), NEW T, NEW m, IsMap(m),
         LogBooked(l, Len(l), s, p, FALSE, T), Later(s, p, m)
  PROVE  Written(WriteAt(l, Len(l), p), l, p, m) /\ T = {}
<1>1. WriteAt(l, Len(l), p) = l \o p
  BY WriteAtEnd DEF Logs
<1>2. /\ l \o p \in Logs /\ Len(l \o p) = Len(l) + Len(p)
      /\ Says(l \o p, Len(l \o p), m) /\ LogTail(l \o p, Len(l \o p), Len(l \o p), <<>>, {})
  BY NoTail, AllWritten DEF Constants
<1>3. T = {}
  BY NoTail
<1>4. LogBooked(l \o p, Len(l \o p), m, <<>>, FALSE, {})
  <2>1. <<>> \in Seq(Rec)
    OBVIOUS
  <2> QED BY <1>2, <2>1, WholeLog
<1> QED BY <1>1, <1>2, <1>3, <1>4 DEF Constants, Written

----------------------------------------------------------------------------
(* Maps.                                                                   *)

LEMMA EmptyMap == IsMap(<<>>) /\ DOMAIN <<>> = {}
<1>1. DOMAIN <<>> = {}
  OBVIOUS
<1>2. <<>> = [x \in {} |-> {}]
  OBVIOUS
<1>3. <<>> \in [{} -> Ent]
  BY <1>2
<1> QED BY <1>1, <1>3 DEF IsMap

LEMMA MapParts ==
  ASSUME NEW m, IsMap(m)
  PROVE  /\ \A k \in DOMAIN m : k \in Keys /\ m[k] \in Ent
         /\ \A k \in Keys, e \in Ent :
              /\ IsMap(With(m, k, e)) /\ DOMAIN With(m, k, e) = DOMAIN m \cup {k}
              /\ With(m, k, e)[k] = e
              /\ \A j \in DOMAIN m \ {k} : With(m, k, e)[j] = m[j]
         /\ \A k : /\ IsMap(Without(m, k)) /\ DOMAIN Without(m, k) = DOMAIN m \ {k}
                   /\ \A j \in DOMAIN m \ {k} : Without(m, k)[j] = m[j]
         /\ \A S \in SUBSET DOMAIN m :
              /\ IsMap(Restrict(m, S)) /\ DOMAIN Restrict(m, S) = S
              /\ \A j \in S : Restrict(m, S)[j] = m[j]
<1>1. \A k \in DOMAIN m : k \in Keys /\ m[k] \in Ent
  BY DEF IsMap
<1>2. ASSUME NEW k \in Keys, NEW e \in Ent
      PROVE  /\ IsMap(With(m, k, e)) /\ DOMAIN With(m, k, e) = DOMAIN m \cup {k}
             /\ With(m, k, e)[k] = e
             /\ \A j \in DOMAIN m \ {k} : With(m, k, e)[j] = m[j]
  BY <1>1 DEF With, IsMap
<1>3. ASSUME NEW S \in SUBSET DOMAIN m
      PROVE  /\ IsMap(Restrict(m, S)) /\ DOMAIN Restrict(m, S) = S
             /\ \A j \in S : Restrict(m, S)[j] = m[j]
  BY <1>1 DEF Restrict, IsMap
<1>4. \A k : /\ IsMap(Without(m, k)) /\ DOMAIN Without(m, k) = DOMAIN m \ {k}
             /\ \A j \in DOMAIN m \ {k} : Without(m, k)[j] = m[j]
  <2> TAKE k
  <2>1. DOMAIN m \ {k} \in SUBSET DOMAIN m
    OBVIOUS
  <2> QED BY <1>3, <2>1 DEF Without
<1> QED BY <1>1, <1>2, <1>3, <1>4

(* What a record that waits adds.                                          *)
AgreeBut(m, s, j) == \A k \in Keys \ {j} : AgreeAt(m, s, k)

MoreWaits(s, q, p, m, r) ==
  Later(s, q, m) /\ q \in Seq(Rec) /\ KeysOf(q) = KeysOf(p) \cup {r.key}

LEMMA LaterBy ==
  ASSUME NEW s, NEW p \in Seq(Rec), NEW m, Later(s, p, m), NEW r \in Rec, NEW m2,
         SaysAt(r, m2), AgreeBut(m2, m, r.key)
  PROVE  MoreWaits(s, Append(p, r), p, m2, r)
<1> DEFINE q == Append(p, r)
<1>1. /\ q \in Seq(Rec) /\ Len(q) = Len(p) + 1 /\ Len(p) \in Nat /\ q[Len(q)] = r
      /\ \A i \in 1..Len(p) : q[i] = p[i] /\ p[i] \in Rec
      /\ DOMAIN q = 1..Len(q) /\ DOMAIN p = 1..Len(p)
  OBVIOUS
<1> HIDE DEF q
<1>2. KeysOf(q) = KeysOf(p) \cup {r.key}
  <2>1. ASSUME NEW k \in KeysOf(q) PROVE k \in KeysOf(p) \cup {r.key}
    <3>1. PICK i \in 1..Len(q) : q[i].key = k
      BY <1>1, <2>1 DEF KeysOf
    <3>2. CASE i = Len(q)
      BY <1>1, <3>1, <3>2
    <3>3. CASE i # Len(q)
      <4>1. i \in 1..Len(p)
        BY <1>1, <3>3
      <4> QED BY <1>1, <3>1, <4>1 DEF KeysOf
    <3> QED BY <3>2, <3>3
  <2>2. ASSUME NEW k \in KeysOf(p) PROVE k \in KeysOf(q)
    <3>1. PICK i \in 1..Len(p) : p[i].key = k
      BY <1>1, <2>2 DEF KeysOf
    <3>2. i \in 1..Len(q) /\ q[i].key = k
      BY <1>1, <3>1
    <3> QED BY <1>1, <3>2 DEF KeysOf
  <2>3. r.key \in KeysOf(q)
    <3>1. Len(q) \in 1..Len(q)
      BY <1>1
    <3> QED BY <1>1, <3>1 DEF KeysOf
  <2> QED BY <2>1, <2>2, <2>3
<1>3. ASSUME NEW i \in 1..Len(q), Final(q, Len(q), i) PROVE SaysAt(q[i], m2)
  <2>1. CASE i = Len(q)
    BY <1>1, <2>1
  <2>2. CASE i # Len(q)
    <3>1. i \in 1..Len(p) /\ Len(q) \in (i + 1)..Len(q)
      BY <1>1, <2>2
    <3>2. q[i] = p[i] /\ p[i] \in Rec /\ p[i].key # r.key
      BY <1>1, <1>3, <3>1 DEF Final
    <3>3. Final(p, Len(p), i)
      <4>1. ASSUME NEW j \in (i + 1)..Len(p) PROVE p[j].key # p[i].key
        <5>1. j \in 1..Len(p) /\ j \in (i + 1)..Len(q)
          BY <1>1, <3>1
        <5> QED BY <1>1, <1>3, <3>1, <5>1 DEF Final
      <4> QED BY <3>1, <4>1 DEF Final
    <3>4. SaysAt(p[i], m)
      BY <3>1, <3>3 DEF Later
    <3>5. p[i].key \in Keys \ {r.key}
      BY <3>2 DEF Rec
    <3>6. AgreeAt(m2, m, p[i].key)
      BY <3>5 DEF AgreeBut
    <3> QED BY <3>2, <3>4, <3>6 DEF SaysAt, AgreeAt
  <2> QED BY <2>1, <2>2
<1>4. ASSUME NEW k \in Keys \ KeysOf(q) PROVE AgreeAt(m2, s, k)
  <2>1. k \in Keys \ {r.key} /\ k \in Keys \ KeysOf(p)
    BY <1>2
  <2>2. AgreeAt(m2, m, k) /\ AgreeAt(m, s, k)
    BY <2>1 DEF Later, AgreeBut
  <2> QED BY <2>2 DEF AgreeAt
<1> QED BY <1>1, <1>2, <1>3, <1>4 DEF Later, MoreWaits, q

(* Bytes appended to the data file.                                        *)
LEMMA StillHeld ==
  ASSUME NEW d \in Seq(Cells), NEW b \in Seq(Cells), NEW e \in Ent, NEW n \in Nat
  PROVE  /\ Held(d, e, n) => Held(d \o b, e, n) /\ Held(d \o b, e, n + 1)
         /\ \A safe \in 0..Len(d) : Solid(d, e, safe) => Solid(d \o b, e, safe)
<1> DEFINE q == d \o b
<1>1. /\ Len(q) = Len(d) + Len(b) /\ Len(d) \in Nat /\ Len(b) \in Nat
      /\ \A i \in 1..Len(d) : q[i] = d[i]
  OBVIOUS
<1> HIDE DEF q
<1>2. e.off \in Nat /\ e.len \in Nat /\ e.sum \in Nat
  BY DEF Ent
<1>3. ASSUME e.off + e.len <= Len(d)
      PROVE  \A i \in 1..e.len : q[e.off + i] = d[e.off + i] /\ e.off + i <= Len(d)
  <2> SUFFICES ASSUME NEW i \in 1..e.len
               PROVE  q[e.off + i] = d[e.off + i] /\ e.off + i <= Len(d)
    OBVIOUS
  <2>1. e.off + i \in 1..Len(d)
    BY <1>1, <1>2, <1>3
  <2> QED BY <1>1, <2>1
<1>4. ASSUME Held(d, e, n) PROVE Held(q, e, n) /\ Held(q, e, n + 1)
  <2>1. e.off + e.len <= Len(d)
    BY <1>4 DEF Held
  <2>2. Owned(q, e)
    BY <1>3, <1>4, <2>1 DEF Held, Owned
  <2> QED BY <1>1, <1>2, <1>4, <2>1, <2>2 DEF Held
<1>5. ASSUME NEW safe \in 0..Len(d), Solid(d, e, safe) PROVE Solid(q, e, safe)
  <2>1. e.off + e.len <= Len(d)
    BY <1>1, <1>2, <1>5 DEF Solid
  <2> QED BY <1>3, <1>5, <2>1 DEF Solid
<1> QED BY <1>4, <1>5 DEF q

(* A crash shortens or damages it, past what is safe.                      *)
Shrunk(d2, d, safe) ==
  /\ d2 \in Seq(Cells) /\ Len(d2) \in safe..Len(d)
  /\ \A i \in 1..Len(d2) : d2[i] \in {d[i], Garbage} /\ (i <= safe => d2[i] = d[i])

LEMMA OwnedLeft ==
  ASSUME NEW d \in Seq(Cells), NEW safe \in 0..Len(d), NEW d2, Shrunk(d2, d, safe),
         NEW e \in Ent
  PROVE  /\ Owned(d, e) => Owned(d2, e)
         /\ Solid(d, e, safe) => Solid(d2, e, safe)
<1>1. e.off \in Nat /\ e.len \in Nat /\ Len(d) \in Nat /\ Len(d2) \in Nat /\ Len(d2) <= Len(d)
  BY DEF Ent, Shrunk
<1>2. ASSUME Owned(d, e) PROVE Owned(d2, e)
  <2> SUFFICES ASSUME NEW i \in 1..e.len, e.off + i <= Len(d2)
               PROVE  d2[e.off + i] \in {Garbage, <<e.sum, i>>}
    BY DEF Owned
  <2>1. e.off + i \in 1..Len(d2) /\ e.off + i <= Len(d)
    BY <1>1
  <2>2. d[e.off + i] \in {Garbage, <<e.sum, i>>}
    BY <1>2, <2>1 DEF Owned
  <2>3. d2[e.off + i] \in {d[e.off + i], Garbage}
    BY <2>1 DEF Shrunk
  <2> QED BY <2>2, <2>3
<1>3. ASSUME Solid(d, e, safe) PROVE Solid(d2, e, safe)
  <2>1. ASSUME NEW i \in 1..e.len PROVE d2[e.off + i] = <<e.sum, i>>
    <3>1. e.off + i \in 1..Len(d2) /\ e.off + i <= safe
      BY <1>1, <1>3 DEF Solid, Shrunk
    <3>2. d[e.off + i] = <<e.sum, i>>
      BY <1>3 DEF Solid
    <3>3. d2[e.off + i] = d[e.off + i]
      BY <3>1 DEF Shrunk
    <3> QED BY <3>2, <3>3
  <2> QED BY <1>3, <2>1 DEF Solid
<1> QED BY <1>2, <1>3

LEMMA DataShrinks ==
  ASSUME TypeInv, NEW d \in DataLeft
  PROVE  Shrunk(d, data, flushed)
<1>1. flushed \in 0..Len(data) /\ data \in Seq(Cells)
  BY DEF TypeInv
<1> DEFINE Left(n, lost) == [i \in 1..n |-> IF i \in lost THEN Garbage ELSE data[i]]
<1>2. PICK n \in flushed..Len(data) : d \in {Left(n, lost) : lost \in SUBSET ((flushed + 1)..n)}
  BY Zenon DEF DataLeft
<1>3. PICK lost \in SUBSET ((flushed + 1)..n) : d = Left(n, lost)
  BY <1>2
<1>4. n \in Nat /\ \A i \in 1..n : i \in 1..Len(data) /\ data[i] \in Cells
  BY <1>1, <1>2
<1>5. d \in [1..n -> Cells]
  BY <1>3, <1>4 DEF Cells
<1>6. d \in Seq(Cells) /\ Len(d) = n
  BY <1>4, <1>5
<1>7. \A i \in 1..n : d[i] \in {data[i], Garbage} /\ (i <= flushed => d[i] = data[i])
  BY <1>1, <1>3, <1>4
<1> QED BY <1>2, <1>6, <1>7 DEF Shrunk

(* A block stored.                                                         *)
LEMMA BytesAre ==
  ASSUME NEW k \in Keys, Size[k] \in Nat, NEW n \in Nat
  PROVE  /\ Bytes(k, n) \in Seq(Cells) /\ Len(Bytes(k, n)) = Size[k]
         /\ \A i \in 1..Size[k] : Bytes(k, n)[i] = <<n, i>>
<1>1. PICK z \in Nat : z = Size[k]
  OBVIOUS
<1>2. PICK b : b = [i \in 1..z |-> <<n, i>>]
  OBVIOUS
<1>3. b = Bytes(k, n)
  BY <1>1, <1>2 DEF Bytes
<1>4. b \in [1..z -> Cells]
  BY <1>2 DEF Cells
<1>5. b \in Seq(Cells) /\ Len(b) = z
  BY <1>4
<1> QED BY <1>1, <1>2, <1>3, <1>5

BytesOf(b, e) == Len(b) = e.len /\ \A i \in 1..e.len : b[i] = <<e.sum, i>>

Extended(q, d, e) ==
  /\ q \in Seq(Cells) /\ Len(q) = Len(d) + e.len
  /\ \A i \in 1..e.len : q[Len(d) + i] = <<e.sum, i>>

LEMMA BytesAppended ==
  ASSUME NEW d \in Seq(Cells), NEW b \in Seq(Cells), NEW e, BytesOf(b, e)
  PROVE  Extended(d \o b, d, e)
BY AppendedAt DEF BytesOf, Extended

LEMMA PutBooks ==
  ASSUME NEW m, IsMap(m), NEW s, IsMap(s), NEW p \in Seq(Rec), NEW d \in Seq(Cells), NEW n \in Nat,
         MapBooked(m, s, p, d, n), NEW k \in Keys \ DOMAIN m, Size[k] \in Nat,
         NEW e \in Ent, e.off = Len(d), e.len = Size[k], e.sum = n + 1, NEW c, NEW safe \in 0..Len(d),
         Kept(c, m, KeysOf(p), d, safe)
  PROVE  LET m2 == With(m, k, e)
             p2 == Append(p, Record("put", k, e))
             d2 == d \o Bytes(k, n + 1) IN
           /\ IsMap(m2) /\ p2 \in Seq(Rec) /\ Record("put", k, e) \in Rec
           /\ d2 \in Seq(Cells) /\ Len(d2) = Len(d) + e.len /\ e.len \in Nat
           /\ MapBooked(m2, s, p2, d2, n + 1) /\ Kept(c, m2, KeysOf(p2), d2, safe)
<1> DEFINE m2 == With(m, k, e)
           r == Record("put", k, e)
           p2 == Append(p, r)
           b == Bytes(k, n + 1)
           d2 == d \o b
<1>1. e \in Ent /\ e.off = Len(d) /\ e.len = Size[k] /\ e.sum = n + 1
  OBVIOUS
<1>2. r \in Rec /\ r.key = k /\ r.entry = e /\ r.kind = "put"
  BY <1>1 DEF Record, Rec
<1>3. b \in Seq(Cells) /\ Len(b) = e.len /\ \A i \in 1..e.len : b[i] = <<e.sum, i>>
  <2>1. PICK x \in Nat : x = n + 1
    OBVIOUS
  <2> QED BY <1>1, <2>1, BytesAre
<1>4. /\ d2 \in Seq(Cells) /\ Len(d2) = Len(d) + e.len
      /\ \A i \in 1..e.len : d2[Len(d) + i] = <<e.sum, i>>
  <2> HIDE DEF m2, r, p2, b
  <2>1. BytesOf(b, e)
    BY <1>3 DEF BytesOf
  <2>2. Extended(d2, d, e)
    BY <1>3, <2>1, BytesAppended
  <2> HIDE DEF d2
  <2> QED BY <2>2 DEF Extended
<1>5. /\ \A j \in DOMAIN m : j \in Keys /\ m[j] \in Ent
      /\ IsMap(m2) /\ DOMAIN m2 = DOMAIN m \cup {k} /\ m2[k] = e
      /\ \A j \in DOMAIN m \ {k} : m2[j] = m[j]
      /\ \A j \in DOMAIN s : s[j] \in Ent
  <2>1. \A j \in DOMAIN s : s[j] \in Ent
    BY MapParts
  <2>2. \A j \in DOMAIN m : j \in Keys /\ m[j] \in Ent
    BY MapParts
  <2>3. /\ IsMap(m2) /\ DOMAIN m2 = DOMAIN m \cup {k} /\ m2[k] = e
        /\ \A j \in DOMAIN m \ {k} : m2[j] = m[j]
    <3>1. \A j \in Keys, x \in Ent :
            /\ IsMap(With(m, j, x)) /\ DOMAIN With(m, j, x) = DOMAIN m \cup {j}
            /\ With(m, j, x)[j] = x
            /\ \A i \in DOMAIN m \ {j} : With(m, j, x)[i] = m[i]
      BY MapParts
    <3> QED BY <1>1, <3>1
  <2> QED BY <2>1, <2>2, <2>3
<1>6. \A x \in Ent : /\ Held(d, x, n) => Held(d2, x, n + 1)
                     /\ Solid(d, x, safe) => Solid(d2, x, safe)
  BY <1>3, StillHeld
<1> HIDE DEF m2, r, b, d2
<1>7. Held(d2, e, n + 1)
  <2>1. Owned(d2, e)
    BY <1>1, <1>4 DEF Owned
  <2> QED BY <1>1, <1>4, <2>1 DEF Held
<1>8. Later(s, p2, m2) /\ p2 \in Seq(Rec) /\ KeysOf(p2) = KeysOf(p) \cup {k}
  <2>1. SaysAt(r, m2)
    BY <1>2, <1>5 DEF SaysAt
  <2>2. AgreeBut(m2, m, r.key)
    BY <1>2, <1>5 DEF AgreeAt, AgreeBut
  <2>3. Later(s, p, m)
    BY DEF MapBooked
  <2>4. MoreWaits(s, p2, p, m2, r)
    BY <1>2, <2>1, <2>2, <2>3, LaterBy
  <2> QED BY <1>2, <2>4 DEF MoreWaits
<1>9. \A i \in 1..Len(p2) : Held(d2, p2[i].entry, n + 1)
  <2> SUFFICES ASSUME NEW i \in 1..Len(p2) PROVE Held(d2, p2[i].entry, n + 1)
    OBVIOUS
  <2>1. CASE i = Len(p) + 1
    BY <1>2, <1>7, <2>1
  <2>2. CASE i # Len(p) + 1
    <3>1. i \in 1..Len(p) /\ p2[i] = p[i] /\ p[i] \in Rec
      BY <2>2
    <3>2. Held(d, p[i].entry, n) /\ p[i].entry \in Ent
      BY <3>1 DEF MapBooked, Rec
    <3> QED BY <1>6, <3>1, <3>2
  <2> QED BY <2>1, <2>2
<1> HIDE DEF p2
<1>10. \A j \in DOMAIN m2 : Held(d2, m2[j], n + 1)
  BY <1>5, <1>6, <1>7 DEF MapBooked
<1>11. \A j \in DOMAIN s : Held(d2, s[j], n + 1) /\ s[j].sum <= n /\ s[j].sum \in Nat
  BY <1>5, <1>6 DEF MapBooked, Held, Ent
<1>12. ASSUME NEW j \in DOMAIN m2 \cap DOMAIN s, j \in KeysOf(p2) PROVE m2[j].sum # s[j].sum
  <2>1. CASE j = k
    BY <1>1, <1>5, <1>11, <2>1
  <2>2. CASE j # k
    <3>1. j \in DOMAIN m \cap DOMAIN s /\ j \in KeysOf(p) /\ m2[j] = m[j]
      BY <1>5, <1>8, <1>12, <2>2
    <3> QED BY <3>1 DEF MapBooked
  <2> QED BY <2>1, <2>2
<1>13. MapBooked(m2, s, p2, d2, n + 1)
  BY <1>8, <1>9, <1>10, <1>11, <1>12 DEF MapBooked
<1>14. Kept(c, m2, KeysOf(p2), d2, safe)
  <2> SUFFICES ASSUME NEW x \in c
               PROVE  \E j \in DOMAIN m2 \ KeysOf(p2) : m2[j].sum = x /\ Solid(d2, m2[j], safe)
    BY DEF Kept
  <2>1. PICK j \in DOMAIN m \ KeysOf(p) : m[j].sum = x /\ Solid(d, m[j], safe)
    BY DEF Kept
  <2>2. j \in DOMAIN m2 \ KeysOf(p2) /\ m2[j] = m[j] /\ m[j] \in Ent
    BY <1>5, <1>8
  <2> QED BY <1>6, <2>1, <2>2
<1> QED BY <1>1, <1>2, <1>4, <1>5, <1>8, <1>13, <1>14 DEF m2, r, p2, b, d2

(* Part of one written.                                                    *)
LEMMA BytesAdded ==
  ASSUME NEW m, IsMap(m), NEW s, IsMap(s), NEW p \in Seq(Rec), NEW d \in Seq(Cells), NEW n \in Nat,
         MapBooked(m, s, p, d, n), NEW b \in Seq(Cells), NEW c, NEW T, NEW safe \in 0..Len(d),
         Kept(c, m, T, d, safe)
  PROVE  MapBooked(m, s, p, d \o b, n + 1) /\ Kept(c, m, T, d \o b, safe)
<1>1. \A x \in Ent : /\ Held(d, x, n) => Held(d \o b, x, n + 1)
                     /\ Solid(d, x, safe) => Solid(d \o b, x, safe)
  BY StillHeld
<1>2. /\ \A j \in DOMAIN m : m[j] \in Ent
      /\ \A j \in DOMAIN s : s[j] \in Ent
      /\ \A i \in 1..Len(p) : p[i].entry \in Ent
  <2>1. \A j \in DOMAIN m : m[j] \in Ent
    BY MapParts
  <2>2. \A j \in DOMAIN s : s[j] \in Ent
    BY MapParts
  <2>3. \A i \in 1..Len(p) : p[i] \in Rec
    OBVIOUS
  <2> QED BY <2>1, <2>2, <2>3 DEF Rec
<1>3. MapBooked(m, s, p, d \o b, n + 1)
  BY <1>1, <1>2 DEF MapBooked
<1>4. Kept(c, m, T, d \o b, safe)
  BY <1>1, <1>2 DEF Kept
<1> QED BY <1>3, <1>4

(* A block dropped.                                                        *)
LEMMA DropBooks ==
  ASSUME NEW m, IsMap(m), NEW s, IsMap(s), NEW p \in Seq(Rec), NEW d \in Seq(Cells), NEW n \in Nat,
         MapBooked(m, s, p, d, n), NEW k \in DOMAIN m, NEW c, NEW safe, Kept(c, m, KeysOf(p), d, safe)
  PROVE  LET m2 == Without(m, k)
             p2 == Append(p, Record("drop", k, m[k])) IN
           /\ IsMap(m2) /\ p2 \in Seq(Rec) /\ Record("drop", k, m[k]) \in Rec
           /\ MapBooked(m2, s, p2, d, n) /\ Kept(c \ {m[k].sum}, m2, KeysOf(p2), d, safe)
<1> DEFINE m2 == Without(m, k)
           r == Record("drop", k, m[k])
           p2 == Append(p, r)
<1>1. /\ k \in Keys /\ m[k] \in Ent
      /\ IsMap(m2) /\ DOMAIN m2 = DOMAIN m \ {k} /\ \A j \in DOMAIN m \ {k} : m2[j] = m[j]
  BY MapParts
<1>2. r \in Rec /\ r.key = k /\ r.entry = m[k] /\ r.kind # "put"
  BY <1>1 DEF Record, Rec
<1> HIDE DEF m2, r
<1>3. Later(s, p2, m2) /\ p2 \in Seq(Rec) /\ KeysOf(p2) = KeysOf(p) \cup {k}
  <2>1. SaysAt(r, m2)
    BY <1>1, <1>2 DEF SaysAt
  <2>2. AgreeBut(m2, m, r.key)
    BY <1>1, <1>2 DEF AgreeAt, AgreeBut
  <2>3. Later(s, p, m)
    BY DEF MapBooked
  <2>4. MoreWaits(s, p2, p, m2, r)
    BY <1>2, <2>1, <2>2, <2>3, LaterBy
  <2> QED BY <1>2, <2>4 DEF MoreWaits
<1>4. \A i \in 1..Len(p2) : Held(d, p2[i].entry, n)
  <2> SUFFICES ASSUME NEW i \in 1..Len(p2) PROVE Held(d, p2[i].entry, n)
    OBVIOUS
  <2>1. CASE i = Len(p) + 1
    BY <1>2, <2>1 DEF MapBooked
  <2>2. CASE i # Len(p) + 1
    <3>1. i \in 1..Len(p) /\ p2[i] = p[i]
      BY <2>2
    <3> QED BY <3>1 DEF MapBooked
  <2> QED BY <2>1, <2>2
<1> HIDE DEF p2
<1>5. MapBooked(m2, s, p2, d, n)
  <2>1. \A j \in DOMAIN m2 : Held(d, m2[j], n)
    BY <1>1 DEF MapBooked
  <2>2. \A j \in DOMAIN m2 \cap DOMAIN s : j \in KeysOf(p2) => m2[j].sum # s[j].sum
    BY <1>1, <1>3 DEF MapBooked
  <2> QED BY <1>3, <1>4, <2>1, <2>2 DEF MapBooked
<1>6. Kept(c \ {m[k].sum}, m2, KeysOf(p2), d, safe)
  <2> SUFFICES ASSUME NEW x \in c \ {m[k].sum}
               PROVE  \E j \in DOMAIN m2 \ KeysOf(p2) : m2[j].sum = x /\ Solid(d, m2[j], safe)
    BY DEF Kept
  <2>1. PICK j \in DOMAIN m \ KeysOf(p) : m[j].sum = x /\ Solid(d, m[j], safe)
    BY DEF Kept
  <2>2. j # k
    BY <2>1
  <2> QED BY <1>1, <1>3, <2>1, <2>2
<1> QED BY <1>1, <1>2, <1>3, <1>5, <1>6 DEF m2, r, p2

(* Nothing waits.                                                          *)
LEMMA NoneWaits ==
  ASSUME NEW m, NEW d, NEW n, \A k \in DOMAIN m : Held(d, m[k], n)
  PROVE  MapBooked(m, m, <<>>, d, n) /\ KeysOf(<<>>) = {}
<1>1. Len(<<>>) = 0 /\ DOMAIN <<>> = {} /\ 1..0 = {}
  OBVIOUS
<1>2. KeysOf(<<>>) = {}
  BY <1>1 DEF KeysOf
<1>3. Later(m, <<>>, m)
  BY <1>1 DEF Later, AgreeAt
<1> QED BY <1>1, <1>2, <1>3 DEF MapBooked

(* What a store leaves that stops, or crashes.                             *)
LEMMA StoreLeaves ==
  ASSUME NEW l \in Logs, NEW u \in Nat, NEW v, NEW p \in Seq(Rec), NEW T, T \subseteq KeysOf(p),
         NEW s, IsMap(s), NEW m, IsMap(m), LogTail(l, u, v, p, T), Says(l, u, s),
         NEW d \in Seq(Cells), NEW n \in Nat, MapBooked(m, s, p, d, n),
         NEW safe \in 0..Len(d), NEW d2, Shrunk(d2, d, safe),
         NEW c, Kept(c, m, KeysOf(p), d, safe)
  PROVE  Leaves(l, s, T, d2, n, c, safe)
<1> DEFINE M == Replay(l)
<1>1. FromLog(M, s, p, T)
  BY TailReplays
<1>2. \A k \in DOMAIN M : k \in Keys /\ M[k] \in Ent
  BY ReplaySays, MapParts DEF LogTail
<1> HIDE DEF M
<1>3. ASSUME NEW k \in DOMAIN M PROVE M[k].sum <= n /\ Owned(d2, M[k])
  <2>1. Held(d, M[k], n)
    BY <1>1 DEF MapBooked, FromLog
  <2> QED BY <1>2, <2>1, OwnedLeft DEF Held
<1>4. ASSUME NEW x \in c PROVE \E k \in DOMAIN M \ {} : M[k].sum = x /\ Solid(d2, M[k], safe)
  <2>1. PICK k \in DOMAIN m \ KeysOf(p) : m[k].sum = x /\ Solid(d, m[k], safe)
    BY DEF Kept
  <2>2. k \in Keys /\ m[k] \in Ent
    BY MapParts
  <2>3. AgreeAt(m, s, k) /\ AgreeAt(M, s, k)
    BY <1>1, <2>1, <2>2 DEF MapBooked, Later, FromLog
  <2>4. k \in DOMAIN M /\ M[k] = m[k]
    BY <2>1, <2>3 DEF AgreeAt
  <2>5. Solid(d2, m[k], safe)
    BY <2>1, <2>2, OwnedLeft
  <2> QED BY <2>1, <2>4, <2>5
<1> QED BY <1>1, <1>3, <1>4 DEF Leaves, Kept, M, FromLog

----------------------------------------------------------------------------
(* Steps.                                                                  *)

(* A store that stops, ...                                                 *)
LEMMA StoppedInv ==
  ASSUME TypeInv, Stopped, blocks' = blocks,
         data' \in Seq(Cells), flushed' \in 0..Len(data'), log' \in Logs \cup {NoLog},
         IsMap(synced'), failed' \in BOOLEAN, torn' \in SUBSET Keys,
         log' # NoLog => Leaves(log', synced', torn', data', blocks', Safe', flushed'),
         log' = NoLog => Safe' = {}
  PROVE  IInv'
<1>1. TypeInv'
  <2>1. IsMap(map') /\ pending' \in Seq(Rec)
    BY EmptyMap DEF Stopped
  <2> QED BY <2>1 DEF TypeInv, Stopped
<1>2. DownInv'
  BY DEF DownInv
<1>3. UpInv' /\ RewritingInv'
  BY DEF UpInv, RewritingInv, Stopped
<1> QED BY <1>1, <1>2, <1>3 DEF IInv

(* ... one whose pending records stay as they are, in a log some of them   *)
(* may have been written to, and whose data file a crash may damage, ...   *)
LEMMA LeavesInv ==
  ASSUME TypeInv, Stopped, blocks' = blocks, NEW n, NEW T \in SUBSET Keys,
         log' \in Logs, log' # NoLog, synced' = synced, failed' \in BOOLEAN, torn' = T,
         T \subseteq KeysOf(pending), LogTail(log', logEnd, n, pending, T),
         Says(log', logEnd, synced), MapBooked(map, synced, pending, data, blocks),
         flushed' \in 0..Len(data), Shrunk(data', data, flushed'),
         Kept(Safe', map, KeysOf(pending), data, flushed')
  PROVE  IInv'
<1>1. PICK l, c, d, safe :
        l = log' /\ c = Safe' /\ d = data' /\ safe = flushed' /\ l \in Logs /\ safe \in 0..Len(data)
  OBVIOUS
<1>2. /\ data \in Seq(Cells) /\ pending \in Seq(Rec) /\ IsMap(map) /\ IsMap(synced)
      /\ blocks \in Nat /\ logEnd \in Nat
  BY DEF TypeInv
<1>3. LogTail(l, logEnd, n, pending, T) /\ Says(l, logEnd, synced)
  BY <1>1
<1>4. Shrunk(d, data, safe) /\ Kept(c, map, KeysOf(pending), data, safe)
  BY <1>1
<1>5. Leaves(l, synced, T, d, blocks, c, safe)
  BY <1>1, <1>2, <1>3, <1>4, StoreLeaves
<1>6. Leaves(log', synced', torn', data', blocks', Safe', flushed')
  BY <1>1, <1>5
<1>7. data' \in Seq(Cells) /\ flushed' \in 0..Len(data')
  BY <1>1, <1>2, <1>4 DEF Shrunk
<1>8. IsMap(synced')
  BY <1>2
<1> QED BY <1>6, <1>7, <1>8, StoppedInv

(* ... and one that opens.                                                 *)
LEMMA OpenedInv ==
  ASSUME Constants, TypeInv, NEW m, IsMap(m), NEW l \in Logs, log' = l,
         Opened(m, Len(l)), Says(l, Len(l), m), LogTail(l, Len(l), Len(l), <<>>, {}),
         UNCHANGED <<data, flushed, blocks, Safe>>,
         \A k \in DOMAIN m : Held(data, m[k], blocks), Kept(Safe, m, {}, data, flushed)
  PROVE  IInv'
<1>1. Len(l) \in Nat /\ <<>> \in Seq(Rec) /\ Len(data) \in Nat
  BY DEF Logs, TypeInv
<1>2. TypeInv'
  BY <1>1 DEF TypeInv, Opened
<1>3. LogBooked(l, Len(l), m, <<>>, FALSE, {})
  BY <1>1, WholeLog
<1>4. MapBooked(m, m, <<>>, data, blocks) /\ KeysOf(<<>>) = {}
  BY NoneWaits
<1>5. l # NoLog
  BY DEF Constants
<1>6. UpInv'
  <2>1. LogBooked(log', logEnd', synced', pending', failed', torn')
    BY <1>3 DEF Opened
  <2>2. MapBooked(map', synced', pending', data', blocks')
    BY <1>4 DEF Opened
  <2>3. Kept(Safe', map', KeysOf(pending'), data', flushed')
    BY <1>4 DEF Opened
  <2>4. end' = Len(data')
    BY DEF Opened
  <2> QED BY <1>5, <2>1, <2>2, <2>3, <2>4 DEF UpInv
<1>7. DownInv' /\ RewritingInv'
  BY DEF DownInv, RewritingInv, Opened
<1> QED BY <1>2, <1>6, <1>7 DEF IInv

LEMMA OpenLogStep ==
  ASSUME Constants, IInv, OpenLog
  PROVE  IInv'
<1> DEFINE m == Replay(log)
           v == ValidPart(log)
           l == SubSeq(log, 1, v)
<1>1. TypeInv /\ phase = "down" /\ log \in Logs /\ log # NoLog
  BY DEF IInv, TypeInv, OpenLog
<1>2. Valid(log, v) /\ Says(log, v, m) /\ IsMap(m)
  <2>1. PICK n : Valid(log, n)
    BY <1>1, ValidExists DEF Logs
  <2>2. v = n
    BY <1>1, <2>1, ValidIs DEF Logs
  <2> QED BY <1>1, <2>1, <2>2, ReplaySays
<1>3. Leaves(log, synced, torn, data, blocks, Safe, flushed)
  BY <1>1 DEF IInv, DownInv
<1>4. Within(m) = DOMAIN m /\ Opened(m, v) /\ log' = l /\ UNCHANGED <<data, flushed, blocks, Safe>>
  BY DEF OpenLog, Safe
<1> HIDE DEF m, v
<1>5. v \in 0..Len(log) /\ \A i \in 1..v : log[i] # Damaged
  BY <1>2 DEF Valid
<1>6. l \in Logs /\ Len(l) = v /\ \A i \in 1..v : l[i] = log[i]
  BY <1>1, <1>5 DEF Logs
<1> HIDE DEF l
<1>7. Says(l, v, m)
  <2>1. ASSUME NEW i \in 1..v, Final(l, v, i) PROVE SaysAt(l[i], m)
    <3>1. Final(log, v, i)
      <4>1. \A j \in (i + 1)..v : j \in 1..v
        BY <1>5
      <4> QED BY <1>6, <2>1, <4>1 DEF Final
    <3> QED BY <1>2, <1>6, <3>1 DEF Says
  <2>2. \A k \in DOMAIN m : \E i \in 1..v : l[i].key = k
    BY <1>2, <1>6 DEF Says
  <2> QED BY <2>1, <2>2 DEF Says
<1>8. LogTail(l, v, v, <<>>, {})
  BY <1>5, <1>6 DEF LogTail, Valid
<1>9. \A k \in DOMAIN m : Held(data, m[k], blocks)
  BY <1>3, <1>4 DEF Leaves, Within, Whole, Held, m
<1>10. Kept(Safe, m, {}, data, flushed)
  BY <1>3 DEF Leaves, m
<1> QED BY <1>1, <1>2, <1>4, <1>6, <1>7, <1>8, <1>9, <1>10, OpenedInv

(* Entries within the data file are left by a start that rewrites the log. *)
LEMMA OpenAnewStep ==
  ASSUME Constants, IInv, OpenAnew
  PROVE  IInv'
<1> DEFINE m == IF log = NoLog THEN <<>> ELSE Replay(log)
           w == Restrict(m, Within(m))
<1>1. TypeInv /\ phase = "down" /\ phase' = "rewriting" /\ log' = NoLog /\ map' = w
  BY DEF IInv, OpenAnew
<1>2. UNCHANGED <<end, logEnd, pending, failed, blocks, synced, torn, Safe>>
  BY DEF OpenAnew, Safe
<1>3. CASE log = NoLog
  <2>1. m = <<>> /\ IsMap(m) /\ DOMAIN m = {} /\ Safe = {} /\ data' = <<>> /\ flushed' = 0
    BY <1>1, <1>3, EmptyMap DEF IInv, DownInv, OpenAnew
  <2>2. Within(m) = {}
    BY <2>1 DEF Within
  <2> HIDE DEF m
  <2>3. IsMap(w) /\ DOMAIN w = {}
    BY <2>1, <2>2, MapParts
  <2>4. <<>> \in Seq(Cells) /\ Len(<<>>) = 0
    OBVIOUS
  <2> HIDE DEF w
  <2>5. TypeInv'
    BY <1>1, <1>2, <2>1, <2>3, <2>4 DEF TypeInv
  <2>6. RewritingInv'
    BY <1>1, <1>2, <2>1, <2>3 DEF RewritingInv, Kept
  <2> QED BY <1>1, <2>5, <2>6 DEF IInv, UpInv, DownInv
<1>4. CASE log # NoLog
  <2>1. m = Replay(log) /\ data' = data /\ flushed' = flushed /\ log \in Logs
    BY <1>1, <1>4 DEF OpenAnew, TypeInv
  <2>2. IsMap(m)
    <3>1. PICK n : Valid(log, n)
      BY <2>1, ValidExists DEF Logs
    <3> QED BY <2>1, <3>1, ReplaySays
  <2>3. Leaves(log, synced, torn, data, blocks, Safe, flushed)
    BY <1>1, <1>4 DEF IInv, DownInv
  <2> HIDE DEF m
  <2>4. \A k \in DOMAIN m : m[k].sum <= blocks /\ Owned(data, m[k])
    BY <2>1, <2>3 DEF Leaves
  <2>5. Kept(Safe, m, {}, data, flushed)
    BY <2>1, <2>3 DEF Leaves
  <2>6. Within(m) \in SUBSET DOMAIN m /\ \A k \in Within(m) : Whole(m[k])
    BY DEF Within
  <2>7. IsMap(w) /\ DOMAIN w = Within(m) /\ \A k \in Within(m) : w[k] = m[k]
    BY <2>2, <2>6, MapParts
  <2>8. \A k \in DOMAIN m : m[k] \in Ent
    BY <2>2, MapParts
  <2> HIDE DEF w
  <2>9. \A k \in DOMAIN w : Held(data, w[k], blocks)
    BY <2>4, <2>6, <2>7 DEF Held, Whole
  <2>10. Kept(Safe, w, {}, data, flushed)
    <3> SUFFICES ASSUME NEW x \in Safe
                 PROVE  \E k \in DOMAIN w \ {} : w[k].sum = x /\ Solid(data, w[k], flushed)
      BY DEF Kept
    <3>1. PICK k \in DOMAIN m : m[k].sum = x /\ Solid(data, m[k], flushed)
      BY <2>5 DEF Kept
    <3>2. k \in Within(m)
      <4>1. /\ m[k].off \in Nat /\ m[k].len \in Nat /\ flushed \in 0..Len(data)
            /\ Len(data) \in Nat /\ m[k].off + m[k].len <= flushed
        BY <1>1, <2>8, <3>1 DEF Ent, TypeInv, Solid
      <4>2. m[k].off + m[k].len <= Len(data)
        BY <4>1
      <4> QED BY <3>1, <4>2 DEF Within, Whole
    <3> QED BY <2>7, <3>1, <3>2
  <2>11. TypeInv'
    BY <1>1, <1>2, <2>1, <2>7 DEF TypeInv
  <2>12. RewritingInv'
    BY <1>1, <1>2, <2>1, <2>9, <2>10 DEF RewritingInv
  <2> QED BY <1>1, <2>11, <2>12 DEF IInv, UpInv, DownInv
<1> QED BY <1>3, <1>4

(* A new log has one record of each entry.                                 *)
LEMMA NewLogIs ==
  ASSUME Constants, IsMap(map), NEW l \in NewLogs
  PROVE  /\ l \in Seq(Rec)
         /\ \A i \in 1..Len(l) : /\ l[i].key \in DOMAIN map /\ l[i].kind = "put"
                                 /\ l[i].entry = map[l[i].key]
         /\ \A k \in DOMAIN map : \E i \in 1..Len(l) : l[i].key = k
<1> DEFINE D == DOMAIN map
           N == Cardinality(D)
<1>1. PICK ks \in SetToSeqs(D) : l = [i \in DOMAIN ks |-> Record("put", ks[i], map[ks[i]])]
  BY DEF NewLogs
<1>2. ks \in [1..N -> D] /\ \A i, j \in 1..N : i # j => ks[i] # ks[j]
  BY <1>1 DEF SetToSeqs
<1>3. IsFiniteSet(D) /\ N \in Nat
  <2>1. D \in SUBSET Keys
    BY DEF IsMap
  <2>2. IsFiniteSet(D)
    BY <2>1, FS_Subset DEF Constants
  <2> QED BY <2>2, FS_CardinalityType
<1>4. \A k \in D : \E i \in 1..N : ks[i] = k
  <2>1. ks \in Injection(1..N, D)
    BY <1>2 DEF Injection, IsInjective
  <2>2. Cardinality(1..N) = N
    <3>1. Cardinality(1..N) = IF 1 > N THEN 0 ELSE N - 1 + 1
      BY <1>3, FS_Interval
    <3> QED BY <1>3, <3>1
  <2>3. ks \in Surjection(1..N, D)
    <3> HIDE DEF D
    <3>1. PICK S : S = 1..N
      OBVIOUS
    <3>2. Cardinality(S) = Cardinality(D)
      BY <2>2, <3>1
    <3>3. ks \in Injection(S, D)
      BY <2>1, <3>1
    <3>4. ks \in Surjection(S, D)
      BY <1>3, <3>2, <3>3, FS_Injection
    <3> QED BY <3>1, <3>4
  <2> QED BY <2>3 DEF Surjection
<1>5. \A k \in D : k \in Keys /\ map[k] \in Ent
  BY MapParts
<1> HIDE DEF N, D
<1>6. DOMAIN l = 1..N /\ \A i \in 1..N : /\ ks[i] \in D /\ l[i] = Record("put", ks[i], map[ks[i]])
                                         /\ l[i] \in Rec
  BY <1>1, <1>2, <1>5 DEF Record, Rec
<1>7. l \in Seq(Rec) /\ Len(l) = N
  <2>1. l \in [1..N -> Rec]
    BY <1>1, <1>2, <1>6
  <2> QED BY <1>3, <2>1
<1>8. \A i \in 1..N : l[i].key = ks[i] /\ l[i].kind = "put" /\ l[i].entry = map[ks[i]]
  BY <1>6 DEF Record
<1>9. \A i \in 1..Len(l) : /\ l[i].key \in DOMAIN map /\ l[i].kind = "put"
                           /\ l[i].entry = map[l[i].key]
  BY <1>6, <1>7, <1>8 DEF D
<1>10. \A k \in DOMAIN map : \E i \in 1..Len(l) : l[i].key = k
  BY <1>4, <1>7, <1>8 DEF D
<1> QED BY <1>7, <1>9, <1>10

LEMMA WriteNewLogStep ==
  ASSUME Constants, IInv, WriteNewLog
  PROVE  IInv'
<1>1. TypeInv /\ IsMap(map) /\ phase = "rewriting"
  BY DEF IInv, TypeInv, WriteNewLog
<1>2. PICK l \in NewLogs : log' = l /\ Opened(map, Len(l)) /\ UNCHANGED <<data, flushed, blocks, Safe>>
  BY DEF WriteNewLog, Safe
<1>3. /\ l \in Seq(Rec)
      /\ \A i \in 1..Len(l) : /\ l[i].key \in DOMAIN map /\ l[i].kind = "put"
                              /\ l[i].entry = map[l[i].key]
      /\ \A k \in DOMAIN map : \E i \in 1..Len(l) : l[i].key = k
  BY <1>1, NewLogIs
<1>4. l \in Logs /\ \A i \in 1..Len(l) : l[i] # Damaged
  BY <1>3 DEF Logs, Constants
<1>5. Says(l, Len(l), map)
  BY <1>3 DEF Says, SaysAt
<1>6. LogTail(l, Len(l), Len(l), <<>>, {})
  <2>1. Len(l) \in Nat
    BY <1>3
  <2> QED BY <1>4, <2>1 DEF LogTail, Valid
<1>7. Kept(Safe, map, {}, data, flushed) /\ \A k \in DOMAIN map : Held(data, map[k], blocks)
  BY <1>1 DEF IInv, RewritingInv
<1> QED BY <1>1, <1>2, <1>4, <1>5, <1>6, <1>7, OpenedInv

(* What a sync point that is not due, succeeds or fails leaves.            *)
LEMMA Syncs ==
  ASSUME Constants, TypeInv, log # NoLog, logEnd = Len(log), ~failed,
         NEW m, IsMap(m), NEW p \in Seq(Rec), NEW d, NEW n,
         LogBooked(log, logEnd, synced, p, FALSE, torn), MapBooked(m, synced, p, d, n),
         Kept(Safe, m, KeysOf(p), d, flushed),
         NotSynced(p) \/ SyncPoint(m, p), TornBy(p)
  PROVE  /\ log' \in Logs /\ log' # NoLog /\ logEnd' \in Nat /\ pending' \in Seq(Rec)
         /\ IsMap(synced') /\ failed' \in BOOLEAN /\ torn' \in SUBSET Keys
         /\ LogBooked(log', logEnd', synced', pending', failed', torn')
         /\ MapBooked(m, synced', pending', d, n) /\ Kept(Safe, m, KeysOf(pending'), d, flushed)
<1>1. log \in Logs /\ IsMap(synced) /\ logEnd \in Nat /\ torn \in SUBSET Keys /\ failed = FALSE
  BY DEF TypeInv
<1>2. LogBooked(log, Len(log), synced, p, FALSE, torn)
  OBVIOUS
<1>3. KeysOf(p) \in SUBSET Keys
  <2>1. \A i \in DOMAIN p : p[i] \in Rec
    OBVIOUS
  <2> QED BY <2>1 DEF KeysOf, Rec
<1>4. CASE NotSynced(p)
  <2>1. /\ log' = log /\ logEnd' = logEnd /\ synced' = synced /\ failed' = FALSE
        /\ pending' = p /\ torn' = torn
    BY <1>1, <1>4 DEF NotSynced, TornBy
  <2> QED BY <1>1, <2>1
<1>5. CASE /\ log' = WriteAt(log, logEnd, p) /\ logEnd' = logEnd + Len(p) /\ pending' = <<>>
           /\ synced' = m /\ failed' = failed
  <2>1. torn' = torn /\ failed' = FALSE
    BY <1>1, <1>5 DEF TornBy
  <2>2. PICK q : q = log'
    OBVIOUS
  <2>3. /\ q \in Logs /\ q # NoLog /\ Len(q) = logEnd + Len(p) /\ Len(q) \in Nat
        /\ LogBooked(q, Len(q), m, <<>>, FALSE, torn)
    <3>1. q = WriteAt(log, Len(log), p)
      BY <1>5, <2>2
    <3>2. Later(synced, p, m)
      BY DEF MapBooked
    <3>3. Written(q, log, p, m) /\ torn = {}
      BY <1>1, <1>2, <3>1, <3>2, SyncDone
    <3>4. Len(q) \in Nat
      BY <3>3 DEF Written, Logs
    <3> QED BY <3>3, <3>4 DEF Written
  <2>4. MapBooked(m, m, <<>>, d, n) /\ KeysOf(<<>>) = {}
    BY NoneWaits DEF MapBooked
  <2>5. Kept(Safe, m, {}, d, flushed)
    BY DEF Kept
  <2>6. /\ log' \in Logs /\ log' # NoLog /\ logEnd' \in Nat /\ pending' \in Seq(Rec)
        /\ IsMap(synced') /\ failed' \in BOOLEAN /\ torn' \in SUBSET Keys
    <3>1. <<>> \in Seq(Rec)
      OBVIOUS
    <3> QED BY <1>1, <1>5, <2>1, <2>2, <2>3, <3>1
  <2>7. LogBooked(log', logEnd', synced', pending', failed', torn')
    BY <1>5, <2>1, <2>2, <2>3
  <2>8. MapBooked(m, synced', pending', d, n) /\ Kept(Safe, m, KeysOf(pending'), d, flushed)
    BY <1>5, <2>4, <2>5
  <2> QED BY <2>6, <2>7, <2>8
<1>6. CASE /\ \E j \in 0..(Len(p) - 1) :
                log' = WriteAt(log, logEnd, SubSeq(p, 1, j) \o <<Damaged>>)
           /\ failed' = TRUE /\ pending' = p /\ logEnd' = logEnd /\ synced' = synced
  <2>1. PICK j \in 0..(Len(p) - 1) : log' = WriteAt(log, logEnd, SubSeq(p, 1, j) \o <<Damaged>>)
    BY <1>6
  <2>2. torn' = KeysOf(p)
    BY <1>6 DEF TornBy
  <2>3. PICK q : q = WriteAt(log, Len(log), SubSeq(p, 1, j) \o <<Damaged>>)
    OBVIOUS
  <2>4. q \in Logs /\ q # NoLog /\ LogBooked(q, Len(log), synced, p, TRUE, KeysOf(p))
    BY <1>1, <1>2, <2>3, SyncTorn
  <2>5. log' = q
    BY <2>1, <2>3
  <2>6. /\ log' \in Logs /\ log' # NoLog /\ logEnd' \in Nat /\ pending' \in Seq(Rec)
        /\ IsMap(synced') /\ failed' \in BOOLEAN /\ torn' \in SUBSET Keys
    BY <1>1, <1>3, <1>6, <2>2, <2>4, <2>5
  <2>7. LogBooked(log', logEnd', synced', pending', failed', torn')
    BY <1>6, <2>2, <2>4, <2>5
  <2>8. MapBooked(m, synced', pending', d, n) /\ Kept(Safe, m, KeysOf(pending'), d, flushed)
    BY <1>6
  <2> QED BY <2>6, <2>7, <2>8
<1> QED BY <1>4, <1>5, <1>6 DEF SyncPoint

LEMMA PutStep ==
  ASSUME Constants, IInv, NEW k \in Keys, Put(k)
  PROVE  IInv'
<1> DEFINE n == blocks + 1
           e == Entry(end, k, n)
           m == With(map, k, e)
           p == Append(pending, Record("put", k, e))
<1>1. /\ TypeInv /\ phase = "up" /\ ~failed /\ k \notin DOMAIN map /\ end = Len(data)
      /\ log # NoLog /\ LogBooked(log, logEnd, synced, pending, failed, torn)
      /\ MapBooked(map, synced, pending, data, blocks)
      /\ Kept(Safe, map, KeysOf(pending), data, flushed)
  BY DEF IInv, UpInv, Put
<1>2. /\ data' = WriteAt(data, end, Bytes(k, n)) /\ map' = m /\ end' = end + e.len /\ blocks' = n
      /\ NotSynced(p) \/ SyncPoint(m, p)
      /\ TornBy(p) /\ UNCHANGED <<phase, flushed, Safe>>
  BY DEF Put, Safe
<1>3. /\ IsMap(map) /\ IsMap(synced) /\ pending \in Seq(Rec) /\ data \in Seq(Cells) /\ blocks \in Nat
      /\ flushed \in 0..Len(data) /\ log \in Logs /\ Size[k] \in Nat /\ end \in Nat
  BY <1>1 DEF TypeInv, Constants
<1>4. e \in Ent /\ e.off = Len(data) /\ e.len = Size[k] /\ e.sum = blocks + 1
  BY <1>1, <1>3 DEF Entry, Ent
<1>5. data' = data \o Bytes(k, n)
  <2>1. n \in Nat /\ Bytes(k, n) \in Seq(Cells)
    <3>1. PICK x \in Nat : x = n
      BY <1>3
    <3> QED BY <1>3, <3>1, BytesAre
  <2> QED BY <1>1, <1>2, <1>3, <2>1, WriteAtEnd
<1> HIDE DEF e
<1>6. /\ IsMap(m) /\ p \in Seq(Rec) /\ Record("put", k, e) \in Rec
      /\ data' \in Seq(Cells) /\ Len(data') = Len(data) + e.len /\ e.len \in Nat
      /\ MapBooked(m, synced, p, data', n) /\ Kept(Safe, m, KeysOf(p), data', flushed)
  <2>1. k \in Keys \ DOMAIN map
    BY <1>1
  <2>2. PICK c : c = Safe
    OBVIOUS
  <2>3. Kept(c, map, KeysOf(pending), data, flushed)
    BY <1>1, <2>2
  <2>4. /\ IsMap(m) /\ p \in Seq(Rec) /\ Record("put", k, e) \in Rec
        /\ data' \in Seq(Cells) /\ Len(data') = Len(data) + e.len /\ e.len \in Nat
        /\ MapBooked(m, synced, p, data', n) /\ Kept(c, m, KeysOf(p), data', flushed)
    BY <1>1, <1>3, <1>4, <1>5, <2>1, <2>3, PutBooks
  <2> HIDE DEF m, p, n
  <2> QED BY <2>2, <2>4
<1>7. LogBooked(log, logEnd, synced, p, FALSE, torn) /\ logEnd = Len(log)
  <2>1. logEnd = Len(log) /\ failed = FALSE
    BY <1>1 DEF LogBooked, TypeInv
  <2> QED BY <1>1, <1>3, <1>6, <2>1, LogWaits
<1> HIDE DEF m, p, n
<1>8. PICK d : d = data'
  OBVIOUS
<1>9. MapBooked(m, synced, p, d, n) /\ Kept(Safe, m, KeysOf(p), d, flushed)
  BY <1>6, <1>8
<1>10. /\ log' \in Logs /\ log' # NoLog /\ logEnd' \in Nat /\ pending' \in Seq(Rec)
       /\ IsMap(synced') /\ failed' \in BOOLEAN /\ torn' \in SUBSET Keys
       /\ LogBooked(log', logEnd', synced', pending', failed', torn')
       /\ MapBooked(m, synced', pending', d, n) /\ Kept(Safe, m, KeysOf(pending'), d, flushed)
  BY <1>1, <1>2, <1>6, <1>7, <1>9, Syncs
<1>11. TypeInv'
  <2>1. n \in Nat /\ end' \in Nat /\ flushed' \in 0..Len(data')
    BY <1>2, <1>3, <1>6 DEF n
  <2> QED BY <1>1, <1>2, <1>6, <1>10, <2>1 DEF TypeInv
<1>12. UpInv'
  <2>1. end' = Len(data')
    BY <1>1, <1>2, <1>6
  <2> QED BY <1>2, <1>8, <1>10, <2>1 DEF UpInv
<1>13. DownInv' /\ RewritingInv'
  BY <1>1, <1>2 DEF DownInv, RewritingInv
<1> QED BY <1>11, <1>12, <1>13 DEF IInv

LEMMA PutFailsStep ==
  ASSUME Constants, IInv, NEW k \in Keys, PutFails(k)
  PROVE  IInv'
<1>1. /\ TypeInv /\ phase = "up" /\ ~failed /\ end = Len(data)
      /\ log # NoLog /\ LogBooked(log, logEnd, synced, pending, failed, torn)
      /\ MapBooked(map, synced, pending, data, blocks)
      /\ Kept(Safe, map, KeysOf(pending), data, flushed)
  BY DEF IInv, UpInv, PutFails
<1>2. PICK j \in 0..(Size[k] - 1) :
        data' = WriteAt(data, end, SubSeq(Bytes(k, blocks + 1), 1, j))
  BY DEF PutFails, Safe
<1>3. /\ blocks' = blocks + 1 /\ failed' = TRUE
      /\ UNCHANGED <<phase, flushed, log, map, end, logEnd, pending, synced, torn, Safe>>
  BY DEF PutFails, Safe
<1>4. /\ IsMap(map) /\ IsMap(synced) /\ pending \in Seq(Rec) /\ data \in Seq(Cells) /\ blocks \in Nat
      /\ flushed \in 0..Len(data) /\ log \in Logs /\ Size[k] \in Nat /\ end \in Nat
  BY <1>1 DEF TypeInv, Constants
<1>5. PICK b \in Seq(Cells) : data' = data \o b
  <2>1. PICK x \in Nat : x = blocks + 1
    BY <1>4
  <2>2. PICK z \in Nat : z = Size[k]
    BY <1>4
  <2>3. Bytes(k, x) \in Seq(Cells) /\ Len(Bytes(k, x)) = z
    BY <1>4, <2>2, BytesAre
  <2>4. j \in 0..z
    BY <1>2, <2>2
  <2>5. SubSeq(Bytes(k, x), 1, j) \in Seq(Cells)
    BY <2>3, <2>4
  <2> QED BY <1>1, <1>2, <1>4, <2>1, <2>5, WriteAtEnd
<1>6. /\ MapBooked(map, synced, pending, data \o b, blocks + 1)
      /\ Kept(Safe, map, KeysOf(pending), data \o b, flushed)
  BY <1>1, <1>4, BytesAdded
<1>7. TypeInv'
  <2>1. data' \in Seq(Cells) /\ flushed' \in 0..Len(data')
    BY <1>3, <1>4, <1>5
  <2> QED BY <1>1, <1>3, <1>4, <2>1 DEF TypeInv
<1>8. UpInv'
  <2>1. LogBooked(log', logEnd', synced', pending', failed', torn')
    BY <1>1, <1>3 DEF LogBooked
  <2> QED BY <1>1, <1>3, <1>5, <1>6, <2>1 DEF UpInv
<1>9. DownInv' /\ RewritingInv'
  BY <1>1, <1>3 DEF DownInv, RewritingInv
<1> QED BY <1>7, <1>8, <1>9 DEF IInv

LEMMA FlushStep ==
  ASSUME Constants, IInv, Flush
  PROVE  IInv'
<1>1. /\ TypeInv /\ phase = "up" /\ ~failed /\ end = Len(data)
      /\ log # NoLog /\ LogBooked(log, logEnd, synced, pending, failed, torn)
      /\ MapBooked(map, synced, pending, data, blocks)
      /\ Kept(Safe, map, KeysOf(pending), data, flushed)
  BY DEF IInv, UpInv, Flush
<1>2. /\ SyncPoint(map, pending) /\ TornBy(pending)
      /\ UNCHANGED <<phase, data, flushed, map, end, blocks, Safe>>
  BY DEF Flush, Safe
<1>3. /\ IsMap(map) /\ pending \in Seq(Rec) /\ logEnd = Len(log)
      /\ LogBooked(log, logEnd, synced, pending, FALSE, torn)
  BY <1>1 DEF TypeInv, LogBooked
<1>4. /\ log' \in Logs /\ log' # NoLog /\ logEnd' \in Nat /\ pending' \in Seq(Rec)
      /\ IsMap(synced') /\ failed' \in BOOLEAN /\ torn' \in SUBSET Keys
      /\ LogBooked(log', logEnd', synced', pending', failed', torn')
      /\ MapBooked(map, synced', pending', data, blocks)
      /\ Kept(Safe, map, KeysOf(pending'), data, flushed)
  BY <1>1, <1>2, <1>3, Syncs
<1>5. TypeInv'
  BY <1>1, <1>2, <1>4 DEF TypeInv
<1>6. UpInv'
  BY <1>1, <1>2, <1>4 DEF UpInv
<1>7. DownInv' /\ RewritingInv'
  BY <1>1, <1>2 DEF DownInv, RewritingInv
<1> QED BY <1>5, <1>6, <1>7 DEF IInv

LEMMA DropStep ==
  ASSUME Constants, IInv, NEW k \in DOMAIN map, phase = "up", Drop(k),
         UNCHANGED <<phase, data, flushed, log, end, logEnd, failed, blocks, synced, torn, exposed>>
  PROVE  IInv'
<1> DEFINE m == Without(map, k)
           r == Record("drop", k, map[k])
           p == Append(pending, r)
           c == Safe \ {map[k].sum}
<1>1. /\ TypeInv /\ log # NoLog /\ LogBooked(log, logEnd, synced, pending, failed, torn)
      /\ MapBooked(map, synced, pending, data, blocks)
      /\ Kept(Safe, map, KeysOf(pending), data, flushed)
      /\ ~failed => end = Len(data)
  BY DEF IInv, UpInv
<1>2. map' = m /\ pending' = p /\ Safe' = c
  BY DEF Drop, Safe
<1>3. /\ IsMap(map) /\ IsMap(synced) /\ pending \in Seq(Rec) /\ data \in Seq(Cells) /\ blocks \in Nat
      /\ log \in Logs
  BY <1>1 DEF TypeInv
<1>4. /\ IsMap(m) /\ p \in Seq(Rec) /\ r \in Rec
      /\ MapBooked(m, synced, p, data, blocks) /\ Kept(c, m, KeysOf(p), data, flushed)
  BY <1>1, <1>3, DropBooks
<1>5. LogBooked(log, logEnd, synced, p, failed, torn)
  BY <1>1, <1>3, <1>4, LogWaits
<1> HIDE DEF m, r, p, c
<1>6. TypeInv'
  BY <1>1, <1>2, <1>4 DEF TypeInv
<1>7. UpInv'
  BY <1>1, <1>2, <1>4, <1>5 DEF UpInv
<1>8. DownInv' /\ RewritingInv'
  BY DEF DownInv, RewritingInv
<1> QED BY <1>6, <1>7, <1>8 DEF IInv

LEMMA GetFailsStep ==
  ASSUME IInv, GetFails
  PROVE  IInv'
<1>1. /\ failed' = TRUE /\ phase = "up"
      /\ UNCHANGED <<phase, data, flushed, log, map, end, logEnd, pending, blocks, synced, torn, Safe>>
  BY DEF GetFails, Safe
<1>2. TypeInv'
  BY <1>1 DEF IInv, TypeInv
<1>3. UpInv'
  <2>1. LogBooked(log', logEnd', synced', pending', failed', torn')
    BY <1>1 DEF IInv, UpInv, LogBooked
  <2> QED BY <1>1, <2>1 DEF IInv, UpInv
<1>4. DownInv' /\ RewritingInv'
  BY <1>1 DEF DownInv, RewritingInv
<1> QED BY <1>2, <1>3, <1>4 DEF IInv

(* What SubSeq takes.                                                      *)
LEMMA SubSeqParts ==
  ASSUME NEW C, NEW d \in Seq(C), NEW o \in Nat, NEW z \in Nat, o + z <= Len(d)
  PROVE  LET q == SubSeq(d, o + 1, o + z) IN
           q \in Seq(C) /\ Len(q) = z /\ \A i \in 1..z : q[i] = d[o + i]
<1>1. SubSeq(d, o + 1, o + z) \in Seq(C) /\ Len(SubSeq(d, o + 1, o + z)) = z
  OBVIOUS
<1>2. \A i \in 1..z : SubSeq(d, o + 1, o + z)[i] = d[o + i]
  OBVIOUS
<1> QED BY <1>1, <1>2

(* A block that reads back as it was written.                              *)
LEMMA MatchesSolid ==
  ASSUME TypeInv, NEW e \in Ent
  PROVE  /\ Matches(e) => Solid(data, e, Len(data))
         /\ Solid(data, e, flushed) => Matches(e)
<1> DEFINE b == SubSeq(data, e.off + 1, e.off + e.len)
           w == [i \in 1..e.len |-> <<e.sum, i>>]
<1>1. data \in Seq(Cells) /\ flushed \in 0..Len(data) /\ Len(data) \in Nat
  BY DEF TypeInv
<1>2. PICK o \in Nat, z \in Nat : o = e.off /\ z = e.len
  BY DEF Ent
<1>3. ASSUME o + z <= Len(data)
      PROVE  b \in [1..z -> Cells] /\ \A i \in 1..z : b[i] = data[o + i]
  <2>1. PICK q : q = SubSeq(data, o + 1, o + z)
    OBVIOUS
  <2>2. q \in Seq(Cells) /\ Len(q) = z /\ \A i \in 1..z : q[i] = data[o + i]
    BY <1>1, <1>3, <2>1, SubSeqParts
  <2>3. q \in [1..z -> Cells]
    BY <2>2
  <2>4. b = q
    BY <1>2, <2>1
  <2> HIDE DEF b
  <2> QED BY <2>2, <2>3, <2>4
<1>4. w = [i \in 1..z |-> <<e.sum, i>>]
  BY <1>2
<1>5. Whole(e) <=> o + z <= Len(data)
  BY <1>2 DEF Whole
<1>6. Matches(e) <=> Whole(e) /\ b = w
  BY DEF Matches
<1>7. \A safe : Solid(data, e, safe) <=> o + z <= safe /\ \A i \in 1..z : data[o + i] = <<e.sum, i>>
  BY <1>2 DEF Solid
<1> HIDE DEF b, w
<1>8. ASSUME Matches(e) PROVE Solid(data, e, Len(data))
  <2>1. o + z <= Len(data) /\ b = w
    BY <1>5, <1>6, <1>8
  <2>2. \A i \in 1..z : data[o + i] = <<e.sum, i>>
    BY <1>3, <1>4, <2>1
  <2> QED BY <1>7, <2>1, <2>2
<1>9. ASSUME Solid(data, e, flushed) PROVE Matches(e)
  <2>1. o + z <= flushed /\ \A i \in 1..z : data[o + i] = <<e.sum, i>>
    BY <1>7, <1>9
  <2>2. o + z <= Len(data)
    BY <1>1, <2>1
  <2>3. b \in [1..z -> Cells] /\ \A i \in 1..z : b[i] = <<e.sum, i>>
    BY <1>3, <2>1, <2>2
  <2>4. b = w
    BY <1>4, <2>3
  <2> QED BY <1>5, <1>6, <2>2, <2>4
<1> QED BY <1>8, <1>9

LEMMA DataWhole ==
  ASSUME NEW d \in Seq(Cells)
  PROVE  Shrunk(d, d, Len(d)) /\ Len(d) \in 0..Len(d)
BY DEF Shrunk

LEMMA CloseStep ==
  ASSUME Constants, IInv, Close
  PROVE  IInv'
<1>1. /\ TypeInv /\ phase = "up" /\ log # NoLog
      /\ LogBooked(log, logEnd, synced, pending, failed, torn)
      /\ MapBooked(map, synced, pending, data, blocks)
  BY DEF IInv, UpInv, Close
<1>2. /\ flushed' = Len(data) /\ Stopped /\ data' = data /\ blocks' = blocks /\ TornBy(pending)
      /\ Safe' = {map[k].sum : k \in {k \in DOMAIN map \cap DOMAIN synced' :
                                          synced'[k] = map[k] /\ Matches(map[k])}}
  BY DEF Close, Safe
<1>3. /\ IsMap(map) /\ IsMap(synced) /\ pending \in Seq(Rec) /\ data \in Seq(Cells) /\ blocks \in Nat
      /\ log \in Logs /\ logEnd \in Nat /\ failed \in BOOLEAN /\ torn \in SUBSET Keys
  BY <1>1 DEF TypeInv
<1>4. Shrunk(data', data, flushed') /\ flushed' \in 0..Len(data)
  BY <1>2, <1>3, DataWhole
<1>5. \A k \in DOMAIN map : map[k] \in Ent /\ (Matches(map[k]) => Solid(data, map[k], Len(data)))
  BY <1>1, <1>3, MapParts, MatchesSolid
<1>6. ASSUME synced' = synced PROVE Kept(Safe', map, KeysOf(pending), data, flushed')
  <2> SUFFICES ASSUME NEW x \in Safe'
               PROVE  \E k \in DOMAIN map \ KeysOf(pending) :
                        map[k].sum = x /\ Solid(data, map[k], flushed')
    BY DEF Kept
  <2>1. PICK k \in DOMAIN map \cap DOMAIN synced :
          synced[k] = map[k] /\ Matches(map[k]) /\ map[k].sum = x
    BY <1>2, <1>6
  <2>2. k \notin KeysOf(pending)
    BY <1>1, <2>1 DEF MapBooked
  <2> QED BY <1>2, <1>5, <2>1, <2>2
<1>7. CASE failed \/ pending = <<>>
  <2>1. log' = log /\ failed' = failed /\ synced' = synced
    BY <1>7 DEF Close
  <2>2. torn' = torn
    BY <1>2, <2>1 DEF TornBy
  <2>3. PICK n : LogTail(log, logEnd, n, pending, torn)
    BY <1>1 DEF LogBooked
  <2>4. Says(log, logEnd, synced) /\ torn \subseteq KeysOf(pending)
    BY <1>1 DEF LogBooked
  <2>5. LogTail(log', logEnd, n, pending, torn) /\ Says(log', logEnd, synced)
    BY <2>1, <2>3, <2>4
  <2>6. log' \in Logs /\ log' # NoLog /\ failed' \in BOOLEAN
    BY <1>1, <1>3, <2>1
  <2> QED BY <1>1, <1>2, <1>3, <1>4, <1>6, <2>1, <2>2, <2>4, <2>5, <2>6, LeavesInv
<1>8. CASE ~failed /\ log' = WriteAt(log, logEnd, pending) /\ synced' = map /\ failed' = failed
  <2>1. logEnd = Len(log) /\ LogBooked(log, Len(log), synced, pending, FALSE, torn)
    BY <1>1, <1>3, <1>8 DEF LogBooked
  <2>2. PICK q, c : q = log' /\ c = Safe'
    OBVIOUS
  <2>3. Written(q, log, pending, map) /\ torn = {}
    <3>1. q = WriteAt(log, Len(log), pending)
      BY <1>8, <2>1, <2>2
    <3>2. Later(synced, pending, map)
      BY <1>1 DEF MapBooked
    <3> QED BY <1>3, <2>1, <3>1, <3>2, SyncDone
  <2>4. torn' = {}
    BY <1>2, <1>8, <2>3 DEF TornBy
  <2>5. MapBooked(map, map, <<>>, data, blocks) /\ KeysOf(<<>>) = {}
    BY <1>1, NoneWaits DEF MapBooked
  <2>6. Kept(c, map, KeysOf(<<>>), data, Len(data))
    <3> SUFFICES ASSUME NEW x \in c
                 PROVE  \E k \in DOMAIN map \ {} : map[k].sum = x /\ Solid(data, map[k], Len(data))
      BY <2>5 DEF Kept
    <3>1. PICK k \in DOMAIN map : Matches(map[k]) /\ map[k].sum = x
      BY <1>2, <1>8, <2>2
    <3> QED BY <1>5, <3>1
  <2>7. /\ q \in Logs /\ Len(q) \in Nat /\ <<>> \in Seq(Rec) /\ {} \subseteq KeysOf(<<>>)
        /\ LogTail(q, Len(q), Len(q), <<>>, {}) /\ Says(q, Len(q), map) /\ q # NoLog
    <3>1. Len(q) \in Nat
      BY <2>3 DEF Written, Logs
    <3>2. <<>> \in Seq(Rec)
      OBVIOUS
    <3> QED BY <2>3, <3>1, <3>2 DEF Written
  <2>8. Leaves(q, map, {}, data, blocks, c, Len(data))
    BY <1>3, <2>5, <2>6, <2>7, DataWhole, StoreLeaves
  <2>9. Leaves(log', synced', torn', data', blocks', Safe', flushed')
    BY <1>2, <1>8, <2>2, <2>4, <2>8
  <2>10. /\ data' \in Seq(Cells) /\ flushed' \in 0..Len(data') /\ log' \in Logs /\ log' # NoLog
         /\ IsMap(synced') /\ failed' \in BOOLEAN /\ torn' \in SUBSET Keys
    BY <1>2, <1>3, <1>4, <1>8, <2>2, <2>4, <2>7
  <2> QED BY <1>1, <1>2, <2>9, <2>10, StoppedInv
<1>9. CASE /\ ~failed /\ failed' = TRUE /\ synced' = synced
           /\ \E j \in 0..(Len(pending) - 1) :
                log' = WriteAt(log, logEnd, SubSeq(pending, 1, j) \o <<Damaged>>)
  <2>1. PICK j \in 0..(Len(pending) - 1) :
          log' = WriteAt(log, logEnd, SubSeq(pending, 1, j) \o <<Damaged>>)
    BY <1>9
  <2>2. logEnd = Len(log) /\ LogBooked(log, Len(log), synced, pending, FALSE, torn)
    BY <1>1, <1>3, <1>9 DEF LogBooked
  <2>3. PICK q : q = WriteAt(log, Len(log), SubSeq(pending, 1, j) \o <<Damaged>>)
    OBVIOUS
  <2>4. q \in Logs /\ q # NoLog /\ LogBooked(q, Len(log), synced, pending, TRUE, KeysOf(pending))
    BY <1>3, <2>2, <2>3, SyncTorn
  <2>5. log' = q
    BY <2>1, <2>2, <2>3
  <2>6. PICK n : LogTail(q, logEnd, n, pending, KeysOf(pending))
    BY <2>2, <2>4 DEF LogBooked
  <2>7. LogTail(log', logEnd, n, pending, KeysOf(pending)) /\ Says(log', logEnd, synced)
    BY <2>2, <2>4, <2>5, <2>6 DEF LogBooked
  <2>8. torn' = KeysOf(pending) /\ KeysOf(pending) \in SUBSET Keys
    <3>1. \A i \in DOMAIN pending : pending[i] \in Rec
      BY <1>3
    <3> QED BY <1>2, <1>9, <3>1 DEF TornBy, KeysOf, Rec
  <2>9. log' \in Logs /\ log' # NoLog /\ failed' \in BOOLEAN
    BY <1>9, <2>4, <2>5
  <2> QED BY <1>1, <1>2, <1>4, <1>6, <1>9, <2>7, <2>8, <2>9, LeavesInv
<1> QED BY <1>7, <1>8, <1>9 DEF Close

LEMMA CrashStep ==
  ASSUME Constants, IInv, Crash
  PROVE  IInv'
<1>1. /\ TypeInv /\ phase = "up" /\ log # NoLog
      /\ LogBooked(log, logEnd, synced, pending, failed, torn)
      /\ MapBooked(map, synced, pending, data, blocks)
      /\ Kept(Safe, map, KeysOf(pending), data, flushed)
  BY DEF IInv, UpInv, Crash
<1>2. /\ data' \in DataLeft /\ Stopped
      /\ UNCHANGED <<flushed, log, failed, blocks, synced, torn, Safe>>
  BY DEF Crash, Safe
<1>3. /\ log \in Logs /\ failed \in BOOLEAN /\ torn \in SUBSET Keys /\ flushed \in 0..Len(data)
  BY <1>1 DEF TypeInv
<1>4. Shrunk(data', data, flushed')
  BY <1>1, <1>2, DataShrinks
<1>5. PICK n : LogTail(log, logEnd, n, pending, torn)
  BY <1>1 DEF LogBooked
<1>6. LogTail(log', logEnd, n, pending, torn) /\ Says(log', logEnd, synced)
  BY <1>1, <1>2, <1>5 DEF LogBooked
<1>7. torn \subseteq KeysOf(pending)
  BY <1>1 DEF LogBooked
<1>8. Kept(Safe', map, KeysOf(pending), data, flushed')
  BY <1>1, <1>2
<1> QED BY <1>1, <1>2, <1>3, <1>4, <1>6, <1>7, <1>8, LeavesInv

LEMMA CrashInSyncStep ==
  ASSUME Constants, IInv, CrashInSync
  PROVE  IInv'
<1>1. /\ TypeInv /\ phase = "up" /\ log # NoLog /\ ~failed
      /\ LogBooked(log, logEnd, synced, pending, failed, torn)
      /\ MapBooked(map, synced, pending, data, blocks)
      /\ Kept(Safe, map, KeysOf(pending), data, flushed)
  BY DEF IInv, UpInv, CrashInSync
<1>2. PICK b \in RecordsLeft(pending) : log' = WriteAt(log, logEnd, b)
  BY DEF CrashInSync, Safe
<1>3. /\ data' \in DataLeft /\ Stopped /\ torn' = KeysOf(pending)
      /\ UNCHANGED <<flushed, failed, blocks, synced, Safe>>
  BY DEF CrashInSync, Safe
<1>4. /\ log \in Logs /\ failed \in BOOLEAN /\ pending \in Seq(Rec) /\ flushed \in 0..Len(data)
  BY <1>1 DEF TypeInv
<1>5. logEnd = Len(log) /\ LogBooked(log, Len(log), synced, pending, FALSE, torn)
  BY <1>1, <1>4 DEF LogBooked
<1>6. PICK q : q = WriteAt(log, Len(log), b)
  OBVIOUS
<1>7. /\ q \in Logs /\ q # NoLog /\ Len(log) \in 0..Len(q) /\ Says(q, Len(log), synced)
      /\ \E n \in 0..Len(q) : LogTail(q, Len(log), n, pending, KeysOf(pending))
  BY <1>4, <1>5, <1>6, LeftWritten
<1>8. log' = q
  BY <1>2, <1>5, <1>6
<1>9. PICK n : LogTail(q, Len(log), n, pending, KeysOf(pending))
  BY <1>7
<1>10. LogTail(log', logEnd, n, pending, KeysOf(pending)) /\ Says(log', logEnd, synced)
  BY <1>5, <1>7, <1>8, <1>9
<1>11. KeysOf(pending) \in SUBSET Keys
  <2>1. \A i \in DOMAIN pending : pending[i] \in Rec
    BY <1>4
  <2> QED BY <2>1 DEF KeysOf, Rec
<1>12. Shrunk(data', data, flushed')
  BY <1>1, <1>3, DataShrinks
<1>13. Kept(Safe', map, KeysOf(pending), data, flushed')
  BY <1>1, <1>3
<1>14. log' \in Logs /\ log' # NoLog
  BY <1>7, <1>8
<1> QED BY <1>1, <1>3, <1>4, <1>10, <1>11, <1>12, <1>13, <1>14, LeavesInv

LEMMA CrashInOpenStep ==
  ASSUME Constants, IInv, CrashInOpen
  PROVE  IInv'
<1>1. TypeInv /\ \A k \in DOMAIN map : Held(data, map[k], blocks)
  BY DEF IInv, RewritingInv, CrashInOpen
<1>2. /\ data' \in DataLeft /\ Stopped /\ synced' = map /\ torn' = Keys /\ Safe' = {}
      /\ log' \in {NoLog} \cup UNION {RecordsLeft(l) : l \in NewLogs}
      /\ UNCHANGED <<flushed, failed, blocks>>
  BY DEF CrashInOpen, Safe
<1>3. /\ IsMap(map) /\ failed \in BOOLEAN /\ data \in Seq(Cells) /\ flushed \in 0..Len(data)
      /\ blocks \in Nat
  BY <1>1 DEF TypeInv
<1>4. PICK d : d = data' /\ Shrunk(d, data, flushed)
  BY <1>1, <1>2, DataShrinks
<1>5. d \in Seq(Cells) /\ flushed \in 0..Len(d)
  BY <1>3, <1>4 DEF Shrunk
<1>6. CASE log' = NoLog
  <2>1. data' \in Seq(Cells) /\ flushed' \in 0..Len(data')
    BY <1>2, <1>4, <1>5
  <2>2. /\ log' \in Logs \cup {NoLog} /\ IsMap(synced') /\ failed' \in BOOLEAN
        /\ torn' \in SUBSET Keys
    BY <1>2, <1>3, <1>6
  <2> QED BY <1>1, <1>2, <1>6, <2>1, <2>2, StoppedInv
<1>7. CASE log' # NoLog
  <2>1. PICK l \in NewLogs : log' \in RecordsLeft(l)
    BY <1>2, <1>7
  <2>2. PICK n \in 0..Len(l) : \E lost \in SUBSET (1..n) :
          log' = [i \in 1..n |-> IF i \in lost THEN Damaged ELSE l[i]]
    BY <2>1 DEF RecordsLeft
  <2>3. PICK q : q = log'
    OBVIOUS
  <2>4. /\ l \in Seq(Rec)
        /\ \A i \in 1..Len(l) : /\ l[i].key \in DOMAIN map /\ l[i].kind = "put"
                                /\ l[i].entry = map[l[i].key]
        /\ \A k \in DOMAIN map : \E i \in 1..Len(l) : l[i].key = k
    BY <1>3, NewLogIs
  <2>5. DOMAIN q = 1..n /\ \A i \in 1..n : q[i] \in {l[i], Damaged} /\ q[i] \in Rec \cup {Damaged}
    BY <2>2, <2>3, <2>4
  <2>6. q \in Logs /\ Len(q) = n
    <3>1. q \in [1..n -> Rec \cup {Damaged}]
      BY <2>2, <2>3, <2>5
    <3>2. n \in Nat
      BY <2>4
    <3> QED BY <3>1, <3>2 DEF Logs
  <2>7. PICK v \in 0..n : Valid(q, v)
    BY <2>6, ValidExists DEF Logs
  <2>8. LogTail(q, 0, v, l, Keys)
    <3>1. ASSUME NEW i \in 1..v PROVE i <= Len(l) /\ q[0 + i] = l[i] /\ l[i].key \in Keys
      <4>1. i \in 1..n /\ i \in 1..Len(l)
        BY <2>4
      <4>2. q[i] = l[i] /\ l[i] \in Rec
        BY <2>4, <2>5, <2>7, <4>1 DEF Valid
      <4> QED BY <4>1, <4>2 DEF Rec
    <3> QED BY <2>7, <3>1 DEF LogTail
  <2>9. Says(q, 0, <<>>)
    BY EmptyMap DEF Says
  <2>10. FromLog(Replay(q), <<>>, l, Keys)
    BY <2>4, <2>6, <2>8, <2>9, TailReplays
  <2>11. PICK m : m = Replay(q)
    OBVIOUS
  <2>12. ASSUME NEW k \in DOMAIN m PROVE m[k].sum <= blocks /\ Owned(d, m[k])
    <3>1. PICK i \in 1..Len(l) : m[k] = l[i].entry
      BY <2>10, <2>11, EmptyMap DEF FromLog
    <3>2. l[i].key \in DOMAIN map /\ m[k] = map[l[i].key]
      BY <2>4, <3>1
    <3>3. Held(data, m[k], blocks) /\ m[k] \in Ent
      BY <1>1, <1>3, <3>2, MapParts
    <3> QED BY <1>3, <1>4, <3>3, OwnedLeft DEF Held
  <2>13. Leaves(q, map, Keys, d, blocks, {}, flushed)
    BY <2>11, <2>12 DEF Leaves, Kept
  <2>14. Leaves(log', synced', torn', data', blocks', Safe', flushed')
    BY <1>2, <1>4, <2>3, <2>13
  <2>15. data' \in Seq(Cells) /\ flushed' \in 0..Len(data')
    BY <1>2, <1>4, <1>5
  <2>16. /\ log' \in Logs \cup {NoLog} /\ IsMap(synced') /\ failed' \in BOOLEAN
         /\ torn' \in SUBSET Keys
    BY <1>2, <1>3, <2>3, <2>6
  <2> QED BY <1>1, <1>2, <1>7, <2>14, <2>15, <2>16, StoppedInv
<1> QED BY <1>6, <1>7

----------------------------------------------------------------------------
(* Theorems.                                                               *)

LEMMA InitInv ==
  ASSUME Constants, Init
  PROVE  IInv
<1>1. /\ <<>> \in Seq(Cells) /\ <<>> \in Seq(Rec) /\ Len(<<>>) = 0 /\ IsMap(<<>>)
  BY EmptyMap
<1>2. TypeInv
  <2>1. data \in Seq(Cells) /\ flushed \in 0..Len(data) /\ pending \in Seq(Rec)
    BY <1>1 DEF Init
  <2>2. IsMap(map) /\ IsMap(synced)
    BY <1>1 DEF Init
  <2> QED BY <2>1, <2>2 DEF TypeInv, Init
<1> QED BY <1>2 DEF IInv, UpInv, DownInv, RewritingInv, Init, Safe

LEMMA NextInv ==
  ASSUME Constants, IInv, [Next]_vars
  PROVE  IInv'
<1>1. CASE UNCHANGED vars
  <2>1. TypeInv'
    BY <1>1 DEF IInv, TypeInv, vars
  <2>2. UpInv'
    BY <1>1 DEF IInv, UpInv, vars, Safe
  <2>3. DownInv' /\ RewritingInv'
    BY <1>1 DEF IInv, DownInv, RewritingInv, vars, Safe
  <2> QED BY <2>1, <2>2, <2>3 DEF IInv
<1>2. CASE OpenLog \/ OpenAnew \/ WriteNewLog
  BY <1>2, OpenLogStep, OpenAnewStep, WriteNewLogStep
<1>3. ASSUME NEW k \in Keys, Put(k) \/ PutFails(k)
      PROVE  IInv'
  BY <1>3, PutStep, PutFailsStep
<1>4. ASSUME NEW k \in Keys, GetDamaged(k)
      PROVE  IInv'
  BY <1>4, DropStep DEF GetDamaged
<1>5. ASSUME NEW k \in Keys, DropUnusable(k)
      PROVE  IInv'
  BY <1>5, DropStep DEF DropUnusable
<1>6. CASE Flush \/ GetFails \/ Close
  BY <1>6, FlushStep, GetFailsStep, CloseStep
<1>7. CASE Crash \/ CrashInSync \/ CrashInOpen
  BY <1>7, CrashStep, CrashInSyncStep, CrashInOpenStep
<1> QED BY <1>1, <1>2, <1>3, <1>4, <1>5, <1>6, <1>7 DEF Next

LEMMA Invariance ==
  ASSUME Constants
  PROVE  Spec => []IInv
<1>1. Init => IInv
  BY InitInv
<1>2. IInv /\ [Next]_vars => IInv'
  BY NextInv
<1> QED BY <1>1, <1>2, PTL DEF Spec

(* Every value has its type: an entry is that of a key, its offset, length *)
(* and checksum numbers, and the flushed part of the data file is part of  *)
(* it.                                                                     *)
THEOREM StoreTypes ==
  ASSUME Constants
  PROVE  Spec => []TypeInv
<1>1. IInv => TypeInv
  BY DEF IInv
<1> QED BY <1>1, Invariance, PTL

(* No entry of an open store points into another block's bytes, whatever   *)
(* crashes took from either file and whatever was stored since             *)
(* (OpfsBlockStore.open).                                                  *)
THEOREM EntriesOwnTheirBytesAlways ==
  ASSUME Constants
  PROVE  Spec => []EntriesOwnTheirBytes
<1>1. IInv => EntriesOwnTheirBytes
  <2> SUFFICES ASSUME IInv, phase = "up", NEW k \in DOMAIN map, NEW i \in 1..map[k].len
               PROVE  data[map[k].off + i] \in {Garbage, <<map[k].sum, i>>}
    BY DEF EntriesOwnTheirBytes
  <2>1. Held(data, map[k], blocks) /\ TypeInv
    BY DEF IInv, UpInv, MapBooked
  <2>2. map[k].off \in Nat /\ map[k].len \in Nat /\ Len(data) \in Nat
    BY <2>1, MapParts DEF TypeInv, Ent
  <2>3. map[k].off + i <= Len(data)
    BY <2>1, <2>2 DEF Held
  <2> QED BY <2>1, <2>3 DEF Held, Owned
<1> QED BY <1>1, Invariance, PTL

(* The log of a store that is not running says what its last sync point    *)
(* knew, but for the records a crash or a failed write interrupted         *)
(* (OpfsBlockStore.flush, decodeIndex).                                    *)
THEOREM LogSaysLastSyncAlways ==
  ASSUME Constants
  PROVE  Spec => []LogSaysLastSync
<1>1. IInv => LogSaysLastSync
  BY DEF IInv, DownInv, Leaves, AgreeAt, LogSaysLastSync
<1> QED BY <1>1, Invariance, PTL

(* A block that was there, undamaged, at the last clean close is there     *)
(* until it is dropped: no crash takes it, but for one while a start       *)
(* writes the log anew, whose old records are cut before the new ones are  *)
(* flushed (OpfsBlockStore.close, open).                                   *)
THEOREM ClosedBlocksStayAlways ==
  ASSUME Constants
  PROVE  Spec => []ClosedBlocksStay
<1>1. ASSUME TypeInv, NEW m, IsMap(m), NEW T, Kept(Safe, m, T, data, flushed)
      PROVE  \A n \in Safe : \E k \in DOMAIN m : m[k].sum = n /\ Matches(m[k])
  <2> SUFFICES ASSUME NEW n \in Safe
               PROVE  \E k \in DOMAIN m : m[k].sum = n /\ Matches(m[k])
    OBVIOUS
  <2>1. PICK k \in DOMAIN m : m[k].sum = n /\ Solid(data, m[k], flushed)
    BY <1>1 DEF Kept
  <2>2. m[k] \in Ent
    BY <1>1, MapParts
  <2> QED BY <1>1, <2>1, <2>2, MatchesSolid
<1>2. IInv => ClosedBlocksStay
  <2> SUFFICES ASSUME IInv PROVE ClosedBlocksStay
    OBVIOUS
  <2>1. TypeInv /\ IsMap(map)
    BY DEF IInv, TypeInv
  <2>2. CASE phase # "down"
    <3>1. \E T : Kept(Safe, map, T, data, flushed)
      BY <2>1, <2>2 DEF IInv, TypeInv, UpInv, RewritingInv
    <3>2. \A n \in Safe : \E k \in DOMAIN map : map[k].sum = n /\ Matches(map[k])
      BY <1>1, <2>1, <3>1
    <3> QED BY <2>2, <3>2 DEF ClosedBlocksStay, Stays, Safe
  <2>3. CASE phase = "down" /\ log = NoLog
    BY <2>3 DEF ClosedBlocksStay, Stays, IInv, DownInv, Safe
  <2>4. CASE phase = "down" /\ log # NoLog
    <3>1. log \in Logs
      BY <2>1, <2>4 DEF TypeInv
    <3>2. PICK v : Valid(log, v)
      BY <3>1, ValidExists DEF Logs
    <3>3. IsMap(Replay(log))
      BY <3>1, <3>2, ReplaySays
    <3>4. Kept(Safe, Replay(log), {}, data, flushed)
      BY <2>4 DEF IInv, DownInv, Leaves
    <3>5. \A n \in Safe : \E k \in DOMAIN Replay(log) :
            Replay(log)[k].sum = n /\ Matches(Replay(log)[k])
      BY <1>1, <2>1, <3>3, <3>4
    <3> QED BY <2>4, <3>5 DEF ClosedBlocksStay, Stays, Safe
  <2> QED BY <2>2, <2>3, <2>4
<1> QED BY <1>2, Invariance, PTL
==============================================================================
