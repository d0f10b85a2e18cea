----------------------------- MODULE DataLinkProofs -----------------------------
(***************************************************************************)
(* Two theorems about module DataLink, for any pieces, any number of       *)
(* requests and of batches: what the page keeps under a piece's name is    *)
(* that piece, as long as no worker that fell silent ever goes on          *)
(* (LongStalls); and a wait for announced batches that says that all of    *)
(* it is there is right, whatever the worker does.                         *)
(*                                                                         *)
(* The first invariant says who may write the shared buffer.  An answer    *)
(* written there is for the request the page spins for and whose number is *)
(* not stored yet: a request that cannot be given up is only at the worker *)
(* while the page spins for it, and one that can be was claimed while      *)
(* ctrl.late still named it, which it does no longer than the spin lasts.  *)
(* The second says where each announced batch is on its way (InTurn) and   *)
(* what the worker's count of the settled ones stands for (DoneRight).     *)
(***************************************************************************)
EXTENDS DataLink, TLAPS, WellFoundedInduction

Kinds == {"sync", "late", "ask"}
ReadMsg == [kind: {"read"}, r: Nat]
WantMsg == [kind: {"want"}, seq: Nat, from: Nat, n: Nat]
Message == ReadMsg \cup WantMsg

Reads == {i \in 1..Len(inbox) : inbox[i].kind = "read"}
Posted == {inbox[i].r : i \in Reads}
Made == 1..Len(req)
Writing == settling.at \in {"write", "number"}

QueueInv ==
  /\ inbox \in Seq(Message) /\ unposted \in Seq(WantMsg)
  /\ want \in [seq: Nat, from: Nat, first: Nat, to: Nat]
  /\ \A i, j \in Reads : inbox[i].r = inbox[j].r => i = j

TypeInv ==
  /\ thread \in {"free", "spin", "copy", "wait"}
  /\ req \in Seq([piece: Pieces, kind: Kinds])
  /\ cur \in 0..Len(req)
  /\ cache \in [Pieces -> Pieces \cup {NoPiece}]
  /\ ctrl = [gen |-> ctrl.gen, ok |-> ctrl.ok, late |-> ctrl.late, done |-> ctrl.done]
  /\ ctrl.gen \in 0..Len(req) /\ ctrl.ok \in BOOLEAN
  /\ ctrl.late \in Int /\ ctrl.late <= Len(req)
  /\ worker \in {"runs", "dead"}
  /\ settling \in [r: 0..Len(req), ok: BOOLEAN, at: {"idle", "held", "write", "number"}]

(* The worker has each request in one place.                               *)
OncePending ==
  /\ Posted \subseteq Made /\ work \subseteq Made
  /\ Posted \cap work = {}
  /\ settling.r \notin Posted \cup work
  /\ settling = Idle \/ (settling.at # "idle" /\ settling.r # None)

Awaited(r) == r = cur /\ thread = "spin" /\ ctrl.gen # cur

(* A request that cannot be given up is awaited while the worker has it.   *)
SyncAwaited ==
  /\ \A r \in Posted \cup work : req[r].kind = "sync" => Awaited(r)
  /\ settling.at = "held" /\ req[settling.r].kind = "sync" => Awaited(settling.r)

(* So is one that can be given up and was not.                             *)
LateAwaited ==
  ctrl.late > 0 => Awaited(ctrl.late) /\ req[ctrl.late].kind = "late"

(* And one whose answer is being written on shared memory.                 *)
WriteAwaited ==
  Writing =>
    /\ Awaited(settling.r) /\ ctrl.late <= 0
    /\ settling.at = "number" =>
         ctrl.ok = settling.ok /\ (settling.ok => data = req[cur].piece)

(* The buffer the page copies from holds the piece it asked for.           *)
BufferIsCurs ==
  /\ thread \in {"spin", "copy"} => cur # None
  /\ thread = "copy" \/ (thread = "spin" /\ ctrl.gen = cur /\ ctrl.ok) =>
       data = req[cur].piece

Answers ==
  /\ outbox \in Seq([r: Nat, ok: BOOLEAN, bytes: Pieces \cup {NoPiece}])
  /\ \A i \in 1..Len(outbox) : outbox[i].ok =>
       outbox[i].r \in Made /\ outbox[i].bytes = req[outbox[i].r].piece

Order == worker = "runs" => SyncAwaited /\ LateAwaited /\ WriteAwaited

IInv ==
  /\ QueueInv /\ TypeInv /\ OncePending /\ Order
  /\ BufferIsCurs /\ Answers /\ PiecesAreTheirs

LEMMA PieceOfMade ==
  ASSUME TypeInv, NEW r \in Made
  PROVE  req[r].piece \in Pieces
<1>1. \A S : req \in Seq(S) => req[r] \in S
  BY DEF Made
<1> QED BY <1>1 DEF TypeInv

(* What is kept under a piece's name was read as that piece.               *)
LEMMA KeepKeeps ==
  ASSUME TypeInv, PiecesAreTheirs, NEW p \in Pieces, Keep(p, p)
  PROVE  cache' \in [Pieces -> Pieces \cup {NoPiece}] /\ PiecesAreTheirs'
<1>1. CASE UNCHANGED cache
  BY <1>1 DEF TypeInv, PiecesAreTheirs, Kept
<1>2. CASE cache' = [cache EXCEPT ![p] = p]
  BY <1>2 DEF TypeInv, PiecesAreTheirs, Kept
<1>3. ASSUME NEW old \in Kept, cache' = [cache EXCEPT ![p] = p, ![old] = NoPiece]
      PROVE  cache' \in [Pieces -> Pieces \cup {NoPiece}] /\ PiecesAreTheirs'
  BY <1>3 DEF TypeInv, PiecesAreTheirs, Kept
<1> QED BY <1>1, <1>2, <1>3 DEF Keep

(* A message appended to the inbox.                                        *)
LEMMA PostOne ==
  ASSUME QueueInv, NEW m \in Message, inbox' = Append(inbox, m),
         UNCHANGED <<want, unposted>>, m.kind = "read" => m.r \notin Posted
  PROVE  QueueInv' /\ Posted' = Posted \cup (IF m.kind = "read" THEN {m.r} ELSE {})
<1>1. /\ inbox' \in Seq(Message) /\ Len(inbox') = Len(inbox) + 1 /\ Len(inbox) \in Nat
      /\ \A i \in 1..Len(inbox) : inbox'[i] = inbox[i]
      /\ inbox'[Len(inbox) + 1] = m
  BY DEF QueueInv
<1>2. Reads' = Reads \cup (IF m.kind = "read" THEN {Len(inbox) + 1} ELSE {})
  BY <1>1 DEF Reads
<1>3. \A i \in Reads : inbox'[i] = inbox[i] /\ i # Len(inbox) + 1 /\ inbox[i].r \in Posted
  BY <1>1 DEF Reads, Posted
<1>4. Posted' = Posted \cup (IF m.kind = "read" THEN {m.r} ELSE {})
  <2>1. ASSUME NEW i \in Reads'
        PROVE  inbox'[i].r \in Posted \cup (IF m.kind = "read" THEN {m.r} ELSE {})
    BY <1>1, <1>2, <1>3
  <2>2. \A i \in Reads : inbox[i].r \in Posted'
    BY <1>2, <1>3 DEF Posted
  <2>3. m.kind = "read" => m.r \in Posted'
    BY <1>1, <1>2 DEF Posted
  <2>4. Posted' \subseteq Posted \cup (IF m.kind = "read" THEN {m.r} ELSE {})
    BY <2>1 DEF Posted
  <2>5. Posted \subseteq Posted'
    BY <2>2 DEF Posted
  <2> QED BY <2>3, <2>4, <2>5
<1>5. ASSUME NEW i \in Reads', NEW j \in Reads', inbox'[i].r = inbox'[j].r
      PROVE  i = j
  <2>1. CASE i \in Reads /\ j \in Reads
    BY <2>1, <1>3, <1>5 DEF QueueInv
  <2>2. CASE ~(i \in Reads /\ j \in Reads)
    BY <2>2, <1>1, <1>2, <1>3, <1>5
  <2> QED BY <2>1, <2>2
<1> QED BY <1>1, <1>4, <1>5 DEF QueueInv

(* The batches posted after what the inbox has.                            *)
LEMMA PostWants ==
  ASSUME QueueInv, inbox' = inbox \o unposted, unposted' = <<>>,
         want' \in [seq: Nat, from: Nat, first: Nat, to: Nat]
  PROVE  QueueInv' /\ Posted' = Posted
<1>1. /\ Len(inbox) \in Nat /\ Len(inbox') = Len(inbox) + Len(unposted)
      /\ Len(unposted) \in Nat
      /\ inbox' \in Seq(Message)
      /\ \A i \in 1..Len(inbox) : inbox'[i] = inbox[i]
      /\ \A i \in Len(inbox) + 1..Len(inbox') : inbox'[i] = unposted[i - Len(inbox)]
  BY DEF QueueInv, Message
<1>2. ASSUME NEW i \in 1..Len(unposted)
      PROVE  unposted[i].kind = "want"
  <2>1. unposted[i] \in WantMsg
    BY DEF QueueInv
  <2> QED BY <2>1 DEF WantMsg
<1>3. Reads' = Reads
  <2>1. \A i \in 1..Len(inbox') \ 1..Len(inbox) :
          i \in Len(inbox) + 1..Len(inbox') /\ i - Len(inbox) \in 1..Len(unposted)
    BY <1>1
  <2>2. ASSUME NEW i \in Reads'
        PROVE  i \in Reads
    <3>1. i \in 1..Len(inbox') /\ inbox'[i].kind = "read"
      BY DEF Reads
    <3>2. i \in 1..Len(inbox)
      BY ZenonT(60), <3>1, <2>1, <1>1, <1>2
    <3> QED BY <3>1, <3>2, <1>1 DEF Reads
  <2>3. Reads \subseteq Reads'
    BY <1>1 DEF Reads
  <2> QED BY <2>2, <2>3
<1>4. \A i \in Reads : inbox'[i] = inbox[i]
  BY <1>1 DEF Reads
<1>5. Posted' = Posted
  BY <1>3, <1>4 DEF Posted
<1>6. unposted' \in Seq(WantMsg)
  OBVIOUS
<1>7. ASSUME NEW i \in Reads', NEW j \in Reads', inbox'[i].r = inbox'[j].r
      PROVE  i = j
  <2>1. i \in Reads /\ j \in Reads /\ inbox[i].r = inbox[j].r
    BY <1>3, <1>4, <1>7
  <2> QED BY <2>1 DEF QueueInv
<1> QED BY <1>1, <1>5, <1>6, <1>7 DEF QueueInv

(* The first message taken from the inbox.                                 *)
LEMMA TakeOne ==
  ASSUME QueueInv, inbox # <<>>, inbox' = Tail(inbox), UNCHANGED <<want, unposted>>
  PROVE  /\ QueueInv'
         /\ Posted' = Posted \ (IF Head(inbox).kind = "read" THEN {Head(inbox).r} ELSE {})
         /\ Head(inbox).kind = "read" => Head(inbox).r \in Posted
<1>1. /\ Len(inbox) \in Nat \ {0} /\ Len(inbox') = Len(inbox) - 1
      /\ inbox' \in Seq(Message) /\ Head(inbox) = inbox[1]
      /\ \A i \in 1..Len(inbox') : inbox'[i] = inbox[i + 1]
  BY DEF QueueInv
<1>2. \A i \in Reads' : i + 1 \in Reads /\ inbox'[i] = inbox[i + 1]
  BY <1>1 DEF Reads
<1>3. \A i \in Reads : i # 1 => i - 1 \in Reads' /\ inbox'[i - 1] = inbox[i]
  BY <1>1 DEF Reads
<1>4. 1 \in Reads <=> Head(inbox).kind = "read"
  BY <1>1 DEF Reads
<1>5. \A i \in Reads : i \in Nat /\ (i # 1 /\ 1 \in Reads => inbox[i].r # inbox[1].r)
  BY DEF QueueInv, Reads
<1>6. Posted' \subseteq Posted \ (IF Head(inbox).kind = "read" THEN {Head(inbox).r} ELSE {})
  <2> SUFFICES ASSUME NEW i \in Reads'
               PROVE  /\ inbox'[i].r \in Posted
                      /\ Head(inbox).kind = "read" => inbox'[i].r # Head(inbox).r
    BY DEF Posted
  <2> QED BY <1>1, <1>2, <1>4, <1>5 DEF Posted, Reads
<1>7. Posted \ (IF Head(inbox).kind = "read" THEN {Head(inbox).r} ELSE {}) \subseteq Posted'
  <2>1. ASSUME NEW i \in Reads, i # 1
        PROVE  inbox[i].r \in Posted'
    BY <1>3, <2>1 DEF Posted
  <2>2. 1 \in Reads => Head(inbox).kind = "read" /\ inbox[1].r = Head(inbox).r
    BY <1>1, <1>4
  <2> QED BY <2>1, <2>2 DEF Posted
<1>8. \A i, j \in Reads' : inbox'[i].r = inbox'[j].r => i = j
  <2> SUFFICES ASSUME NEW i \in Reads', NEW j \in Reads', inbox'[i].r = inbox'[j].r
               PROVE  i = j
    OBVIOUS
  <2>1. i + 1 = j + 1
    BY <1>2 DEF QueueInv
  <2> QED BY <2>1 DEF Reads
<1> QED BY <1>1, <1>4, <1>6, <1>7, <1>8 DEF QueueInv, Posted

(* A request is numbered, and told to the worker.                          *)
LEMMA RequestIsNew ==
  ASSUME QueueInv, TypeInv, OncePending, NEW p \in Pieces, NEW kind \in Kinds,
         Request(p, kind), UNCHANGED wantVars
  PROVE  /\ req' \in Seq([piece: Pieces, kind: Kinds])
         /\ Len(req) \in Nat /\ Len(req') = Len(req) + 1
         /\ \A r \in Made : req'[r] = req[r]
         /\ req'[Len(req) + 1] = [piece |-> p, kind |-> kind]
         /\ QueueInv' /\ Posted' = Posted \cup {Len(req) + 1}
<1>1. [piece |-> p, kind |-> kind] \in [piece: Pieces, kind: Kinds]
  OBVIOUS
<1>2. req \in Seq([piece: Pieces, kind: Kinds]) /\ Len(req) \in Nat
  BY DEF TypeInv
<1>3. [kind |-> "read", r |-> Len(req) + 1] \in Message
  BY <1>2 DEF Message, ReadMsg
<1>4. Len(req) + 1 \notin Posted
  BY <1>2 DEF OncePending, Made
<1>5. QueueInv' /\ Posted' = Posted \cup {Len(req) + 1}
  BY <1>3, <1>4, PostOne DEF Request, wantVars
<1>6. req' = Append(req, [piece |-> p, kind |-> kind])
  BY DEF Request
<1> QED BY <1>1, <1>2, <1>5, <1>6 DEF Made

LEMMA ReadSteps ==
  ASSUME IInv, NEW p \in Pieces, FetchSync(p) \/ FetchSpin(p) \/ FetchAsync(p)
  PROVE  IInv'
<1> DEFINE n == Len(req) + 1
<1>. QueueInv /\ TypeInv /\ OncePending /\ Order /\ BufferIsCurs /\ Answers /\ PiecesAreTheirs
  BY DEF IInv
<1>1. PICK kind \in Kinds :
        /\ Request(p, kind)
        /\ \/ kind = "ask" /\ FetchAsync(p)
           \/ kind = "sync" /\ FetchSync(p)
           \/ kind = "late" /\ FetchSpin(p)
  BY DEF FetchSync, FetchSpin, FetchAsync, Kinds
<1>2. thread = "free" /\ UNCHANGED <<cache, data, outbox, workVars, wantVars>>
  BY <1>1 DEF Request, FetchSync, FetchSpin, FetchAsync, Spin
<1>3. /\ req' \in Seq([piece: Pieces, kind: Kinds])
      /\ Len(req) \in Nat /\ Len(req') = n /\ n \in Nat /\ n > 0
      /\ \A r \in Made : req'[r] = req[r]
      /\ req'[n] = [piece |-> p, kind |-> kind]
      /\ QueueInv' /\ Posted' = Posted \cup {n}
  <2>1. UNCHANGED wantVars /\ Request(p, kind)
    BY <1>1, <1>2
  <2>2. /\ req' \in Seq([piece: Pieces, kind: Kinds])
        /\ Len(req) \in Nat /\ Len(req') = Len(req) + 1
        /\ \A r \in Made : req'[r] = req[r]
        /\ req'[Len(req) + 1] = [piece |-> p, kind |-> kind]
        /\ QueueInv' /\ Posted' = Posted \cup {Len(req) + 1}
    BY <2>1, RequestIsNew
  <2> QED BY <2>2
<1>4. \/ kind = "ask" /\ UNCHANGED <<thread, cur, ctrl>>
      \/ kind = "sync" /\ thread' = "spin" /\ cur' = n /\ UNCHANGED ctrl
      \/ kind = "late" /\ thread' = "spin" /\ cur' = n /\ ctrl' = [ctrl EXCEPT !.late = n]
  BY <1>1 DEF FetchAsync, FetchSync, FetchSpin, Spin
<1>5. /\ ctrl'.gen = ctrl.gen /\ ctrl'.ok = ctrl.ok
      /\ ctrl' = [gen |-> ctrl'.gen, ok |-> ctrl'.ok, late |-> ctrl'.late, done |-> ctrl'.done]
      /\ ctrl'.late = IF kind = "late" THEN n ELSE ctrl.late
  BY <1>4 DEF TypeInv
<1>6. Made' = Made \cup {n} /\ n \notin Made
  BY <1>3 DEF Made
<1>7. TypeInv'
  BY <1>2, <1>3, <1>4, <1>5 DEF TypeInv, workVars
<1>8. OncePending'
  BY <1>2, <1>3, <1>6 DEF OncePending, TypeInv, workVars, Idle, None
<1>9. Order'
  <2> SUFFICES ASSUME worker = "runs"
               PROVE  SyncAwaited' /\ LateAwaited' /\ WriteAwaited'
    BY <1>2 DEF Order, workVars
  <2>1. SyncAwaited /\ LateAwaited /\ WriteAwaited /\ ctrl.late <= 0 /\ ~Writing
    BY <1>2 DEF Order, LateAwaited, WriteAwaited, Awaited, TypeInv
  <2>2. WriteAwaited'
    BY <2>1, <1>2 DEF WriteAwaited, Writing, workVars
  <2>3. LateAwaited'
    BY <2>1, <1>3, <1>4, <1>5 DEF LateAwaited, Awaited, TypeInv
  <2>4. \A r \in Posted \cup work : req[r].kind # "sync" /\ req'[r] = req[r]
    BY <2>1, <1>2, <1>3 DEF SyncAwaited, Awaited, OncePending
  <2>5. settling.at # "held" \/ (req[settling.r].kind # "sync" /\ settling.r \in Made)
    BY <2>1, <1>2 DEF SyncAwaited, Awaited, TypeInv, OncePending, Idle, Made, None
  <2>6. ASSUME NEW r \in Posted' \cup work', req'[r].kind = "sync"
        PROVE  Awaited(r)'
    <3>1. r = n /\ kind = "sync"
      BY <2>4, <2>6, <1>2, <1>3 DEF workVars
    <3> QED BY <3>1, <1>3, <1>4, <1>5 DEF Awaited, TypeInv
  <2>7. settling.at = "held" => req'[settling.r].kind # "sync"
    BY <2>5, <1>3
  <2>8. SyncAwaited'
    BY <2>6, <2>7, <1>2 DEF SyncAwaited, workVars
  <2> QED BY <2>2, <2>3, <2>8
<1>10. BufferIsCurs'
  BY <1>2, <1>3, <1>4, <1>5 DEF BufferIsCurs, TypeInv, None
<1>11. Answers' /\ PiecesAreTheirs'
  BY <1>2, <1>3, <1>6 DEF Answers, PiecesAreTheirs, Kept
<1> QED BY <1>3, <1>7, <1>8, <1>9, <1>10, <1>11 DEF IInv

(* A step of the page that neither posts nor reads: what is at the worker  *)
(* stays as it is.                                                         *)
LEMMA Elsewhere ==
  ASSUME QueueInv, OncePending, UNCHANGED <<req, inbox, unposted, want, workVars>>
  PROVE  /\ QueueInv' /\ OncePending' /\ Posted' = Posted /\ Made' = Made
         /\ (Writing' <=> Writing)
BY DEF QueueInv, OncePending, Posted, Reads, Made, Writing, workVars

(* Nothing at the worker is for a thread that spins.                       *)
LEMMA NothingAwaited ==
  ASSUME \A r \in Posted \cup work : req[r].kind # "sync",
         settling.at = "held" => req[settling.r].kind # "sync",
         UNCHANGED <<req, work, settling>>, Posted' = Posted, ~Writing', ~(ctrl'.late > 0)
  PROVE  SyncAwaited' /\ LateAwaited' /\ WriteAwaited'
BY DEF SyncAwaited, LateAwaited, WriteAwaited

(* The spin ends: the answer is here, or the request is given up, or the   *)
(* worker is dead.                                                         *)
LEMMA SpinEnds ==
  ASSUME ~LongStalls, IInv, Answered \/ GiveUp \/ StopSpinning
  PROVE  IInv'
<1>. QueueInv /\ TypeInv /\ OncePending /\ Order /\ BufferIsCurs /\ Answers /\ PiecesAreTheirs
  BY DEF IInv
<1>1. /\ thread = "spin" /\ thread' \in {"free", "copy"}
      /\ UNCHANGED <<cur, cache, req, data, inbox, outbox, workVars, wantVars>>
  BY DEF Answered, GiveUp, StopSpinning, linkVars
<1>2. /\ QueueInv' /\ OncePending' /\ Posted' = Posted /\ Made' = Made
      /\ (Writing' <=> Writing)
  BY <1>1, Elsewhere DEF wantVars
<1>3. /\ ctrl' = [gen |-> ctrl'.gen, ok |-> ctrl'.ok, late |-> ctrl'.late, done |-> ctrl'.done]
      /\ ctrl'.gen = ctrl.gen /\ ctrl'.ok = ctrl.ok /\ ctrl'.late \in {ctrl.late, None}
      /\ GiveUp => ctrl'.late = None
  BY DEF TypeInv, Answered, GiveUp, StopSpinning, linkVars
<1>4. TypeInv'
  BY <1>1, <1>3 DEF TypeInv, workVars, None
<1>5. Order'
  <2> SUFFICES ASSUME worker = "runs"
               PROVE  SyncAwaited' /\ LateAwaited' /\ WriteAwaited'
    BY <1>1 DEF Order, workVars
  <2>1. SyncAwaited /\ LateAwaited /\ WriteAwaited
    BY DEF Order
  <2>2. CASE Answered
    <3>1. ~Writing /\ ctrl.late <= 0 /\ \A r \in Posted \cup work : req[r].kind # "sync"
      BY <2>1, <2>2 DEF Answered, WriteAwaited, LateAwaited, SyncAwaited, Awaited, TypeInv
    <3>2. settling.at = "held" => req[settling.r].kind # "sync"
      BY <2>1, <2>2 DEF Answered, SyncAwaited, Awaited
    <3> QED BY <3>1, <3>2, <1>1, <1>2, <1>3, NothingAwaited DEF workVars, TypeInv, None
  <2>3. CASE GiveUp
    <3>1. /\ ~Writing /\ ctrl.late = cur /\ cur > 0 /\ req[cur].kind = "late"
      BY <2>1, <2>3 DEF GiveUp, WriteAwaited, BufferIsCurs, TypeInv, None
    <3>2. /\ \A r \in Posted \cup work : req[r].kind # "sync"
          /\ settling.at = "held" => req[settling.r].kind # "sync"
      BY <2>1, <3>1 DEF SyncAwaited, Awaited
    <3> QED BY <2>3, <3>1, <3>2, <1>1, <1>2, <1>3, NothingAwaited DEF workVars, TypeInv, None
  <2>4. CASE StopSpinning
    BY <2>4 DEF StopSpinning, Still
  <2> QED BY <2>2, <2>3, <2>4
<1>6. BufferIsCurs'
  BY <1>1, <1>3 DEF BufferIsCurs, Answered, GiveUp, StopSpinning
<1>7. Answers' /\ PiecesAreTheirs'
  BY <1>1, <1>2 DEF Answers, PiecesAreTheirs, Kept
<1> QED BY <1>2, <1>4, <1>5, <1>6, <1>7 DEF IInv

(* What the page's other steps leave alone: the request it spins for.      *)
LEMMA NotSpinning ==
  ASSUME IInv, QueueInv', OncePending', Posted' = Posted, thread # "spin",
         thread' \in {"free", "wait"},
         UNCHANGED <<cur, req, ctrl, data, workVars>>,
         cache' \in [Pieces -> Pieces \cup {NoPiece}], Answers', PiecesAreTheirs'
  PROVE  IInv'
<1>. QueueInv /\ TypeInv /\ OncePending /\ Order /\ BufferIsCurs
  BY DEF IInv
<1>1. TypeInv'
  BY DEF TypeInv, workVars
<1>2. BufferIsCurs'
  BY DEF BufferIsCurs
<1>3. ASSUME worker = "runs"
      PROVE  SyncAwaited' /\ LateAwaited' /\ WriteAwaited'
  <2>1. /\ ~Writing /\ ctrl.late <= 0 /\ \A r \in Posted \cup work : req[r].kind # "sync"
        /\ settling.at = "held" => req[settling.r].kind # "sync"
    BY <1>3 DEF Order, WriteAwaited, LateAwaited, SyncAwaited, Awaited, TypeInv
  <2>2. ~Writing'
    BY <2>1 DEF Writing, workVars
  <2> QED BY <2>1, <2>2, NothingAwaited DEF workVars, TypeInv
<1> QED BY <1>1, <1>2, <1>3 DEF IInv, Order, workVars

LEMMA CopyStep ==
  ASSUME IInv, Copy
  PROVE  IInv'
<1>. QueueInv /\ TypeInv /\ OncePending /\ BufferIsCurs /\ Answers /\ PiecesAreTheirs
  BY DEF IInv
<1>1. cur \in Made /\ data = req[cur].piece /\ req[cur].piece \in Pieces
  <2>1. cur # 0 /\ data = req[cur].piece
    BY DEF Copy, BufferIsCurs, None
  <2>2. cur \in Made
    BY <2>1 DEF TypeInv, Made
  <2> QED BY <2>1, <2>2, PieceOfMade
<1>2. cache' \in [Pieces -> Pieces \cup {NoPiece}] /\ PiecesAreTheirs'
  BY <1>1, KeepKeeps DEF Copy
<1>3. QueueInv' /\ OncePending' /\ Posted' = Posted /\ Made' = Made
  BY Elsewhere DEF Copy, linkVars, wantVars
<1>4. Answers'
  BY <1>3 DEF Answers, Copy, linkVars
<1> QED BY <1>2, <1>3, <1>4, NotSpinning DEF Copy, linkVars

LEMMA MessageSteps ==
  ASSUME IInv, OnMessage \/ WatchAsks
  PROVE  IInv'
<1>. QueueInv /\ TypeInv /\ OncePending /\ Answers /\ PiecesAreTheirs
  BY DEF IInv
<1>1. /\ thread = "free" /\ thread' = "free"
      /\ UNCHANGED <<cur, req, ctrl, data, inbox, workVars, wantVars>>
  BY DEF OnMessage, WatchAsks, linkVars
<1>2. QueueInv' /\ OncePending' /\ Posted' = Posted /\ Made' = Made
  BY <1>1, Elsewhere DEF wantVars
<1>3. CASE WatchAsks
  <2>1. Answers' /\ PiecesAreTheirs' /\ cache' = cache
    BY <1>2, <1>3 DEF WatchAsks, linkVars, Answers, PiecesAreTheirs, Kept
  <2>2. cache' \in [Pieces -> Pieces \cup {NoPiece}]
    BY <2>1 DEF TypeInv
  <2> QED BY <2>1, <2>2, <1>1, <1>2, NotSpinning
<1>4. CASE OnMessage
  <2>1. outbox # <<>> /\ outbox' = Tail(outbox)
    BY <1>4 DEF OnMessage
  <2>2. /\ outbox' \in Seq([r: Nat, ok: BOOLEAN, bytes: Pieces \cup {NoPiece}])
        /\ Len(outbox) \in Nat \ {0} /\ Len(outbox') = Len(outbox) - 1
        /\ Head(outbox) = outbox[1] /\ \A i \in 1..Len(outbox') : outbox'[i] = outbox[i + 1]
    BY <2>1 DEF Answers
  <2>3. \A i \in 1..Len(outbox') : i + 1 \in 1..Len(outbox)
    BY <2>2
  <2>4. Answers'
    BY <2>2, <2>3, <1>1, <1>2 DEF Answers
  <2>5. ASSUME Head(outbox).ok
        PROVE  /\ Head(outbox).bytes = req[Head(outbox).r].piece
               /\ req[Head(outbox).r].piece \in Pieces
    <3>1. 1 \in 1..Len(outbox)
      BY <2>2
    <3>2. Head(outbox).r \in Made /\ Head(outbox).bytes = req[Head(outbox).r].piece
      BY <3>1, <2>2, <2>5 DEF Answers
    <3> QED BY <3>2, PieceOfMade
  <2>6. cache' \in [Pieces -> Pieces \cup {NoPiece}] /\ PiecesAreTheirs'
    <3>1. CASE UNCHANGED cache
      BY <3>1 DEF TypeInv, PiecesAreTheirs, Kept
    <3>2. CASE ~UNCHANGED cache
      <4> DEFINE p == req[Head(outbox).r].piece
      <4>1. Head(outbox).ok /\ Keep(p, Head(outbox).bytes)
        BY <1>4, <3>2 DEF OnMessage
      <4> QED BY <4>1, <2>5, KeepKeeps
    <3> QED BY <3>1, <3>2
  <2> QED BY <2>4, <2>6, <1>1, <1>2, NotSpinning
<1> QED BY <1>3, <1>4

LEMMA WantSteps ==
  ASSUME IInv, \/ \E n \in 0..MaxEntries : Want(n)
               \/ WantFlush \/ WantWait \/ \E ok \in BOOLEAN : WantWaitEnd(ok)
  PROVE  IInv'
<1>. QueueInv /\ TypeInv /\ OncePending /\ Answers /\ PiecesAreTheirs
  BY DEF IInv
<1>1. /\ thread # "spin" /\ thread' \in {"free", "wait"}
      /\ UNCHANGED <<cur, cache, req, ctrl, data, outbox, workVars>>
  BY DEF Want, WantFlush, WantWait, WantWaitEnd, pageVars, linkVars
<1>2. QueueInv' /\ Posted' = Posted
  <2>1. CASE \E n \in 0..MaxEntries : Want(n)
    <3>1. PICK n \in 0..MaxEntries : Want(n)
      BY <2>1
    <3> DEFINE m == [kind |-> "want", seq |-> want.seq + 1, from |-> want.from, n |-> n]
    <3>2. n \in Nat /\ m \in WantMsg
      BY DEF QueueInv, WantMsg
    <3>3. unposted' = Append(unposted, m) /\ inbox' = inbox
          /\ want' = [want EXCEPT !.seq = @ + 1]
      BY <3>1 DEF Want, linkVars
    <3>4. unposted' \in Seq(WantMsg)
      BY <3>2, <3>3 DEF QueueInv
    <3>5. want' \in [seq: Nat, from: Nat, first: Nat, to: Nat]
      BY <3>3 DEF QueueInv
    <3> QED BY <3>3, <3>4, <3>5 DEF QueueInv, Posted, Reads
  <2>2. CASE WantFlush
    BY <2>2, PostWants DEF WantFlush, QueueInv
  <2>3. CASE WantWait
    <3>1. want' = [seq |-> want.seq, from |-> want.seq + 1, first |-> want.from, to |-> want.seq]
      BY <2>3 DEF WantWait, QueueInv
    <3>2. want' \in [seq: Nat, from: Nat, first: Nat, to: Nat]
      BY <3>1 DEF QueueInv
    <3> QED BY <3>2, <2>3, PostWants DEF WantWait
  <2>4. CASE \E ok \in BOOLEAN : WantWaitEnd(ok)
    <3>1. UNCHANGED <<inbox, unposted>> /\ want' = [want EXCEPT !.to = None]
      BY <2>4 DEF WantWaitEnd, linkVars
    <3> QED BY <3>1 DEF QueueInv, Posted, Reads, None
  <2> QED BY <2>1, <2>2, <2>3, <2>4
<1>3. OncePending' /\ Made' = Made
  BY <1>1, <1>2 DEF OncePending, Made, workVars
<1>4. Answers' /\ PiecesAreTheirs' /\ cache' \in [Pieces -> Pieces \cup {NoPiece}]
  BY <1>1, <1>3 DEF Answers, PiecesAreTheirs, Kept, TypeInv
<1> QED BY <1>1, <1>2, <1>3, <1>4, NotSpinning

(* The steps of the worker.                                                *)

(* The worker answers nothing: it takes a message, and tells the batches   *)
(* settled, or goes on with a synchronous request.                         *)
LEMMA WantTellTypes ==
  ASSUME TypeInv, NEW l, NEW from, NEW last, WantTell(l, from, last)
  PROVE  /\ ctrl' = [gen |-> ctrl'.gen, ok |-> ctrl'.ok, late |-> ctrl'.late, done |-> ctrl'.done]
         /\ ctrl'.gen = ctrl.gen /\ ctrl'.ok = ctrl.ok /\ ctrl'.late = ctrl.late
<1>1. PICK d : ctrl' = [ctrl EXCEPT !.done = d]
  BY DEF WantTell
<1> QED BY <1>1 DEF TypeInv

(* The page's side and the buffer do not notice.                           *)
LEMMA WorkerTakes ==
  ASSUME IInv, QueueInv', OncePending', TypeInv',
         UNCHANGED <<thread, cur, cache, req, data, outbox>>,
         ctrl'.gen = ctrl.gen, ctrl'.ok = ctrl.ok, ctrl'.late = ctrl.late,
         worker' = "runs" => SyncAwaited' /\ WriteAwaited' /\ worker = "runs"
  PROVE  IInv'
<1>1. BufferIsCurs' /\ Answers' /\ PiecesAreTheirs'
  BY DEF IInv, BufferIsCurs, Answers, Made, PiecesAreTheirs, Kept
<1>2. worker' = "runs" => LateAwaited'
  BY DEF IInv, Order, LateAwaited, Awaited
<1> QED BY <1>1, <1>2 DEF IInv, Order

LEMMA TakeSteps ==
  ASSUME IInv, \/ TakeRead \/ TakeWant \/ Die
               \/ \E s \in Batches : SettleEntry(s)
               \/ \E r \in Requests : Held(r)
  PROVE  IInv'
<1>. QueueInv /\ TypeInv /\ OncePending /\ Order
  BY DEF IInv
<1>1. worker = "runs" /\ SyncAwaited /\ WriteAwaited
  BY DEF TakeRead, TakeWant, Die, SettleEntry, Held, Runs, Order
<1>2. CASE TakeRead
  <2>1. /\ settling = Idle /\ UNCHANGED <<pageVars, req, ctrl, data, outbox, worker, settling>>
        /\ inbox # <<>> /\ Head(inbox).kind = "read" /\ inbox' = Tail(inbox)
        /\ work' = work \cup {Head(inbox).r} /\ UNCHANGED <<want, unposted>>
    BY <1>2 DEF TakeRead, Runs, wantVars
  <2>2. QueueInv' /\ Posted' = Posted \ {Head(inbox).r} /\ Head(inbox).r \in Posted
    BY <2>1, TakeOne
  <2>3. OncePending'
    BY <2>1, <2>2 DEF OncePending, Made
  <2>4. Posted' \cup work' \subseteq Posted \cup work
    BY <2>1, <2>2
  <2>5. SyncAwaited' /\ WriteAwaited'
    BY <1>1, <2>1, <2>4 DEF SyncAwaited, WriteAwaited, Awaited, Writing, pageVars
  <2>6. TypeInv'
    BY <2>1 DEF TypeInv, pageVars
  <2> QED BY <1>1, <2>1, <2>2, <2>3, <2>5, <2>6, WorkerTakes DEF pageVars
<1>3. CASE TakeWant \/ \E s \in Batches : SettleEntry(s)
  <2>1. UNCHANGED <<pageVars, req, data, outbox, workVars, want, unposted>>
    BY <1>3 DEF TakeWant, SettleEntry
  <2>2. \E l, from, last : WantTell(l, from, last)
    BY <1>3 DEF TakeWant, SettleEntry
  <2>3. /\ ctrl' = [gen |-> ctrl'.gen, ok |-> ctrl'.ok, late |-> ctrl'.late, done |-> ctrl'.done]
        /\ ctrl'.gen = ctrl.gen /\ ctrl'.ok = ctrl.ok /\ ctrl'.late = ctrl.late
    BY <2>2, WantTellTypes
  <2>4. QueueInv' /\ Posted' = Posted
    <3>1. CASE TakeWant
      BY <3>1, <2>1, TakeOne DEF TakeWant
    <3>2. CASE \E s \in Batches : SettleEntry(s)
      BY <3>2, <2>1 DEF SettleEntry, QueueInv, Posted, Reads
    <3> QED BY <1>3, <3>1, <3>2
  <2>5. TypeInv' /\ OncePending'
    BY <2>1, <2>3, <2>4 DEF TypeInv, OncePending, Made, pageVars, workVars
  <2>6. SyncAwaited' /\ WriteAwaited'
    BY <1>1, <2>1, <2>3, <2>4
       DEF SyncAwaited, WriteAwaited, Awaited, Writing, pageVars, workVars
  <2> QED BY <1>1, <2>1, <2>3, <2>4, <2>5, <2>6, WorkerTakes DEF pageVars
<1>4. CASE Die
  <2>1. /\ worker' = "dead" /\ UNCHANGED <<pageVars, req, linkVars, work, settling, wantVars>>
    BY <1>4 DEF Die
  <2>2. QueueInv' /\ OncePending' /\ TypeInv'
    BY SMTT(30), <2>1 DEF QueueInv, OncePending, TypeInv, Posted, Reads, Made, pageVars, linkVars, wantVars
  <2> QED BY <2>1, <2>2, WorkerTakes DEF pageVars, linkVars
<1>5. CASE \E r \in Requests : Held(r)
  <2>1. PICK r \in Requests : Held(r)
    BY <1>5
  <2>2. /\ r \in work /\ work' = work \ {r} /\ settling' = [r |-> r, ok |-> FALSE, at |-> "held"]
        /\ UNCHANGED <<pageVars, req, ctrl, data, inbox, outbox, worker, want, unposted>>
    BY <2>1 DEF Held, linkVars, wantVars
  <2>3. QueueInv' /\ Posted' = Posted
    BY <2>2 DEF QueueInv, Posted, Reads
  <2>4. r \in 1..Len(req) /\ r # None /\ r \notin Posted
    BY <2>2 DEF OncePending, Made, None
  <2>5. TypeInv' /\ OncePending'
    BY <2>2, <2>3, <2>4 DEF TypeInv, OncePending, Made, pageVars
  <2>6. SyncAwaited' /\ WriteAwaited'
    BY <1>1, <2>2, <2>3 DEF SyncAwaited, WriteAwaited, Awaited, Writing, pageVars
  <2> QED BY <1>1, <2>2, <2>3, <2>5, <2>6, WorkerTakes DEF pageVars
<1> QED BY <1>2, <1>3, <1>4, <1>5

(* The answer to request r decided: by message, or on shared memory when   *)
(* the page spins for r.                                                   *)
LEMMA SettleSteps ==
  ASSUME IInv, \/ \E r \in Requests, ok \in BOOLEAN : ReadEnds(r, ok)
               \/ \E ok \in BOOLEAN : HeldEnds(ok)
  PROVE  IInv'
<1>. QueueInv /\ TypeInv /\ OncePending /\ Order /\ BufferIsCurs /\ Answers /\ PiecesAreTheirs
  BY DEF IInv
<1>1. PICK r \in Made, ok \in BOOLEAN :
        /\ Settle(r, ok) /\ r \in work \cup {settling.r} /\ settling.at \in {"idle", "held"}
        /\ r \notin Posted /\ work' = work \ {r}
        /\ req[r].kind = "sync" => Awaited(r)
  <2>1. SyncAwaited
    BY DEF Order, ReadEnds, HeldEnds, Runs
  <2>2. CASE \E r \in Requests, ok \in BOOLEAN : ReadEnds(r, ok)
    BY <2>1, <2>2 DEF ReadEnds, Runs, Idle, OncePending, SyncAwaited
  <2>3. CASE \E ok \in BOOLEAN : HeldEnds(ok)
    <3>1. settling.at = "held" /\ settling.r \in Made
      BY <2>3 DEF HeldEnds, TypeInv, OncePending, Idle, Made, None
    <3> QED BY <2>1, <2>3, <3>1 DEF HeldEnds, OncePending, SyncAwaited
  <2> QED BY <2>2, <2>3
<1>2. /\ worker = "runs"
      /\ UNCHANGED <<pageVars, req, data, inbox, worker, wantVars>>
  BY DEF ReadEnds, HeldEnds, Runs
<1>3. QueueInv' /\ Posted' = Posted /\ Made' = Made
  BY <1>2 DEF QueueInv, Posted, Reads, Made, wantVars
<1>4. SyncAwaited /\ LateAwaited /\ r > 0 /\ r \in Nat /\ r <= Len(req) /\ req[r].kind \in Kinds
  <2>1. \A S : req \in Seq(S) => req[r] \in S
    BY DEF Made
  <2>2. req[r].kind \in Kinds
    BY <2>1 DEF TypeInv
  <2> QED BY <2>2, <1>2 DEF Order, Made
<1>5. \/ ByMessage(r, ok)
      \/ /\ OnSharedMemory(r, ok) /\ Awaited(r)
         /\ \/ UNCHANGED ctrl /\ ctrl.late <= 0
            \/ ctrl' = [ctrl EXCEPT !.late = -r]
  <2>1. CASE req[r].kind = "ask"
    BY <2>1, <1>1 DEF Settle
  <2>2. CASE req[r].kind = "sync"
    BY <2>2, <1>1, <1>4 DEF Settle, LateAwaited, Awaited, TypeInv
  <2>3. CASE req[r].kind = "late"
    BY <2>3, <1>1, <1>4 DEF Settle, LateAwaited
  <2> QED BY <2>1, <2>2, <2>3, <1>4 DEF Kinds
<1>6. CASE ByMessage(r, ok)
  <2>1. settling' = Idle /\ UNCHANGED ctrl /\ outbox' = Append(outbox, Reply(r, ok))
    BY <1>6 DEF ByMessage
  <2>2. TypeInv' /\ OncePending'
    BY <2>1, <1>1, <1>2, <1>3 DEF TypeInv, OncePending, Idle, None, Made, pageVars
  <2>3. Order'
    BY <2>1, <1>1, <1>2, <1>3, <1>4
       DEF Order, SyncAwaited, LateAwaited, WriteAwaited, Awaited, Writing, Idle, pageVars
  <2>4. BufferIsCurs' /\ PiecesAreTheirs'
    BY <2>1, <1>2 DEF BufferIsCurs, PiecesAreTheirs, Kept, pageVars
  <2>5. Reply(r, ok) \in [r: Nat, ok: BOOLEAN, bytes: Pieces \cup {NoPiece}]
    BY <1>4, PieceOfMade DEF Reply
  <2>6. Answers'
    <3>1. /\ outbox' \in Seq([r: Nat, ok: BOOLEAN, bytes: Pieces \cup {NoPiece}])
          /\ Len(outbox) \in Nat /\ Len(outbox') = Len(outbox) + 1
          /\ \A i \in 1..Len(outbox) : outbox'[i] = outbox[i]
          /\ outbox'[Len(outbox) + 1] = Reply(r, ok)
      BY <2>1, <2>5 DEF Answers
    <3>2. ASSUME NEW i \in 1..Len(outbox'), outbox'[i].ok
          PROVE  outbox'[i].r \in Made' /\ outbox'[i].bytes = req'[outbox'[i].r].piece
      <4>1. CASE i \in 1..Len(outbox)
        BY <3>1, <3>2, <4>1, <1>2, <1>3 DEF Answers
      <4>2. CASE i = Len(outbox) + 1
        BY <3>1, <3>2, <4>2, <1>2, <1>3 DEF Reply
      <4> QED BY <3>1, <4>1, <4>2
    <3> QED BY <3>1, <3>2 DEF Answers
  <2> QED BY <2>2, <2>3, <2>4, <2>6, <1>3 DEF IInv
<1>7. CASE /\ OnSharedMemory(r, ok) /\ Awaited(r)
           /\ \/ UNCHANGED ctrl /\ ctrl.late <= 0
              \/ ctrl' = [ctrl EXCEPT !.late = -r]
  <2>1. settling' = [r |-> r, ok |-> ok, at |-> "write"] /\ UNCHANGED outbox
    BY <1>7 DEF OnSharedMemory
  <2>2. /\ ctrl' = [gen |-> ctrl'.gen, ok |-> ctrl'.ok, late |-> ctrl'.late, done |-> ctrl'.done]
        /\ ctrl'.gen = ctrl.gen /\ ctrl'.ok = ctrl.ok
        /\ ctrl'.late \in Int /\ ctrl'.late <= 0
    BY <1>4, <1>7 DEF TypeInv
  <2>3. TypeInv'
    BY <2>1, <2>2, <1>2, <1>4 DEF TypeInv, pageVars
  <2>4. OncePending'
    <3>1. settling'.r = r /\ settling'.at = "write"
      BY <2>1
    <3>2. r # None /\ work \subseteq Made /\ Posted \subseteq Made /\ Posted \cap work = {}
      BY <1>4 DEF OncePending, None
    <3> QED BY <3>1, <3>2, <1>1, <1>3 DEF OncePending
  <2>5. Order'
    BY <2>1, <2>2, <1>1, <1>2, <1>3, <1>4, <1>7
       DEF Order, SyncAwaited, LateAwaited, WriteAwaited, Awaited, Writing, pageVars
  <2>6. BufferIsCurs' /\ Answers' /\ PiecesAreTheirs'
    BY <2>1, <2>2, <1>2, <1>3 DEF BufferIsCurs, Answers, PiecesAreTheirs, Kept, pageVars
  <2> QED BY <2>3, <2>4, <2>5, <2>6, <1>3 DEF IInv
<1> QED BY <1>5, <1>6, <1>7

(* The answer's bytes are written on shared memory, then its number.       *)
LEMMA WriteSteps ==
  ASSUME IInv, WriteBytes \/ StoreNumber
  PROVE  IInv'
<1>. QueueInv /\ TypeInv /\ OncePending /\ Order /\ BufferIsCurs /\ Answers /\ PiecesAreTheirs
  BY DEF IInv
<1>1. /\ worker = "runs" /\ Writing
      /\ UNCHANGED <<pageVars, req, inbox, outbox, worker, work, wantVars>>
  BY DEF WriteBytes, StoreNumber, Writing
<1>2. SyncAwaited /\ LateAwaited /\ WriteAwaited
  BY <1>1 DEF Order
<1>3. /\ settling.r = cur /\ thread = "spin" /\ ctrl.gen # cur /\ ctrl.late <= 0
      /\ cur \in Made /\ cur # 0
  BY <1>1, <1>2 DEF WriteAwaited, Awaited, BufferIsCurs, TypeInv, Made, None
<1>4. QueueInv' /\ Posted' = Posted /\ Made' = Made
  BY <1>1 DEF QueueInv, Posted, Reads, Made, wantVars
<1>5. Answers' /\ PiecesAreTheirs'
  BY <1>1, <1>4 DEF Answers, PiecesAreTheirs, Kept, pageVars
<1>6. ~(ctrl.late > 0) /\ \A r \in Posted \cup work : req[r].kind # "sync"
  BY <1>2, <1>3 DEF SyncAwaited, Awaited, OncePending, TypeInv
<1>7. CASE WriteBytes
  <2>1. /\ settling.at = "write" /\ settling' = [settling EXCEPT !.at = "number"]
        /\ ctrl' = [ctrl EXCEPT !.ok = settling.ok]
        /\ data' = IF settling.ok THEN req[settling.r].piece ELSE data
    BY <1>7 DEF WriteBytes
  <2>2. /\ ctrl' = [gen |-> ctrl'.gen, ok |-> ctrl'.ok, late |-> ctrl'.late, done |-> ctrl'.done]
        /\ ctrl'.gen = ctrl.gen /\ ctrl'.ok = settling.ok /\ ctrl'.late = ctrl.late
        /\ settling'.r = cur /\ settling'.ok = settling.ok /\ settling'.at = "number"
    BY <2>1, <1>3 DEF TypeInv
  <2>3. TypeInv'
    BY <2>1, <2>2, <1>1 DEF TypeInv, pageVars
  <2>4. OncePending'
    BY <2>1, <2>2, <1>1, <1>3, <1>4 DEF OncePending, Made, None
  <2>5. Order'
    BY <2>1, <2>2, <1>1, <1>3, <1>4, <1>6
       DEF Order, SyncAwaited, LateAwaited, WriteAwaited, Awaited, Writing, pageVars
  <2>6. BufferIsCurs'
    BY <2>2, <1>1, <1>3 DEF BufferIsCurs, pageVars
  <2> QED BY <2>3, <2>4, <2>5, <2>6, <1>4, <1>5 DEF IInv
<1>8. CASE StoreNumber
  <2>1. /\ settling.at = "number" /\ settling' = Idle /\ data' = data
        /\ ctrl' = [ctrl EXCEPT !.gen = settling.r]
    BY <1>8 DEF StoreNumber
  <2>2. /\ ctrl' = [gen |-> ctrl'.gen, ok |-> ctrl'.ok, late |-> ctrl'.late, done |-> ctrl'.done]
        /\ ctrl'.gen = cur /\ ctrl'.ok = ctrl.ok /\ ctrl'.late = ctrl.late
    BY <2>1, <1>3 DEF TypeInv
  <2>3. TypeInv'
    BY <2>1, <2>2, <1>1 DEF TypeInv, Idle, None, pageVars
  <2>4. OncePending'
    BY <2>1, <1>1, <1>4 DEF OncePending, Made, Idle, None
  <2>5. Order'
    BY <2>1, <2>2, <1>1, <1>4, <1>6
       DEF Order, SyncAwaited, LateAwaited, WriteAwaited, Writing, Idle
  <2>6. BufferIsCurs'
    BY <2>1, <2>2, <1>1, <1>2 DEF BufferIsCurs, WriteAwaited, Writing, pageVars
  <2> QED BY <2>3, <2>4, <2>5, <2>6, <1>4, <1>5 DEF IInv
<1> QED BY <1>7, <1>8

LEMMA InitHolds == Init => IInv
<1> SUFFICES ASSUME Init PROVE IInv
  OBVIOUS
<1>1. req = <<>> /\ inbox = <<>> /\ outbox = <<>> /\ unposted = <<>>
  BY DEF Init
<1>2. Len(req) = 0 /\ Len(inbox) = 0 /\ Len(outbox) = 0 /\ Reads = {} /\ Posted = {} /\ Made = {}
  BY <1>1 DEF Reads, Posted, Made
<1>3. QueueInv
  BY <1>1, <1>2 DEF Init, QueueInv, None
<1>4. TypeInv /\ OncePending
  BY <1>1, <1>2 DEF Init, TypeInv, OncePending, Idle, None
<1>5. Order /\ BufferIsCurs
  BY <1>2 DEF Init, Order, SyncAwaited, LateAwaited, WriteAwaited, Writing, BufferIsCurs,
              Idle, None
<1>6. Answers /\ PiecesAreTheirs
  BY <1>1, <1>2 DEF Init, Answers, PiecesAreTheirs, Kept
<1> QED BY <1>3, <1>4, <1>5, <1>6 DEF IInv

LEMMA StepHolds == ~LongStalls /\ IInv /\ [Next]_vars => IInv'
<1> SUFFICES ASSUME ~LongStalls, IInv, [Next]_vars PROVE IInv'
  OBVIOUS
<1>1. CASE UNCHANGED vars
  <2>1. UNCHANGED <<pageVars, req, asks, linkVars, workVars, wantVars>>
    BY <1>1 DEF vars
  <2>2. UNCHANGED <<req, cur, thread, ctrl, data, inbox, outbox, unposted, worker, work, settling>>
    BY <2>1 DEF pageVars, linkVars, workVars, wantVars
  <2>3. QueueInv' /\ TypeInv' /\ Posted' = Posted /\ Made' = Made /\ Reads' = Reads
    BY <2>1, <2>2 DEF IInv, QueueInv, TypeInv, Posted, Reads, Made, pageVars, linkVars,
                      workVars, wantVars
  <2>4. OncePending' /\ BufferIsCurs' /\ Answers' /\ PiecesAreTheirs'
    BY <2>1, <2>2, <2>3 DEF IInv, OncePending, BufferIsCurs, Answers, PiecesAreTheirs, Kept,
                            pageVars, linkVars, workVars, wantVars
  <2>5. Order'
    BY <2>1, <2>2, <2>3 DEF IInv, Order, SyncAwaited, LateAwaited, WriteAwaited, Awaited,
                            Writing, pageVars, linkVars, workVars, wantVars
  <2> QED BY <2>3, <2>4, <2>5 DEF IInv
<1>2. CASE Page
  BY <1>2, ReadSteps, SpinEnds, CopyStep, MessageSteps, WantSteps DEF Page
<1>3. CASE Worker
  BY <1>3, TakeSteps, SettleSteps, WriteSteps DEF Worker
<1> QED BY <1>1, <1>2, <1>3 DEF Next

(* What the page keeps under a piece's name is that piece, whatever is     *)
(* requested, given up and answered, if the worker, once silent for        *)
(* DEAD_MS, is dead (data-client.js fetchSync, fetchSpin, data-worker.js   *)
(* settleSync).                                                            *)
THEOREM PiecesAreTheirsAlways ==
  ASSUME ~LongStalls
  PROVE  Spec => []PiecesAreTheirs
<1>1. IInv => PiecesAreTheirs
  BY DEF IInv
<1>2. IInv /\ [Next]_vars => IInv'
  BY StepHolds
<1> QED BY <1>1, <1>2, InitHolds, PTL DEF Spec

----------------------------------------------------------------------------
(* The waits for announced batches.  A batch is on its way in its order:   *)
(* the worker has taken those up to wantMax, then come those in the inbox  *)
(* (Wants), then those not posted yet.  What the worker says is done is    *)
(* settled from the window's start on, and no window starts after the      *)
(* first batch of the wait under way.                                      *)

Wants == {i \in 1..Len(inbox) : inbox[i].kind = "want"}
PostedTo == want.seq - Len(unposted)
Earliest == IF want.to = None THEN want.from ELSE want.first

BatchTypes ==
  /\ req \in Seq([piece: Pieces, kind: Kinds])
  /\ inbox \in Seq(Message) /\ unposted \in Seq(WantMsg)
  /\ want \in [seq: Nat, from: Nat, first: Nat, to: Nat]
  /\ 1 <= want.from /\ want.from <= want.seq + 1
  /\ wantMax \in Nat /\ wantFrom \in Nat \ {0} /\ wantFrom <= wantMax + 1
  /\ ctrl = [gen |-> ctrl.gen, ok |-> ctrl.ok, late |-> ctrl.late, done |-> ctrl.done]
  /\ ctrl.done \in Int

(* The engine waits for all that was announced; it announces nothing then. *)
OneWait ==
  /\ thread # "free" => engine = "runs"
  /\ want.to # None =>
       want.to = want.seq /\ want.first <= want.from /\ (thread = "wait" \/ engine = "waits")

InTurn ==
  /\ wantMax <= PostedTo
  /\ \A i \in Wants : /\ wantMax < inbox[i].seq /\ inbox[i].seq <= PostedTo
                      /\ inbox[i].from <= inbox[i].seq /\ inbox[i].from <= Earliest
  /\ \A i, j \in Wants : i < j => inbox[i].seq < inbox[j].seq
  /\ \A s \in (wantMax + 1)..PostedTo : \E i \in Wants : inbox[i].seq = s
  /\ \A k \in 1..Len(unposted) :
       /\ unposted[k].seq = PostedTo + k
       /\ unposted[k].from <= unposted[k].seq /\ unposted[k].from <= Earliest

Settled == (1..wantMax) \ DOMAIN left
DoneRight ==
  /\ Settled \subseteq landed
  /\ wantFrom <= Earliest /\ ctrl.done <= wantMax
  /\ wantFrom..ctrl.done \subseteq landed

BatchInv == BatchTypes /\ OneWait /\ InTurn /\ DoneRight

Asked ==
  /\ Posted \subseteq Made /\ work \subseteq Made
  /\ settling.at = "held" => settling.r \in Made

LEMMA KindOfMade ==
  ASSUME BatchTypes, NEW r \in Made
  PROVE  req[r].kind \in Kinds
<1>1. \A S : req \in Seq(S) => req[r] \in S
  BY DEF Made
<1> QED BY <1>1 DEF BatchTypes

(* The greatest of some integers up to b                                   *)
LEMMA Greatest ==
  ASSUME NEW a \in Int, NEW b \in Int, NEW T, T \subseteq a..b, T # {}
  PROVE  Max(T) \in T
<1> DEFINE N == {n \in Nat : b - n \in T}
           R == OpToRel(<, Nat)
<1>1. IsWellFoundedOn(R, Nat)
  BY NatLessThanWellFounded
<1>2. N # {} /\ N \in SUBSET Nat
  <2>1. PICK x \in T : TRUE
    OBVIOUS
  <2>2. b - x \in Nat /\ b - (b - x) = x
    BY <2>1
  <2> QED BY <2>1, <2>2
<1>3. \E n \in N : \A y \in N : ~(<<y, n>> \in R)
  <2> HIDE DEF R, N
  <2> QED BY <1>1, <1>2, WFMin
<1>4. \A x, y \in Nat : y < x => <<y, x>> \in R
  BY DEF OpToRel
<1>5. PICK n \in N : \A y \in N : ~(<<y, n>> \in R)
  BY <1>3
<1>6. \A y \in N : n <= y
  <2>1. \A y \in N : y \in Nat
    OBVIOUS
  <2>2. \A y \in N : ~(y < n)
    <3> HIDE DEF R, N
    <3> QED BY <1>4, <1>5, <2>1
  <2> HIDE DEF R, N
  <2> QED BY <2>1, <2>2
<1>7. \A y \in T : b - n >= y
  <2> TAKE y \in T
  <2>1. b - y \in N
    OBVIOUS
  <2> QED BY <2>1, <1>6
<1>8. \E x \in T : \A y \in T : x >= y
  BY <1>7
<1> QED BY <1>8 DEF Max

(* What the worker tells is settled from the window's start on.            *)
LEMMA Told ==
  ASSUME BatchTypes, NEW l, NEW from \in Nat \ {0}, NEW last \in Nat, from <= last + 1,
         WantTell(l, from, last)
  PROVE  /\ ctrl' = [gen |-> ctrl'.gen, ok |-> ctrl'.ok, late |-> ctrl'.late, done |-> ctrl'.done]
         /\ ctrl'.done \in Int /\ ctrl'.done <= last
         /\ \A s \in from..ctrl'.done : s \notin DOMAIN l
<1> DEFINE T == {d \in (from - 1)..last : \A s \in from..d : s \notin DOMAIN l}
<1>1. T \subseteq (from - 1)..last /\ from - 1 \in T
  OBVIOUS
<1>2. Max(T) \in T
  <2>1. PICK a \in Int : a = from - 1
    OBVIOUS
  <2>2. last \in Int
    OBVIOUS
  <2> HIDE DEF T
  <2>3. T \subseteq a..last /\ T # {}
    BY <1>1, <2>1
  <2> QED BY <2>2, <2>3, Greatest
<1>3. ctrl' = [ctrl EXCEPT !.done = Max(T)]
  BY DEF WantTell
<1>4. PICK d \in T : d = Max(T)
  BY <1>2
<1>5. /\ ctrl'.done = d
      /\ ctrl' = [gen |-> ctrl'.gen, ok |-> ctrl'.ok, late |-> ctrl'.late, done |-> ctrl'.done]
  <2> HIDE DEF T
  <2> QED BY <1>3, <1>4 DEF BatchTypes
<1> QED BY <1>4, <1>5

(* Steps that leave the batches alone                                      *)
LEMMA BatchesAlone ==
  ASSUME BatchInv, UNCHANGED <<inbox, unposted, want, wantMax, wantFrom, left, landed>>,
         req' \in Seq([piece: Pieces, kind: Kinds]),
         UNCHANGED ctrl \/ \E g, o, x : ctrl' = [ctrl EXCEPT !.gen = g, !.ok = o, !.late = x],
         OneWait'
  PROVE  BatchInv'
<1>1. /\ ctrl'.done = ctrl.done
      /\ ctrl' = [gen |-> ctrl'.gen, ok |-> ctrl'.ok, late |-> ctrl'.late, done |-> ctrl'.done]
  BY DEF BatchInv, BatchTypes
<1>2. BatchTypes'
  BY <1>1 DEF BatchInv, BatchTypes
<1>3. Wants' = Wants /\ PostedTo' = PostedTo /\ Earliest' = Earliest /\ Settled' = Settled
  BY DEF Wants, PostedTo, Earliest, Settled
<1>4. InTurn'
  BY <1>3 DEF BatchInv, InTurn
<1>5. DoneRight'
  BY <1>1, <1>3 DEF BatchInv, DoneRight
<1> QED BY <1>2, <1>4, <1>5 DEF BatchInv

(* A read asked for, and taken by the worker                               *)
LEMMA ReadAsked ==
  ASSUME BatchInv, UNCHANGED <<unposted, want, wantMax, wantFrom, left, landed>>,
         NEW p \in Pieces, NEW k \in Kinds, Request(p, k),
         UNCHANGED ctrl \/ \E x : ctrl' = [ctrl EXCEPT !.late = x],
         OneWait'
  PROVE  BatchInv'
<1>1. /\ req' \in Seq([piece: Pieces, kind: Kinds]) /\ Len(req) + 1 \in Nat
  <2>1. req \in Seq([piece: Pieces, kind: Kinds]) /\ req' = Append(req, [piece |-> p, kind |-> k])
    BY DEF Request, BatchInv, BatchTypes
  <2>2. [piece |-> p, kind |-> k] \in [piece: Pieces, kind: Kinds]
    OBVIOUS
  <2> QED BY <2>1, <2>2
<1>2. PICK m \in ReadMsg : inbox' = Append(inbox, m)
  BY <1>1 DEF Request, ReadMsg
<1>3. /\ inbox' \in Seq(Message) /\ Len(inbox') = Len(inbox) + 1 /\ Len(inbox) \in Nat
      /\ \A i \in 1..Len(inbox) : inbox'[i] = inbox[i]
      /\ inbox'[Len(inbox) + 1] = m
  BY <1>2 DEF BatchInv, BatchTypes, Message
<1>4. Wants' = Wants /\ \A i \in Wants : inbox'[i] = inbox[i]
  BY <1>2, <1>3 DEF Wants, ReadMsg
<1>5. /\ ctrl'.done = ctrl.done
      /\ ctrl' = [gen |-> ctrl'.gen, ok |-> ctrl'.ok, late |-> ctrl'.late, done |-> ctrl'.done]
  BY DEF BatchInv, BatchTypes
<1>6. PostedTo' = PostedTo /\ Earliest' = Earliest /\ Settled' = Settled
  BY DEF PostedTo, Earliest, Settled
<1>7. BatchTypes'
  BY <1>1, <1>3, <1>5 DEF BatchInv, BatchTypes
<1>8. InTurn'
  BY <1>4, <1>6 DEF BatchInv, InTurn
<1>9. DoneRight'
  BY <1>5, <1>6 DEF BatchInv, DoneRight
<1> QED BY <1>7, <1>8, <1>9 DEF BatchInv

(* What is behind the head of the inbox, one place nearer                  *)
LEMMA HeadTaken ==
  ASSUME BatchTypes, inbox # <<>>, inbox' = Tail(inbox)
  PROVE  /\ inbox' \in Seq(Message) /\ inbox[1] = Head(inbox) /\ inbox[1] \in Message
         /\ \A i \in Wants' : i + 1 \in Wants /\ inbox'[i] = inbox[i + 1]
         /\ \A i \in Wants : i # 1 => i - 1 \in Wants' /\ inbox'[i - 1] = inbox[i]
         /\ \A i \in Wants \cup Wants' : i \in Nat /\ 1 <= i
<1>1. /\ inbox' \in Seq(Message) /\ Len(inbox') = Len(inbox) - 1 /\ Len(inbox) \in Nat \ {0}
      /\ \A i \in 1..(Len(inbox) - 1) : inbox'[i] = inbox[i + 1]
      /\ inbox[1] = Head(inbox) /\ inbox[1] \in Message
  BY DEF BatchTypes
<1> QED BY <1>1 DEF Wants

LEMMA ReadTaken ==
  ASSUME BatchInv, TakeRead
  PROVE  BatchInv'
<1>0. BatchTypes /\ inbox # <<>> /\ inbox' = Tail(inbox) /\ Head(inbox).kind = "read"
  BY DEF BatchInv, TakeRead
<1>1. /\ inbox' \in Seq(Message) /\ 1 \notin Wants
      /\ \A i \in Wants' : i + 1 \in Wants /\ inbox'[i] = inbox[i + 1]
      /\ \A i \in Wants : i - 1 \in Wants' /\ inbox'[i - 1] = inbox[i]
      /\ \A i \in Wants \cup Wants' : i \in Nat /\ 1 <= i
  <2>1. 1 \notin Wants
    BY <1>0, HeadTaken DEF Wants
  <2> QED BY <1>0, <2>1, HeadTaken
<1>2. UNCHANGED <<req, ctrl, unposted, want, wantMax, wantFrom, left, landed, thread, engine>>
  BY DEF TakeRead, wantVars, pageVars
<1>3. PostedTo' = PostedTo /\ Earliest' = Earliest /\ Settled' = Settled
  BY <1>2 DEF PostedTo, Earliest, Settled
<1>4. BatchTypes' /\ OneWait' /\ DoneRight'
  BY <1>1, <1>2, <1>3 DEF BatchInv, BatchTypes, OneWait, DoneRight
<1>5. InTurn'
  <2>1. ASSUME NEW s \in (wantMax' + 1)..PostedTo'
        PROVE  \E i \in Wants' : inbox'[i].seq = s
    <3>1. PICK i \in Wants : inbox[i].seq = s
      BY <1>2, <1>3 DEF BatchInv, InTurn
    <3> QED BY <1>1, <3>1
  <2>2. /\ UNCHANGED <<wantMax, unposted, PostedTo, Earliest>>
        /\ \A i \in Wants' : i \in Nat /\ i + 1 \in Wants /\ inbox'[i] = inbox[i + 1]
    BY <1>1, <1>2, <1>3
  <2>3. InTurn
    BY DEF BatchInv
  <2>4. \A i \in Wants' : /\ wantMax' < inbox'[i].seq /\ inbox'[i].seq <= PostedTo'
                          /\ inbox'[i].from <= inbox'[i].seq /\ inbox'[i].from <= Earliest'
    BY <2>2, <2>3 DEF InTurn
  <2>5. \A i, j \in Wants' : i < j => inbox'[i].seq < inbox'[j].seq
    BY <2>2, <2>3 DEF InTurn
  <2>6. /\ wantMax' <= PostedTo'
        /\ \A k \in 1..Len(unposted') :
             /\ unposted'[k].seq = PostedTo' + k
             /\ unposted'[k].from <= unposted'[k].seq /\ unposted'[k].from <= Earliest'
    BY <2>2, <2>3 DEF InTurn
  <2> QED BY <2>1, <2>4, <2>5, <2>6 DEF InTurn
<1> QED BY <1>4, <1>5 DEF BatchInv

(* A batch announced, posted, waited for, and a wait that ends             *)
LEMMA Announced ==
  ASSUME BatchInv, NEW n \in 0..MaxEntries, Want(n)
  PROVE  BatchInv'
<1>1. PICK m \in WantMsg :
        /\ unposted' = Append(unposted, m)
        /\ m.seq = want.seq + 1 /\ m.from = want.from
  <2>1. [kind |-> "want", seq |-> want.seq + 1, from |-> want.from, n |-> n] \in WantMsg
    BY SMTT(30), DataLinkAssumption DEF BatchInv, BatchTypes, WantMsg
  <2> QED BY <2>1 DEF Want
<1>2. /\ want.to = None /\ want'.seq = want.seq + 1 /\ want'.from = want.from
      /\ want'.first = want.first /\ want'.to = want.to
      /\ want' \in [seq: Nat, from: Nat, first: Nat, to: Nat]
      /\ want.seq \in Nat /\ want.from \in Nat
  <2>1. want.to = None
    BY DEF BatchInv, OneWait, Want
  <2>2. want \in [seq: Nat, from: Nat, first: Nat, to: Nat] /\ want' = [want EXCEPT !.seq = @ + 1]
    BY DEF BatchInv, BatchTypes, Want
  <2> QED BY <2>1, <2>2
<1>3. /\ Len(unposted) \in Nat /\ Len(unposted') = Len(unposted) + 1 /\ unposted' \in Seq(WantMsg)
      /\ \A k \in 1..Len(unposted) : unposted'[k] = unposted[k]
      /\ unposted'[Len(unposted) + 1] = m
  BY <1>1 DEF BatchInv, BatchTypes
<1>4. PostedTo' = PostedTo /\ PostedTo \in Int /\ Earliest' = want.from /\ Earliest = want.from
  BY <1>2, <1>3 DEF PostedTo, Earliest
<1>5. UNCHANGED <<req, inbox, ctrl, wantMax, wantFrom, left, landed, thread, engine>>
  BY DEF Want, linkVars, pageVars
<1>6. BatchTypes' /\ OneWait' /\ DoneRight'
  BY SMTT(30), <1>2, <1>3, <1>4, <1>5 DEF BatchInv, BatchTypes, OneWait, DoneRight, Settled
<1>7. InTurn'
  <2>1. Wants' = Wants
    BY <1>5 DEF Wants
  <2>2. ASSUME NEW k \in 1..Len(unposted')
        PROVE  /\ unposted'[k].seq = PostedTo + k
               /\ unposted'[k].from <= unposted'[k].seq /\ unposted'[k].from <= want.from
    <3>1. CASE k \in 1..Len(unposted)
      BY <1>3, <1>4, <3>1 DEF BatchInv, InTurn
    <3>2. CASE k = Len(unposted) + 1
      BY SMTT(30), <1>1, <1>2, <1>3, <3>2 DEF PostedTo, BatchInv, BatchTypes
    <3> QED BY <1>3, <3>1, <3>2
  <2> QED BY <1>4, <1>5, <2>1, <2>2 DEF BatchInv, InTurn
<1> QED BY <1>6, <1>7 DEF BatchInv

(* What is posted comes after what was.                                    *)
LEMMA AllPosted ==
  ASSUME BatchInv, inbox' = inbox \o unposted, unposted' = <<>>, want'.seq = want.seq,
         Earliest' = Earliest, wantMax' = wantMax
  PROVE  /\ inbox' \in Seq(Message) /\ unposted' \in Seq(WantMsg)
         /\ InTurn'
<1>1. /\ inbox' \in Seq(Message) /\ Len(inbox') = Len(inbox) + Len(unposted)
      /\ Len(inbox) \in Nat /\ Len(unposted) \in Nat
      /\ \A i \in 1..Len(inbox) : inbox'[i] = inbox[i]
      /\ \A k \in 1..Len(unposted) : inbox'[Len(inbox) + k] = unposted[k]
      /\ \A i \in 1..Len(inbox') :
           \/ i \in 1..Len(inbox)
           \/ i - Len(inbox) \in 1..Len(unposted) /\ i = Len(inbox) + (i - Len(inbox))
      /\ unposted' \in Seq(WantMsg) /\ Len(unposted') = 0
  <2>1. unposted \in Seq(Message) /\ inbox \in Seq(Message)
    <3>1. unposted \in Seq(WantMsg) /\ WantMsg \subseteq Message
      BY DEF BatchInv, BatchTypes, Message
    <3> QED BY <3>1 DEF BatchInv, BatchTypes
  <2> QED BY <2>1
<1>2. \A k \in 1..Len(unposted) : unposted[k].kind = "want" /\ k \in Int
  <2>1. \A k \in 1..Len(unposted) : unposted[k] \in WantMsg
    BY SMTT(30) DEF BatchInv, BatchTypes
  <2> QED BY <1>1, <2>1 DEF WantMsg
<1>3. /\ PostedTo' = want.seq /\ PostedTo = want.seq - Len(unposted) /\ want.seq \in Nat
      /\ Len(inbox) \in Nat /\ Len(unposted) \in Nat /\ PostedTo \in Int /\ PostedTo <= want.seq
  BY <1>1 DEF PostedTo, BatchInv, BatchTypes
<1>4. \A i \in Wants : i \in Wants' /\ inbox'[i] = inbox[i] /\ i \in Int /\ i <= Len(inbox)
  BY <1>1 DEF Wants
<1>5. \A k \in 1..Len(unposted) : Len(inbox) + k \in Wants'
  BY <1>1, <1>2 DEF Wants
<1>6. \A i \in Wants' : /\ i \in Int
                        /\ \/ i \in Wants
                           \/ i - Len(inbox) \in 1..Len(unposted) /\ inbox'[i] = unposted[i - Len(inbox)]
  BY <1>1 DEF Wants
<1>7. \A k \in 1..Len(unposted) :
        /\ unposted[k].seq = PostedTo + k
        /\ unposted[k].from <= unposted[k].seq /\ unposted[k].from <= Earliest
  BY DEF BatchInv, InTurn
<1>8. ASSUME NEW i \in Wants'
      PROVE  /\ wantMax < inbox'[i].seq /\ inbox'[i].seq <= want.seq
             /\ inbox'[i].from <= inbox'[i].seq /\ inbox'[i].from <= Earliest
  <2>0. wantMax <= PostedTo /\ wantMax \in Nat
    BY DEF BatchInv, InTurn, BatchTypes
  <2>1. CASE i \in Wants
    <3>1. inbox[i].seq \in Nat
      <4>1. inbox[i] \in Message /\ inbox[i].kind = "want"
        BY <2>1 DEF Wants, BatchInv, BatchTypes
      <4> QED BY <4>1 DEF Message, ReadMsg, WantMsg
    <3>2. wantMax < inbox[i].seq /\ inbox[i].seq <= PostedTo
          /\ inbox[i].from <= inbox[i].seq /\ inbox[i].from <= Earliest
      BY <2>1 DEF BatchInv, InTurn
    <3>3. inbox'[i] = inbox[i]
      BY <1>4, <2>1
    <3>4. PICK q \in Nat : q = inbox[i].seq
      BY <3>1
    <3>5. wantMax < q /\ q <= want.seq /\ inbox'[i].seq = q
      BY <1>3, <3>2, <3>3, <3>4
    <3> QED BY <3>2, <3>3, <3>4, <3>5
  <2>2. CASE i - Len(inbox) \in 1..Len(unposted) /\ inbox'[i] = unposted[i - Len(inbox)]
    <3>1. PICK k \in 1..Len(unposted) : inbox'[i] = unposted[k]
      BY <2>2
    <3> QED BY <1>3, <1>7, <2>0, <3>1
  <2> QED BY <1>6, <2>1, <2>2
<1>9. ASSUME NEW i \in Wants', NEW j \in Wants', i < j
      PROVE  inbox'[i].seq < inbox'[j].seq
  <2>1. CASE i \in Wants /\ j \in Wants
    BY <1>4, <1>9, <2>1 DEF BatchInv, InTurn
  <2>2. CASE i \in Wants /\ j \notin Wants
    <3>1. inbox[i].seq \in Nat /\ inbox[i].seq <= PostedTo
      <4>1. inbox[i] \in Message /\ inbox[i].kind = "want"
        BY SMTT(30), <2>2 DEF Wants, BatchInv, BatchTypes
      <4> QED BY <2>2, <4>1 DEF Message, ReadMsg, WantMsg, BatchInv, InTurn
    <3>2. PICK k \in 1..Len(unposted) : inbox'[j] = unposted[k]
      BY <1>6, <2>2
    <3>3. inbox'[j].seq = PostedTo + k /\ inbox'[i].seq = inbox[i].seq
      BY <1>4, <1>7, <2>2, <3>2
    <3> QED BY SMTT(30), <1>3, <3>1, <3>3
  <2>3. CASE i \notin Wants
    <3>1. i - Len(inbox) \in 1..Len(unposted) /\ inbox'[i] = unposted[i - Len(inbox)]
      BY <1>6, <2>3
    <3>2. j \notin Wants
      BY <1>1, <1>4, <1>6, <1>9, <3>1
    <3>3. j - Len(inbox) \in 1..Len(unposted) /\ inbox'[j] = unposted[j - Len(inbox)]
      BY <1>6, <3>2
    <3>4. PICK k \in 1..Len(unposted), l \in 1..Len(unposted) :
            k < l /\ inbox'[i] = unposted[k] /\ inbox'[j] = unposted[l]
      BY <1>1, <1>6, <1>9, <3>1, <3>3
    <3>5. inbox'[i].seq = PostedTo + k /\ inbox'[j].seq = PostedTo + l
      BY <1>7, <3>4
    <3> QED BY <1>3, <3>4, <3>5
  <2> QED BY <2>1, <2>2, <2>3
<1>10. ASSUME NEW s \in (wantMax + 1)..want.seq
       PROVE  \E i \in Wants' : inbox'[i].seq = s
  <2>1. CASE s <= PostedTo
    <3>1. PICK i \in Wants : inbox[i].seq = s
      BY <1>1, <1>3, <2>1 DEF BatchInv, InTurn
    <3> QED BY <1>4, <3>1
  <2>2. CASE s > PostedTo
    <3>1. PICK k \in 1..Len(unposted) : s = PostedTo + k
      <4>1. wantMax \in Nat
        BY DEF BatchInv, BatchTypes
      <4>2. s - PostedTo \in 1..Len(unposted)
        BY <1>1, <1>3, <2>2, <4>1
      <4> QED BY <1>3, <1>10, <4>1, <4>2
    <3> QED BY <1>1, <1>5, <1>7, <3>1
  <2>3. wantMax \in Nat
    BY DEF BatchInv, BatchTypes
  <2>4. s \in Int
    BY <1>3, <2>3
  <2>5. s <= PostedTo \/ s > PostedTo
    BY <1>3, <2>4
  <2> QED BY <2>1, <2>2, <2>5
<1>11. wantMax <= want.seq
  BY <1>1, <1>3 DEF BatchInv, BatchTypes, InTurn
<1>12. \A k \in 1..Len(unposted') : FALSE
  BY <1>1
<1>13. InTurn'
  BY <1>3, <1>8, <1>9, <1>10, <1>11, <1>12 DEF InTurn
<1> QED BY <1>1, <1>13

LEMMA Flushed ==
  ASSUME BatchInv, WantFlush
  PROVE  BatchInv'
<1>1. /\ inbox' = inbox \o unposted /\ unposted' = <<>>
      /\ UNCHANGED <<req, ctrl, want, wantMax, wantFrom, left, landed, thread, engine>>
  BY DEF WantFlush, pageVars
<1>2. Earliest' = Earliest /\ Settled' = Settled
  BY <1>1 DEF Earliest, Settled
<1>3. inbox' \in Seq(Message) /\ unposted' \in Seq(WantMsg) /\ InTurn'
  BY <1>1, <1>2, AllPosted
<1>4. BatchTypes' /\ OneWait' /\ DoneRight'
  BY <1>1, <1>2, <1>3 DEF BatchInv, BatchTypes, OneWait, DoneRight
<1> QED BY <1>3, <1>4 DEF BatchInv

LEMMA WaitBegun ==
  ASSUME BatchInv, WantWait
  PROVE  BatchInv'
<1>1. /\ inbox' = inbox \o unposted /\ unposted' = <<>> /\ thread = "free" /\ engine = "runs"
      /\ UNCHANGED <<req, ctrl, wantMax, wantFrom, left, landed>>
      /\ \/ thread' = "wait" /\ engine' = "runs"
         \/ thread' = "free" /\ engine' = "waits"
  BY DEF WantWait
<1>2. /\ want.to = None /\ want.seq \in Nat /\ want.from \in Nat /\ 1 <= want.from
      /\ want.from <= want.seq
  BY <1>1 DEF BatchInv, OneWait, BatchTypes, WantWait
<1>3. /\ want' \in [seq: Nat, from: Nat, first: Nat, to: Nat]
      /\ want'.seq = want.seq /\ want'.from = want.seq + 1
      /\ want'.first = want.from /\ want'.to = want.seq
  <2>1. /\ want \in [seq: Nat, from: Nat, first: Nat, to: Nat]
        /\ want' = [want EXCEPT !.from = want.seq + 1, !.first = want.from, !.to = want.seq]
    BY DEF BatchInv, BatchTypes, WantWait
  <2>2. want' = [seq |-> want.seq, from |-> want.seq + 1, first |-> want.from, to |-> want.seq]
    BY <2>1
  <2> QED BY <1>2, <2>2
<1>4. Earliest' = Earliest /\ Settled' = Settled
  BY <1>1, <1>2, <1>3 DEF Earliest, Settled, None
<1>5. inbox' \in Seq(Message) /\ unposted' \in Seq(WantMsg) /\ InTurn'
  BY <1>1, <1>3, <1>4, AllPosted
<1>6. BatchTypes'
  BY <1>1, <1>2, <1>3, <1>5 DEF BatchInv, BatchTypes
<1>7. OneWait'
  BY <1>1, <1>2, <1>3 DEF OneWait
<1>8. DoneRight'
  BY <1>1, <1>4 DEF BatchInv, DoneRight
<1> QED BY <1>5, <1>6, <1>7, <1>8 DEF BatchInv

(* A wait that ends and says that all is there is right.                   *)
LEMMA WaitOver ==
  ASSUME BatchInv, NEW ok \in BOOLEAN, WantWaitEnd(ok)
  PROVE  BatchInv' /\ WaitIsRight
<1>1. /\ UNCHANGED <<req, ctrl, inbox, unposted, wantMax, wantFrom, left, landed>>
      /\ thread' = "free" /\ engine' = (IF engine = "waits" THEN "runs" ELSE engine)
      /\ answer' = ok /\ (ok <=> ctrl.done >= want.to)
  BY DEF WantWaitEnd, linkVars
<1>2. /\ want \in [seq: Nat, from: Nat, first: Nat, to: Nat]
      /\ want' \in [seq: Nat, from: Nat, first: Nat, to: Nat]
      /\ want'.seq = want.seq /\ want'.from = want.from
      /\ want'.first = want.first /\ want'.to = None
  <2>1. /\ want \in [seq: Nat, from: Nat, first: Nat, to: Nat]
        /\ want' = [want EXCEPT !.to = None]
    BY DEF BatchInv, BatchTypes, WantWaitEnd
  <2> QED BY <2>1 DEF None
<1>3. Earliest' = want.from /\ Earliest <= want.from /\ Earliest \in Nat /\ want.from \in Nat
  BY <1>2 DEF Earliest, BatchInv, OneWait
<1>4. Wants' = Wants /\ PostedTo' = PostedTo /\ Settled' = Settled
  BY <1>1, <1>2 DEF Wants, PostedTo, Settled
<1>5. BatchTypes' /\ OneWait'
  BY <1>1, <1>2 DEF BatchInv, BatchTypes, OneWait
<1>6. InTurn'
  <2>1. \A i \in Wants : inbox[i].from \in Nat
    <3>1. \A i \in Wants : inbox[i] \in Message /\ inbox[i].kind = "want"
      BY DEF Wants, BatchInv, BatchTypes
    <3> QED BY <3>1 DEF Message, ReadMsg, WantMsg
  <2>2. \A k \in 1..Len(unposted) : unposted[k].from \in Nat
    <3>1. \A k \in 1..Len(unposted) : unposted[k] \in WantMsg
      BY DEF BatchInv, BatchTypes
    <3> QED BY <3>1 DEF WantMsg
  <2>3. /\ \A i \in Wants : inbox[i].from <= want.from
        /\ \A k \in 1..Len(unposted) : unposted[k].from <= want.from
    <3>1. /\ \A i \in Wants : inbox[i].from <= Earliest
          /\ \A k \in 1..Len(unposted) : unposted[k].from <= Earliest
      BY DEF BatchInv, InTurn
    <3> QED BY <1>3, <2>1, <2>2, <3>1
  <2> QED BY <1>1, <1>3, <1>4, <2>3 DEF BatchInv, InTurn
<1>7. DoneRight'
  BY <1>1, <1>3, <1>4 DEF BatchInv, DoneRight, BatchTypes
<1>8. ASSUME want.to # None, ok
      PROVE  want.first..want.to \subseteq landed
  <2>1. wantFrom <= want.first /\ wantFrom..ctrl.done \subseteq landed
    BY <1>8 DEF BatchInv, DoneRight, Earliest
  <2>2. ctrl.done >= want.to /\ ctrl.done \in Int /\ wantFrom \in Nat
    BY <1>1, <1>8 DEF BatchInv, BatchTypes
  <2>3. want.first..want.to \subseteq wantFrom..ctrl.done
    BY <1>2, <2>1, <2>2
  <2> QED BY <2>1, <2>3
<1> QED BY <1>1, <1>5, <1>6, <1>7, <1>8 DEF BatchInv, WaitIsRight

(* The greater of two                                                      *)
LEMMA GreaterOf ==
  ASSUME NEW a \in Nat, NEW b \in Nat
  PROVE  Max({a, b}) = IF a < b THEN b ELSE a
<1>1. \E x \in {a, b} : \A y \in {a, b} : x >= y
  OBVIOUS
<1>2. Max({a, b}) \in {a, b} /\ \A y \in {a, b} : Max({a, b}) >= y
  BY <1>1 DEF Max
<1> QED BY <1>2

(* The batch the worker takes is the one after those it has taken.         *)
LEMMA BatchTaken ==
  ASSUME BatchInv, TakeWant
  PROVE  BatchInv'
<1>0. BatchTypes /\ inbox # <<>> /\ inbox' = Tail(inbox) /\ Head(inbox).kind = "want"
  BY DEF BatchInv, TakeWant
<1>1. /\ inbox' \in Seq(Message) /\ inbox[1] \in WantMsg /\ 1 \in Wants
      /\ \A i \in Wants' : i + 1 \in Wants /\ inbox'[i] = inbox[i + 1]
      /\ \A i \in Wants : i # 1 => i - 1 \in Wants' /\ inbox'[i - 1] = inbox[i]
      /\ \A i \in Wants \cup Wants' : i \in Nat /\ 1 <= i
      /\ inbox[1] = Head(inbox)
  <2>1. inbox[1] \in WantMsg
    BY <1>0, HeadTaken DEF Message, ReadMsg, WantMsg
  <2>2. 1 \in Wants
    BY SMTT(30), <1>0, <2>1, HeadTaken DEF Wants, BatchTypes
  <2> QED BY <1>0, <2>1, <2>2, HeadTaken
<1>2. PICK m \in WantMsg : m = inbox[1]
  BY <1>1
<1>3. /\ m.seq \in Nat /\ m.from \in Nat /\ m.n \in Nat
      /\ wantMax \in Nat /\ wantFrom \in Nat \ {0} /\ wantFrom <= wantMax + 1
  BY <1>0 DEF WantMsg, BatchTypes
<1>4. /\ \A i \in Wants : inbox[i].seq \in Nat
      /\ PostedTo \in Int
  <2>1. \A i \in Wants : inbox[i] \in Message /\ inbox[i].kind = "want"
    BY SMTT(30), <1>0 DEF Wants, BatchTypes
  <2>2. \A i \in Wants : inbox[i].seq \in Nat
    BY <2>1 DEF Message, ReadMsg, WantMsg
  <2>3. PostedTo \in Int
    BY <1>0 DEF PostedTo, BatchTypes
  <2> QED BY <2>2, <2>3
<1>5. /\ wantMax < m.seq /\ m.seq <= PostedTo /\ m.from <= m.seq /\ m.from <= Earliest
      /\ \A i \in Wants : i # 1 => m.seq < inbox[i].seq
  BY <1>1, <1>2 DEF BatchInv, InTurn
<1>6. m.seq = wantMax + 1
  <2>1. wantMax + 1 \in (wantMax + 1)..PostedTo
    BY <1>3, <1>4, <1>5
  <2>2. PICK i \in Wants : inbox[i].seq = wantMax + 1
    BY <2>1 DEF BatchInv, InTurn
  <2> QED BY <1>2, <1>3, <1>5, <2>2
<1>7. /\ wantMax' = m.seq /\ wantFrom' \in {wantFrom, m.from} /\ wantFrom <= wantFrom'
      /\ m.from <= wantFrom'
  <2>1. wantMax' = Max({wantMax, m.seq}) /\ wantFrom' = Max({wantFrom, m.from})
    BY <1>1, <1>2 DEF TakeWant
  <2> QED BY <1>3, <1>6, <2>1, GreaterOf
<1>8. /\ left' = [s \in DOMAIN left \cup (IF m.n > 0 THEN {m.seq} ELSE {}) |->
                    IF s = m.seq THEN m.n ELSE left[s]]
      /\ landed' = (IF m.n = 0 THEN landed \cup {m.seq} ELSE landed)
      /\ WantTell(left', wantFrom', wantMax')
  BY <1>1, <1>2 DEF TakeWant
<1>9. UNCHANGED <<req, unposted, want, thread, engine>>
  BY DEF TakeWant, pageVars
<1>10. PostedTo' = PostedTo /\ Earliest' = Earliest
  BY <1>9 DEF PostedTo, Earliest
<1>11. wantFrom' \in Nat \ {0} /\ wantMax' \in Nat /\ wantFrom' <= wantMax' + 1
  <2>1. 1 <= m.from \/ wantFrom' = wantFrom
    BY <1>3, <1>7
  <2> QED BY <1>3, <1>5, <1>6, <1>7, <2>1
<1>12. /\ ctrl' = [gen |-> ctrl'.gen, ok |-> ctrl'.ok, late |-> ctrl'.late, done |-> ctrl'.done]
       /\ ctrl'.done \in Int /\ ctrl'.done <= wantMax'
       /\ \A s \in wantFrom'..ctrl'.done : s \notin DOMAIN left'
  <2>0. PICK l : l = left'
    OBVIOUS
  <2>1. PICK f \in Nat \ {0}, x \in Nat : f = wantFrom' /\ x = wantMax'
    BY <1>11
  <2>2. f <= x + 1 /\ WantTell(l, f, x)
    BY <1>8, <1>11, <2>0, <2>1
  <2>3. /\ ctrl' = [gen |-> ctrl'.gen, ok |-> ctrl'.ok, late |-> ctrl'.late, done |-> ctrl'.done]
        /\ ctrl'.done \in Int /\ ctrl'.done <= x
        /\ \A s \in f..ctrl'.done : s \notin DOMAIN l
    BY <1>0, <2>2, Told
  <2> QED BY <2>0, <2>1, <2>3
<1>13. BatchTypes' /\ OneWait'
  BY <1>1, <1>9, <1>11, <1>12 DEF BatchInv, BatchTypes, OneWait
<1>14. Settled' \subseteq landed'
  <2>1. Settled \subseteq landed
    BY DEF BatchInv, DoneRight
  <2>2. ASSUME NEW s \in Settled'
        PROVE  s \in landed'
    <3>1. s \in 1..m.seq /\ s \notin DOMAIN left'
      BY <1>7, <2>2 DEF Settled
    <3>2. CASE s = m.seq
      BY <1>3, <1>8, <3>1, <3>2
    <3>3. CASE s # m.seq
      <4>1. s \in 1..wantMax /\ s \notin DOMAIN left
        BY <1>3, <1>6, <1>8, <3>1, <3>3
      <4> QED BY <1>8, <2>1, <4>1 DEF Settled
    <3> QED BY <3>2, <3>3
  <2> QED BY <2>2
<1>15. DoneRight'
  <2>1. wantFrom'..ctrl'.done \subseteq Settled'
    BY <1>11, <1>12 DEF Settled
  <2>2. wantFrom' <= Earliest'
    BY <1>5, <1>7, <1>10 DEF BatchInv, DoneRight
  <2> QED BY <1>12, <1>14, <2>1, <2>2 DEF DoneRight
<1>16. InTurn'
  <2>1. wantMax' <= PostedTo'
    BY <1>5, <1>7, <1>10
  <2>2. ASSUME NEW i \in Wants'
        PROVE  /\ wantMax' < inbox'[i].seq /\ inbox'[i].seq <= PostedTo'
               /\ inbox'[i].from <= inbox'[i].seq /\ inbox'[i].from <= Earliest'
    <3>1. i + 1 \in Wants /\ i + 1 # 1 /\ inbox'[i] = inbox[i + 1]
      BY <1>1
    <3> QED BY <1>5, <1>7, <1>10, <3>1 DEF BatchInv, InTurn
  <2>3. ASSUME NEW i \in Wants', NEW j \in Wants', i < j
        PROVE  inbox'[i].seq < inbox'[j].seq
    <3>1. i + 1 \in Wants /\ j + 1 \in Wants /\ i + 1 < j + 1
          /\ inbox'[i] = inbox[i + 1] /\ inbox'[j] = inbox[j + 1]
      BY <1>1, <2>3
    <3> QED BY <3>1 DEF BatchInv, InTurn
  <2>4. ASSUME NEW s \in (wantMax' + 1)..PostedTo'
        PROVE  \E i \in Wants' : inbox'[i].seq = s
    <3>1. s \in (wantMax + 1)..PostedTo /\ s # m.seq
      BY <1>3, <1>4, <1>6, <1>7, <1>10
    <3>2. PICK i \in Wants : inbox[i].seq = s
      BY <3>1 DEF BatchInv, InTurn
    <3> QED BY <1>1, <1>2, <3>1, <3>2
  <2>5. \A k \in 1..Len(unposted') :
          /\ unposted'[k].seq = PostedTo' + k
          /\ unposted'[k].from <= unposted'[k].seq /\ unposted'[k].from <= Earliest'
    BY <1>9, <1>10 DEF BatchInv, InTurn
  <2> QED BY <2>1, <2>2, <2>3, <2>4, <2>5 DEF InTurn
<1> QED BY <1>13, <1>15, <1>16 DEF BatchInv

LEMMA EntrySettled ==
  ASSUME BatchInv, NEW s \in Batches, SettleEntry(s)
  PROVE  BatchInv'
<1>1. /\ UNCHANGED <<req, inbox, unposted, want, wantMax, wantFrom, thread, engine>>
      /\ WantTell(left', wantFrom, wantMax)
  BY DEF SettleEntry, pageVars
<1>2. /\ DOMAIN left \subseteq DOMAIN left' \cup {s} /\ landed \subseteq landed'
      /\ s \in DOMAIN left' \/ s \in landed'
  BY DEF SettleEntry
<1>3. /\ BatchTypes /\ wantFrom \in Nat \ {0} /\ wantMax \in Nat /\ wantFrom <= wantMax + 1
  BY DEF BatchInv, BatchTypes
<1>4. /\ ctrl' = [gen |-> ctrl'.gen, ok |-> ctrl'.ok, late |-> ctrl'.late, done |-> ctrl'.done]
      /\ ctrl'.done \in Int /\ ctrl'.done <= wantMax
      /\ \A d \in wantFrom..ctrl'.done : d \notin DOMAIN left'
  <2>1. PICK l : l = left'
    OBVIOUS
  <2>2. WantTell(l, wantFrom, wantMax)
    BY <1>1, <2>1
  <2> QED BY <1>3, <2>1, <2>2, Told
<1>5. Wants' = Wants /\ PostedTo' = PostedTo /\ Earliest' = Earliest
  BY <1>1 DEF Wants, PostedTo, Earliest
<1>6. BatchTypes' /\ OneWait' /\ InTurn'
  BY <1>1, <1>4, <1>5 DEF BatchInv, BatchTypes, OneWait, InTurn
<1>7. Settled' \subseteq landed'
  BY <1>1, <1>2 DEF BatchInv, DoneRight, Settled
<1>8. wantFrom..ctrl'.done \subseteq Settled'
  BY <1>1, <1>3, <1>4 DEF Settled
<1>9. DoneRight'
  BY <1>1, <1>4, <1>5, <1>7, <1>8 DEF BatchInv, DoneRight
<1> QED BY <1>6, <1>9 DEF BatchInv

LEMMA BatchInit == Init => BatchInv
<1> SUFFICES ASSUME Init PROVE BatchInv
  OBVIOUS
<1>1. req = <<>> /\ inbox = <<>> /\ unposted = <<>>
  BY DEF Init
<1>2. Len(req) = 0 /\ Len(inbox) = 0 /\ Len(unposted) = 0 /\ Wants = {}
  BY <1>1 DEF Wants
<1>3. want = [seq |-> 0, from |-> 1, first |-> 1, to |-> 0] /\ wantMax = 0 /\ wantFrom = 1
      /\ ctrl = [gen |-> 0, ok |-> TRUE, late |-> 0, done |-> 0]
      /\ thread = "free"
  BY DEF Init, None
<1>4. BatchTypes
  BY <1>1, <1>3 DEF BatchTypes
<1>5. OneWait
  BY <1>3 DEF OneWait, None
<1>6. PostedTo = 0 /\ Earliest = 1
  BY <1>2, <1>3 DEF PostedTo, Earliest, None
<1>7. InTurn
  BY <1>2, <1>3, <1>6 DEF InTurn
<1>8. DoneRight
  BY <1>3, <1>6 DEF DoneRight, Settled
<1> QED BY <1>4, <1>5, <1>7, <1>8 DEF BatchInv

(* The page's reads and messages, and the worker's answers, leave the      *)
(* batches and their wait alone.                                           *)
LEMMA ReadsBeside ==
  ASSUME BatchInv, NEW p \in Pieces, FetchSync(p) \/ FetchSpin(p) \/ FetchAsync(p)
  PROVE  BatchInv' /\ UNCHANGED want
<1>1. CASE FetchSync(p) \/ FetchSpin(p)
  <2>1. PICK k \in Kinds : Request(p, k)
    BY <1>1 DEF FetchSync, FetchSpin, Kinds
  <2>2. UNCHANGED <<unposted, want, wantMax, wantFrom, left, landed>>
    BY <1>1 DEF FetchSync, FetchSpin, Spin, wantVars
  <2>3. UNCHANGED ctrl \/ \E x : ctrl' = [ctrl EXCEPT !.late = x]
    BY <1>1 DEF FetchSync, FetchSpin
  <2>4. OneWait'
    BY <1>1, <2>2 DEF FetchSync, FetchSpin, Spin, Request, BatchInv, OneWait
  <2> QED BY <2>1, <2>2, <2>3, <2>4, ReadAsked
<1>2. CASE FetchAsync(p)
  <2>1. PICK k \in Kinds : Request(p, k)
    BY <1>2 DEF FetchAsync, Kinds
  <2>2. UNCHANGED <<unposted, want, wantMax, wantFrom, left, landed, ctrl>>
    BY <1>2 DEF FetchAsync, wantVars
  <2>3. OneWait'
    BY <1>2, <2>2 DEF FetchAsync, Request, BatchInv, OneWait
  <2> QED BY <2>1, <2>2, <2>3, ReadAsked
<1> QED BY <1>1, <1>2

LEMMA PageBeside ==
  ASSUME BatchInv, Answered \/ Copy \/ GiveUp \/ StopSpinning \/ WatchAsks \/ OnMessage
  PROVE  BatchInv' /\ UNCHANGED want
<1>1. UNCHANGED <<inbox, unposted, want, wantMax, wantFrom, left, landed, req>>
  BY DEF Answered, Copy, GiveUp, StopSpinning, WatchAsks, OnMessage, linkVars, wantVars
<1>2. UNCHANGED ctrl \/ ctrl' = [ctrl EXCEPT !.late = None]
  BY DEF Answered, Copy, GiveUp, StopSpinning, WatchAsks, OnMessage, linkVars, wantVars
<1>3. OneWait'
  BY <1>1 DEF Answered, Copy, GiveUp, StopSpinning, WatchAsks, OnMessage, BatchInv, OneWait
<1>4. ctrl' = [ctrl EXCEPT !.late = None] =>
        ctrl' = [ctrl EXCEPT !.gen = ctrl.gen, !.ok = ctrl.ok, !.late = None]
  BY DEF BatchInv, BatchTypes
<1>5. req' \in Seq([piece: Pieces, kind: Kinds])
  BY <1>1 DEF BatchInv, BatchTypes
<1>6. UNCHANGED ctrl \/ \E g, o, x : ctrl' = [ctrl EXCEPT !.gen = g, !.ok = o, !.late = x]
  BY <1>2, <1>4
<1> QED BY <1>1, <1>3, <1>5, <1>6, BatchesAlone

(* What the worker has was asked for.                                      *)
LEMMA AskedStep ==
  ASSUME BatchTypes, Asked, [Next]_vars
  PROVE  Asked'
<1>0. /\ req \in Seq([piece: Pieces, kind: Kinds])
      /\ inbox \in Seq(Message) /\ unposted \in Seq(WantMsg)
  BY DEF BatchTypes
<1>1. \A i \in 1..Len(inbox) : inbox[i].kind = "read" => inbox[i].r \in Made
  BY DEF Asked, Posted, Reads
<1>2. ASSUME \A i \in 1..Len(inbox') : inbox'[i].kind = "read" => inbox'[i].r \in Made'
      PROVE  Posted' \subseteq Made'
  BY <1>2 DEF Posted, Reads
<1>3. CASE UNCHANGED <<inbox, req, work, settling>>
  BY <1>3 DEF Asked, Posted, Reads, Made
<1>4. ASSUME NEW p, NEW k, Request(p, k), UNCHANGED workVars
      PROVE  Asked'
  <2>1. Made \subseteq Made' /\ Len(req) + 1 \in Made'
    BY <1>0, <1>4 DEF Request, Made
  <2>2. PICK m : m = [kind |-> "read", r |-> Len(req) + 1] /\ inbox' = Append(inbox, m)
    BY <1>4 DEF Request
  <2>3. ASSUME NEW i \in 1..Len(inbox')
        PROVE  inbox'[i].kind = "read" => inbox'[i].r \in Made'
    <3>1. (i \in 1..Len(inbox) /\ inbox'[i] = inbox[i]) \/ inbox'[i] = m
      BY <1>0, <2>2
    <3> QED BY <1>1, <2>1, <2>2, <3>1
  <2> QED BY <1>2, <1>4, <2>1, <2>3 DEF Asked, workVars
<1>5. ASSUME inbox' = inbox \o unposted, UNCHANGED <<req, workVars>>
      PROVE  Asked'
  <2>1. \A k \in 1..Len(unposted) : unposted[k].kind # "read"
    <3>1. \A k \in 1..Len(unposted) : unposted[k] \in WantMsg
      BY <1>0
    <3> QED BY <3>1 DEF WantMsg
  <2>2. ASSUME NEW i \in 1..Len(inbox')
        PROVE  inbox'[i].kind = "read" => inbox'[i].r \in Made'
    <3>1. \/ i \in 1..Len(inbox) /\ inbox'[i] = inbox[i]
          \/ \E k \in 1..Len(unposted) : inbox'[i] = unposted[k]
      <4>1. inbox \in Seq(Message) /\ unposted \in Seq(Message)
        <5>1. unposted \in Seq(WantMsg) /\ WantMsg \subseteq Message
          BY <1>0 DEF Message
        <5> QED BY <1>0, <5>1
      <4> QED BY <1>5, <4>1
    <3> QED BY <1>1, <1>5, <2>1, <3>1 DEF Made
  <2> QED BY <1>2, <1>5, <2>2 DEF Asked, workVars, Made
<1>6. ASSUME inbox # <<>>, inbox' = Tail(inbox), UNCHANGED req
      PROVE  \A i \in 1..Len(inbox') : inbox'[i].kind = "read" => inbox'[i].r \in Made'
  <2>1. \A i \in 1..Len(inbox') : i + 1 \in 1..Len(inbox) /\ inbox'[i] = inbox[i + 1]
    BY <1>0, <1>6
  <2> QED BY <1>1, <1>6, <2>1 DEF Made
<1>7. CASE TakeRead
  <2>1. Head(inbox).r \in Made
    BY <1>0, <1>1, <1>7 DEF TakeRead
  <2> QED BY <1>2, <1>6, <1>7, <2>1 DEF TakeRead, Asked, Made
<1>8. CASE TakeWant
  BY <1>2, <1>6, <1>8 DEF TakeWant, Asked, Made, workVars
<1>9. ASSUME NEW r \in Made, NEW ok, Settle(r, ok)
      PROVE  settling'.at # "held"
  <2>1. req[r].kind \in Kinds
    BY KindOfMade
  <2>2. ByMessage(r, ok) \/ OnSharedMemory(r, ok)
    <3> HIDE DEF ByMessage, OnSharedMemory
    <3> QED BY <1>9, <2>1 DEF Settle, Kinds
  <2>3. settling' = Idle \/ settling'.at = "write"
    BY <2>2 DEF ByMessage, OnSharedMemory
  <2> QED BY <2>3 DEF Idle
<1>10. CASE \/ \E r \in Requests, ok \in BOOLEAN : ReadEnds(r, ok)
            \/ \E r \in Requests : Held(r)
            \/ \E ok \in BOOLEAN : HeldEnds(ok)
            \/ WriteBytes \/ StoreNumber \/ Die
  <2>1. UNCHANGED <<inbox, req>> /\ work' \subseteq work
    BY <1>10 DEF ReadEnds, Held, HeldEnds, WriteBytes, StoreNumber, Die, linkVars
  <2>2. settling'.at = "held" => settling'.r \in Made
    <3>1. CASE \E r \in Requests, ok \in BOOLEAN : ReadEnds(r, ok)
      BY <1>9, <3>1 DEF ReadEnds, Asked
    <3>2. CASE \E r \in Requests : Held(r)
      BY <3>2 DEF Held, Asked
    <3>3. CASE \E ok \in BOOLEAN : HeldEnds(ok)
      BY <1>9, <3>3 DEF HeldEnds, Asked
    <3>4. CASE WriteBytes
      BY <3>4 DEF WriteBytes, Asked
    <3>5. CASE StoreNumber \/ Die
      BY <3>5 DEF StoreNumber, Die, Asked, Idle
    <3> QED BY <1>10, <3>1, <3>2, <3>3, <3>4, <3>5
  <2> QED BY <2>1, <2>2 DEF Asked, Posted, Reads, Made
<1>11. CASE Page
  <2>1. CASE \E p \in Pieces : FetchSync(p) \/ FetchSpin(p) \/ FetchAsync(p)
    BY <1>4, <2>1 DEF FetchSync, FetchSpin, FetchAsync, Spin
  <2>2. CASE WantFlush \/ WantWait
    BY <1>5, <2>2 DEF WantFlush, WantWait
  <2>3. CASE \/ Answered \/ Copy \/ GiveUp \/ StopSpinning \/ WatchAsks \/ OnMessage
             \/ \E n \in 0..MaxEntries : Want(n)
             \/ \E ok \in BOOLEAN : WantWaitEnd(ok)
    BY <1>3, <2>3 DEF Answered, Copy, GiveUp, StopSpinning, WatchAsks, OnMessage, Want,
                      WantWaitEnd, linkVars, workVars
  <2> QED BY <1>11, <2>1, <2>2, <2>3 DEF Page
<1>12. CASE \E s \in Batches : SettleEntry(s)
  BY <1>3, <1>12 DEF SettleEntry, workVars
<1>13. CASE UNCHANGED vars
  BY <1>3, <1>13 DEF vars, linkVars, workVars
<1> QED BY <1>7, <1>8, <1>10, <1>11, <1>12, <1>13 DEF Next, Worker

LEMMA WorkerBeside ==
  ASSUME BatchInv, Asked,
         \/ \E r \in Requests, ok \in BOOLEAN : ReadEnds(r, ok)
         \/ \E r \in Requests : Held(r)
         \/ \E ok \in BOOLEAN : HeldEnds(ok)
         \/ WriteBytes \/ StoreNumber \/ Die
  PROVE  BatchInv' /\ UNCHANGED want
<1>1. UNCHANGED <<inbox, unposted, want, wantMax, wantFrom, left, landed, req, thread, engine>>
  BY DEF ReadEnds, Held, HeldEnds, WriteBytes, StoreNumber, Die, linkVars, wantVars, pageVars
<1>2. \/ UNCHANGED ctrl
      \/ \E x : ctrl' = [ctrl EXCEPT !.late = x]
      \/ \E x : ctrl' = [ctrl EXCEPT !.ok = x]
      \/ \E x : ctrl' = [ctrl EXCEPT !.gen = x]
  <2>1. ASSUME NEW r \in Made, NEW ok, Settle(r, ok)
        PROVE  UNCHANGED ctrl \/ \E x : ctrl' = [ctrl EXCEPT !.late = x]
    <3>1. req[r].kind \in Kinds
      BY KindOfMade DEF BatchInv
    <3> QED BY <2>1, <3>1 DEF Settle, ByMessage, OnSharedMemory, Kinds
  <2>2. work \subseteq Made /\ (settling.at = "held" => settling.r \in Made)
    BY DEF Asked
  <2>3. CASE \/ \E r \in Requests, ok \in BOOLEAN : ReadEnds(r, ok)
             \/ \E ok \in BOOLEAN : HeldEnds(ok)
    BY <2>1, <2>2, <2>3 DEF ReadEnds, HeldEnds
  <2> QED BY <2>3 DEF Held, WriteBytes, StoreNumber, Die, linkVars
<1>3. OneWait'
  BY <1>1 DEF BatchInv, OneWait
<1>4. \A x : /\ [ctrl EXCEPT !.late = x] = [ctrl EXCEPT !.gen = ctrl.gen, !.ok = ctrl.ok, !.late = x]
             /\ [ctrl EXCEPT !.ok = x] = [ctrl EXCEPT !.gen = ctrl.gen, !.ok = x, !.late = ctrl.late]
             /\ [ctrl EXCEPT !.gen = x] = [ctrl EXCEPT !.gen = x, !.ok = ctrl.ok, !.late = ctrl.late]
  BY DEF BatchInv, BatchTypes
<1>5. req' \in Seq([piece: Pieces, kind: Kinds])
  BY <1>1 DEF BatchInv, BatchTypes
<1>6. UNCHANGED ctrl \/ \E g, o, x : ctrl' = [ctrl EXCEPT !.gen = g, !.ok = o, !.late = x]
  <2>1. CASE \E x : ctrl' = [ctrl EXCEPT !.late = x]
    <3>1. PICK y : ctrl' = [ctrl EXCEPT !.late = y]
      BY <2>1
    <3>2. ctrl' = [ctrl EXCEPT !.gen = ctrl.gen, !.ok = ctrl.ok, !.late = y]
      BY <1>4, <3>1
    <3>3. PICK g, o, x : g = ctrl.gen /\ o = ctrl.ok /\ x = y
      OBVIOUS
    <3>4. ctrl' = [ctrl EXCEPT !.gen = g, !.ok = o, !.late = x]
      BY <3>2, <3>3
    <3> QED BY <3>4
  <2>2. CASE \E x : ctrl' = [ctrl EXCEPT !.ok = x]
    <3>1. PICK y : ctrl' = [ctrl EXCEPT !.ok = y]
      BY <2>2
    <3>2. ctrl' = [ctrl EXCEPT !.gen = ctrl.gen, !.ok = y, !.late = ctrl.late]
      BY <1>4, <3>1
    <3>3. PICK g, o, x : g = ctrl.gen /\ o = y /\ x = ctrl.late
      OBVIOUS
    <3>4. ctrl' = [ctrl EXCEPT !.gen = g, !.ok = o, !.late = x]
      BY <3>2, <3>3
    <3> QED BY <3>4
  <2>3. CASE \E x : ctrl' = [ctrl EXCEPT !.gen = x]
    <3>1. PICK y : ctrl' = [ctrl EXCEPT !.gen = y]
      BY <2>3
    <3>2. ctrl' = [ctrl EXCEPT !.gen = y, !.ok = ctrl.ok, !.late = ctrl.late]
      BY <1>4, <3>1
    <3>3. PICK g, o, x : g = y /\ o = ctrl.ok /\ x = ctrl.late
      OBVIOUS
    <3>4. ctrl' = [ctrl EXCEPT !.gen = g, !.ok = o, !.late = x]
      BY <3>2, <3>3
    <3> QED BY <3>4
  <2> QED BY <1>2, <2>1, <2>2, <2>3
<1> QED BY <1>1, <1>3, <1>5, <1>6, BatchesAlone

LEMMA BatchStep ==
  BatchInv /\ Asked /\ [Next]_vars => BatchInv' /\ (WaitIsRight \/ UNCHANGED vars)
<1> SUFFICES ASSUME BatchInv, Asked, [Next]_vars PROVE BatchInv' /\ (WaitIsRight \/ UNCHANGED vars)
  OBVIOUS
<1>1. CASE UNCHANGED vars
  <2>1. UNCHANGED <<inbox, unposted, want, wantMax, wantFrom, left, landed, req, thread, engine,
                    ctrl>>
    BY <1>1 DEF vars, pageVars, linkVars, wantVars
  <2>2. OneWait' /\ req' \in Seq([piece: Pieces, kind: Kinds])
    BY <2>1 DEF BatchInv, OneWait, BatchTypes
  <2> QED BY <1>1, <2>1, <2>2, BatchesAlone
<1>2. UNCHANGED want => WaitIsRight
  BY DEF WaitIsRight
<1>3. CASE Page
  <2>1. CASE \E p \in Pieces : FetchSync(p) \/ FetchSpin(p) \/ FetchAsync(p)
    BY <1>2, <2>1, ReadsBeside
  <2>2. CASE Answered \/ Copy \/ GiveUp \/ StopSpinning \/ WatchAsks \/ OnMessage
    BY <1>2, <2>2, PageBeside
  <2>3. CASE \E n \in 0..MaxEntries : Want(n)
    <3>1. want'.to = want.to
      BY <2>3 DEF Want, BatchInv, BatchTypes
    <3> QED BY <2>3, <3>1, Announced DEF WaitIsRight
  <2>4. CASE WantFlush
    BY <1>2, <2>4, Flushed DEF WantFlush
  <2>5. CASE WantWait
    <3>1. want.to = None
      BY <2>5 DEF WantWait, BatchInv, OneWait
    <3> QED BY <2>5, <3>1, WaitBegun DEF WaitIsRight
  <2>6. CASE \E ok \in BOOLEAN : WantWaitEnd(ok)
    BY <2>6, WaitOver
  <2> QED BY <1>3, <2>1, <2>2, <2>3, <2>4, <2>5, <2>6 DEF Page
<1>4. CASE Worker
  <2>1. CASE TakeRead
    BY <1>2, <2>1, ReadTaken DEF TakeRead, wantVars
  <2>2. CASE TakeWant
    BY <1>2, <2>2, BatchTaken DEF TakeWant
  <2>3. CASE \E s \in Batches : SettleEntry(s)
    BY <1>2, <2>3, EntrySettled DEF SettleEntry
  <2>4. CASE \/ \E r \in Requests, ok \in BOOLEAN : ReadEnds(r, ok)
             \/ \E r \in Requests : Held(r)
             \/ \E ok \in BOOLEAN : HeldEnds(ok)
             \/ WriteBytes \/ StoreNumber \/ Die
    BY <1>2, <2>4, WorkerBeside
  <2> QED BY <1>4, <2>1, <2>2, <2>3, <2>4 DEF Worker
<1> QED BY <1>1, <1>3, <1>4 DEF Next

(* A wait that says that everything announced is there is right, for any   *)
(* number of batches and entries, whichever of them settle first, whatever *)
(* waits ran out before and wherever the worker was held (data-client.js   *)
(* wantWait, wantWaitForAsync, data-worker.js wantTell, settle).           *)
THEOREM WaitSaysTrueAlways == Spec => WaitSaysTrue
<1>1. BatchInv /\ Asked /\ [Next]_vars => BatchInv' /\ Asked'
  BY BatchStep, AskedStep DEF BatchInv
<1>2. BatchInv /\ Asked /\ [Next]_vars => [WaitIsRight]_vars
  BY BatchStep
<1>3. Init => Asked
  BY DEF Init, Asked, Posted, Reads, Idle
<1> QED BY <1>1, <1>2, <1>3, BatchInit, PTL DEF Spec, WaitSaysTrue

===============================================================================
