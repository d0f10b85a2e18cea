------------------------------ MODULE LinkReads ------------------------------
(***************************************************************************)
(* The downloads of a game's files over the player's connection: the turns *)
(* background requests take on it (src/src/vfs/net-link.js NetLink) and    *)
(* the readers that ask for them (src/src/vfs/http-backend.js): lists of   *)
(* reads an engine announces or a page predicts (wantList), a background's *)
(* own requests, reads that wait parked (fetchAhead) and synchronous ones. *)
(* A read for bytes on their way joins the request that brings them and    *)
(* makes it go first; while the game waits, a link that is not fast is     *)
(* silent but for what the game waits for.                                 *)
(*                                                                         *)
(* One file; every background request is for one piece, a unit of the code *)
(* (64 KiB or a whole block).  A promise's continuation runs with the step *)
(* that settles it.  All of it is one record, b: the operators below take  *)
(* the record through the program's nested calls.                          *)
(***************************************************************************)
EXTENDS Integers, Sequences, FiniteSets, SequencesExt

CONSTANTS
  Pieces, Lists, Readers, Jobs,
  Size,           \* of each piece
  Speed,          \* "thin", "mid" or "fast"
  Fit,            \* backgroundBytes()
  MaxBackground,  \* maxBackground()
  WantRequests, PlaceRequests, WantRetries,
  MaxCalls        \* bound: lists announced, reads, background requests

VARIABLES b, calls

vars == <<b, calls>>

NoJob == [kind |-> "none"]
Nobody == "nobody"
Over == [state |-> "over"]

(* kind: "announced", "place", "ahead" (a reader's next pieces, the load's *)
(* own), "fill"; stage: "queued" (wantQ, placeQ), "turn" (waits for one),  *)
(* "joins" (a reader's request, with, brings its piece), "joins turned"    *)
(* (the same, a turn taken), "sent", "aborted", "pause" (before a retry).  *)
Prio == [announced |-> 0, ahead |-> 1, fill |-> 4, place |-> 6]
NewJob(kind, p, stage) ==
  [kind |-> kind, piece |-> p, stage |-> stage, with |-> Nobody, tries |-> 0,
   prio |-> Prio[kind], urgent |-> FALSE, forLoad |-> kind \in {"announced", "ahead"}]

Init ==
  /\ calls = 0
  /\ b = [job |-> [n \in Jobs |-> NoJob],
          wantQ |-> <<>>, placeQ |-> <<>>,
          turns |-> <<>>,          \* NetLink.waiters
          spare |-> <<>>,          \* turns given, their request joined another: its size
          here |-> {},
          flights |-> [p \in Pieces |-> Nobody],     \* piece -> job
          fg |-> [p \in Pieces |-> Nobody],          \* piece -> reader
          list |-> [l \in Lists |-> Over],
          read |-> [r \in Readers |-> Over],
          recent |-> FALSE,        \* a dense run of waits ended a moment ago
          quiet |-> TRUE]          \* no read of the game ended a moment ago

----------------------------------------------------------------------------
(* The link.                                                               *)

InStage(s, stage) == {n \in Jobs : s.job[n] # NoJob /\ s.job[n].stage = stage}
Demand(s) == {r \in Readers : s.read[r].state = "asked"}
Waiting(s) ==
  \/ \E l \in Lists : s.list[l] # Over /\ s.list[l].hold
  \/ \E r \in Readers : s.read[r] # Over
Silenced(s) == Speed # "fast" /\ (Waiting(s) \/ s.recent)
BgCount(s) == Cardinality(InStage(s, "sent") \cup InStage(s, "aborted")) + Len(s.spare)
SizeOf(S) == MapThenSumSet(LAMBDA p: Size[p], S)
BgBytes(s) ==
  MapThenSumSet(LAMBDA n: Size[s.job[n].piece], InStage(s, "sent")) + FoldLeft(+, 0, s.spare)
DemandBytes(s) == MapThenSumSet(LAMBDA r: SizeOf(s.read[r].pieces), Demand(s))

(* mayStart; the quiet time of the kinds that have one.                    *)
MayStart(s, n) ==
  LET j == s.job[n]
      bytes == BgBytes(s) + Size[j.piece]
      calm == j.kind \in {"announced", "ahead"} \/ s.quiet IN
    \/ j.urgent
    \/ /\ Silenced(s) => j.forLoad
       /\ BgCount(s) < MaxBackground
       /\ (BgCount(s) > 0 /\ Speed # "fast") => bytes <= Fit
       /\ Speed = "thin" => Demand(s) = {} /\ calm
       /\ Speed = "mid" =>
            (BgCount(s) = 0 /\ Demand(s) = {}) \/ bytes + DemandBytes(s) <= Fit

(* Those of q that are in S, in their order                                *)
Among(q, S) ==
  LET kept[i \in 0..Len(q)] ==
        IF i = 0 THEN <<>>
        ELSE IF q[i] \in S THEN Append(kept[i - 1], q[i]) ELSE kept[i - 1]
  IN kept[Len(q)]
From(q, n) == Among(q, Jobs \ {n})

Rank(s, n) == s.job[n].prio + (IF s.job[n].urgent THEN 0 ELSE 10)
InOrder(s, n, ts) ==
  LET first == {m \in Range(ts) : Rank(s, m) <= Rank(s, n)} IN
    Among(ts, first) \o <<n>> \o Among(ts, Range(ts) \ first)

Stage(s, n, stage) == [s EXCEPT !.job[n].stage = stage]

Joins(s, n, stage) ==
  [Stage(s, n, stage) EXCEPT !.job[n].with = s.fg[s.job[n].piece]]

(* fetchBackgroundNow, a turn taken.                                       *)
Begin(s, n) ==
  IF s.fg[s.job[n].piece] # Nobody
  THEN [Joins(s, n, "joins turned") EXCEPT !.spare = Append(@, Size[s.job[n].piece])]
  ELSE Stage(s, n, "sent")

(* Mutant: those behind one that must wait are looked at too.              *)
KickOnePassing(acc, n) ==
  IF MayStart(acc.s, n)
  THEN [acc EXCEPT !.s = Begin([@ EXCEPT !.turns = From(@, n)], n)]
  ELSE acc

(* kick: one waiting download after the other, in their order.             *)
KickOne(acc, n) ==
  LET s == acc.s
      j == s.job[n] IN
    IF acc.stop \/ (Silenced(s) /\ ~j.urgent /\ ~j.forLoad) THEN acc
    ELSE IF MayStart(s, n)
         THEN [acc EXCEPT !.s = Begin([s EXCEPT !.turns = From(@, n)], n)]
         ELSE [acc EXCEPT !.stop = ~j.urgent]
Kick(s) ==
  LET kick[i \in 0..Len(s.turns)] ==
        IF i = 0 THEN [s |-> s, stop |-> FALSE] ELSE KickOne(kick[i - 1], s.turns[i])
  IN kick[Len(s.turns)].s

(* fetchBackground: what a foreground request brings is not asked for; a   *)
(* turn free now is taken unless others wait for theirs.                   *)
Ask(s, n) ==
  LET t == [s EXCEPT !.job[n].prio = Prio[s.job[n].kind]] IN
    IF s.fg[s.job[n].piece] # Nobody THEN Joins(s, n, "joins")
    ELSE IF s.turns = <<>> /\ MayStart(s, n) THEN Begin(s, n)
    ELSE Kick([Stage(t, n, "turn") EXCEPT !.turns = InOrder(t, n, @)])

Reorder(s, n) ==
  IF s.job[n].stage # "turn" THEN s
  ELSE Kick([s EXCEPT !.turns = InOrder(s, n, From(@, n))])

Promote(s, n) ==
  IF s.job[n].urgent THEN s ELSE Reorder([s EXCEPT !.job[n].urgent = TRUE], n)

ForLoad(s, n) ==
  IF s.job[n].forLoad THEN s
  ELSE Reorder([s EXCEPT !.job[n].forLoad = TRUE,
                         !.job[n].prio = IF s.job[n].stage = "turn" THEN 0 ELSE @], n)

----------------------------------------------------------------------------
(* Units: queued, started, settled.                                        *)

(* A job's promise settles: its piece is not on its way, the lists and the *)
(* reads that wait for it go on.                                           *)
Settle(s, n) ==
  LET p == s.job[n].piece IN
    [s EXCEPT
      !.job[n] = NoJob,
      !.flights[p] = IF @ = n THEN Nobody ELSE @,
      !.list = [l \in Lists |->
        IF s.list[l] = Over THEN Over
        ELSE [s.list[l] EXCEPT !.on = [q \in DOMAIN @ |->
               IF @[q].job = n THEN [@[q] EXCEPT !.job = Nobody] ELSE @[q]]]],
      !.read = [r \in Readers |->
        IF s.read[r].state = "flying" THEN [s.read[r] EXCEPT !.jobs = @ \ {n}] ELSE s.read[r]]]

(* runWant, up to its first await.                                         *)
RunWant(s, n) ==
  LET j == s.job[n]
      t == IF j.kind = "announced" THEN [s EXCEPT !.job[n].urgent = TRUE] ELSE s IN
    IF j.piece \in s.here THEN Settle(s, n) ELSE Ask(t, n)

Started(s, kind) ==
  {n \in Jobs : s.job[n].kind = kind /\ s.job[n].stage # "queued"}
Urgent(s, q) == Among(q, {n \in Range(q) : s.job[n].urgent})

(* pumpWant: the urgent units, the announced up to the window, then the    *)
(* predicted ones up to theirs.                                            *)
PumpOne(s) ==
  LET next ==
        IF Urgent(s, s.wantQ) # <<>> THEN Urgent(s, s.wantQ)
        ELSE IF Urgent(s, s.placeQ) # <<>> THEN Urgent(s, s.placeQ)
        ELSE IF s.wantQ # <<>>
             THEN IF Cardinality(Started(s, "announced")) < WantRequests THEN s.wantQ ELSE <<>>
        ELSE IF Cardinality(Started(s, "place")) < PlaceRequests THEN s.placeQ ELSE <<>>
  IN IF next = <<>> THEN s
     ELSE RunWant([s EXCEPT !.wantQ = From(@, next[1]), !.placeQ = From(@, next[1])], next[1])

Pump(s) ==
  LET queued == Cardinality(InStage(s, "queued"))
      pump[i \in 0..queued] == IF i = 0 THEN s ELSE PumpOne(pump[i - 1])
  IN pump[queued]

(* wantUnit                                                                *)
WantUnit(s, p, kind) ==
  LET n == CHOOSE n \in Jobs : s.job[n] = NoJob
      t == [s EXCEPT !.job[n] = NewJob(kind, p, "queued"), !.flights[p] = n] IN
    IF kind = "place" THEN [t EXCEPT !.placeQ = Append(@, n)]
    ELSE [t EXCEPT !.wantQ = Append(@, n)]

(* adoptPlaceUnit                                                          *)
Adopt(s, n) ==
  [s EXCEPT !.placeQ = From(@, n), !.wantQ = Append(@, n),
            !.job[n].kind = "announced", !.job[n].forLoad = TRUE]

(* Mutant: a flight waiting for its turn joined as it is.                  *)
JoinUnpromoted(s, n) ==
  IF s.job[n].kind = "place" /\ s.job[n].stage = "queued" THEN Adopt(s, n) ELSE s

(* A flight on its way joined by an announced list.                        *)
Join(s, n) ==
  IF s.job[n].kind = "place" /\ s.job[n].stage = "queued" THEN Adopt(s, n)
  ELSE IF s.job[n].kind = "place" THEN ForLoad(s, n)
  ELSE Promote(s, n)

(* wantRange, of one piece.                                                *)
WantPiece(s, p, kind) ==
  IF p \in s.here THEN s
  ELSE IF s.flights[p] = Nobody THEN WantUnit(s, p, kind)
  ELSE IF kind = "place" THEN s
  ELSE Join(s, s.flights[p])

WantEach(s, order, kind) ==
  LET want[i \in 0..Len(order)] ==
        IF i = 0 THEN s ELSE WantPiece(want[i - 1], order[i], kind)
  IN want[Len(order)]

Free(s) == Cardinality({n \in Jobs : s.job[n] = NoJob})
Orders == UNION {SetToSeqs(S) : S \in SUBSET Pieces}
Call == calls' = calls + 1

(* The wait of the last read or list over: the link looks again.           *)
WaitEnds(s) ==
  \E recent \in {FALSE, Speed # "fast"} : b' = Kick([s EXCEPT !.recent = recent])

(* wantList                                                                *)
WantList(l, order, kind, hold) ==
  /\ Call /\ b.list[l] = Over /\ Free(b) >= Len(order) /\ ~(Range(order) \subseteq b.here)
  /\ LET s == WantEach(b, order, kind)
         on == [p \in Range(order) \ b.here |-> [job |-> s.flights[p], joined |-> b.flights[p] # Nobody]]
     IN b' = Pump([s EXCEPT !.list[l] = [state |-> "open", kind |-> kind,
                                         hold |-> hold /\ kind # "place", on |-> on]])

(* A list goes on with a flight it joined over: what that did not bring is *)
(* asked for now, not joined again.  One whose units are all settled is    *)
(* over.                                                                   *)
ListAsks(l, p) ==
  /\ b.list[l] # Over /\ p \in DOMAIN b.list[l].on /\ Free(b) > 0
  /\ b.list[l].on[p].job = Nobody /\ b.list[l].on[p].joined
  /\ IF p \in b.here THEN b' = [b EXCEPT !.list[l].on[p].joined = FALSE]
     ELSE LET s == WantUnit(b, p, b.list[l].kind) IN
            b' = Pump([s EXCEPT !.list[l].on[p] = [job |-> s.flights[p], joined |-> FALSE]])
  /\ UNCHANGED calls

ListEnds(l) ==
  /\ b.list[l] # Over
  /\ \A p \in DOMAIN b.list[l].on : b.list[l].on[p].job = Nobody /\ ~b.list[l].on[p].joined
  /\ IF b.list[l].hold THEN WaitEnds([b EXCEPT !.list[l] = Over])
     ELSE b' = [b EXCEPT !.list[l] = Over]
  /\ UNCHANGED calls

(* fetchPartBg: a background request of a reader's next piece, or a fill's.*)
FetchPartBg(p, kind) ==
  /\ Call /\ p \notin b.here /\ b.flights[p] = Nobody /\ Free(b) > 0
  /\ LET n == CHOOSE n \in Jobs : b.job[n] = NoJob IN
       b' = Ask([b EXCEPT !.job[n] = NewJob(kind, p, "new"), !.flights[p] = n], n)

(* The reader moved away while its next piece waited for its turn.         *)
Drop(n) ==
  /\ n \in Range(b.turns) /\ b.job[n].kind = "ahead" /\ ~b.job[n].urgent
  /\ b' = Kick(Settle([b EXCEPT !.turns = From(@, n)], n))
  /\ UNCHANGED calls

----------------------------------------------------------------------------
(* A background request is over.                                           *)

(* Mutant: a unit that failed leaves the queue as it is.                   *)
AnsweredUnpumped(s, n, answer) ==
  LET j == s.job[n]
      t == IF answer = "ok" THEN [s EXCEPT !.here = @ \cup {j.piece}] ELSE s IN
    IF j.kind \in {"ahead", "fill"} THEN Settle(t, n)
    ELSE IF j.piece \in t.here THEN Pump(Settle(t, n))
    ELSE IF answer = "refused" \/ j.tries >= WantRetries THEN Settle(t, n)
    ELSE Stage(t, n, "pause")

(* What its asker does with the answer: "ok", "refused", "down" (also one  *)
(* aborted).                                                               *)
Answered(s, n, answer) ==
  LET j == s.job[n]
      t == IF answer = "ok" THEN [s EXCEPT !.here = @ \cup {j.piece}] ELSE s IN
    IF j.kind \in {"ahead", "fill"} THEN Settle(t, n)
    ELSE IF j.piece \in t.here THEN Pump(Settle(t, n))
    ELSE IF answer = "refused" \/ j.tries >= WantRetries THEN Pump(Settle(t, n))
    ELSE Stage(t, n, "pause")

BgEnds(n, answer) ==
  /\ b.job[n] # NoJob
  /\ \/ b.job[n].stage = "sent"
     \/ b.job[n].stage = "aborted" /\ answer = "down"
  /\ b' = Answered(Kick(Stage(b, n, "over")), n, answer)
  /\ UNCHANGED calls

(* The pause before another attempt ends.                                  *)
Retry(n) ==
  /\ b.job[n] # NoJob /\ b.job[n].stage = "pause"
  /\ LET s == [b EXCEPT !.job[n].tries = @ + 1] IN
       b' = IF s.job[n].piece \in s.here THEN Pump(Settle(s, n)) ELSE Ask(s, n)
  /\ UNCHANGED calls

(* The request joined is over: what it did not bring is asked for.         *)
JoinedGoesOn(s, n) ==
  IF s.job[n].piece \in s.here THEN Answered(s, n, "ok")
  ELSE IF s.job[n].stage = "joins" THEN Ask(s, n)
  ELSE [Stage(s, n, "sent") EXCEPT !.spare = IF @ = <<>> THEN @ ELSE Tail(@)]

JoinedGoOn(s, q) ==
  LET gone[i \in 0..Len(q)] == IF i = 0 THEN s ELSE JoinedGoesOn(gone[i - 1], q[i])
  IN gone[Len(q)]

----------------------------------------------------------------------------
(* The game's reads.                                                       *)

(* fetchAhead, the bytes on their way waited for: the missing ones asked.  *)
AskMissing(s, r, S) ==
  IF S \subseteq s.here THEN WaitEnds([s EXCEPT !.read[r] = Over])
  ELSE b' = [s EXCEPT
         !.read[r] = [state |-> "asked", pieces |-> S \ s.here],
         !.fg = [p \in Pieces |-> IF p \in S \ s.here THEN r ELSE @[p]]]

(* The downloads of q go first.                                            *)
PromoteEach(s, q) ==
  LET promoted[i \in 0..Len(q)] ==
        IF i = 0 THEN s
        ELSE LET t == promoted[i - 1] IN
          IF t.job[q[i]] = NoJob THEN t ELSE Pump(Promote(t, q[i]))
  IN promoted[Len(q)]

(* A read parks (prepare): what is on its way goes first and is waited for.*)
Read(r, S) ==
  /\ Call /\ b.read[r] = Over /\ ~(S \subseteq b.here)
  /\ LET flying == {b.flights[p] : p \in S} \ {Nobody}
         fgs == {b.fg[p] : p \in S} \ {Nobody}
         wait == [b EXCEPT !.read[r] =
                    [state |-> "flying", pieces |-> S, jobs |-> flying, readers |-> fgs]] IN
       IF flying \cup fgs = {} THEN AskMissing(b, r, S)
       ELSE b' = PromoteEach(wait, SetToSeq(flying))

ReadAsks(r) ==
  /\ b.read[r].state = "flying" /\ b.read[r].jobs = {} /\ b.read[r].readers = {}
  /\ AskMissing(b, r, b.read[r].pieces)
  /\ UNCHANGED calls

(* A parked read waits for r's foreground request no more.                 *)
Landed(parked, r) == [parked EXCEPT !.readers = @ \ {r}]

(* A foreground request is over (fetchForeground): the link looks before   *)
(* its bytes are there, those that joined it go on after.                  *)
FgEnds(r, ok) ==
  /\ b.read[r].state = "asked"
  /\ LET S == b.read[r].pieces
         s1 == Kick([b EXCEPT !.read[r] = [state |-> "landed"], !.quiet = Speed # "thin"])
         s2 == [s1 EXCEPT
                 !.here = IF ok THEN @ \cup S ELSE @,
                 !.fg = [p \in Pieces |-> IF @[p] = r THEN Nobody ELSE @[p]],
                 !.read = [q \in Readers |->
                   IF @[q].state = "flying" THEN Landed(@[q], r) ELSE @[q]]]
         joined == {n \in InStage(s2, "joins") \cup InStage(s2, "joins turned") :
                      s2.job[n].with = r} IN
       WaitEnds([JoinedGoOn(s2, SetToSeq(joined)) EXCEPT !.read[r] = Over])
  /\ UNCHANGED calls

(* A synchronous read (fetchRange): requests under way for its bytes are   *)
(* aborted first.                                                          *)
SyncRead(p, ok) ==
  /\ Call /\ p \notin b.here
  /\ WaitEnds([b EXCEPT
       !.here = IF ok THEN @ \cup {p} ELSE @,
       !.quiet = Speed # "thin",
       !.job = [n \in Jobs |->
         IF @[n] # NoJob /\ @[n].piece = p /\ @[n].stage = "sent"
         THEN [@[n] EXCEPT !.stage = "aborted"] ELSE @[n]]])

----------------------------------------------------------------------------
(* Time.                                                                   *)

Timer == b.turns # <<>> /\ b' = Kick(b) /\ UNCHANGED calls

QuietPasses ==
  /\ ~b.quiet /\ Demand(b) = {}
  /\ b' = [b EXCEPT !.quiet = TRUE] /\ UNCHANGED calls

LoadOver == b.recent /\ b' = [b EXCEPT !.recent = FALSE] /\ UNCHANGED calls

Expire == b.spare # <<>> /\ b' = [b EXCEPT !.spare = Tail(@)] /\ UNCHANGED calls

Calls ==
  \/ \E r \in Readers, S \in SUBSET Pieces : Read(r, S)
  \/ \E p \in Pieces, ok \in BOOLEAN : SyncRead(p, ok)
  \/ \E l \in Lists, order \in Orders, hold \in BOOLEAN : WantList(l, order, "announced", hold)
  \/ \E l \in Lists, order \in Orders : WantList(l, order, "place", FALSE)
  \/ \E p \in Pieces, kind \in {"ahead", "fill"} : FetchPartBg(p, kind)

Next ==
  \/ calls < MaxCalls /\ Calls
  \/ Timer \/ QuietPasses \/ LoadOver \/ Expire
  \/ \E n \in Jobs, answer \in {"ok", "refused", "down"} : BgEnds(n, answer)
  \/ \E r \in Readers, ok \in BOOLEAN : FgEnds(r, ok)
  \/ \E n \in Jobs : Retry(n) \/ Drop(n)
  \/ \E r \in Readers : ReadAsks(r)
  \/ \E l \in Lists : ListEnds(l) \/ \E p \in Pieces : ListAsks(l, p)

Spec == Init /\ [][Next]_vars

----------------------------------------------------------------------------
(* Properties.                                                             *)

(* The downloads the game waits for: those of its parked reads and of the  *)
(* lists announced.                                                        *)
WaitedFor ==
  {n \in Jobs :
    \/ \E r \in Readers : b.read[r].state = "flying" /\ n \in b.read[r].jobs
    \/ \E l \in Lists : b.list[l] # Over /\ b.list[l].kind = "announced" /\
         \E p \in DOMAIN b.list[l].on : b.list[l].on[p].job = n}

(* No download the game waits for is held back by the silence its own wait *)
(* makes on the link: it may go during a load, or is first among all       *)
(* (http-backend.js wantRange, fetchAhead; net-link.js promote, forLoad).  *)
WaitedForMayGo ==
  \A n \in WaitedFor :
    /\ b.job[n] # NoJob
    /\ b.job[n].stage \in {"turn", "queued"} => b.job[n].urgent \/ b.job[n].forLoad

(* Strict priority: while a download waits for its turn none of a lower    *)
(* rank starts, unless a load keeps the one that waits silent (net-link.js *)
(* kick, tryTurn).  The rank is that of the step's beginning: one call may *)
(* let some start and then promote another, which waits on.                *)
NonePasses ==
  \A n \in Jobs, m \in Range(b.turns) \cap Range(b'.turns) :
    LET started == /\ b'.job[n] # NoJob /\ b'.job[n].stage = "sent"
                   /\ b.job[n] = NoJob \/ b.job[n].stage \notin {"sent", "joins turned"} IN
      started /\ Rank(b, m) < Rank(b', n) =>
        Speed # "fast" /\ ~b.job[m].forLoad /\ ~b.job[m].urgent
NoOvertaking == [][NonePasses]_vars

(* Nothing is on its way that would wake what waits: no request, no pause, *)
(* no continuation, and the link's timer finds nothing to start.           *)
NothingUnderWay ==
  /\ \A n \in Jobs : b.job[n] # NoJob => b.job[n].stage \notin {"sent", "aborted", "pause"}
  /\ \A r \in Readers : b.read[r] # Over =>
       b.read[r].state = "flying" /\ b.read[r].jobs \cup b.read[r].readers # {}
  /\ \A l \in Lists : b.list[l] # Over => \E p \in DOMAIN b.list[l].on : b.list[l].on[p].job # Nobody
  /\ b.quiet /\ ~b.recent /\ b.spare = <<>> /\ Kick(b) = b

(* Nobody waits for nothing: a list announced, a read parked or a download *)
(* queued always has something under way that will bring it on; the game   *)
(* never hangs on the silence of a load or on a turn that is not given     *)
(* (http-backend.js pumpWant, fetchAhead; net-link.js kick).               *)
NobodyHangs ==
  NothingUnderWay =>
    /\ \A l \in Lists : b.list[l] = Over
    /\ \A r \in Readers : b.read[r] = Over
    /\ \A n \in Jobs : b.job[n] = NoJob
==============================================================================
