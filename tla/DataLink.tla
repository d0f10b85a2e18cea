------------------------------- MODULE DataLink -------------------------------
(***************************************************************************)
(* The page of an engine that runs in the browser and the worker that      *)
(* reads the game's files for it (src/src/vfs/data-client.js GameData,     *)
(* src/src/vfs/data-worker.js): requests by message, answers on shared     *)
(* memory while the page's thread spins for them, else by message; a       *)
(* request spun for may be given up to a message (ctrl[16]); announced     *)
(* batches of reads are waited for all at once (ctrl[12]).                 *)
(*                                                                         *)
(* The page's thread is in one call at a time and gets no message while it *)
(* spins.  The engine is suspended from a call that returned a promise     *)
(* until the promise settles, and calls nothing meanwhile; the page itself *)
(* may ask for bytes in the background.  A request is for one piece, and   *)
(* what is read is named by the piece it is.  The worker runs one handler  *)
(* at a time; it may be held by a synchronous request of its own           *)
(* (http-backend.js fetchRangeNow), its heartbeat still, or die.           *)
(***************************************************************************)
EXTENDS Integers, Sequences, FiniteSets, FiniteSetsExt

CONSTANTS
  Pieces,
  Budget,       \* pieces the page keeps at most
  MaxCalls,     \* bound: requests made and batches announced
  MaxEntries,   \* bound: entries of a batch
  LongStalls,   \* the worker may be held for DEAD_MS and go on afterwards
  NoPiece

ASSUME DataLinkAssumption ==
  /\ IsFiniteSet(Pieces) /\ NoPiece \notin Pieces /\ Budget \in Nat \ {0}
  /\ {MaxCalls, MaxEntries} \subseteq Nat /\ LongStalls \in BOOLEAN

None == 0                   \* no request, no batch
Requests == 1..MaxCalls
Batches == 1..MaxCalls

VARIABLES
  thread,      \* the page's thread: "free", "spin" (for cur), "copy" (cur's answer), "wait"
  cur,         \* the request it spins for
  engine,      \* "runs", "asleep" (until request sleepOn is here), "waits" (for its batches)
  sleepOn,
  cache,       \* the pieces the page keeps: piece -> the bytes kept under its name
  req,         \* the requests made: [piece, kind]; numbers in order
  asks,        \* those to be answered by message
  ctrl,        \* [gen, ok, late, done]: ctrl[0], ctrl[1] >= 0, ctrl[16], ctrl[12]
  data,        \* the shared buffer
  inbox,       \* messages to the worker
  outbox,      \* messages to the page: [r, ok, bytes]
  worker,      \* "runs", "dead"
  work,        \* requests the worker is reading the bytes of
  settling,    \* [r, ok, at]: the one it is held by or answers on shared memory
  (* announced batches *)
  want,        \* the page's: [seq, from, first, to]: wantSeq, wantFrom, the
               \* batches its wait is for
  unposted,    \* wantPending
  left,        \* the worker's wants: batch -> entries not settled
  wantFrom, wantMax,
  landed,      \* batches all of whose entries settled
  answer       \* what the last wait said

pageVars == <<thread, cur, engine, sleepOn, cache>>
linkVars == <<ctrl, data, inbox, outbox>>
workVars == <<worker, work, settling>>
wantVars == <<want, unposted, left, wantFrom, wantMax, landed, answer>>
vars == <<pageVars, req, asks, linkVars, workVars, wantVars>>

Idle == [r |-> None, ok |-> FALSE, at |-> "idle"]
MayCall == Len(req) + want.seq < MaxCalls
Kept == {p \in Pieces : cache[p] # NoPiece}

Init ==
  /\ thread = "free" /\ cur = None /\ engine = "runs" /\ sleepOn = None
  /\ cache = [p \in Pieces |-> NoPiece] /\ req = <<>> /\ asks = {}
  /\ ctrl = [gen |-> None, ok |-> TRUE, late |-> None, done |-> None] /\ data = NoPiece
  /\ inbox = <<>> /\ outbox = <<>>
  /\ worker = "runs" /\ work = {} /\ settling = Idle
  /\ want = [seq |-> None, from |-> 1, first |-> 1, to |-> None] /\ unposted = <<>>
  /\ left = <<>> /\ wantFrom = 1 /\ wantMax = None /\ landed = {} /\ answer = FALSE

----------------------------------------------------------------------------
(* The page: reads.                                                        *)

Request(p, kind) ==
  /\ thread = "free" /\ cache[p] = NoPiece /\ MayCall
  /\ req' = Append(req, [piece |-> p, kind |-> kind])
  /\ inbox' = Append(inbox, [kind |-> "read", r |-> Len(req) + 1])

Spin ==
  /\ engine = "runs" /\ thread' = "spin" /\ cur' = Len(req) + 1
  /\ UNCHANGED <<engine, sleepOn, cache, asks, data, outbox, workVars, wantVars>>

FetchSync(p) == Request(p, "sync") /\ Spin /\ UNCHANGED ctrl

FetchSpin(p) == Request(p, "late") /\ Spin /\ ctrl' = [ctrl EXCEPT !.late = Len(req) + 1]

(* ensure: the engine sleeps until the answer; readable: it goes on.       *)
FetchAsync(p) ==
  /\ Request(p, "ask") /\ asks' = asks \cup {Len(req) + 1}
  /\ \/ engine = "runs" /\ engine' = "asleep" /\ sleepOn' = Len(req) + 1
     \/ UNCHANGED <<engine, sleepOn>>
  /\ UNCHANGED <<thread, cur, cache, ctrl, data, outbox, workVars, wantVars>>

(* The spin sees its number: the answer's bytes are copied after that.     *)
Answered ==
  /\ thread = "spin" /\ ctrl.gen = cur
  /\ thread' = IF ctrl.ok THEN "copy" ELSE "free"
  /\ UNCHANGED <<cur, engine, sleepOn, cache, req, asks, linkVars, workVars, wantVars>>

(* keep: an older piece goes when there is no room.                        *)
Keep(p, bytes) ==
  IF cache[p] # NoPiece THEN UNCHANGED cache
  ELSE IF Cardinality(Kept) < Budget THEN cache' = [cache EXCEPT ![p] = bytes]
  ELSE \E old \in Kept : cache' = [cache EXCEPT ![p] = bytes, ![old] = NoPiece]

Copy ==
  /\ thread = "copy" /\ thread' = "free"
  /\ Keep(req[cur].piece, data)
  /\ UNCHANGED <<cur, engine, sleepOn, req, asks, linkVars, workVars, wantVars>>

(* The spin's time is up: the request goes to a message unless the worker  *)
(* claimed it.                                                             *)
GiveUp ==
  /\ thread = "spin" /\ req[cur].kind = "late" /\ ctrl.gen # cur /\ ctrl.late = cur
  /\ ctrl' = [ctrl EXCEPT !.late = None]
  /\ asks' = asks \cup {cur} /\ thread' = "free" /\ engine' = "asleep" /\ sleepOn' = cur
  /\ UNCHANGED <<cur, cache, req, data, inbox, outbox, workVars, wantVars>>

(* The heartbeat has been still for DEAD_MS.                               *)
Still == worker = "dead" \/ (LongStalls /\ settling.at = "held")

StopSpinning ==
  /\ thread = "spin" /\ ctrl.gen # cur /\ Still /\ thread' = "free"
  /\ UNCHANGED <<cur, engine, sleepOn, cache, req, asks, linkVars, workVars, wantVars>>

(* watchAsks: nothing will answer the requests made by message.            *)
WatchAsks ==
  /\ thread = "free" /\ asks # {} /\ Still
  /\ asks' = {} /\ sleepOn' = None
  /\ engine' = IF engine = "asleep" THEN "runs" ELSE engine
  /\ UNCHANGED <<thread, cur, cache, req, linkVars, workVars, wantVars>>

(* A message of the worker.                                                *)
OnMessage ==
  /\ thread = "free" /\ outbox # <<>> /\ outbox' = Tail(outbox)
  /\ LET m == Head(outbox) IN
       /\ asks' = asks \ {m.r}
       /\ IF m.r \in asks /\ m.ok THEN Keep(req[m.r].piece, m.bytes) ELSE UNCHANGED cache
       /\ IF engine = "asleep" /\ sleepOn = m.r /\ m.r \in asks
          THEN engine' = "runs" /\ sleepOn' = None
          ELSE UNCHANGED <<engine, sleepOn>>
  /\ UNCHANGED <<thread, cur, req, ctrl, data, inbox, workVars, wantVars>>

----------------------------------------------------------------------------
(* The page: announced batches.                                            *)

Want(n) ==
  /\ thread = "free" /\ engine = "runs" /\ MayCall
  /\ want' = [want EXCEPT !.seq = @ + 1]
  /\ unposted' = Append(unposted, [kind |-> "want", seq |-> want.seq + 1, from |-> want.from, n |-> n])
  /\ UNCHANGED <<pageVars, req, asks, linkVars, workVars, left, wantFrom, wantMax, landed, answer>>

(* The page's thread yields before the wait.                               *)
WantFlush ==
  /\ thread = "free" /\ unposted # <<>>
  /\ inbox' = inbox \o unposted /\ unposted' = <<>>
  /\ UNCHANGED <<pageVars, req, asks, ctrl, data, outbox, workVars, want, left,
                 wantFrom, wantMax, landed, answer>>

(* wantWait and wantWaitSoon: what is announced is posted, the next wait's *)
(* window starts after it.  wantWaitSoon goes on to a promise.             *)
WantWait ==
  /\ thread = "free" /\ engine = "runs" /\ want.from <= want.seq
  /\ inbox' = inbox \o unposted /\ unposted' = <<>>
  /\ want' = [want EXCEPT !.from = want.seq + 1, !.first = want.from, !.to = want.seq]
  /\ \/ thread' = "wait" /\ UNCHANGED engine
     \/ engine' = "waits" /\ UNCHANGED thread
  /\ UNCHANGED <<cur, sleepOn, cache, req, asks, ctrl, data, outbox, workVars, left,
                 wantFrom, wantMax, landed, answer>>

(* It ends with the batches settled, by its timeout, or by the heartbeat.  *)
WantWaitEnd(ok) ==
  /\ thread = "wait" \/ (thread = "free" /\ engine = "waits")
  /\ ok <=> ctrl.done >= want.to
  /\ thread' = "free" /\ engine' = IF engine = "waits" THEN "runs" ELSE engine
  /\ answer' = ok /\ want' = [want EXCEPT !.to = None]
  /\ UNCHANGED <<cur, sleepOn, cache, req, asks, linkVars, workVars, unposted, left,
                 wantFrom, wantMax, landed>>

----------------------------------------------------------------------------
(* The worker.                                                             *)

Runs == worker = "runs" /\ settling = Idle

(* Mutant: the last batch settled, whatever is missing before it.          *)
WantTellLatest(l, from, last) ==
  ctrl' = [ctrl EXCEPT !.done = Max({d \in (from - 1)..last : d \notin DOMAIN l})]

(* wantTell: the last batch settled with every one of the window before it.*)
WantTell(l, from, last) ==
  ctrl' = [ctrl EXCEPT !.done =
    Max({d \in (from - 1)..last : \A s \in from..d : s \notin DOMAIN l})]

TakeRead ==
  /\ Runs /\ inbox # <<>> /\ Head(inbox).kind = "read" /\ inbox' = Tail(inbox)
  /\ work' = work \cup {Head(inbox).r}
  /\ UNCHANGED <<pageVars, req, asks, ctrl, data, outbox, worker, settling, wantVars>>

(* want: a batch registered, its entries asked for.                        *)
TakeWant ==
  /\ Runs /\ inbox # <<>> /\ Head(inbox).kind = "want" /\ inbox' = Tail(inbox)
  /\ LET m == Head(inbox) IN
       /\ wantMax' = Max({wantMax, m.seq}) /\ wantFrom' = Max({wantFrom, m.from})
       /\ left' = [s \in DOMAIN left \cup (IF m.n > 0 THEN {m.seq} ELSE {}) |->
                    IF s = m.seq THEN m.n ELSE left[s]]
       /\ landed' = IF m.n = 0 THEN landed \cup {m.seq} ELSE landed
  /\ WantTell(left', wantFrom', wantMax')
  /\ UNCHANGED <<pageVars, req, asks, data, outbox, workVars, want, unposted, answer>>

(* settle: an entry is here, or failed.                                    *)
SettleEntry(s) ==
  /\ Runs /\ s \in DOMAIN left
  /\ IF left[s] > 1 THEN left' = [left EXCEPT ![s] = @ - 1] /\ UNCHANGED landed
     ELSE /\ left' = [x \in DOMAIN left \ {s} |-> left[x]]
          /\ landed' = landed \cup {s}
  /\ WantTell(left', wantFrom, wantMax)
  /\ UNCHANGED <<pageVars, req, asks, data, inbox, outbox, workVars, want, unposted,
                 wantFrom, wantMax, answer>>

Reply(r, ok) == [r |-> r, ok |-> ok, bytes |-> IF ok THEN req[r].piece ELSE NoPiece]
ByMessage(r, ok) == outbox' = Append(outbox, Reply(r, ok)) /\ settling' = Idle /\ UNCHANGED ctrl
OnSharedMemory(r, ok) == settling' = [r |-> r, ok |-> ok, at |-> "write"] /\ UNCHANGED outbox

(* Mutants: a request given up is answered on shared memory too; the       *)
(* number is stored before the bytes.                                      *)
SettleUnclaimed(r, ok) ==
  IF req[r].kind = "ask" THEN ByMessage(r, ok)
  ELSE OnSharedMemory(r, ok) /\ UNCHANGED ctrl
SettleNumbered(r, ok) ==
  IF req[r].kind = "ask" \/ (req[r].kind = "late" /\ ctrl.late # r) THEN ByMessage(r, ok)
  ELSE OnSharedMemory(r, ok) /\ ctrl' = [ctrl EXCEPT !.late = -r, !.ok = ok, !.gen = r]

(* answerAsync, and settleSync up to the claim of a request the page may   *)
(* have given up.                                                          *)
Settle(r, ok) ==
  CASE req[r].kind = "ask"  -> ByMessage(r, ok)
    [] req[r].kind = "sync" -> OnSharedMemory(r, ok) /\ UNCHANGED ctrl
    [] req[r].kind = "late" /\ ctrl.late # r -> ByMessage(r, ok)
    [] req[r].kind = "late" /\ ctrl.late = r ->
         OnSharedMemory(r, ok) /\ ctrl' = [ctrl EXCEPT !.late = -r]

(* bytesOf: the bytes are read, or cannot be.                              *)
ReadEnds(r, ok) ==
  /\ Runs /\ r \in work /\ work' = work \ {r}
  /\ Settle(r, ok)
  /\ UNCHANGED <<pageVars, req, asks, data, inbox, worker, wantVars>>

(* What the asynchronous fetch did not bring is fetched synchronously.     *)
Held(r) ==
  /\ Runs /\ r \in work /\ work' = work \ {r}
  /\ settling' = [r |-> r, ok |-> FALSE, at |-> "held"]
  /\ UNCHANGED <<pageVars, req, asks, linkVars, worker, wantVars>>

HeldEnds(ok) ==
  /\ worker = "runs" /\ settling.at = "held"
  /\ Settle(settling.r, ok)
  /\ UNCHANGED <<pageVars, req, asks, data, inbox, worker, work, wantVars>>

(* settleSync: the bytes and their count, then the request's number.       *)
WriteBytes ==
  /\ worker = "runs" /\ settling.at = "write"
  /\ data' = IF settling.ok THEN req[settling.r].piece ELSE data
  /\ ctrl' = [ctrl EXCEPT !.ok = settling.ok]
  /\ settling' = [settling EXCEPT !.at = "number"]
  /\ UNCHANGED <<pageVars, req, asks, inbox, outbox, worker, work, wantVars>>

StoreNumber ==
  /\ worker = "runs" /\ settling.at = "number"
  /\ ctrl' = [ctrl EXCEPT !.gen = settling.r] /\ settling' = Idle
  /\ UNCHANGED <<pageVars, req, asks, data, inbox, outbox, worker, work, wantVars>>

Die ==
  /\ worker = "runs" /\ worker' = "dead"
  /\ UNCHANGED <<pageVars, req, asks, linkVars, work, settling, wantVars>>

----------------------------------------------------------------------------

Page ==
  \/ \E p \in Pieces : FetchSync(p) \/ FetchSpin(p) \/ FetchAsync(p)
  \/ Answered \/ Copy \/ GiveUp \/ StopSpinning \/ WatchAsks \/ OnMessage
  \/ \E n \in 0..MaxEntries : Want(n)
  \/ WantFlush \/ WantWait \/ \E ok \in BOOLEAN : WantWaitEnd(ok)

Worker ==
  \/ TakeRead \/ TakeWant \/ \E s \in Batches : SettleEntry(s)
  \/ \E r \in Requests, ok \in BOOLEAN : ReadEnds(r, ok)
  \/ \E r \in Requests : Held(r)
  \/ \E ok \in BOOLEAN : HeldEnds(ok)
  \/ WriteBytes \/ StoreNumber \/ Die

Next == Page \/ Worker

Spec == Init /\ [][Next]_vars

(* The page's thread runs, its timers and messages come; while the worker  *)
(* lives it takes its messages, and every read of it ends.                 *)
LinkGoesOn ==
  \/ Answered \/ Copy \/ StopSpinning \/ WatchAsks \/ OnMessage
  \/ \E ok \in BOOLEAN : WantWaitEnd(ok) \/ HeldEnds(ok)
  \/ TakeRead \/ TakeWant \/ WriteBytes \/ StoreNumber
  \/ \E r \in Requests, ok \in BOOLEAN : ReadEnds(r, ok)

FairSpec == Spec /\ WF_vars(LinkGoesOn)

----------------------------------------------------------------------------
(* Properties.                                                             *)

(* What the page keeps under a piece's name is that piece: the shared      *)
(* buffer is not written for another request between the page's seeing its *)
(* number and the end of its copy, whichever requests it gave up before    *)
(* (data-client.js fetchSpin and fetchSync, data-worker.js settleSync).    *)
PiecesAreTheirs == \A p \in Kept : cache[p] = p

(* A wait that says everything announced is there is right: every batch of *)
(* its window settled, and batches of an earlier wait that ran out neither *)
(* stand in for them nor hold the wait up (wantWait, wantTell).            *)
WaitIsRight ==
  want.to # None /\ want'.to = None /\ answer' => want.first..want.to \subseteq landed
WaitSaysTrue == [][WaitIsRight]_vars

(* The engine always goes on: no spin, no suspended read and no wait lasts *)
(* for ever, whether the answer comes on shared memory, by message after   *)
(* the page gave its request up, as a failure, or not at all because the   *)
(* worker died (data-client.js fetchSpin, watchAsks, wantWaitForAsync).    *)
EngineRuns == engine = "runs" /\ thread = "free"
EngineGoesOn == []<>EngineRuns
==============================================================================
