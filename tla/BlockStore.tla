------------------------------ MODULE BlockStore ------------------------------
(***************************************************************************)
(* The block store of a game's files in the browser's storage              *)
(* (src/src/vfs/opfs-store.js): a data file blocks are appended to, and a  *)
(* log of index records written at sync points.  The data file is flushed  *)
(* at a clean close only, so a crash may shorten it or damage what it got  *)
(* since; the log is flushed at each sync point, so a crash only damages   *)
(* the records a sync point was writing.  Either file may then disagree    *)
(* with the other, and the next start has to make sense of both.           *)
(*                                                                         *)
(* A block is a number given when it is stored; the checksum of its bytes  *)
(* is that number.  The data file is a sequence of cells, a cell the i-th  *)
(* part of a block or Garbage; a log position is a record or Damaged.      *)
(***************************************************************************)
EXTENDS Integers, Sequences, FiniteSets, SequencesExt, Functions

CONSTANTS
  Keys,         \* the blocks' names
  Size,         \* cells of the block of each key
  SyncBlocks,   \* SYNC_BLOCKS
  MaxBlocks,    \* bound: blocks stored
  MaxCrashes,   \* bound: crashes
  Garbage, Damaged, NoLog

VARIABLES
  phase,       \* "down", "rewriting" (open writes a new log), "up"
  data,        \* the data file
  flushed,     \* cells of it no crash can lose
  log,         \* the log's records; NoLog while the file is empty
  map,         \* key -> entry
  end,         \* where the next block goes
  logEnd,      \* records of the log in use
  pending,     \* records waiting for the next sync point
  failed,
  blocks,      \* blocks stored so far
  crashes,
  (* what the properties compare the files with *)
  synced,      \* the map at the last sync point
  torn,        \* keys of the records a crash interrupted
  closed,      \* blocks a clean close left, not dropped since
  exposed      \* those of them in the store when a crash interrupted a rewriting start

vars == <<phase, data, flushed, log, map, end, logEnd, pending, failed, blocks,
          crashes, synced, torn, closed, exposed>>

Entry(o, k, n) == [off |-> o, len |-> Size[k], sum |-> n]
Record(kind, k, e) == [kind |-> kind, key |-> k, entry |-> e]
Bytes(k, n) == [i \in 1..Size[k] |-> <<n, i>>]
Without(m, k) == Restrict(m, DOMAIN m \ {k})
With(m, k, e) == [j \in DOMAIN m \cup {k} |-> IF j = k THEN e ELSE m[j]]

(* The block of entry e reads back whole, and as it was written.           *)
Whole(e) == e.off + e.len <= Len(data)
Matches(e) ==
  Whole(e) /\ SubSeq(data, e.off + 1, e.off + e.len) = [i \in 1..e.len |-> <<e.sum, i>>]

(* bytes written over s from position at on.                               *)
WriteAt(s, at, bytes) ==
  SubSeq(s, 1, at) \o bytes \o SubSeq(s, at + Len(bytes) + 1, Len(s))

(* decodeIndex: the log up to its first damaged record.  Of each key the   *)
(* last record counts.                                                     *)
ValidPart(l) ==
  CHOOSE n \in 0..Len(l) :
    /\ \A i \in 1..n : l[i] # Damaged
    /\ n < Len(l) => l[n + 1] = Damaged
Final(l, n, i) == i \in 1..n /\ \A j \in (i + 1)..n : l[j].key # l[i].key
Replayed(l, n) ==
  LET puts == {i \in 1..n : Final(l, n, i) /\ l[i].kind = "put"} IN
    [k \in {l[i].key : i \in puts} |-> l[CHOOSE i \in puts : l[i].key = k].entry]
Replay(l) == Replayed(l, ValidPart(l))

Init ==
  /\ phase = "down" /\ data = <<>> /\ flushed = 0 /\ log = NoLog
  /\ map = <<>> /\ end = 0 /\ logEnd = 0 /\ pending = <<>> /\ failed = FALSE
  /\ blocks = 0 /\ crashes = 0
  /\ synced = <<>> /\ torn = {} /\ closed = {} /\ exposed = {}

----------------------------------------------------------------------------
(* Opening.                                                                *)

Within(m) == {k \in DOMAIN m : Whole(m[k])}

Opened(m, records) ==
  /\ map' = m /\ end' = Len(data) /\ logEnd' = records
  /\ pending' = <<>> /\ failed' = FALSE
  /\ synced' = m /\ torn' = {} /\ phase' = "up"

(* Mutants: the log is not rewritten without the entries past the          *)
(* end; the damaged tail is not cut.                                       *)
OpenLogStale ==
  /\ phase = "down" /\ log # NoLog
  /\ LET m == Replay(log) IN Opened(Restrict(m, Within(m)), ValidPart(log))
  /\ log' = SubSeq(log, 1, ValidPart(log))
  /\ UNCHANGED <<data, flushed, blocks, crashes, closed, exposed>>
OpenLogUncut ==
  /\ phase = "down" /\ log # NoLog
  /\ LET m == Replay(log) IN Within(m) = DOMAIN m /\ Opened(m, ValidPart(log))
  /\ UNCHANGED <<data, flushed, log, blocks, crashes, closed, exposed>>

(* A log to go on with: its damaged tail is cut.                           *)
OpenLog ==
  /\ phase = "down" /\ log # NoLog
  /\ LET m == Replay(log) IN Within(m) = DOMAIN m /\ Opened(m, ValidPart(log))
  /\ log' = SubSeq(log, 1, ValidPart(log))
  /\ UNCHANGED <<data, flushed, blocks, crashes, closed, exposed>>

(* No log, or one with entries past the end of the data file: the store    *)
(* starts over, or keeps the other entries; the log is emptied first.      *)
OpenAnew ==
  /\ phase = "down"
  /\ LET m == IF log = NoLog THEN <<>> ELSE Replay(log) IN
       /\ log = NoLog \/ Within(m) # DOMAIN m
       /\ map' = Restrict(m, Within(m))
  /\ data' = IF log = NoLog THEN <<>> ELSE data
  /\ flushed' = IF log = NoLog THEN 0 ELSE flushed
  /\ phase' = "rewriting" /\ log' = NoLog
  /\ UNCHANGED <<end, logEnd, pending, failed, blocks, crashes, synced, torn, closed, exposed>>

(* The new log: a record for each entry, in any order.                     *)
NewLogs ==
  {[i \in DOMAIN ks |-> Record("put", ks[i], map[ks[i]])] : ks \in SetToSeqs(DOMAIN map)}

WriteNewLog ==
  /\ phase = "rewriting"
  /\ log' \in NewLogs
  /\ Opened(map, Len(log'))
  /\ UNCHANGED <<data, flushed, blocks, crashes, closed, exposed>>

----------------------------------------------------------------------------
(* Sync points.                                                            *)

(* No sync point is due, or nothing waits.                                 *)
NotSynced(records) ==
  /\ Len(records) < SyncBlocks
  /\ pending' = records
  /\ UNCHANGED <<log, logEnd, synced, failed>>

SyncPoint(m, records) ==
  /\ records # <<>>
  /\ \/ /\ log' = WriteAt(log, logEnd, records)
        /\ logEnd' = logEnd + Len(records) /\ pending' = <<>>
        /\ synced' = m /\ UNCHANGED failed
     \/ /\ \E j \in 0..(Len(records) - 1) :
             log' = WriteAt(log, logEnd, SubSeq(records, 1, j) \o <<Damaged>>)
        /\ failed' = TRUE /\ pending' = records
        /\ UNCHANGED <<logEnd, synced>>

KeysOf(records) == {records[i].key : i \in DOMAIN records}
TornBy(records) == torn' = IF failed' /\ ~failed THEN KeysOf(records) ELSE torn

(* put: the block appended, its record waiting, then the call of flush.    *)
Put(k) ==
  /\ phase = "up" /\ ~failed /\ k \notin DOMAIN map /\ blocks < MaxBlocks
  /\ LET n == blocks + 1
         e == Entry(end, k, n)
         m == With(map, k, e)
         records == Append(pending, Record("put", k, e)) IN
       /\ data' = WriteAt(data, end, Bytes(k, n))
       /\ map' = m /\ end' = end + e.len /\ blocks' = n
       /\ NotSynced(records) \/ SyncPoint(m, records)
       /\ TornBy(records)
  /\ UNCHANGED <<phase, flushed, crashes, closed, exposed>>

(* Part of the block written, or none: the store gives up.                 *)
PutFails(k) ==
  /\ phase = "up" /\ ~failed /\ k \notin DOMAIN map /\ blocks < MaxBlocks
  /\ \E j \in 0..(Size[k] - 1) :
       data' = WriteAt(data, end, SubSeq(Bytes(k, blocks + 1), 1, j))
  /\ blocks' = blocks + 1 /\ failed' = TRUE
  /\ UNCHANGED <<phase, flushed, log, map, end, logEnd, pending, crashes, synced, torn, closed, exposed>>

(* flush, called every SYNC_MS and at the end of a prefetch.               *)
Flush ==
  /\ phase = "up" /\ ~failed
  /\ SyncPoint(map, pending) /\ TornBy(pending)
  /\ UNCHANGED <<phase, data, flushed, map, end, blocks, crashes, closed, exposed>>

----------------------------------------------------------------------------
(* Reading.                                                                *)

Drop(k) ==
  /\ map' = Without(map, k)
  /\ pending' = Append(pending, Record("drop", k, map[k]))
  /\ closed' = closed \ {map[k].sum}

(* get of a block that does not read back as it was written; one that does *)
(* changes nothing.                                                        *)
GetDamaged(k) ==
  /\ phase = "up" /\ ~failed /\ k \in DOMAIN map
  /\ Whole(map[k]) /\ ~Matches(map[k])
  /\ Drop(k)
  /\ UNCHANGED <<phase, data, flushed, log, end, logEnd, failed, blocks, crashes, synced, torn, exposed>>

GetFails ==
  /\ phase = "up" /\ ~failed /\ failed' = TRUE
  /\ UNCHANGED <<phase, data, flushed, log, map, end, logEnd, pending, blocks,
                 crashes, synced, torn, closed, exposed>>

(* The reader finds the block of k unusable.                               *)
DropUnusable(k) ==
  /\ phase = "up" /\ k \in DOMAIN map
  /\ Drop(k)
  /\ UNCHANGED <<phase, data, flushed, log, end, logEnd, failed, blocks, crashes, synced, torn, exposed>>

----------------------------------------------------------------------------
(* The end of a session.                                                   *)

Stopped == phase' = "down" /\ map' = <<>> /\ pending' = <<>> /\ end' = 0 /\ logEnd' = 0

(* Mutant: the data file is not flushed.                                   *)
CloseUnflushed ==
  /\ phase = "up" /\ ~failed /\ pending # <<>>
  /\ log' = WriteAt(log, logEnd, pending) /\ synced' = map
  /\ closed' = {map[k].sum : k \in {k \in DOMAIN map : Matches(map[k])}}
  /\ exposed' = {}
  /\ Stopped
  /\ UNCHANGED <<data, flushed, failed, torn, blocks, crashes>>

(* close: the data flushed, a last sync point.                             *)
Close ==
  /\ phase = "up"
  /\ flushed' = Len(data)
  /\ IF failed \/ pending = <<>> THEN UNCHANGED <<log, failed, synced>>
     ELSE \/ log' = WriteAt(log, logEnd, pending) /\ synced' = map /\ UNCHANGED failed
          \/ /\ \E j \in 0..(Len(pending) - 1) :
                  log' = WriteAt(log, logEnd, SubSeq(pending, 1, j) \o <<Damaged>>)
             /\ failed' = TRUE /\ UNCHANGED synced
  /\ TornBy(pending)
  /\ closed' = {map[k].sum : k \in {k \in DOMAIN map \cap DOMAIN synced' :
                                      synced'[k] = map[k] /\ Matches(map[k])}}
  /\ exposed' = {}
  /\ Stopped
  /\ UNCHANGED <<data, blocks, crashes>>

(* What a crash leaves of the data file.                                   *)
DataLeft ==
  UNION {{[i \in 1..n |-> IF i \in lost THEN Garbage ELSE data[i]] :
             lost \in SUBSET ((flushed + 1)..n)} : n \in flushed..Len(data)}
(* What it leaves of records being written.                                *)
RecordsLeft(records) ==
  UNION {{[i \in 1..n |-> IF i \in lost THEN Damaged ELSE records[i]] :
             lost \in SUBSET (1..n)} : n \in 0..Len(records)}

Crash ==
  /\ phase = "up" /\ crashes < MaxCrashes /\ crashes' = crashes + 1
  /\ data' \in DataLeft
  /\ Stopped
  /\ UNCHANGED <<flushed, log, failed, blocks, synced, torn, closed, exposed>>

(* In the middle of a sync point.                                          *)
CrashInSync ==
  /\ phase = "up" /\ ~failed /\ pending # <<>>
  /\ crashes < MaxCrashes /\ crashes' = crashes + 1
  /\ data' \in DataLeft
  /\ \E left \in RecordsLeft(pending) : log' = WriteAt(log, logEnd, left)
  /\ torn' = KeysOf(pending)
  /\ Stopped
  /\ UNCHANGED <<flushed, failed, blocks, synced, closed, exposed>>

(* While a new log is written: the old one is cut already, so what is left *)
(* of the new one is all there is, and when that is nothing the next start *)
(* empties the data file too, with every block in it.                      *)
CrashInOpen ==
  /\ phase = "rewriting"
  /\ crashes < MaxCrashes /\ crashes' = crashes + 1
  /\ data' \in DataLeft
  /\ log' \in {NoLog} \cup UNION {RecordsLeft(l) : l \in NewLogs}
  /\ synced' = map /\ torn' = Keys /\ exposed' = exposed \cup closed
  /\ Stopped
  /\ UNCHANGED <<flushed, failed, blocks, closed>>

Next ==
  \/ OpenLog \/ OpenAnew \/ WriteNewLog
  \/ \E k \in Keys : Put(k) \/ PutFails(k) \/ GetDamaged(k) \/ DropUnusable(k)
  \/ Flush \/ GetFails \/ Close
  \/ Crash \/ CrashInSync \/ CrashInOpen

Spec == Init /\ [][Next]_vars

----------------------------------------------------------------------------
(* Properties.                                                             *)

(* No entry of an open store points into another block's bytes: its cells  *)
(* are its own or garbage, whatever earlier crashes took from either file  *)
(* and however much was stored over it since (opfs-store.js open, which    *)
(* rewrites a log that has entries past the end of the data file).         *)
EntriesOwnTheirBytes ==
  phase = "up" =>
    \A k \in DOMAIN map : \A i \in 1..map[k].len :
      data[map[k].off + i] \in {Garbage, <<map[k].sum, i>>}

(* The log of a store that is not running says what the last sync point    *)
(* knew, of every block but those whose records a crash or a failed write  *)
(* interrupted: none comes back that was dropped, none is forgotten, and a *)
(* tail cut off stays off (opfs-store.js flush, decodeIndex, open).        *)
LogSaysLastSync ==
  phase = "down" /\ log # NoLog =>
    LET m == Replay(log) IN
      \A k \in Keys \ torn :
        /\ k \in DOMAIN m <=> k \in DOMAIN synced
        /\ k \in DOMAIN m => m[k] = synced[k]

(* Block n is in the store, or the next start finds it there.              *)
Stays(n) ==
  LET m == IF phase = "down" THEN (IF log = NoLog THEN <<>> ELSE Replay(log)) ELSE map IN
    \E k \in DOMAIN m : m[k].sum = n /\ Matches(m[k])

(* A block stored when the store was last closed is there, undamaged, at   *)
(* every later start until it is dropped: no crash of a later session, in  *)
(* the middle of a sync point or not, takes it (opfs-store.js close).  The *)
(* crashes that may take it are those in the middle of a start that writes *)
(* the log anew: the old log is cut before the new one is written and      *)
(* flushed (opfs-store.js open).                                           *)
ClosedBlocksStay == \A n \in closed \ exposed : Stays(n)
==============================================================================
