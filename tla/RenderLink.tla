------------------------------ MODULE RenderLink ------------------------------
(***************************************************************************)
(* The render link: the emulator records the Direct3D work of a device as  *)
(* commands in a ring in shared memory (src/src/gfx/d3d-recorder.js,       *)
(* cmd-ring.js), a render worker replays them later into a mirror of the   *)
(* device (d3d-mirror.js, render-loop.js).  Resource contents stay in      *)
(* guest memory and are read by the worker when it uploads them, so writes *)
(* and releases of that memory are fenced, copied on write or deferred;    *)
(* buffers written while in use send their bytes through the ring instead. *)
(*                                                                         *)
(* Two threads share the ring, its cursors and the acknowledgement table:  *)
(* the emulator (guest calls, and the commands of a call put one by one)   *)
(* and the worker (one command replayed, or its cursor published, a step). *)
(* Positions are counted in commands.  A command that binds a resource     *)
(* carries what its ensureRes creates; a texture has one level.            *)
(***************************************************************************)
EXTENDS Integers, Sequences, FiniteSets, SequencesExt

CONSTANTS
  Surfaces,      \* textures: memory when first needed, locked as a whole
  Buffers,       \* vertex and index buffers
  Dynamic,       \* the buffers created with D3DUSAGE_DYNAMIC
  Large,         \* surfaces over COW_MAX bytes
  Parts,         \* the ranges of a resource
  Blocks,        \* the blocks of guest memory for resources
  Slots,         \* entries of the acknowledgement table
  Size,          \* commands the ring holds
  MaxCommands,   \* bound: commands produced when a guest call starts
  MaxFrames,     \* MAX_FRAMES_IN_FLIGHT
  MaxPresents,   \* bound: frames the program presents
  NoBlock, NoSlot, NoBytes, NoRec, NoWait

Resources == Surfaces \cup Buffers
Contents == [Parts -> 0..1]
Zero == [x \in Parts |-> 0]

(* MTexture, MBuffer (d3d-mirror.js), with what the graphics card holds *)
MirrorRecords ==
  [block : Blocks \cup {NoBlock}, slot : Slots \cup {NoSlot}, gen : Nat, acked : Int,
   dirty : SUBSET Parts, shadow : Contents \cup {NoBytes},
   gpu : [Parts -> 0..1 \cup {NoBytes}] \cup {NoBytes}]

(* rec of a resource (d3d-recorder.js) *)
Records ==
  [slot : Slots \cup {NoSlot}, gen : Nat, first : Nat, lastRef : Nat, eager : BOOLEAN,
   pend : SUBSET [gen : Nat, parts : SUBSET Parts]]

ASSUME RenderLinkAssumption ==
  /\ Surfaces \cap Buffers = {} /\ Dynamic \subseteq Buffers /\ Large \subseteq Surfaces
  /\ IsFiniteSet(Resources) /\ IsFiniteSet(Slots) /\ IsFiniteSet(Blocks)
  /\ NoBlock \notin Blocks /\ NoSlot \notin Slots
  /\ NoBytes \notin [Parts -> 0..1 \cup {NoBytes}] /\ NoRec \notin Records \cup MirrorRecords
  /\ Size \in Nat \ {0} /\ MaxCommands \in Nat /\ MaxFrames \in Nat
  /\ MaxPresents \in Nat
  /\ NoWait \notin [kind: {"frame"}, until: Int]

VARIABLES
  (* the guest and its memory *)
  mem,         \* contents of each block; NoBytes when free
  addr,        \* the block of each resource
  live,        \* the resources created and not destroyed
  locked,      \* the parts of each resource locked for writing
  bound,       \* the resources bound to the device
  (* the recorder *)
  rec,         \* Resource.rec: slot, generations, last reference, eager, pend
  lazy,        \* rec.lz: parts written and not copied into the ring yet
  sync,        \* the bindings recorded
  gen, deferred, frames, failed, todo, wait, crashed,
  produced, published, lastWorkEnd,
  (* shared with the worker *)
  ring,        \* the commands produced and not replayed
  tail, ack, shown,
  (* the worker *)
  stalled,     \* dead, or answering no more
  staged,      \* the bindings replayed
  mirror,      \* the mirror resources and their GPU copies
  picture      \* what the last draw replayed has read

guestVars    == <<mem, addr, live, locked, bound>>
recordVars   == <<rec, lazy, sync, gen>>
cursorVars   == <<produced, published, lastWorkEnd>>
emulatorVars == <<deferred, frames, failed, todo, wait, crashed, cursorVars>>
workerVars   == <<tail, ack, shown, stalled, staged, mirror, picture>>
vars == <<guestVars, recordVars, emulatorVars, ring, workerVars>>

------------------------------------------------------------------------------
(* Memory and references *)

FreeBlocks == {b \in Blocks : mem[b] = NoBytes}

(* vmem.release of a set of blocks *)
Released(S) == [b \in Blocks |-> IF b \in S THEN NoBytes ELSE mem[b]]

Recording(r) == ~failed /\ rec[r] # NoRec

(* Mutant: a bound resource is taken for read by its last recorded reference. *)
LastRefUnbound(r) == rec[r].lastRef

(* Latest ring position of a command that may read the resource's memory. *)
LastRefOf(r) ==
  IF r \in sync /\ lastWorkEnd > rec[r].lastRef THEN lastWorkEnd ELSE rec[r].lastRef

Acknowledged(r) == rec[r].slot # NoSlot /\ ack[rec[r].slot] = rec[r].gen

(* May a command not yet replayed still read the resource's guest memory? *)
MayRead(r) == LastRefOf(r) > tail /\ ~Acknowledged(r)

(* releaseDeferred: the releases whose position the worker has passed. *)
Passed == {d \in deferred : d[2] <= tail}
ReleasePassed ==
  /\ mem' = Released({d[1] : d \in Passed})
  /\ deferred' = deferred \ Passed

(* publish() *)
Publish == published' = produced /\ ReleasePassed

(* The guest runs: no call waits, every command of the last one is put. *)
Guest == wait = NoWait /\ todo = <<>> /\ ~crashed

CanRecord == Guest /\ ~failed /\ produced < MaxCommands
MayCommand(r) == Recording(r) => produced < MaxCommands

Call(s) == todo' = s

------------------------------------------------------------------------------
(* Resources: creation, locks, writes, release *)

Create(r) ==
  /\ Guest /\ r \notin live
  /\ live' = live \cup {r}
  /\ IF r \in Buffers
       THEN \E b \in FreeBlocks : mem' = [mem EXCEPT ![b] = Zero] /\ addr' = [addr EXCEPT ![r] = b]
       ELSE UNCHANGED <<mem, addr>>
  /\ UNCHANGED <<locked, bound, recordVars, emulatorVars, ring, workerVars>>

Unlocked(r) == Guest /\ r \in live /\ locked[r] = {} /\ MayCommand(r)

(* The surface's memory becomes block b with contents c, told to the mirror. *)
GiveMemory(r, b, c) ==
  /\ mem' = [mem EXCEPT ![b] = c]
  /\ addr' = [addr EXCEPT ![r] = b]
  /\ Call(IF Recording(r) THEN <<[op |-> "MEM", r |-> r, block |-> b]>> ELSE <<>>)

InUse(r) == Recording(r) /\ addr[r] # NoBlock /\ MayRead(r)
CanCopy(r) == r \notin Large /\ FreeBlocks # {}

(* Mutant: the old block is not kept for release. *)
LockCopiedLeaking(r) ==
  /\ Unlocked(r) /\ r \in Surfaces /\ InUse(r) /\ CanCopy(r)
  /\ \E b \in FreeBlocks : GiveMemory(r, b, mem[addr[r]])
  /\ locked' = [locked EXCEPT ![r] = Parts]
  /\ UNCHANGED <<live, bound, recordVars, deferred, frames, failed, wait, crashed, cursorVars,
                 ring, workerVars>>

(* beforeWrite: pending commands keep the old block, the lock gets a copy. *)
LockCopied(r) ==
  /\ Unlocked(r) /\ r \in Surfaces /\ InUse(r) /\ CanCopy(r)
  /\ \E b \in FreeBlocks : GiveMemory(r, b, mem[addr[r]])
  /\ deferred' = deferred \cup {<<addr[r], LastRefOf(r)>>}
  /\ locked' = [locked EXCEPT ![r] = Parts]
  /\ UNCHANGED <<live, bound, recordVars, frames, failed, wait, crashed, cursorVars, ring,
                 workerVars>>

(* waitConsumed: publishes, then waits until the worker has passed. *)
StartFence(r, S) ==
  /\ wait' = [kind |-> "fence", until |-> LastRefOf(r), r |-> r, parts |-> S]
  /\ Publish
  /\ UNCHANGED <<addr, live, locked, bound, recordVars, frames, failed, todo, crashed, produced,
                 lastWorkEnd, ring, workerVars>>

LockFenced(r) ==
  /\ Unlocked(r) /\ r \in Surfaces /\ InUse(r) /\ ~CanCopy(r)
  /\ StartFence(r, Parts)

(* Nothing reads the memory: locked as it is, or given its first block. *)
LockFree(r) ==
  /\ Unlocked(r) /\ r \in Surfaces /\ ~InUse(r)
  /\ IF addr[r] = NoBlock
       THEN \E b \in FreeBlocks : GiveMemory(r, b, Zero)
       ELSE UNCHANGED <<mem, addr, todo>>
  /\ locked' = [locked EXCEPT ![r] = Parts]
  /\ UNCHANGED <<live, bound, recordVars, deferred, frames, failed, wait, crashed, cursorVars,
                 ring, workerVars>>

(* The parts of r that draws issued and not rendered yet read. *)
PendingParts(r) ==
  UNION {ring[i].use[r] : i \in {j \in 1..Len(ring) : ring[j].op = "DRAW" /\ r \in DOMAIN ring[j].use}}

(* lockBuffer, NOOVERWRITE: the first upload is done, and no range written *)
(* since the last upload meets the locked one.                             *)
UploadSpares(r, S) ==
  /\ rec[r].slot # NoSlot /\ ack[rec[r].slot] >= rec[r].first
  /\ \A w \in rec[r].pend : w.gen > ack[rec[r].slot] => w.parts \cap S = {}

(* With NOOVERWRITE the application promises not to write what draws use. *)
LockBuffer(r, S, noOverwrite) ==
  /\ Unlocked(r) /\ r \in Buffers
  /\ noOverwrite => PendingParts(r) \cap S = {}
  /\ IF /\ Recording(r) /\ ~rec[r].eager /\ MayRead(r)
        /\ ~(noOverwrite /\ UploadSpares(r, S))
       THEN StartFence(r, S)
       ELSE /\ locked' = [locked EXCEPT ![r] = S]
            /\ UNCHANGED <<mem, addr, live, bound, recordVars, emulatorVars, ring, workerVars>>

(* BUF_DATA: guest bytes of a buffer copied into the ring. *)
Data(r, S, written) ==
  [op |-> "DATA", r |-> r, parts |-> S, bytes |-> mem[addr[r]], written |-> written]

FenceOver == wait # NoWait /\ wait.kind = "fence" /\ (failed \/ tail >= wait.until)

(* Mutant: the buffer's contents are not sent when it changes over. *)
EndFenceBare ==
  /\ FenceOver
  /\ wait' = NoWait
  /\ locked' = [locked EXCEPT ![wait.r] = wait.parts]
  /\ IF wait.r \in Buffers /\ ~failed THEN rec' = [rec EXCEPT ![wait.r].eager = TRUE]
                                      ELSE UNCHANGED rec
  /\ UNCHANGED <<mem, addr, live, bound, lazy, sync, gen, deferred, frames, failed, todo, crashed,
                 cursorVars, ring, workerVars>>

(* The fence is passed, or the worker given up: the lock goes on; a buffer *)
(* that had to wait sends its contents through the ring from now on.       *)
EndFence ==
  /\ FenceOver
  /\ wait' = NoWait
  /\ locked' = [locked EXCEPT ![wait.r] = wait.parts]
  /\ IF wait.r \in Buffers /\ ~failed
       THEN /\ rec' = [rec EXCEPT ![wait.r].eager = TRUE]
            /\ Call(<<Data(wait.r, Parts, FALSE)>>)
       ELSE UNCHANGED <<rec, todo>>
  /\ UNCHANGED <<mem, addr, live, bound, lazy, sync, gen, deferred, frames, failed, crashed,
                 cursorVars, ring, workerVars>>

(* Guest code writes a part it has locked. *)
Write(r, x) ==
  /\ Guest /\ x \in locked[r]
  /\ mem' = [mem EXCEPT ![addr[r]][x] = 1 - @]
  /\ UNCHANGED <<addr, live, locked, bound, recordVars, emulatorVars, ring, workerVars>>

(* Mutant: the contents written keep the generation of those before. *)
UnlockSameGen(r) ==
  /\ Guest /\ locked[r] # {} /\ MayCommand(r)
  /\ locked' = [locked EXCEPT ![r] = {}]
  /\ IF ~Recording(r) THEN UNCHANGED <<lazy, todo>>
     ELSE IF rec[r].eager
       THEN lazy' = [lazy EXCEPT ![r] = @ \cup locked[r]] /\ UNCHANGED todo
       ELSE /\ Call(<<[op |-> "DIRTY", r |-> r, gen |-> rec[r].gen, parts |-> locked[r],
                       block |-> addr[r]]>>)
            /\ UNCHANGED lazy
  /\ UNCHANGED <<mem, addr, live, bound, rec, sync, gen, deferred, frames, failed, wait, crashed,
                 cursorVars, ring, workerVars>>

(* surfaceDirty, bufferUpdated *)
Unlock(r) ==
  /\ Guest /\ locked[r] # {} /\ MayCommand(r)
  /\ locked' = [locked EXCEPT ![r] = {}]
  /\ IF ~Recording(r) THEN UNCHANGED <<rec, lazy, gen, todo>>
     ELSE IF rec[r].eager
       THEN /\ lazy' = [lazy EXCEPT ![r] = @ \cup locked[r]]
            /\ UNCHANGED <<rec, gen, todo>>
       ELSE /\ gen' = gen + 1
            /\ rec' = [rec EXCEPT ![r].gen = gen + 1,
                         ![r].pend = IF r \in Buffers
                                       THEN @ \cup {[gen |-> gen + 1, parts |-> locked[r]]} ELSE @]
            /\ Call(<<[op |-> "DIRTY", r |-> r, gen |-> gen + 1, parts |-> locked[r],
                       block |-> addr[r]]>>)
            /\ UNCHANGED lazy
  /\ UNCHANGED <<mem, addr, live, bound, sync, deferred, frames, failed, wait, crashed, cursorVars,
                 ring, workerVars>>

(* destroyResource, then free() once its command is put. *)
Destroy(r) ==
  /\ Guest /\ r \in live /\ locked[r] = {} /\ r \notin bound /\ MayCommand(r)
  /\ live' = live \ {r}
  /\ IF Recording(r)
       THEN /\ Call(<<[op |-> "DESTROY", r |-> r],
                      [op |-> "FREE", r |-> r, block |-> addr[r], rec |-> rec[r],
                       until |-> LastRefOf(r)]>>)
            /\ UNCHANGED mem
       ELSE mem' = Released({addr[r]}) /\ UNCHANGED todo
  /\ addr' = [addr EXCEPT ![r] = NoBlock]
  /\ rec' = [rec EXCEPT ![r] = NoRec] /\ lazy' = [lazy EXCEPT ![r] = {}]
  /\ UNCHANGED <<locked, bound, sync, gen, deferred, frames, failed, wait, crashed, cursorVars,
                 ring, workerVars>>

Freeing == todo # <<>> /\ Head(todo).op = "FREE" /\ ~crashed

(* Surface.free, Buffer.free: deferFree, or released at once. *)
Free ==
  /\ Freeing
  /\ todo' = Tail(todo)
  /\ LET f == Head(todo) IN
       IF /\ f.block # NoBlock /\ ~failed /\ ~f.rec.eager /\ f.until > tail
          /\ ~(f.rec.slot # NoSlot /\ ack[f.rec.slot] = f.rec.gen)
         THEN deferred' = deferred \cup {<<f.block, f.until>>} /\ UNCHANGED mem
         ELSE mem' = Released({f.block}) /\ UNCHANGED deferred
  /\ UNCHANGED <<addr, live, locked, bound, recordVars, frames, failed, wait, crashed, cursorVars,
                 ring, workerVars>>

------------------------------------------------------------------------------
(* Work: bindings, draws, presents *)

(* SetTexture, SetStreamSource, SetIndices *)
Bind(r) ==
  /\ Guest /\ ~failed /\ r \in live
  /\ bound' = IF r \in bound THEN bound \ {r} ELSE bound \cup {r}
  /\ UNCHANGED <<mem, addr, live, locked, recordVars, emulatorVars, ring, workerVars>>

(* flush(): the bindings changed since the last one, resources recorded at *)
(* their first use with a slot of the table while there is one.            *)
Fresh == {r \in bound : rec[r] = NoRec}
Starting == {r \in bound : r \notin sync \/ rec[r] = NoRec}
Ending == sync \ bound

NewRec(r) ==
  LET i    == CHOOSE n \in 1..Cardinality(Fresh) : SetToSeq(Fresh)[n] = r
      open == SetToSeq(Slots \ {rec[q].slot : q \in {q \in Resources : rec[q] # NoRec}})
  IN  [slot |-> IF i <= Len(open) THEN open[i] ELSE NoSlot,
       gen |-> gen + i, first |-> gen + i, lastRef |-> 0, eager |-> r \in Dynamic, pend |-> {}]

(* Mutant: the reference of a resource unbound is not kept. *)
RecordedForgetful ==
  [r \in Resources |-> IF r \in Fresh THEN NewRec(r) ELSE rec[r]]

Recorded ==
  [r \in Resources |->
     IF r \in Fresh THEN NewRec(r)
     ELSE IF r \in Ending /\ rec[r] # NoRec /\ lastWorkEnd > rec[r].lastRef
       THEN [rec[r] EXCEPT !.lastRef = lastWorkEnd]
     ELSE rec[r]]

BindCommand(r) ==
  [op |-> "BIND", r |-> r, new |-> r \in Fresh, block |-> addr[r],
   slot |-> Recorded[r].slot, gen |-> Recorded[r].gen,
   shadow |-> IF r \in Fresh \cap Dynamic THEN mem[addr[r]] ELSE NoBytes]

FlushCommands ==
  [i \in 1..Cardinality(Ending) |-> [op |-> "UNBIND", r |-> SetToSeq(Ending)[i]]]
  \o [i \in 1..Cardinality(Starting) |-> BindCommand(SetToSeq(Starting)[i])]

Flush == rec' = Recorded /\ sync' = bound /\ gen' = gen + Cardinality(Fresh)

(* What a draw reads of its resources when it is issued. *)
Seen(use) ==
  [r \in bound |-> [x \in use[r] |-> IF addr[r] = NoBlock THEN 0 ELSE mem[addr[r]][x]]]

(* A texture is read as a whole; nothing being written is read. *)
Uses == {use \in [bound -> SUBSET Parts] :
           \A r \in bound : /\ r \in Surfaces => use[r] \in {{}, Parts}
                            /\ use[r] \cap locked[r] = {}}

(* lazyTake: the written bytes the draw reads go into the ring, or more. *)
Take(r, use, all) == IF all THEN lazy[r] ELSE lazy[r] \cap use[r]
Taken(use, all) ==
  {r \in bound : use[r] \cap lazy[r] # {} /\ Recorded[r].eager}

Draw(use, all) ==
  /\ CanRecord /\ bound # {} /\ use \in Uses
  /\ Flush
  /\ LET T == Taken(use, all)
         Sent(r) == Data(r, Take(r, use, all), TRUE) IN
       Call(FlushCommands
            \o [i \in 1..Cardinality(T) |-> Sent(SetToSeq(T)[i])]
            \o <<[op |-> "DRAW", use |-> use, want |-> Seen(use)]>>)
  /\ lazy' = [r \in Resources |->
                IF r \in Taken(use, all) THEN lazy[r] \ Take(r, use, all) ELSE lazy[r]]
  /\ UNCHANGED <<guestVars, deferred, frames, failed, wait, crashed, cursorVars, ring, workerVars>>

Present ==
  /\ CanRecord /\ frames < MaxPresents
  /\ Flush /\ Call(Append(FlushCommands, [op |-> "PRESENT"]))
  /\ UNCHANGED <<guestVars, lazy, deferred, frames, failed, wait, crashed, cursorVars, ring,
                 workerVars>>

(* afterSlice: publish(true) between two slices. *)
AfterSlice ==
  /\ Guest /\ ~failed /\ (published # produced \/ Passed # {})
  /\ Publish
  /\ UNCHANGED <<addr, live, locked, bound, recordVars, frames, failed, todo, wait, crashed,
                 produced, lastWorkEnd, ring, workerVars>>

------------------------------------------------------------------------------
(* The ring, producer side *)

Putting == todo # <<>> /\ Head(todo).op # "FREE"

(* Mutant: one command more than the ring holds. *)
RoomForOneMore == produced - tail <= Size

Room == produced + 1 - tail <= Size

PutNext ==
  /\ Putting /\ ~failed /\ Room
  /\ ring' = Append(ring, Head(todo))
  /\ produced' = produced + 1
  /\ todo' = Tail(todo)
  /\ UNCHANGED <<addr, live, locked, bound, recordVars, failed, crashed, workerVars>>

PutState ==
  /\ PutNext /\ ring'[Len(ring')].op \notin {"DRAW", "PRESENT"}
  /\ UNCHANGED <<mem, deferred, frames, wait, published, lastWorkEnd>>

(* workDone: published at once; every so many draws, released as well. *)
PutDraw ==
  /\ PutNext /\ ring'[Len(ring')].op = "DRAW"
  /\ lastWorkEnd' = produced + 1 /\ published' = produced + 1
  /\ ReleasePassed \/ UNCHANGED <<mem, deferred>>
  /\ UNCHANGED <<frames, wait>>

(* Mutant: the wait allows one frame more. *)
PutPresentLate ==
  /\ PutNext /\ ring'[Len(ring')].op = "PRESENT"
  /\ frames' = frames + 1
  /\ lastWorkEnd' = produced + 1 /\ published' = produced + 1
  /\ ReleasePassed
  /\ wait' = [kind |-> "frame", until |-> frames - MaxFrames]

PutPresent ==
  /\ PutNext /\ ring'[Len(ring')].op = "PRESENT"
  /\ frames' = frames + 1
  /\ lastWorkEnd' = produced + 1 /\ published' = produced + 1
  /\ ReleasePassed
  /\ wait' = [kind |-> "frame", until |-> frames + 1 - MaxFrames]

EndFrame ==
  /\ wait # NoWait /\ wait.kind = "frame" /\ (failed \/ shown >= wait.until)
  /\ wait' = NoWait
  /\ UNCHANGED <<guestVars, recordVars, deferred, frames, failed, todo, crashed, cursorVars, ring,
                 workerVars>>

(* Mutant: a full ring is waited for without publishing it. *)
RingFullUnpublished ==
  /\ Putting /\ ~failed /\ ~Room /\ Passed # {}
  /\ ReleasePassed
  /\ UNCHANGED <<addr, live, locked, bound, recordVars, frames, failed, todo, wait, crashed,
                 cursorVars, ring, workerVars>>

(* waitSpace: publishes, then waits for the worker's cursor. *)
RingFull ==
  /\ Putting /\ ~failed /\ ~Room /\ (published # produced \/ Passed # {})
  /\ Publish
  /\ UNCHANGED <<addr, live, locked, bound, recordVars, frames, failed, todo, wait, crashed,
                 produced, lastWorkEnd, ring, workerVars>>

(* waitForNow: no progress for too long; or the worker's error event, when *)
(* the emulator's thread is between two slices.  Every deferred release is *)
(* done, what is recorded is dropped (but not the release a call ends      *)
(* with), the worker is terminated.  A wait for room in the ring throws an *)
(* error through the call.                                                 *)
WaitingForRoom == Putting /\ ~Room /\ published = produced

GiveUp ==
  /\ ~failed /\ ~crashed
  /\ failed' = TRUE
  /\ mem' = Released({d[1] : d \in deferred}) /\ deferred' = {}
  /\ crashed' = WaitingForRoom
  /\ ring' = <<>>
  /\ todo' = IF todo # <<>> /\ Last(todo).op = "FREE" THEN <<Last(todo)>> ELSE <<>>
  /\ stalled' = TRUE /\ staged' = {} /\ mirror' = [r \in Resources |-> NoRec]
  /\ UNCHANGED <<addr, live, locked, bound, recordVars, frames, wait, cursorVars, tail, ack, shown,
                 picture>>

Fail == (wait # NoWait \/ WaitingForRoom) /\ GiveUp
WorkerError == Guest /\ stalled /\ GiveUp

------------------------------------------------------------------------------
(* The render worker *)

Consumed == produced - Len(ring)

Replaying(op) ==
  /\ ~stalled /\ Consumed < published
  /\ Head(ring).op = op
  /\ ring' = Tail(ring)
  /\ UNCHANGED <<guestVars, recordVars, emulatorVars, tail, stalled>>

Known(r) == mirror[r] # NoRec

ReplayBind ==
  /\ Replaying("BIND")
  /\ LET c == Head(ring) IN
       /\ staged' = staged \cup {c.r}
       /\ mirror' = IF ~c.new THEN mirror
                    ELSE [mirror EXCEPT ![c.r] =
                            [block |-> c.block, slot |-> c.slot, gen |-> c.gen, acked |-> -1,
                             dirty |-> {}, shadow |-> c.shadow, gpu |-> NoBytes]]
  /\ UNCHANGED <<ack, shown, picture>>

ReplayUnbind ==
  /\ Replaying("UNBIND")
  /\ staged' = staged \ {Head(ring).r}
  /\ UNCHANGED <<ack, shown, mirror, picture>>

ReplayMemory ==
  /\ Replaying("MEM")
  /\ mirror' = [mirror EXCEPT ![Head(ring).r].block = Head(ring).block]
  /\ UNCHANGED <<ack, shown, staged, picture>>

ReplayDirty ==
  /\ Replaying("DIRTY")
  /\ LET c == Head(ring) IN
       mirror' = [mirror EXCEPT ![c.r].gen = c.gen, ![c.r].dirty = @ \cup c.parts,
                                ![c.r].block = IF c.r \in Buffers THEN c.block ELSE @]
  /\ UNCHANGED <<ack, shown, staged, picture>>

ReplayData ==
  /\ Replaying("DATA")
  /\ LET c == Head(ring)
         old == IF mirror[c.r].shadow = NoBytes THEN Zero ELSE mirror[c.r].shadow
     IN  mirror' = [mirror EXCEPT
           ![c.r].shadow = [x \in Parts |-> IF x \in c.parts THEN c.bytes[x] ELSE old[x]],
           ![c.r].dirty = IF c.written THEN @ \cup c.parts ELSE @]
  /\ UNCHANGED <<ack, shown, staged, picture>>

ReplayDestroy ==
  /\ Replaying("DESTROY")
  /\ mirror' = [mirror EXCEPT ![Head(ring).r] = NoRec]
  /\ UNCHANGED <<ack, shown, staged, picture>>

(* What an upload of mirror resource m reads, and m after it: new GPU      *)
(* objects take everything, others the dirty parts.                        *)
Garbage == [x \in Parts |-> NoBytes]
Source(m) ==
  IF m.shadow # NoBytes THEN m.shadow
  ELSE IF m.block = NoBlock THEN Zero
  ELSE IF mem[m.block] = NoBytes THEN Garbage ELSE mem[m.block]

Uploaded(m) ==
  [m EXCEPT !.gpu = [x \in Parts |->
                       IF @ = NoBytes \/ x \in m.dirty THEN Source(m)[x] ELSE @[x]],
            !.dirty = {}, !.acked = m.gen]

(* glTexture, glBuffer: the contents of what the draw reads are uploaded   *)
(* and acknowledged.                                                       *)
ReplayDraw ==
  /\ Replaying("DRAW")
  /\ LET use == Head(ring).use
         read == {r \in staged \cap DOMAIN use : use[r] # {} /\ Known(r)}
         fresh == {r \in read : mirror[r].acked # mirror[r].gen}
     IN  /\ mirror' = [r \in Resources |-> IF r \in read THEN Uploaded(mirror[r]) ELSE mirror[r]]
         /\ ack' = [s \in Slots |->
                      IF \E r \in fresh : mirror[r].slot = s
                        THEN mirror[CHOOSE r \in fresh : mirror[r].slot = s].gen ELSE ack[s]]
         /\ picture' = [r \in staged |->
                          [x \in IF r \in DOMAIN use THEN use[r] ELSE {} |->
                             IF Known(r) THEN mirror'[r].gpu[x] ELSE NoBytes]]
  /\ UNCHANGED <<shown, staged>>

ReplayPresent ==
  /\ Replaying("PRESENT")
  /\ shown' = shown + 1
  /\ UNCHANGED <<ack, staged, mirror, picture>>

PublishTail ==
  /\ ~stalled /\ tail # Consumed
  /\ tail' = Consumed
  /\ UNCHANGED <<guestVars, recordVars, emulatorVars, ring, ack, shown, stalled, staged, mirror,
                 picture>>

(* The worker dies, or answers no more. *)
Stall ==
  /\ ~stalled /\ stalled' = TRUE
  /\ UNCHANGED <<guestVars, recordVars, emulatorVars, ring, tail, ack, shown, staged, mirror,
                 picture>>
------------------------------------------------------------------------------
Init ==
  /\ mem = [b \in Blocks |-> NoBytes] /\ addr = [r \in Resources |-> NoBlock]
  /\ live = {} /\ locked = [r \in Resources |-> {}] /\ bound = {}
  /\ rec = [r \in Resources |-> NoRec] /\ lazy = [r \in Resources |-> {}]
  /\ sync = {} /\ gen = 0 /\ deferred = {} /\ frames = 0 /\ failed = FALSE
  /\ todo = <<>> /\ wait = NoWait /\ crashed = FALSE
  /\ produced = 0 /\ published = 0 /\ lastWorkEnd = 0
  /\ ring = <<>> /\ tail = 0 /\ ack = [s \in Slots |-> -1] /\ shown = 0
  /\ stalled = FALSE /\ staged = {} /\ mirror = [r \in Resources |-> NoRec] /\ picture = <<>>

GuestCall(r) ==
  \/ Create(r) \/ LockCopied(r) \/ LockFenced(r) \/ LockFree(r)
  \/ \E S \in (SUBSET Parts) \ {{}}, b \in BOOLEAN : LockBuffer(r, S, b)
  \/ \E x \in Parts : Write(r, x)
  \/ Unlock(r) \/ Destroy(r) \/ Bind(r)

EmulatorStep ==
  \/ \E use \in [bound -> SUBSET Parts], all \in BOOLEAN : Draw(use, all)
  \/ Present \/ AfterSlice \/ EndFence \/ Free
  \/ PutState \/ PutDraw \/ PutPresent \/ EndFrame \/ RingFull \/ Fail \/ WorkerError

Replay ==
  \/ ReplayBind \/ ReplayUnbind \/ ReplayMemory \/ ReplayDirty \/ ReplayData
  \/ ReplayDestroy \/ ReplayDraw \/ ReplayPresent

Next == (\E r \in Resources : GuestCall(r)) \/ EmulatorStep \/ Replay \/ PublishTail \/ Stall

Spec == Init /\ [][Next]_vars

(* The emulator's thread goes on inside a call; so does the worker while it *)
(* lives, which publishes its cursor as it goes; a wait gives up a worker   *)
(* that does not move.                                                      *)
Continue == EndFence \/ EndFrame \/ Free \/ PutState \/ PutDraw \/ PutPresent \/ RingFull

FairSpec ==
  /\ Spec
  /\ WF_vars(Continue) /\ WF_vars(Replay) /\ WF_vars(PublishTail) /\ WF_vars(stalled /\ Fail)

------------------------------------------------------------------------------
(* Properties *)

RingOps(op) == {i \in 1..Len(ring) : ring[i].op = op}

(* Types, and the order of the positions in the ring: what the worker has   *)
(* told (tail), replayed, may replay (published), and what is produced,     *)
(* never more than Size beyond what it told (RingWriter.begin, waitSpace).  *)
TypeOK ==
  /\ mem \in [Blocks -> Contents \cup {NoBytes}]
  /\ addr \in [Resources -> Blocks \cup {NoBlock}]
  /\ live \subseteq Resources /\ bound \subseteq live
  /\ locked \in [Resources -> SUBSET Parts] /\ lazy \in [Resources -> SUBSET Parts]
  /\ sync \subseteq Resources /\ staged \subseteq Resources
  /\ failed \in BOOLEAN /\ crashed \in BOOLEAN /\ stalled \in BOOLEAN
  /\ ack \in [Slots -> -1..gen]
  /\ \A d \in deferred : d[1] \in Blocks /\ d[2] <= produced
  /\ 0 <= tail /\ published <= produced /\ produced <= tail + Size
  /\ ~failed => tail <= Consumed /\ Consumed <= published
  /\ shown <= frames

(* The pictures a draw may have: what it reads of some bound resources. *)
Pictures ==
  UNION {[S -> UNION {[use -> 0..1] : use \in SUBSET Parts}] : S \in SUBSET Resources}

(* What the draws on their way to the worker are to show, in their order. *)
Wants ==
  LET s == ring \o todo
      wants[i \in 0..Len(s)] ==
        IF i = 0 THEN <<>>
        ELSE IF s[i].op = "DRAW" THEN Append(wants[i - 1], s[i].want) ELSE wants[i - 1]
  IN  wants[Len(s)]

Queue == INSTANCE DrawQueue WITH
  NoPicture <- <<>>, queue <- Wants, shown <- picture, lost <- failed

(* A draw replayed later shows what its resources held when the program     *)
(* issued it, whatever it has written, released or unbound since: module    *)
(* DrawQueue, implemented by the fences, copies, acknowledgements, deferred *)
(* releases and ring copies of d3d-recorder.js and d3d-mirror.js together.  *)
DrawsAsRecorded == Queue!Spec

(* A resource the worker acknowledges in its current generation is in the   *)
(* mirror as it is in guest memory, but for what is being written: the next *)
(* write needs no fence, and the mirror no upload (mayRead, glTexture,      *)
(* glBuffer).                                                               *)
AckMeansUploaded ==
  \A r \in live : Recording(r) /\ Acknowledged(r) /\ ~rec[r].eager =>
    \A x \in Parts \ locked[r] :
      mirror[r].gpu[x] = IF addr[r] = NoBlock THEN 0 ELSE mem[addr[r]][x]

(* A block of memory is allocated for exactly one of: a resource, a release *)
(* deferred, a release about to be decided.  None leaks, is released twice, *)
(* or is given to two resources (copies on write, deferFree, fail).         *)
MemoryAccounted ==
  ~crashed => \A b \in Blocks :
    Cardinality({r \in live : addr[r] = b}) + Cardinality({d \in deferred : d[1] = b})
      + Cardinality({i \in 1..Len(todo) : todo[i].op = "FREE" /\ todo[i].block = b})
    = IF mem[b] = NoBytes THEN 0 ELSE 1

(* The guest runs at most MaxFrames frames ahead of the screen: whenever a  *)
(* call returns, no more presents than that are on their way (present).     *)
FramesBounded ==
  Guest /\ ~failed => Cardinality(RingOps("PRESENT")) <= MaxFrames

(* Every call that waits for the worker - a fence, a frame, a full ring -   *)
(* returns, or throws: also when the worker dies meanwhile (waitFor, fail). *)
WaitsEnd == ~Guest ~> (Guest \/ crashed)

(* docs/render-worker.md: when the worker dies the emulator stops recording *)
(* and goes on rendering in its own thread.  No call may fail for it.       *)
StaysUp == ~crashed
==============================================================================
