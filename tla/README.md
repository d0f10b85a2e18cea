# TLA+ verification of Orthros

Orthros runs Windows programs in a browser: an x86 emulator with a translator,
an implementation of the Win32 API the programs call, a renderer in a worker of
its own, and the services around them (file data streamed over HTTP, saves,
network play). This directory holds TLA+ modules of the parts whose behaviour
depends on the order of steps, the TLC configurations that check them, and
TLAPS proofs.

    tlc -workers 2 -config sync_safety.cfg MCScheduler
    tlc -workers 2 -config render_mixed.cfg MCRenderLink
    tlc -workers 2 -config render_alone.cfg MCRenderLinks
    tlc -workers 2 -config parts.cfg MCParts
    for m in *Proofs.tla; do tlapm $m; done

The proofs of the larger modules take some ten minutes each.

Paths below are those of the source tree, `src/src/...` written `src/...`.

## 1. Inventory

| Component | State it keeps | Operations | Hard behaviour |
|---|---|---|---|
| Green threads and slice loop (`core/sched.js`, `core/vm.js`) | thread states, parked waits with conditions, claims and deadlines, recorded outcomes, the stack of dispatch loops | slices, parking, `wakeBlocked`, `signal`, `pickRunnable`, nested waits and yields, callbacks | wake-ups lost or given twice; waits inside callbacks, on JavaScript frames; deadlines; starvation |
| Kernel objects (`win32/kernel32.js`, `process.js`, `handles.js`) | owner, recursion, abandoned and waiters flags of a mutex; counts of events and semaphores; handle table; suspend counts | Wait*, Release*, Set/Reset/PulseEvent, Enter/LeaveCriticalSection, thread calls, CloseHandle | hand-over on release, death of an owner, a handle closed during a wait |
| API fast paths of translated code (`cpu/jit/runtime.js`, `translate.js`) | none of its own: shares the objects' words in guest memory | takes and releases uncontended mutexes and critical sections | must leave to JavaScript whatever a waiter depends on |
| Child processes (`core/procs.js`, `win32/mappings.js`) | machines, their turns, shared mappings, handle blocks | create, run a turn, exit, reap | events between machines, mutexes of a process that exits |
| Render link (`gfx/cmd-ring.js`, `d3d-recorder.js`, `render-host.js`, `render-loop.js`, `d3d-mirror.js`) | the shared command ring, memory fences, acknowledgements, copies, frame counters, read-back tickets | record, draw from guest memory, write barrier, present, replay, sleep and wake | a draw replayed later than the game's next write of its vertices; memory released too early; a full ring; a worker that fails |
| Windows, messages, timers (`win32/user32.js`) | message queues, windows, timers | Post/Send/GetMessage, paint and timer synthesis | SendMessage across threads, re-entrant pumps |
| Clock and host waits (`core/clock.js`, `timer-res.js`, `host-wait.js`) | virtual time, timer periods, host promises pending | advance, sleep, run until | time against deadlines |
| Streamed data (`vfs/data-client.js`, `data-worker.js`, `net-link.js`, `http-backend.js`) | block cache, requests under way, retry timers | read, prefetch, cancel, retry, reconnect | duplicate answers, eviction while waited for, stalls |
| Files and saves (`vfs/vfs.js`, `overlay-backend.js`, `opfs-store.js`, `profile-*.js`) | overlay of written files, dirty queue | open, write, delete, flush, profile moves | crash between two writes of the store |
| Snapshots (`core/snapshot.js`, `vm-snapshot.js`) | serialized machine | save, restore | taken between slices only |
| CPU (`cpu/decoder.js`, `interp.js`, `jit/*`) | registers, code cache, heat counters | execute, translate, invalidate | stale translations of code that is rewritten |
| Heap and virtual memory (`win32/heap.js`, `vmem.js`) | blocks, free lists, pages | allocate, free, protect | boundary arithmetic |
| Loader and exceptions (`loader/pe.js`, `win32/seh.js`) | module list, handler chains | load, raise, unwind | none concurrent |
| Direct3D and COM (`win32/d3d8.js`, `d3d9.js`, `com.js`, `gfx/d3d8-webgl.js`) | reference counts, device state, resources | the COM methods | deferred calls of translated code |
| Sound and movies (`win32/dsound.js`, `quartz.js`, `movie-player.js`, `mci.js`) | buffers' play and write positions | play, lock, stream | positions against the clock |
| Network play (`win32/winsock.js`, `host/lan.js`, `host/mmo.js`) | sockets, rooms | send, receive, select | datagrams lost and reordered |
| Server and accounts (`host/server.js`, `accounts.js`) | sessions, profiles | HTTP requests | expiry, concurrent writes |
| Page and storage (`host/web/*`) | downloads, cloud copies | start, download, synchronize | interrupted downloads, two devices |
| Ports (`ports/*`) | pages of separately compiled engines | start | none of its own |

**Who calls whom.** The page starts a worker with the emulator; `runOwn` (vm.js)
alternates passes of the scheduler with slices of guest code. Guest code calls
the API through thunks: handlers run to completion on the one JavaScript
thread, and block by rolling the call back (the thread re-executes it when it
is woken) or, inside a callback, by running the other threads on top of their
own frame. Translated code answers some calls itself, on the same memory. Draw
calls go to the render worker through a ring in shared memory; file reads go to
the data worker by messages; child processes are further machines stepped in
turns by the same loop.

**What makes each component correct.** Scheduler and objects: no wake-up is
lost, what a release frees goes to a waiter, nobody owns what he was not
granted, what a dead thread leaves is served, deadlines and ready threads are
not forgotten. Render link: a draw reads the data it was recorded with, whatever
the game writes afterwards, nothing is released under a pending command, the
game is at most two frames ahead, both sides wake up. Child processes: the
turn of one machine never runs another's threads inside a callback, nothing a
dead process owned stays locked. Streamed data: a read gets the bytes of its
offset, once, or an error; no request is forgotten. Files: after a crash each
file has its old or its new content. Messages: every SendMessage returns, in
the order of its replies.

## 2. Plan

Order of the modules, most important first, with the abstract specification and
the theorems worth stating for each.

1. **Scheduler** (done): threads, objects, waits, fast paths. Abstract
   specification `HandOffLock`. Theorems: types, flags, hand-off, claims, levels,
   owners, the stack, every mutex a `HandOffLock` (done).
2. **RenderLink** (done for one device of one process): ring, fences, copies,
   acknowledgements, frames in flight. Abstract specification `DrawQueue`: a draw
   shows its resources as they were when it was issued. Theorems: every block
   accounted for, the frame bound, types, what an acknowledgement is worth, every
   behaviour one of `DrawQueue` (done). Extensions (to do): context loss and the `EPOCH` word,
   read-backs with tickets, several processes on one link (after ProcessGroup).
3. **ThreadPick** (done): the choice among runnable threads, priorities, boost,
   yields. It justifies the fairness Scheduler assumes of `Pick`. Theorems: a ready
   thread is passed over a bounded number of times, a yield hands over (done).
   Extension (to do): quanta, off by default.
4. **ProcessGroup**: turns of several machines, shared mutexes, exit, reaping.
5. **BlockStore**, **ProfileSave**, **DataLink**, **LinkReads** (done): the stored
   blocks, the saves, the page and its data worker, the downloads. Theorems:
   the page's pieces, the waits for batches, no change of the profile lost, no last
   copy of a save removed, the stored blocks' bytes, their log and what a clean close
   leaves, no download the game waits for held back, nobody waiting for nothing,
   none passed by one of a lower rank (done). Extensions (to do): read-ahead and fill, overlay.
6. **MessageQueue** (done for input, focus, posted and sent messages). Theorems:
   `PostedInOrder`, and, when no procedure waits, `SentInOrder` and
   `DeviceFollowsFocus` (done). Extensions (to
   do): SendMessage between threads, timers and paint messages, quit, and the waits
   for messages composed with Scheduler's.

Bounds: two or three actors and one object of a kind in every run, chosen so
that each wait has a rival; wider only where the property needs it.

## 3. Scheduler

`Scheduler.tla` models the threads of one emulated process, what they wait for
and who runs them. Everything happens on one JavaScript thread; `stack` and
`phase` say what it is doing.

| Variable | In the code |
|---|---|
| `state`, `wait`, `result`, `suspendCount`, `pendingExit`, `inCallback` | fields of `Thread` (`process.js`): `state`, `wait`, `wakeResult`/`wakeValue`, `suspendCount`, `pendingExit`, `callbackDepth > 0` |
| `due` | threads whose `wait.deadline` is past: time itself is not modelled, a deadline passes at any moment |
| `nested` | the wait of a `nestedWait` loop (`sched.js`) that lies on the thread's JavaScript frame |
| `stack` | the dispatch loops (`runThread`, `vm.js`) on top of each other: one in a slice, more when a wait inside a callback runs other threads |
| `phase`, `next`, `after` | the pass under way (`signal`, `wakeBlocked`), the thread it visits next, the object it pulses |
| `owner`, `count`, `abandoned`, `waiters`, `open` | the objects' records and words in guest memory (`kernel32.js`), the handle table |
| `held` | a history variable: the levels each thread's guest code believes it holds |

Actions carry the names of the calls and functions they translate. A guest
call is one step with everything the handler does before it returns: `TakeNow`
(a wait satisfied at once), `Block` (parks, or nests when the call stands on a
callback's frame), `ReturnWait` (the re-executed call returns the recorded
outcome), `ReleaseMutex`, `SetEvent`, `PulseEvent`, `ReleaseSemaphore`,
`EnterAgain`, `LeaveCriticalSection`, `CloseHandle`, the thread calls, and the two
`Jit...` actions of translated code, which change the object without the pass
that JavaScript would start. A pass over the threads (`SignalVisit`,
`WakeVisit`) is one step for each thread, so that properties can speak of
those it has not visited yet; nothing else runs meanwhile. `Pick` starts a
slice with any ready thread: which one is the subject of ThreadPick (section 6).
`NestedTake`, `NestedGiveUp`, `NestedTurn` are one turn of a nested wait's loop.
`ReleaseSemaphore` adds the guest's amount, which is signed: the code compares the new
count with the maximum only, so several units end several waits in one pass, and a
negative amount takes units away, below zero too (no comment of the repository says
otherwise). `ExitThread` and `TerminateThread` contain `removeThread` with the
abandoning of mutexes.

What a call leaves out: names and security of objects, error codes, waitable
timers, asynchronous procedure calls, `SignalObjectAndWait`, and the contents of
messages (a message wait is woken by its objects or its deadline).

`HandOffLock.tla` says what one mutex promises: released, or left by its holder's
end, it is granted to one of the queue, and nobody takes it before while somebody
queues for it alone. `MutexHandOff.tla` says that mutex `m` of Scheduler implements
it (`MutexHandsOff`), with the parked threads as the queue; waits that need other
objects as well, and message waits, which set no flag (finding `msg_wait`), are granted
the mutex but are not waited for.

### Runs

| Run | Instance | What it shows |
|---|---|---|
| `sync_safety` | 3 threads, a mutex, an auto-reset event, a semaphore released by 1, 2 or -1, translated code on; waits for one, any, all, timed | no wake-up is lost (`HandOff`), the flag covers parked waits (`FlaggedWhileWaited`), a claim is not taken back (`ClaimKept`), recursion levels agree with what was granted (`LevelsAccounted`), the mutex implements `HandOffLock` |
| `lifecycle` | 3 threads, a mutex, a critical section, joins, one thread with callbacks, one that is terminated and suspended, the mutex's handle closed | what a dead thread leaves is served, it owns nothing (`NoDeadOwner`), dispatch loops stay nested (`StackDiscipline`) |
| `liveness` | 3 threads that contend for a mutex, `FairSpec`; the first has callbacks and enters a critical section too, the others also wait with a deadline; translated code on | timed waits end (`TimedWaitEnds`), ready threads run (`ReadyRuns`), a mutex that is released again and again reaches a parked thread, unless two older ones go on waiting for it (`MutexGranted`) |
| `crit_sec_jit` | 3 threads, one critical section, translated code on | a violation, see Findings |
| `msg_wait` | a mutex in a message wait | a violation |
| `handle_closed` | a handle closed during a wait | a violation |

### Bounds

`N`: three threads give a holder, a waiter and a third that interferes; in the
liveness run, a thread that is parked while two others hand the mutex to each
other. `MaxCount` 2 (1 for liveness): a lock taken recursively once and a semaphore
with two units, so that a level counted twice or lost shows. `Amounts` are what a
semaphore is released by, `MinCount` -1 how far negative amounts bring it down: below
zero once, from where one release of two units reaches a waiter again. `MaxSuspend` 1: the
second SuspendThread fails at the bound. `Requests` (module MCScheduler) lists
the waits the guest code of each thread may issue; each run has those its properties
relate, and only in the liveness run do the threads' lists differ, to keep three threads
within reach. Nothing else is bounded: threads issue calls for ever.

### Fairness

`FairSpec` assumes of the code:

- the passes and the turns of a nested wait run to their end (weak fairness):
  they are loops of one JavaScript function;
- a re-executed call returns (weak fairness);
- `EndSlice`, strong: the slice's instruction budget is kept across API calls
  (`runThread`), a guest in a loop of calls does not renew it;
- `Pick`, strong: a ready thread that is passed over gets a boost after
  `STARVE_PICKS` picks or `STARVE_INSNS` instructions (`sched.js`); ThreadPick
  proves that at most `STARVE_PICKS + 2N - 2` picks pass it;
- guest time goes on: no deadline stays ahead for ever (`[]<>` of a deadline passed or
  gone; `Expire` is possible between any two passes, and passes end);
- callbacks return (strong, `LeaveCallback`): this is the guest's part.

Nothing is assumed of the guest's releases: `MutexGranted` has them as its
premise. It excepts a thread when two threads created before it keep waiting for the same
mutex: a release goes to the oldest thread parked, so two older ones can hand it to
each other for ever. One alone cannot, and that is what the property says: it may
not take the mutex again and again before the parked thread, however it interleaves
with a third one that comes and goes. The exception is needed for three threads, and
applies to the youngest only.

### Findings

- `crit_sec_jit` (code): translated code leaves a critical section without
  the pass, so the leaver may take it again although a thread is parked for it,
  which a test of the repository says cannot happen. `CritSecHandOffCorrect` is
  therefore proved, and `CritSecHandOff` checked, without translated code.
- `msg_wait` (comment): `MsgWaitForMultipleObjects` parks without the flag that a
  comment of kernel32.js promises for every wait, so a mutex may be freed by
  translated code behind it. The waiter is still woken by the next pass.
- `handle_closed` (comment): the re-executed wait looks its handle up before the
  recorded outcome, and fails although it was given the object.

### Proofs

`SchedulerProofs.tla` proves for every number of threads, objects and requests:

| Theorem | Statement |
|---|---|
| `TypeCorrect` | `Spec => []TypeOK`; a semaphore never exceeds its maximum, by whatever signed amounts it is released (it has no least count), an event is taken once |
| `FlagsCorrect` | `Spec => []FlaggedWhileWaited` |
| `HandOffCorrect` | `Spec => []HandOff` |
| `CritSecHandOffCorrect` | with `Jit = FALSE`, `Spec => []CritSecHandOff` |
| `StackDisciplineAlways` | `Spec => []StackDiscipline` |
| `NoDeadOwnerAlways` | `Spec => []NoDeadOwner` |
| `ClaimKeptAlways` | `Spec => []ClaimKept` |
| `LevelsAccountedAlways` | with `ClosedSingly`, `Spec => []LevelsAccounted` |
| `MutexHandsOffAlways` | `Spec => MutexHandsOff`, for every mutex `m` |

Assumptions: `SchedulerAssumption` (the requests are well formed, the amounts integers) and
`DisjointKinds` (an object has one kind); TLC evaluates both in every run.

The hand-off invariant is not inductive by itself. The steps that could break it
are those that free an object: JavaScript's start a pass, so every parked
thread is ahead of it; translated code's do not, and are allowed only when the
mutex has no waiters flag. So the flag must cover the parked threads
(`FlaggedWhileWaited`), which in turn needs that a thread is parked only for what
a request asks for (`WaitsAsked`). The inductive invariant is
`TypeOK /\ WaitsAsked /\ FlaggedWhileWaited /\ HandOffIn(V)`, with `V` the kinds of
wait the flag or the missing fast path protects. Its proof has three
parts: a step that takes objects makes nobody's wait true (`Consumed`), a step
that frees one starts a pass (`Freed`, `Kept`), and a visit claims for
the thread it leaves behind. A thread parked before the step and one parked
by it are treated separately (lemma `Parking`).

For the locks, a step does at most one thing to each (`Effect`): nothing, a level
taken at once or claimed by a wake-up (`Gained`), a level released (`Lowered`), a
claim returned, an owner's end; five lemmas say that each keeps the lock's
account (`LockOK`). A claim and a granted level must be counted together, and no
thread with a claim may have a second wait under way (`ResultInv`). A mutex
whose handle is closed drops out of the account, because the call that returns
then fails and keeps what it took (finding `handle_closed`). A wait for several
objects would spoil the accounts of the others with it; so
`LevelsAccounted` is proved with `ClosedSingly`: handles are closed of objects
waited for alone only. `ClaimKept` needs no such assumption, because a claim
on a mutex is lost only by a release of its owner, who is the claimant.

That a mutex is a `HandOffLock` follows from `HandOff`: when a call takes the free
mutex, guest code runs or a nested wait returns, and then nobody queues for it
(`FreeUnqueued`); during a pass it is taken for a thread of the queue only.
`StackDiscipline` is needed where a thread is terminated: one with frames is
only marked, and it is in no queue.

Only model-checked: the liveness properties, which rest on fairness.

## 4. RenderLink

`RenderLink.tla` models the emulator's thread and the render worker for one
device of one process. Draws are recorded as commands; textures and buffers
stay in guest memory, which the program goes on writing, releasing and reusing
while the commands are on their way.

| Variable | In the code |
|---|---|
| `mem`, `addr`, `live`, `locked`, `bound` | guest memory by blocks, `Surface.mem`/`Buffer.mem`, open locks, the device's textures, streams and indices |
| `rec`, `lazy`, `sync` | `Resource.rec` (slot, generations, `lastRef`, `eager`, `pend`), `rec.lz`, the bindings recorded (`rec.binds > 0`) |
| `gen`, `deferred`, `frames`, `failed`, `lastWorkEnd` | the fields of `RenderLink` |
| `produced`, `published`, `ring` | `RingWriter.produced`, `CTL.HEAD`, the commands not replayed |
| `todo`, `wait` | what the call under way has still to put into the ring, and the wait it is in (`waitFor`): between calls both are empty |
| `tail`, `ack`, `shown` | `CTL.TAIL`, the acknowledgement table, `CTL.SHOWN` |
| `staged`, `mirror`, `picture` | the mirror's bindings and resources with what the graphics card holds; what the last draw replayed has read |
| `stalled`, `crashed` | the worker dead or silent; an error that ended the emulator |

A guest call changes the recorder's state and lists its commands in `todo`;
`PutState`, `PutDraw`, `PutPresent` put them one at a time, because between two of
them the ring may be full, the worker may replay, or may be given up. The lock of
a resource is `LockCopied` (copy on write), `LockFenced` (waits for the worker,
`EndFence` goes on) or `LockFree`; `LockBuffer` adds NOOVERWRITE and the
change-over to copies in the ring. `Free` is `deferFree`, decided after the
resource's DESTROY is put. `Draw` records the bindings that have changed, the
buffers' bytes it reads, and the draw. The worker replays one command (`Replay...`)
or publishes its position (`PublishTail`); a draw uploads what it reads
and acknowledges it. `Fail` is a wait given up, `WorkerError` the worker's error
event between two slices; both release what is deferred and drop the ring.

Contents are one bit for each of the `Parts` of a resource, a write flips one.
The program keeps two rules of Direct3D: it draws nothing that it has locked,
and with NOOVERWRITE it writes nothing that a pending draw reads.
Under these rules the further conditions of `lockBuffer` (`UploadSpares`) only
avoid needless uploads of half-written data; the model keeps them.

`DrawQueue.tla` is the promise: a queue of pictures, issued and rendered in order.
`DrawsAsRecorded` says that RenderLink implements it, with the draws in `ring` and
`todo` as the queue and what each is to show taken from guest memory when the
program issued it. So fences, copies, acknowledgements, deferred releases and
ring copies are checked together, for what they are there for.

### Runs

| Run | Instance | What it shows |
|---|---|---|
| `render_alone` | three instances (`MCRenderLinks`): one texture, two blocks, a ring of 3 commands, two presents, with fairness; one static buffer of two parts, one block, a ring of 2; one dynamic buffer, three blocks | draws as recorded through fences, copies on write and the change-over to ring copies (`StepsAsRecorded`, the steps of `DrawsAsRecorded`), the program at most one frame ahead (`FramesBounded`), every wait of the emulator's thread ends, a dying worker included (`CallsEnd`, which is `WaitsEnd` of the texture's instance) |
| `render_mixed` | a texture, a static buffer, two blocks, one slot, a ring of 2, one present | the whole of `DrawsAsRecorded` with deferred releases, blocks given to another resource, and a resource without a slot; an acknowledged generation is uploaded (`AckMeansUploaded`), every block has one owner (`MemoryAccounted`), order of the ring's positions and its capacity (`TypeOK`) |
| `ring_full` | one texture, a ring of 2 | a violation, see below |

Bounds: `MaxCommands` (commands produced when a call starts: 4 or 5, that is
two or three draws with what lies between them), `MaxPresents` (0 to 2),
`MaxFrames` 1 instead of 2 (the bound is reached with two presents). One slot
serves one resource and leaves the second without. Two blocks let a copy or a
deferred release and another resource exist at once, and run out, which takes the
fence that a surface over `COW_MAX` (`Large`, empty in the runs) always takes; three,
in the dynamic buffer's instance, let two copies exist. In `render_mixed` blocks are
interchangeable, so symmetry is used; no liveness is checked there.

Fairness: the emulator's thread goes on inside a call (`Continue`), the worker
replays and publishes its position (the two are steps of `replayLoop`, which
publishes after each batch), and a wait whose worker is stalled ends after
`stallMs` (`waitForNow`). Nothing is assumed of the guest.

### Finding

`ring_full` (code): when the worker dies while a call waits for room in the ring,
`waitSpace` throws through the Direct3D call and the emulator stops with a crash
report; docs/render-worker.md says that it goes on rendering in its own thread,
which is what happens in every other wait.

### Proofs

`RenderLinkProofs.tla` (the first two) and `RenderLinkDrawsProofs.tla` prove for any
resources, slots, blocks and parts, any size of the ring and any `MaxFrames`:

| Theorem | Statement |
|---|---|
| `FramesBoundedAlways` | `Spec => []FramesBounded` |
| `MemoryAccountedAlways` | `Spec => []MemoryAccounted` |
| `DataAlways` | `Spec => []DataInv`, the invariant of the contents, see below |
| `TypesAlways` | `Spec => []TypeOK`; the order of the ring's positions is part of it |
| `AcksAlways` | `Spec => []AckMeansUploaded` |
| `DrawsImplemented` | `Spec => DrawsAsRecorded`: RenderLink implements `DrawQueue` |

Assumption: `RenderLinkAssumption`; of `NoWait`, `NoBytes` and `NoRec` it says that they
are no wait, contents and record, which a model value is not. `DrawsImplemented` covers
`StepsAsRecorded`, which is stated of the three instances of `render_alone`.

**Frames and memory.** Neither is inductive: a call puts its commands one at a time and may be given up
between any two. The invariant `IInv` has four parts. `ShapeInv`: of the
commands a call has still to put, a release or a present is the last one, and a call
that waits has put all of them; so a wait given up forgets no release but the one
`GiveUp` keeps. `CursorInv`: the ring's positions are in order, which the proof
needs because a present is counted when it is put and again when it is
replayed. `FrameInv`: frames put are frames shown and those in the ring, and a call
that waits for a frame waits for the one `MaxFrames` before. `MemoryInv`:
an allocated block belongs to one live resource, deferred release or release not put
yet (`OneOwner`, said without cardinalities, which the last lemmas bring in), and
what is locked, or waits for its fence to be, has memory. The invariant was model-checked in
`render_mixed`'s instance before it was proved.

**Contents.** What a draw will show depends on the commands before it, which the worker
has not replayed. Commands on their way have positions (`Way`) that stay theirs, and
`Ahead[p]` is what the mirror's resources and bindings will be when the worker
reaches position `p`, uploads apart: a recursive function over the positions. A command
added leaves it as it was at all positions before, the replay of a command other than a
draw leaves it at all positions after; these two facts, proved through the least position
that would break them, carry the proof through the ring and through batches of commands whose
order `SetToSeq` leaves open. A draw replayed uploads, and changes `Ahead` in nothing that
is shown later. `DataInv` says of it, as long as the link is not given up:

| Part | What it says | What needs it |
|---|---|---|
| `TypesInv` | types; generations and positions do not pass their counters | all |
| `WorldInv` | at the end the mirror has the recorder's bindings, blocks and change-overs; each command finds the resource it is for | replay, recording |
| `GenInv` | a generation is used for one resource, by its last renewal; acknowledged, it is uploaded, whether its record is in its resource or in the release of a destroyed one | `mayRead` |
| `MoveInv` | memory that a copy on write moved is written as a whole before the next draw, or locked | copies |
| `ChangeInv` | a buffer changes over to copies in the ring when no draw on its way reads it | the change-over |
| `RefInv`, `FenceInv` | `lastRef` covers every draw on its way of a resource no longer bound; a fence waits for all of them | fences, releases |
| `FreeInv` | a release is decided right after its DESTROY is put, before that is published | releases |
| `EndShows` | a draw issued now would show guest memory as it is, but for what is locked or still to be copied (`lazy`) | a new draw |
| `MemoryKeeps` | guest memory that a draw on its way may upload is kept: not locked there, or held by a release that comes after the draw | locks, releases |
| `DrawShows` | each draw on its way shows, of each part it reads, what it was issued with | the refinement |

`AckMeansUploaded` follows from `GenInv` (it is uploaded) and `EndShows` (so it is as in guest
memory). For the refinement, `Wants`, the queue
of pictures, is what the commands on their way gather (`Gathers`); steps that add no draw
leave it alone, a draw recorded appends the picture of the bound resources in guest memory
(`Issue`), a draw replayed takes the first off and, by `DrawShows`, shows it (`Render`).
A wait given up leaves at most a release on its way (`LostInv`), so that the queue is emptied
at once and stays so (`Lose`).

Only model-checked: `CallsEnd`, which rests on fairness.

### Not modelled

Not modelled are: state tables, shaders and constants (copied into the ring as values), clears and
draws from user memory (the same), volumes (locked as textures over `COW_MAX` are),
mip levels and cube faces (a texture has one level), read-only and nested buffer
locks, read-backs and blits, `Reset`, inline replay, the wrap-around of the ring
and of generations, the sleep and notification of the two threads (a wait
re-checks every 20 ms), uploads byte by byte (one step with their draw), the
loss of the worker's context, and several processes on one link: the hazards
list says what to expect of the last two.

## 5. The game's data

Four modules, one for each thing a game's bytes pass through. `MCGameData`
makes small instances of all of them for one run, each behaviour being one of
its `Parts`; `MCParts` adds those of section 6, and one run checks them all.

### BlockStore

`BlockStore.tla` is `OpfsBlockStore` (`vfs/opfs-store.js`): a data file of blocks,
a log of index records, and what a crash may do to either. `map`, `end`, `logEnd`,
`pending` and `failed` are the fields of the object; `data` and `log` the two files,
cells and records; `flushed` how much of the data file no crash can take. `Put`
contains its call of `flush`, whose writes may fall short (`SyncPoint`); `OpenLog`,
`OpenAnew` and `WriteNewLog` are the branches of `open`, in two steps where a crash
between them leaves something else. A crash takes any of the cells not flushed
(lost from the end, or garbage), and in the middle of a sync point any of the
records being written. What a log says (`decodeIndex`, which applies its records in
turn) is stated by its outcome: of each key the last record before the first damaged
one counts (`Final`, `Replayed`). `GetDamaged` is a `get` whose checksum does not match:
a block's checksum is its number here, so garbage always shows, as the code
assumes of its hash.

`EntriesOwnTheirBytes` (no entry of an open store points into another block's
bytes), `LogSaysLastSync` (what a sync point wrote is what the next start
reads) and `ClosedBlocksStay` (a block stored at a clean close survives the
crashes of later sessions, in the middle of a sync point too). The instance has two blocks,
of one and of two cells, a sync point at two records, two crashes: the second crash meets
what the first left, which is where a stale log or an uncut tail shows.

`ClosedBlocksStay` excepts one crash, because the code does not survive it. A start that finds
entries past the end of the data file replaces the log: it truncates the
old one, writes the new one and flushes it (`opfs-store.js` 146). A crash in between
(`CrashInOpen`) may leave no log, or a part of the new one, and when nothing is left the
next start empties the data file. Every block is then lost, those of clean closes long
past included, while the module's first comment (15-17) says that a crash loses at most the
records of the last sync interval. The history variable `exposed` holds the blocks such a
crash may take; without `\ exposed` the property fails in the run's instance: a crash
takes the tail of the data file while its records are in the log, the next start drops
the entry and replaces the log, and a second crash takes that. Blocks closed
cleanly after that crash are covered again.

Left out: the index format before the log, the reasons kept for the
page, `SYNC_MS` (a sync point may come at any `put`).

### ProfileSave

`ProfileSave.tla` is the player's profile: `MemBackend` (`vfs/vfs.js`) the game
writes to, `flushProfileOpfs` (`vfs/profile-opfs.js`) that copies it every two
seconds while the game goes on, and a start with its moves
(`vfs/profile-moves.js`).

| Variable | In the code |
|---|---|
| `files`, `bytes` | `MemBackend.files`: path to file object, the object's bytes as a version |
| `newer`, `sameMs` | objects with `mtime > lastFlush`; whether a write now would still get the date of the last flush |
| `changes` | `MemBackend.changes` |
| `disk` | the files in the browser's storage |
| `flush` | the flushes under way: `dirty` and `gone` as decided when it began, the file it is at, the bytes taken |
| `unseen` | a history variable: objects whose last change no flush will notice, see below |

| `adrift` | a history variable: paths a flush may have left wrong with nothing noted: a removal failed, or another flush still had an older state of the path in hand when this one took it |
| `alone` | a history variable: the flush beside which no other has run, if there is one |

Each step of a flush is one `await`: `OpenFile` (the file exists, empty),
`WriteFile` (the bytes are taken), `CloseFile` (they replace the file's),
`WriteFails`, `RemoveFile`, `RemoveFails`, `EndFlush`. A write that fails puts its path, and
then all that was to be removed, back into `changes`. A removal that fails does not: the code
swallows the error, so `RemoveFails` goes on as if the file was gone. `Crash` is the
worker's end, anywhere.

`flushProfile` (`worker.js` 138-147) has no guard against itself: it starts a flush when two
seconds have passed since the last one started, or at once when forced, and three of its
callers do not wait for it. So any number of flushes may be under way, each with the list made when
it began. Of the storage's locks the module takes what the browser's specification says: a
file open for writing is not removed (`Locked`), one removed since it was opened cannot be
written (`Removed`).

`DifferentMeansDue`: a path whose file differs from the storage's is on the next flush's
list, or in the hands of one under way that has not taken the bytes or removed the file yet.
`MovedFileStays`: a flush that runs on its own removes no last copy of bytes the
profile has, whatever failed before and whatever overlapping flushes left.
`ProfileSaved`: once the game rests, the storage ends up with the profile's files and
no others. They except what the code does lose:

- a file made shorter (its date stays, and `changes` does not get it) and a write
  dated in the flush's own millisecond, until the next change (`unseen`);
- a path whose removal failed, until the game changes it again (`adrift`), though
  the comment of `flushProfileOpfs` (9-10) promises another attempt;
- a path that a flush takes while another still has an older state of it in hand
  (`adrift`): which of them ends last decides;
- for `MovedFileStays`, flushes that run side by side. TLC finds that two of them do remove a
  last copy: a file moved at the start is still being written to its new place by the
  first, the game makes and deletes a file at the old place, and the second flush removes
  the old copy. If the worker dies then, the save is in neither place.

The exceptions are narrow: a path ceases to be adrift when a later flush takes it with no other
in the way.

Two instances, both with two paths, a move from one to the other and three objects. "profile": one
flush at a time, two changes, a failure (of a write or of a removal), a crash.
"flushes": two at once, two changes, a failure, no crash. Two flushes are enough for one of them to
undo another; the proofs hold for any number. Fairness: a start happens (`Start`), and
for each flush `FlushGoesOn`: the worker's loop calls `flushProfile` every two
seconds, and the storage answers or fails every call, whatever another flush does (one that
is waiting for a lock fails, it does not wait). Nothing is assumed of the clock.

Left out: folders (made before the files they hold), names' case, seeds, the
account's copy, and moves that share a path (the code takes them one by one, the
module all at once).

### DataLink

`DataLink.tla` is a page of an engine that runs in the browser and its data
worker (`vfs/data-client.js`, `vfs/data-worker.js`). A read is made synchronously
(`FetchSync`: the page's thread spins), spun for and then given up to a message
(`FetchSpin`, `GiveUp`), or by message (`FetchAsync`); the worker decides how to
answer when it has the bytes (`Settle`) and stores bytes, count and number in
that order (`WriteBytes`, `StoreNumber`). `Want`, `WantFlush`, `WantWait`, `TakeWant`,
`SettleEntry` are announced batches and the wait for them, on the counter
`ctrl[12]`. The page's thread handles no message while it spins; the engine is
suspended while a promise of its is pending. The worker may die at any
step, or be held by a synchronous request of its own (`Held`).

`PiecesAreTheirs`: what the page keeps under a piece's name is that piece.
`WaitSaysTrue`: a wait that says that everything announced is there is right.
`EngineGoesOn`: the engine always runs again. Instance: two pieces, room for one in
the page, three calls, batches of one entry. Fairness (`LinkGoesOn`): the page's
thread runs and gets its messages and timers; while the worker lives it takes its
messages and its reads end. `GiveUp` needs none: a spin ends by its answer or
by the still heartbeat.

Assumed of the callers: no read before the worker is ready (`fetchSync`'s comment),
no announced batch while the engine is suspended in the wait for the
previous ones (`ports/openmw/streamfs.js`).

### LinkReads

`LinkReads.tla` is the player's connection: `NetLink` (`vfs/net-link.js`), which gives
background downloads their turns, and the readers of `HttpBackend`
(`vfs/http-backend.js`) that ask for them: lists announced or predicted, pieces ahead
of a reader, a fill, reads that wait parked, and synchronous ones. All state is one
record, because one call of the code runs through many functions: `wantList` queues
units, `pumpWant` starts some, `fetchBackground` asks for a turn, `kick` starts others.
The operators carry the functions' names and take the record along; an action is
one event: a call, an answer, a timer, a continuation after an `await`.

`WaitedForMayGo`: no download the game waits for is held back by the silence its own
wait makes. `NoOvertaking`: none passes a waiting one of higher rank, but one that a
load keeps silent. `NobodyHangs`: when nothing is under way nobody waits. The last
one is a safety property on purpose: it needs no fairness, and says more than
a liveness property of a run in which requests always end. Two instances, because
the rules differ: a thin link (2 pieces, 2 lists, 2 requests, 1 retry) and one
between thin and fast (3 pieces, one of the size of two, 1 list, 3 requests, no
retry), three calls in each.

Left out: the measure of the link (its speed is fixed in a run), the window of
lists awaited by their reads over HTTP/1, the learned order and the read-ahead's
budget, whole blocks and joins of them, requests aborted because they take too
long (only requests not modelled may be), and the kick of the link by a synchronous read's
request (`end`), an instant before that of its wait's end (`waitEnd`): the two are one in `SyncRead`, so that
no download goes ahead of those that only the second lets go.

### Runs

| Run | Parts | What it shows |
|---|---|---|
| `parts` | all of these and those of section 6 | the properties above, and those of section 6 |
| `data_stall` | DataLink with `LongStalls` | a violation: `PiecesAreTheirs`, see below |

Deadlock is not checked: a store that has used up its blocks and crashes, or a link
after its last call, stops.

### Finding

`data_stall` (code): the page takes a heartbeat that was still for 30 s (`DEAD_MS`)
for the worker's death and gives its request up, without a word to the
worker. But the heartbeat is a timer of the worker's own thread, still as well
while the worker retries a synchronous range request (five pauses of 15 s in all,
and the time each attempt takes to fail). It then answers the abandoned request on
shared memory, over what the page reads as the answer of its next one: a piece
is kept under another's name. `data-client.js` (21-22) says that only the
request still waited for is answered there, which `ctrl[16]` ensures for requests
spun for and given up to a message, and nothing for synchronous ones.
With `LongStalls = FALSE` the property holds, and is proved.

### Proofs

| Theorem | Statement | Assumptions |
|---|---|---|
| `PiecesAreTheirsAlways` (`DataLinkProofs`) | `Spec => []PiecesAreTheirs`, for any pieces, budget, number of calls and entries | `~LongStalls`, `DataLinkAssumption` |
| `WaitSaysTrueAlways` (`DataLinkProofs`) | `Spec => WaitSaysTrue`, for any number of batches and entries | `DataLinkAssumption` |
| `StoreTypes` (`BlockStoreProofs`) | `Spec => []TypeInv` | `Constants`: finitely many keys, a size of each, `Damaged` is no record and `NoLog` no log |
| `EntriesOwnTheirBytesAlways` (`BlockStoreProofs`) | `Spec => []EntriesOwnTheirBytes`, for any sizes, any number of blocks and crashes | `Constants` |
| `LogSaysLastSyncAlways` (`BlockStoreProofs`) | `Spec => []LogSaysLastSync`, for the same | `Constants` |
| `ClosedBlocksStayAlways` (`BlockStoreProofs`) | `Spec => []ClosedBlocksStay`, for the same: every crash but those in the middle of a start that replaces the log | `Constants` |
| `LinkTypes` (`LinkReadsProofs`) | `Spec => []` of the types, the queues' stages and the flights' pieces | `Constants`: finitely many pieces and requests, a size of each piece, `Nobody` is neither request nor reader |
| `WaitedForMayGoAlways` (`LinkReadsProofs`) | `Spec => []WaitedForMayGo`, for any lists, readers, windows, retries and speed | `Constants` |
| `NobodyHangsAlways` (`LinkReadsProofs`) | `Spec => []NobodyHangs`, for the same | `Constants`; `Limits`: `maxBackground()` and the windows are positive, as they are in the code at any speed |
| `NoOvertakingAlways` (`LinkReadsProofs`) | `Spec => NoOvertaking`, for the same | `Constants` |
| `DifferentMeansDueAlways` (`ProfileSaveProofs`) | `Spec => []DifferentMeansDue`, for any paths, moves, numbers of changes, failures, crashes and flushes at once | `Constants`: finitely many paths, enough objects to load every path |
| `MovedFileStaysAlways` (`ProfileSaveProofs`) | `Spec => MovedFileStays`, for the same | `Constants` |

`PiecesAreTheirs` fails only if the buffer is written for one request while the page
waits for, or copies, another's answer. The invariant (`IInv`) therefore
follows a synchronous request through its life: it is in exactly one place, as a
message, in the worker's reads, or being settled (`OncePending`, `QueueInv`); while
the worker runs and the page spins, the request in one of those places that will be
answered on shared memory is the page's own (`Order`); and once its number
is stored the buffer holds its piece (`BufferIsCurs`, `Answers`). A late request is
answered there only if `ctrl[16]` still names it, which is what makes the others
harmless.

`WaitSaysTrue` relates two ends that share one number: the engine knows which batches
it announced (`want`), the worker which it took and what of each is left, and only
the count in `ctrl[12]` passes between them. The invariant (`BatchInv`) places every
batch on its way: those up to `wantMax` the worker has taken, the next
are in the inbox in their order, none missing, the last not posted
yet (`InTurn`); the worker's count stands for batches that landed from the
start of its window on (`DoneRight`); and neither that window nor one a message on
its way brings starts later than the first batch of the wait under way. Without this
last part the count could be right about its window and the wait wrong about its
batches, as after a wait that timed out. A worker that dies, is held, or answers
reads in between changes none of it, so `~LongStalls` is not needed.

The three properties of BlockStore compare what two files say after a crash, and each
needs to know what the open store was about to write. The invariant (`IInv` of
`BlockStoreProofs`) says of an open store that the records of the log in use are those of
the map at the last sync point (`Says`), that the waiting records lead from that map to
the store's (`Later`), and that what follows the records in use, after a sync point that
failed, is a part of those that wait, up to a damaged one (`LogTail`): whatever of them
the next start finds, the keys it is wrong about are `torn`. Every entry, in either
map or waiting, has cells of its own below the end of the data file (`Held`); so has
one that is dropped, until its record is in the log. And what the last clean
close left lies in the flushed part, under keys no waiting record names (`Kept`), which
is why no crash in a sync point takes it. Of a store that is not running only what the next
start reads is kept (`Leaves`). The case the code's own comment warns of, entries past
the end of the data file whose range later blocks fill, is the step `OpenAnew`: `Owned`
asks nothing of cells past the end, so an entry may stay in the log after its
bytes are lost, but no store opens with it. TLC checked `IInv` on the run's instance, and on one
of three blocks, before it was proved.

`DifferentMeansDue` is inductive together with what each flush remembers: the
file it is at is on its list (`JobInv`), and what it has in hand at a path is what the
profile has there, or the next flush will see that it is not, or the path is adrift
(`FlushFollows`). A path leaves `changes` or `newer` only for the list of a flush that
begins, which is the step where the others matter: whichever of them is stale at the path
leaves it adrift, whichever is not agrees with the new one. The hard steps of the
game's are those during a flush: a rename moves an object with its date, and the flush goes on
with the object it noted.

`MovedFileStays` needs to know, when a flush that has written everything removes a
file, that the storage has each of the profile's versions at a path that stays. The
invariant (`AloneSecured`) says so of a flush on its own from its first step: an object
whose version is in the storage has it at a path the flush leaves alone, or is on
its list, its bytes not taken yet or taken as they are now. A flush that begins
beside another makes neither of them `alone` (`AloneInv`), and a crash or an end leaves nobody. The
game may change what is secured only by writing a version that was never stored (`FreshInv`)
or by moving a file, which the next flush sees. A flush begun on its own inherits it from
`DifferentMeansDue`: with no other under way, what differs is on its list or excepted,
whatever overlapping flushes left before. A failed write breaks it, and ends the removals; a
failed removal leaves a copy more.

`WaitedForMayGo` is about one state, but one step of LinkReads runs through loops within
loops: a read promotes each download it waits for, each promotion moves it in the
link's queue, each move lets the link give turns, and each pump starts units that ask
for turns in their turn. The invariant (`Safe`) is `Good` (types; who stands in a
queue is a request in that stage; a flight is a request's for its piece; what
the game waits for is a request) with `Kept` (it may go). What the calls in between do is
said of the states before and after: `Moves` of the link's calls, which change the requests
that wait for turns and let none of them lose its urgency or its place in the load;
`Fine` of all, by which nothing new is waited for and what may go still may.
Both compose, so a loop has them because each of its rounds does (`UpTo`, from the
well-foundedness of the naturals: the loops are recursive functions over a finite
range, and the set of the rounds up to which they hold has no least gap). The read that
parks is the step at which the property would fail: it begins to wait for downloads
nobody hurried, and the invariant is given up for these (`Kept(s, X)`) until
`PromoteEach` has come to each. A unit settled in the middle of that loop must not
be missed by it, which is what `Fine` says of those it leaves alone. So is a
list's join of a place's unit, which changes the unit's queue and its kind (`Adopt`).

`NobodyHangs` is about states in which nothing would ever happen again, so its proof must
know for every download what will bring it on. The invariant (`Rest`) says where each
one is (`Placed`: in a queue, among those that wait for a turn, joined to
a reader's request that is under way, or on its way itself), that readers and lists wait only
for what is there, and that the queues were pumped (`Pumped`: no urgent unit is left in one,
and none waits unless one of its window is out). In the middle of a step the invariant does
not hold: a call has downloads in hand that are nowhere, and a reader's request that is
over still has those that joined it. `Tidy(s, X, A, W)` excepts the downloads
`X` and counts the readers `A` as under way, and each call's lemma says what it adds to
them and takes away: `Ask` places what it is given, `JoinedGoOn` empties the `X` that
a landed request leaves. `Pump` must have emptied the urgent units when it ends, which is a
count of its rounds against the units queued (`PumpTidy`). In a quiet state all is then
in a queue or waits for a turn. A turn not given although the link looked (`KickIdle`) is
one kept silent, so somebody waits: for a download that may go (`WaitedForMayGo`'s
invariant), which is not among the silent ones, and if it is queued, an announced one
has started before it, which is not among them either (`IdleIsOver`). TLC checked `Rest` on
both instances before it was proved.

`NoOvertaking` compares two states, but what happens between them is a sequence of
starts, promotions and landings, each of which looks at the turns as the one before left
them. Its invariant is `Safe` with `Sorted`: whom the link lists for a turn it lists in
the order of their ranks. That is not enough within a step, where the code
compares with the ranks of the moment and the property with those of the beginning. `Ord(c, s)`
therefore says, of a step that began in `c` and has come to `s`: the turns are in
order; who still waits since `c` ranks now no worse than then; who was
waiting or is new and has begun since passes nobody that has waited all
along. Every call leads from `Ord(c, s)` to `Ord(c, t)`, whatever `c` is, and so the
nestings and the loops do. `Kick` is the step that decides: it looks at the turns from the first
to the last and begins those it may; whom it leaves behind was not calm enough
to go, and then nobody after it is either, or was kept silent (`NonePassed`). Ranks
only improve while one waits, since a promotion puts it further forward.

The rank is that of the step's beginning, not of its end. An announced list promotes
its downloads one after the other, and each promotion may give turns to what stands
first in the queue at that moment. A download that started then may rank behind one
that the same call promotes next and that must wait on. This comes from
reading the code: TLC did not meet such a step on the instances of the run.

Only model-checked: the liveness properties, which rest on fairness. Of BlockStore, that
the outcome form of `Replayed` is what applying the records in turn gives is induction over the log; TLC compared
the two on all logs of up to four records over two keys.

## 6. Input, messages and the choice of a thread

### MessageQueue

`MessageQueue.tla` is the window manager's side of input (`win32/user32.js`). The
host makes events; whoever calls PeekMessage, GetMessage or GetAsyncKeyState, or
tests the condition of a thread that waits for messages, pumps them (`pump`).
An event posts messages, or sends them, which means that the window's procedure
is called on top of the pump, if the thread that runs is the window's, or that
the message waits for that thread (`deferToThread`). A procedure may call, and
pump, in its turn.

| Variable | In the code |
|---|---|
| `made`, `page`, `input` | events the host has made, whether the page has the focus, events not taken (`pollInput`, `pendingInput`) |
| `stack` | the calls on the JavaScript stack: of which thread, where it is (`pump`, an `event`, `delivers`, a procedure that `runs`), what is left to do, the frame count `pump` read. A frame at `event` is `this.pumping` and `deferSends` |
| `windows`, `active` | `windows` not destroyed, `this.active` |
| `sent`, `msgs` | `queueOf(t).sent`, `queueOf(t).msgs`: each item with the number of its event |
| `button` | `keyState` of the button, `pressedAt`, whether 250 ms have passed, and (history) whether the game's sample found it down |
| `frames`, `sampled`, `device`, `focused` | frames presented, the game's sample in this frame, `lost` of the fullscreen device, `!appInactive` |

`TakeEvent` is one turn of `pump`'s loop, `Held` its guard for releases; `Does` is
one step of what an event, or a call, does: `Send`, `Activate` (the focus step,
deferred as one), `ActivateWindow` and `Activated` (`activate`), `Post`, `Gone` and
`Drop` (`destroyWindow`). `Deliver` is one turn of `deliverSent`, `TakeMessage` the
search of `peek`. Steps of one call are actions of their own because procedures,
and threads that run while those wait, come between them.

`SentInOrder` and `PostedInOrder`: what the host's events send and post stands in
the order of the events. `DeviceFollowsFocus`: once no change of focus waits, the
device is lost exactly while the page is not focused. `ClickSeen`: a game that
samples the button once a frame finds it down before its release is taken, or
had 250 ms. `InputTaken`: in the end no event waits, whether or not the game
presents frames. Two instances: one window, 3 events, 2 frames, 2 calls ("input");
windows of two threads that are shown and destroyed, 2 events, a call
("windows", messages only; the run `deliver_again` has 3 events and 2 calls there). Three events
are a press, its release and a focus change between, or a focus lost and regained around one;
of the two calls the second may come from a procedure that an event of the first called, and
the readings of the game's loop are not counted. `MaxSent` 5 is not reached.
Fairness: calls go on and procedures return, the game's loop reads the button
again and again (`GoesOn`), 250 ms pass (`Age`).

Assumed of the game, for these properties: it pumps before it samples in a frame
(`LateReads`), and its procedures called for events neither wait nor present frames
(`ProcsWait`, see the finding).

What `activate` sends one window in a row (WM_NCACTIVATE, WM_ACTIVATE and, when none was active
before, WM_ACTIVATEAPP, with the messages of the keyboard focus that follow) is one message of the module.

Left out: mouse moves, wheel and characters, the captured mouse, quit, timer and paint
messages, message filters other than by window, messages sent between the
program's threads, keyboard focus apart from the active window, dialogs.

Proved in `MessageQueueProofs.tla`, for any threads, windows, events and calls:

| Theorem | Statement | Assumptions |
|---|---|---|
| `PostedInOrderAlways` | `Spec => []PostedInOrder` | `Places`: windows have threads, a queue has room for one message |
| `SentInOrderAlways` | `Spec => []SentInOrder` | `Places`, `~ProcsWait` |
| `FocusFollowed` | `Spec /\ []NeverFull => []DeviceFollowsFocus` | `Places`, `~ProcsWait`, `~Destroys`, `OneThread` |

For the first: one event is handled at a time (`OneEvent`), since a pump below an event
returns at once, and its message is the last thing done for it (`PostsLast`), so that the
queues hold events up to the one under way and no message of that one before its turn.
For the second: what is called on top of an event runs on the event's thread, for which nothing
waits, or is the test of a wait condition (`UnderEvent`); so what the event puts off is
numbered as the newest, and nobody takes messages in between. `ProcsWait` breaks exactly
this, see the finding. For the third: of the changes of focus that are on
their way the newest says what the program is to be told (`Aim`, `NewestWins`), and a change
is done by the event that brought it or after all older ones. `OneThread`: two threads' queues
have no order between them. `NeverFull`: a 257th message drops the oldest,
perhaps the newest change of focus. `~Destroys`: with its window a change of focus is dropped.

`DeviceFollowsFocus` is checked, like that, of the instance with one window. Only
model-checked: `ClickSeen`, and `InputTaken`, which rests on fairness.

**Finding** `deliver_again` (code): with `ProcsWait`, a procedure called for an event
may wait while another thread runs. `deferSends` is then still set, so that when that
thread, with two messages waiting for it, takes them with PeekMessage, `send` defers
each again behind the other (`mustDefer` sees a queue that is not empty):
their order changes, and the loop of `deliverSent` does not end. The comment of
`deliverSent` says that they are delivered in order.

### ThreadPick

`ThreadPick.tla` is `pickRunnable`: among the ready threads the one of the
highest priority, in turn among equals (`rr`); a thread ready for `STARVE_PICKS` picks
or `STARVE_INSNS` instructions counts as of priority 16 (`Eff`); a thread that yielded
goes on only if no other may run (`Picked`). Picks are made by the top loop
(`Pick`), by waits nested in callbacks (`NestedPick`) and by yields in callbacks
(`YieldNested`), which lie on each other on the stack `under`. `waited` is
`picks - readyPick`, `old` the instructions' limit. A yield at the end of a slice
leaves `yielder` for the next pick of the top loop, which may come after many
nested ones. Threads are a fixed set of which some are blocked: one that is
created is one that wakes.

`ReadyRunsSoon`: a ready thread is passed over at most `StarvePicks + 2N - 2` times.
`YieldHandsOver`: a slice that ends with a yield, because another thread may run, is
followed by another thread's. The instance has 3 threads, two priorities, a boost
after one pick; the theorems are for any. Left out: quanta (`quantumInsns`, 0 by default), the
measurement switches, the removal of a thread from the list.

Both are proved, in `SchedulerProofs.tla`, of an instance `P` of the module whose
constants and variables are the theorems' own (`Count` threads for `N`, `mode` for
`state`):

| Theorem | Statement | Assumptions |
|---|---|---|
| `ReadyRunsSoonAlways` | `P!Spec => []P!ReadyRunsSoon` | `PickNumbers`: `Count` threads, integer priorities, 0 among them, all below the boost |
| `YieldHandsOverAlways` | `P!Spec => P!YieldHandsOver` | the same, and `1 <= StarvePicks` |

A boosted thread is passed over only by boosted threads before it in the round, so each
pick that passes it brings its turn nearer (lemma `PickTurn`): the invariant
`TurnComes` bounds the picks since the boost plus the distance to its turn
by `2 * Count - 2`. A round alone would give `Count - 1`; the other `Count - 1` are for the one
pick that passes a thread because it is the yielder, after which the round starts
again. This needs that a yielder is set once and used by one pick, also when nested
slices yield between (`TurnBound`). The theorem on yields rests on an invariant that a
thread counted by `hasYieldTarget` still counts at the pick: a priority can only
be changed, and a thread be taken away, by a thread that runs, and
none runs between.

## 7. Known limits of the code, without a property

The hazards list of PROJECT.json holds what a property covers, or should. Some
behaviours met while modelling are listed here, because no doc of the
repository promises otherwise, or because their part is not modelled yet:

- waiters are served in the order of the thread table: two of them that keep
  releasing to each other starve a third created after them (the exception of `MutexGranted`);
- a semaphore released by a negative amount loses units, and its count may fall below zero,
  where Windows refuses the call (`kernel32.js` 500);
- a nested wait cannot return while another lies on top of its frame, so two waits
  for what the other would do next never end; the others run meanwhile;
- `SuspendThread` on a parked thread only counts: woken, it runs;
- `SignalObjectAndWait` releases a mutex without looking at its owner, and
  multimedia timers set their events without the hand-over pass;
- the render link keeps the first device's process: later devices of child processes
  copy their buffers from, and guard, its memory; the command `FORGET` has two
  entries in the table of `cmd-ring.js`;
- a crash while a new index log replaces the old one, which is cut first, may leave no log
  (`CrashInOpen`, the exception of `ClosedBlocksStay`): every block is fetched again, where the
  header of `opfs-store.js` (15-17) speaks of the last sync interval's records only;
- a removal in the profile's storage that fails is taken for one done already and tried no more
  (`profile-opfs.js` 46), where the comment above (9-10) says of what failed that it is written
  or removed again at the next flush: a deleted save may come back at the next start;
- nothing keeps a flush slower than two seconds, or one not awaited (`worker.js` 723, 800, 951),
  from overlapping the next: older bytes may end up over newer ones, and a file may be
  removed that the other flush is still to write at its new place (both are exceptions of
  ProfileSave's properties, section 5);
- two reads that waited for the same download, which failed, both ask for its bytes.
- `TerminateThread` of a thread that has ended already frees its processor-state slot once
  more, which another thread may use by then (`process.js`);
- the context of the render worker is lost and restored: resources are uploaded again from
  memory the program may be writing;
- a crash between the making of a file and the closing of its bytes leaves an empty file,
  which the next start takes for the game's own at the place a save moves to; the save stays
  at the old place, where the game no longer looks;
- a file made shorter, or emptied by an open that truncates, keeps its date and is not noted as
  changed: the storage keeps the longer one until its next write;
- a change of focus that waits for the active window's thread overtakes a later one if that
  window is destroyed, or another one becomes active, meanwhile (`user32.js` 477-479);
- the 257th message sent to a thread that does not take them drops the first, a
  change of focus included (`user32.js` 185);
- a game that pumps again after it sampled the button in a frame may find it up at its next
  sample (the press is then in the low bit of GetAsyncKeyState only); a release is
  looked at with the frame count read when the pump began, so frames that a procedure presents
  meanwhile count for the next pump;
- GetMessage in a procedure called for an event gets no input: the pump below keeps it.
