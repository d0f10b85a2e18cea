---------------------------- MODULE MessageQueue ----------------------------
(***************************************************************************)
(* The window manager's input and messages (win32/user32.js): the host's   *)
(* events taken by whichever thread or wait condition pumps, the messages  *)
(* they post, and those they send, which call the window's procedure or    *)
(* wait for its thread.  Calls lie on one JavaScript stack: a procedure    *)
(* called for an event runs on top of the event's handling.                *)
(***************************************************************************)
EXTENDS Naturals, Sequences, SequencesExt

CONSTANTS
  Threads, Windows,
  Owner,         \* the thread each window belongs to
  NoThread,      \* a wait condition: no thread runs
  NoWindow,
  MaxEvents,     \* bound: events the host makes
  MaxFrames,     \* bound: frames the game presents
  MaxCalls,      \* bound: calls made, but for the readings of the game's loop
  MaxSent,       \* sent messages waiting for a thread (256)
  ProcsWait,     \* procedures called for an event wait, or present frames
  LateReads,     \* the game pumps after it sampled the button in a frame
  Destroys       \* windows are destroyed

VARIABLES
  made,          \* events the host has made
  page,          \* the page has the focus
  input,         \* those not taken: pollInput's and pendingInput
  calls,         \* calls made
  stack,         \* calls in progress: [t, call, at, todo, frames]
  windows,       \* windows not destroyed
  active,        \* this.active
  sent,          \* messages sent to a thread and waiting for it: queueOf(t).sent
  msgs,          \* messages posted: queueOf(t).msgs
  button,        \* keyState of the button, pressedAt, 250 ms since then;
                 \* seen: the game's sample found it down
  frames,        \* frames presented
  sampled,       \* the game's loop has sampled the button in this frame
  device,        \* "ok", "lost", "notreset"
  focused        \* ~appInactive

hostVars == <<made, page>>
gameVars == <<calls, windows, active, frames, sampled>>
vars == <<made, page, input, stack, sent, msgs, button, device, focused, gameVars>>

Init ==
  /\ made = 0 /\ page = TRUE /\ input = <<>> /\ calls = 0 /\ stack = <<>>
  /\ windows = Windows /\ active \in Windows
  /\ sent = [t \in Threads |-> <<>>] /\ msgs = [t \in Threads |-> <<>>]
  /\ button = [down |-> FALSE, at |-> 0, old |-> TRUE, seen |-> TRUE]
  /\ frames = 1 /\ sampled = FALSE /\ device = "ok" /\ focused = TRUE

Top == Last(stack)
Below == Front(stack)
Replace(frame) == stack' = Append(Below, frame)
Pop == stack' = Below

(* this.pumping of a pump below, and deferSends: dynamically scoped *)
Deferring == \E i \in 1..Len(stack) : stack[i].at = "event"

(* The events of the host: none but the focus while the page has not got it *)
Types == {"down", "up", "key", "blur", "focus"}

Host(type) ==
  /\ made < MaxEvents
  /\ page = (type # "focus") /\ page' = (type # "blur")
  /\ made' = made + 1 /\ input' = Append(input, [n |-> made + 1, type |-> type])
  /\ UNCHANGED <<stack, sent, msgs, button, device, focused, gameVars>>

(* 250 ms since the press *)
Age ==
  /\ ~button.old
  /\ button' = [button EXCEPT !.old = TRUE]
  /\ UNCHANGED <<hostVars, input, stack, sent, msgs, device, focused, gameVars>>

(* A thread runs the program: no call is in progress, its own procedure runs, *)
(* or another one's waits and the thread is not under it on the stack.        *)
Runs(t) ==
  \/ stack = <<>>
  \/ /\ stack # <<>> /\ Top.call = "proc"
     /\ Top.t = t \/ (ProcsWait /\ \A i \in 1..Len(stack) : stack[i].t # t)

Frame(t, call, at, todo) ==
  [t |-> t, call |-> call, at |-> at, todo |-> todo,
   frames |-> IF device = "ok" THEN frames ELSE 0]

(* The program calls: a call goes on top of the stack. *)
Begin(frame) ==
  /\ calls < MaxCalls \/ (frame.call = "read" /\ stack = <<>>)
  /\ calls' = IF frame.call = "read" /\ stack = <<>> THEN calls ELSE calls + 1
  /\ stack' = Append(stack, frame)
  /\ UNCHANGED <<hostVars, input, sent, msgs, button, device, focused,
                 windows, active, frames, sampled>>

(* The calls that pump: PeekMessage and GetMessage ("peek"), GetAsyncKeyState *)
(* ("read"), and the condition of a thread that waits for messages ("test").  *)
Call(t, call) ==
  /\ IF call = "test" THEN t = NoThread /\ \E x \in Threads : Runs(x) ELSE Runs(t)
  /\ call # "read" => (LateReads \/ ~sampled)
  /\ Begin(Frame(t, call, "pump", <<>>))

(* the events taken so far *)
Now == made - Len(input)

(* ShowWindow, DestroyWindow: messages sent from the program itself *)
Show(w) ==
  /\ Runs(Owner[w]) /\ w \in windows
  /\ Begin(Frame(Owner[w], "show", "does", <<[op |-> "activate", w |-> w, n |-> Now]>>))

Destroy(w) ==
  /\ Destroys
  /\ Runs(Owner[w]) /\ w \in windows
  /\ Begin(Frame(Owner[w], "destroy", "does",
                 <<[op |-> "send", msg |-> "destroy", w |-> w, n |-> Now],
                   [op |-> "gone", w |-> w]>>))

(* Present; the game samples the button in every frame *)
Present(t) ==
  /\ Runs(t) /\ (stack = <<>> \/ ProcsWait)
  /\ device = "ok" /\ sampled /\ frames < MaxFrames
  /\ frames' = frames + 1 /\ sampled' = FALSE
  /\ UNCHANGED <<hostVars, input, stack, sent, msgs, button, device, focused, calls, windows, active>>

Reset(t) ==
  /\ Runs(t) /\ device = "notreset" /\ device' = "ok"
  /\ UNCHANGED <<hostVars, input, stack, sent, msgs, button, focused, gameVars>>

------------------------------------------------------------------------------
(* Sent messages *)

(* Mutant: what waits for the thread already is not looked at. *)
MustDeferElsewhere(w) == Top.t # Owner[w]

(* mustDefer *)
MustDefer(w) == Top.t # Owner[w] \/ sent[Owner[w]] # <<>>

(* Mutant: a WM_SETCURSOR takes the place of the one that waits. *)
DeferredInPlace(w, item) ==
  LET IsCursor(s) == s.op = "send" /\ s.msg = "cursor" /\ s.w = w
      old == sent[Owner[w]]
      q == IF IsCursor(item) /\ SelectSeq(old, IsCursor) # <<>>
           THEN [i \in 1..Len(old) |-> IF IsCursor(old[i]) THEN item ELSE old[i]]
           ELSE Append(old, item)
  IN  [sent EXCEPT ![Owner[w]] = IF Len(q) > MaxSent THEN Tail(q) ELSE q]

(* deferToThread: one WM_SETCURSOR waits for a window, the oldest is dropped *)
Deferred(w, item) ==
  LET IsCursor(s) == s.op = "send" /\ s.msg = "cursor" /\ s.w = w
      old == sent[Owner[w]]
      kept == IF IsCursor(item) THEN RemoveFirstMatch(old, IsCursor) ELSE old
      q == Append(kept, item)
  IN  [sent EXCEPT ![Owner[w]] = IF Len(q) > MaxSent THEN Tail(q) ELSE q]

Item == Head(Top.todo)
Rest == [Top EXCEPT !.todo = Tail(@)]
Then(items) == Replace([Rest EXCEPT !.todo = items \o @])

(* send(): queued, or the window's procedure called on the thread that runs *)
Send ==
  /\ Item.op = "send"
  /\ IF Item.w \notin windows THEN Then(<<>>) /\ UNCHANGED sent
     ELSE IF Deferring /\ MustDefer(Item.w)
     THEN Then(<<>>) /\ sent' = Deferred(Item.w, Item)
     ELSE /\ stack' = Append(Append(Below, Rest), Frame(Top.t, "proc", "runs", <<>>))
          /\ UNCHANGED sent
  /\ UNCHANGED <<hostVars, input, msgs, button, device, focused, gameVars>>

(* The focus event's step: now, or by the window's thread *)
Activate ==
  /\ Item.op = "focus"
  /\ IF Item.w # NoWindow /\ Top.at = "event" /\ MustDefer(Item.w)
     THEN Then(<<>>) /\ sent' = Deferred(Item.w, Item) /\ UNCHANGED device
     ELSE /\ device' = IF ~Item.on THEN "lost"
                       ELSE IF device = "lost" THEN "notreset" ELSE device
          /\ Then(IF Item.w = NoWindow THEN <<>>
                  ELSE <<[op |-> "send", msg |-> "app", w |-> Item.w, n |-> Item.n]>>)
          /\ UNCHANGED sent
  /\ UNCHANGED <<hostVars, input, msgs, button, focused, gameVars>>

(* keyState.fill(0), appInactive *)
FocusTaken ==
  /\ Item.op = "taken"
  /\ focused' = Item.on
  /\ button' = IF Item.on THEN button ELSE [button EXCEPT !.down = FALSE, !.seen = TRUE]
  /\ Then(<<>>)
  /\ UNCHANGED <<hostVars, input, sent, msgs, device, gameVars>>

Active == IF active \in windows THEN active ELSE NoWindow
Told(w, n) == [op |-> "send", msg |-> "activate", w |-> w, n |-> n]

(* activate(): the window before is told first *)
ActivateWindow ==
  /\ Item.op = "activate"
  /\ Then(IF Active = Item.w THEN <<>>
          ELSE (IF Active = NoWindow THEN <<>> ELSE <<Told(Active, Item.n)>>)
               \o <<[Item EXCEPT !.op = "activated"]>>)
  /\ UNCHANGED <<hostVars, input, sent, msgs, button, device, focused, gameVars>>

Activated ==
  /\ Item.op = "activated"
  /\ active' = Item.w
  /\ Then(<<Told(Item.w, Item.n)>>)
  /\ UNCHANGED <<hostVars, input, sent, msgs, button, device, focused, calls, windows, frames, sampled>>

Post ==
  /\ Item.op = "post"
  /\ msgs' = [msgs EXCEPT ![Owner[Item.w]] = Append(@, [n |-> Item.n, w |-> Item.w])]
  /\ Then(<<>>)
  /\ UNCHANGED <<hostVars, input, sent, button, device, focused, gameVars>>

(* destroyWindow: another window takes over, the messages queued are dropped *)
Gone ==
  /\ Item.op = "gone"
  /\ windows' = windows \ {Item.w}
  /\ active' = IF active = Item.w THEN NoWindow ELSE active
  /\ \E next \in windows' \cup {NoWindow} :
       /\ next = NoWindow => active # Item.w \/ windows' = {}
       /\ Then((IF active # Item.w \/ next = NoWindow THEN <<>>
                ELSE <<[op |-> "activate", w |-> next, n |-> Now]>>)
               \o <<[Item EXCEPT !.op = "drop"]>>)
  /\ UNCHANGED <<hostVars, input, sent, msgs, button, device, focused, calls, frames, sampled>>

(* filter: the messages of q for other windows *)
Others(q, w) ==
  LET kept[i \in 0..Len(q)] ==
        IF i = 0 THEN <<>> ELSE IF q[i].w = w THEN kept[i - 1] ELSE Append(kept[i - 1], q[i])
  IN  kept[Len(q)]

Drop ==
  /\ Item.op = "drop"
  /\ msgs' = [t \in Threads |-> Others(msgs[t], Item.w)]
  /\ Then(<<>>)
  /\ UNCHANGED <<hostVars, input, sent, button, device, focused, gameVars>>

(* One step of the call on top of the stack *)
Does ==
  /\ stack # <<>> /\ Top.todo # <<>>
  /\ Send \/ Activate \/ FocusTaken \/ ActivateWindow \/ Activated \/ Post \/ Gone \/ Drop

------------------------------------------------------------------------------
(* pump() *)

(* Mutant: a release waits only while the frame count has gone back. *)
HeldBefore(ev) == ev.type = "up" /\ Top.frames # 0 /\ button.at > Top.frames /\ ~button.old

(* Mutant: a release waits for a frame, however long. *)
HeldForFrame(ev) == ev.type = "up" /\ Top.frames # 0 /\ button.at = Top.frames

(* A release waits for a frame since its press, 250 ms at most. *)
Held(ev) ==
  /\ ev.type = "up"
  /\ Top.frames # 0 /\ button.at = Top.frames /\ ~button.old

(* Mutant: a pump below does not keep the events to itself. *)
PumpingNever == FALSE

Pumping == \E i \in 1..(Len(stack) - 1) : stack[i].at = "event"

(* before the first event, or after one *)
Between == stack # <<>> /\ Top.at \in {"pump", "event"} /\ Top.todo = <<>>

Takes == ~Pumping /\ input # <<>> /\ ~Held(Head(input))

Todo(ev, w) ==
  CASE ev.type \in {"down", "up"} ->
         IF w = NoWindow THEN <<>>
         ELSE <<[op |-> "send", msg |-> "cursor", w |-> w, n |-> ev.n]>>
              \o (IF ev.type = "down" THEN <<[op |-> "activate", w |-> w, n |-> ev.n]>> ELSE <<>>)
              \o <<[op |-> "post", w |-> w, n |-> ev.n]>>
    [] ev.type = "key" ->
         IF w = NoWindow THEN <<>> ELSE <<[op |-> "post", w |-> w, n |-> ev.n]>>
    [] OTHER ->
         <<[op |-> "focus", on |-> ev.type = "focus", w |-> w, n |-> ev.n],
           [op |-> "taken", on |-> ev.type = "focus"]>>

(* An event is taken and handled: the mouse is over any window, keys and the *)
(* focus go to the active one.                                              *)
TakeEvent ==
  /\ Between /\ Takes
  /\ LET ev == Head(input)
     IN  /\ input' = Tail(input)
         /\ \E w \in IF ev.type \in {"down", "up"} THEN windows \cup {NoWindow} ELSE {Active} :
              Replace([Top EXCEPT !.at = "event", !.todo = Todo(ev, w)])
         /\ button' = CASE ev.type = "down" -> [down |-> TRUE, at |-> Top.frames, old |-> FALSE,
                                                seen |-> Top.frames = 0]
                        [] ev.type = "up" -> [button EXCEPT !.down = FALSE]
                        [] OTHER -> button
  /\ UNCHANGED <<hostVars, sent, msgs, device, focused, gameVars>>

(* The pump is over: GetAsyncKeyState reads, PeekMessage delivers. *)
Pumped ==
  /\ Between /\ ~Takes
  /\ IF Top.call = "peek" THEN Replace([Top EXCEPT !.at = "delivers"]) ELSE Pop
  /\ IF Top.call = "read"
     THEN /\ button' = [button EXCEPT !.seen = @ \/ button.down]
          /\ sampled' = (sampled \/ Below = <<>>)
     ELSE UNCHANGED <<button, sampled>>
  /\ UNCHANGED <<hostVars, input, sent, msgs, device, focused, calls, windows, active, frames>>

(* deliverSent *)
Deliver ==
  /\ stack # <<>> /\ Top.at = "delivers" /\ Top.todo = <<>> /\ sent[Top.t] # <<>>
  /\ sent' = [sent EXCEPT ![Top.t] = Tail(@)]
  /\ Replace([Top EXCEPT !.todo = <<Head(sent[Top.t])>>])
  /\ UNCHANGED <<hostVars, input, msgs, button, device, focused, gameVars>>

(* peek()'s search: the first message, or the first of a window; or only looked at *)
Taken(q) == {i \in 1..Len(q) : i = 1 \/ \A j \in 1..(i - 1) : q[j].w # q[i].w}

TakeMessage ==
  /\ stack # <<>> /\ Top.at = "delivers" /\ Top.todo = <<>> /\ sent[Top.t] = <<>>
  /\ \/ \E i \in Taken(msgs[Top.t]) :
          msgs' = [msgs EXCEPT ![Top.t] = RemoveAt(@, i)]
     \/ UNCHANGED msgs
  /\ Pop
  /\ UNCHANGED <<hostVars, input, sent, button, device, focused, gameVars>>

(* A procedure, and a call of the program's, returns. *)
Return ==
  /\ stack # <<>> /\ Top.at \in {"runs", "does"} /\ Top.todo = <<>>
  /\ Pop
  /\ UNCHANGED <<hostVars, input, sent, msgs, button, device, focused, gameVars>>

Next ==
  \/ \E type \in Types : Host(type)
  \/ Age
  \/ \E t \in Threads : Call(t, "peek") \/ Call(t, "read") \/ Present(t) \/ Reset(t)
  \/ Call(NoThread, "test")
  \/ \E w \in Windows : Show(w) \/ Destroy(w)
  \/ Does
  \/ TakeEvent \/ Pumped \/ Deliver \/ TakeMessage \/ Return

Spec == Init /\ [][Next]_vars

(* Every call goes on, procedures return, the game reads the button in its  *)
(* loop again and again, and time passes.                                   *)
GoesOn ==
  \/ Does \/ TakeEvent \/ Pumped \/ Deliver \/ TakeMessage \/ Return
  \/ stack = <<>> /\ \E t \in Threads : Call(t, "read")

FairSpec == Spec /\ WF_vars(GoesOn) /\ WF_vars(Age)

------------------------------------------------------------------------------
(* Properties *)

(* Messages sent by the host's events reach a window's thread in the order  *)
(* of the events (user32.js send, deferToThread, deliverSent).              *)
SentInOrder ==
  \A t \in Threads : \A i, j \in 1..Len(sent[t]) : i < j => sent[t][i].n <= sent[t][j].n

(* Messages posted for the host's events stand in their order, each once:   *)
(* the events are taken one after the other, also when a procedure called   *)
(* for one of them pumps (user32.js pump).                                  *)
PostedInOrder ==
  \A t \in Threads : \A i, j \in 1..Len(msgs[t]) : i < j => msgs[t][i].n < msgs[t][j].n

(* Once no change of focus waits, the fullscreen device is lost exactly     *)
(* while the page is not focused (user32.js inputEvent1, d3d8 onActivate).  *)
FocusItems(q) == {i \in 1..Len(q) : q[i].op \in {"focus", "taken"}}
DeviceFollowsFocus ==
  /\ \A t \in Threads : FocusItems(sent[t]) = {}
  /\ \A i \in 1..Len(stack) : FocusItems(stack[i].todo) = {}
  => (device = "lost") = ~focused

(* A game that samples the button once a frame sees every press: it finds   *)
(* the button down before the release is taken, or had 250 ms (user32.js    *)
(* pump).                                                                   *)
PressSeen == button.down /\ ~button'.down => button'.seen \/ button.old \/ device # "ok"
ClickSeen == [][PressSeen]_vars

(* Once the host makes no more events, none waits: also when the game       *)
(* presents no frame any more (user32.js pump).                             *)
InputTaken == <>[](input = <<>>)
==============================================================================
