------------------------------- MODULE MCParts -------------------------------
(***************************************************************************)
(* The instances of MCGameData with three more: the input and messages of  *)
(* a game with one window ("input"), of one with windows of two threads    *)
(* that come and go ("windows"), and the choice among threads ("pick").    *)
(***************************************************************************)
EXTENDS MCGameData

CONSTANTS
  ta, tb, w1, w2, NoThread, NoWindow,
  WindowEvents,        \* events of the part "windows"
  WindowCalls,         \* and calls
  WindowProcsWait      \* its procedures wait, or present frames

VARIABLES
  events, page, input, made2, stack, windows, active, sent, msgs, button, frames, sampled,
  device, focused,
  state, prio, rr, waited, old, running, under, yielder, yieldAny, handing

inputVars == <<events, page, input, made2, stack, windows, active, sent, msgs, button, frames,
               sampled, device, focused>>
pickVars == <<state, prio, rr, waited, old, running, under, yielder, yieldAny, handing>>
partsVars == <<MCvars, inputVars, pickVars>>

GameThreads == {ta, tb}
OneWindow == {w1}
OneOwner == [w \in OneWindow |-> ta]
Input == INSTANCE MessageQueue WITH
  Threads <- GameThreads, Windows <- OneWindow, Owner <- OneOwner,
  MaxEvents <- 3, MaxFrames <- 2, MaxCalls <- 2, MaxSent <- 5,
  ProcsWait <- FALSE, LateReads <- FALSE, Destroys <- FALSE,
  made <- events, calls <- made2

TwoWindows == {w1, w2}
TwoOwners == [w \in TwoWindows |-> IF w = w1 THEN ta ELSE tb]
Windows == INSTANCE MessageQueue WITH
  Threads <- GameThreads, Windows <- TwoWindows, Owner <- TwoOwners,
  MaxEvents <- WindowEvents, MaxFrames <- 1, MaxCalls <- WindowCalls, MaxSent <- 5,
  ProcsWait <- WindowProcsWait, LateReads <- FALSE, Destroys <- TRUE,
  made <- events, calls <- made2

TwoPrios == {0, 1}
Picks == INSTANCE ThreadPick WITH
  N <- 3, Prios <- TwoPrios, Boost <- 2, StarvePicks <- 1

PartsInit ==
  /\ MCInit
  /\ IF part = "windows" THEN Windows!Init ELSE Input!Init
  /\ Picks!Init

InData == part \notin {"input", "windows", "pick"} /\ UNCHANGED <<inputVars, pickVars>>
InInput == part = "input" /\ UNCHANGED <<MCvars, pickVars>>
InWindows == part = "windows" /\ UNCHANGED <<MCvars, pickVars>>
InPicks == part = "pick" /\ UNCHANGED <<MCvars, inputVars>>

PartsNext ==
  \/ InData /\ MCNext
  \/ InInput /\ Input!Next
  \/ InWindows /\ Windows!Next
  \/ InPicks /\ Picks!Next

(* The fairness each of them states of its steps. *)
PartsSpec ==
  /\ PartsInit /\ [][PartsNext]_partsVars /\ DataGoesOn
  /\ WF_inputVars(part = "input" /\ Input!GoesOn) /\ WF_inputVars(part = "input" /\ Input!Age)

(* MessageQueue: sent messages wait in the order of their events. *)
SentInOrder ==
  (part = "input" => Input!SentInOrder) /\ (part = "windows" => Windows!SentInOrder)
(* MessageQueue: posted messages stand in the order of their events. *)
PostedInOrder ==
  (part = "input" => Input!PostedInOrder) /\ (part = "windows" => Windows!PostedInOrder)
(* MessageQueue: the device is lost exactly while the page is not focused. *)
DeviceFollowsFocus == part = "input" => Input!DeviceFollowsFocus
(* MessageQueue: a game that samples once a frame sees every click. *)
ClickSeen == [][part = "input" => Input!PressSeen]_partsVars
(* MessageQueue: what the host made is taken in the end. *)
InputTaken == <>[](part = "input" => input = <<>>)

(* ThreadPick: a ready thread is passed over at most so often. *)
ReadyRunsSoon == part = "pick" => Picks!ReadyRunsSoon
(* ThreadPick: a yield hands the processor over. *)
YieldHandsOver == [][part = "pick" => Picks!GivesWay]_partsVars
==============================================================================
