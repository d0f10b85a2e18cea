---------------------------- MODULE MCRenderLinks ----------------------------
(***************************************************************************)
(* Three small instances of RenderLink for one run of TLC: the one whose   *)
(* constants the configuration gives ("texture"), one with a static vertex *)
(* buffer of two ranges ("static"), and one with a dynamic buffer over     *)
(* three blocks of memory ("dynamic").  Each behaviour is of one.          *)
(***************************************************************************)
EXTENDS MCRenderLink

VARIABLE instance

Static == INSTANCE RenderLink WITH
  Surfaces <- {}, Buffers <- {v}, Dynamic <- {}, Large <- {},
  Parts <- {1, 2}, Blocks <- {b4}, Size <- 2, MaxCommands <- 4, MaxPresents <- 0

Moving == INSTANCE RenderLink WITH
  Surfaces <- {}, Buffers <- {v}, Dynamic <- {v}, Large <- {},
  Blocks <- {b1, b2, b3}, Size <- 2, MaxCommands <- 4, MaxPresents <- 0

MCvars == <<instance, vars>>

InTexture == instance = "texture" /\ UNCHANGED instance
InStatic == instance = "static" /\ UNCHANGED instance
InMoving == instance = "dynamic" /\ UNCHANGED instance

MCInit ==
  \/ instance = "texture" /\ Init
  \/ instance = "static" /\ Static!Init
  \/ instance = "dynamic" /\ Moving!Init

MCNext == (InTexture /\ Next) \/ (InStatic /\ Static!Next) \/ (InMoving /\ Moving!Next)

(* The fairness RenderLink states, for the instance whose waits are checked *)
MCSpec ==
  /\ MCInit /\ [][MCNext]_MCvars
  /\ WF_MCvars(InTexture /\ Continue) /\ WF_MCvars(InTexture /\ Replay)
  /\ WF_MCvars(InTexture /\ PublishTail) /\ WF_MCvars(InTexture /\ stalled /\ Fail)

(* RenderLink: every step is a step of DrawQueue, or none. *)
StepsAsRecorded ==
  [][CASE instance = "texture" -> [Queue!Next]_<<Wants, picture, failed>>
       [] instance = "static" -> [Static!Queue!Next]_<<Static!Wants, picture, failed>>
       [] OTHER -> [Moving!Queue!Next]_<<Moving!Wants, picture, failed>>]_MCvars

(* RenderLink: every call that waits for the worker returns. *)
CallsEnd == (instance = "texture" /\ ~Guest) ~> (Guest \/ crashed)
==============================================================================
