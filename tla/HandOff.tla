------------------------------- MODULE HandOff -------------------------------
(***************************************************************************)
(* What CodecOutputSurface promises the thread that renders: a wait for a  *)
(* frame either fails or brings a frame into the texture that is no older  *)
(* than the waits that failed explain, and never an older one than before. *)
(* The process may die of a frame that came too many, but only after a     *)
(* wait has failed.                                                        *)
(***************************************************************************)
EXTENDS Integers

VARIABLES state,     \* idle or waiting
          rendered,  \* frames rendered
          shown,     \* the frame in the texture
          missed,    \* waits that failed
          process    \* alive or dead

vars == <<state, rendered, shown, missed, process>>

Init == /\ state = "idle" /\ rendered = 0 /\ shown = 0 /\ missed = 0
        /\ process = "alive"

Ask ==
  /\ state = "idle" /\ state' = "waiting" /\ rendered' = rendered + 1
  /\ UNCHANGED <<shown, missed, process>>

Succeed ==
  /\ state = "waiting" /\ state' = "idle"
  /\ shown' \in rendered - missed .. rendered /\ shown <= shown'
  /\ UNCHANGED <<rendered, missed, process>>

(* A wait that fails may have brought a frame nevertheless. *)
Miss ==
  /\ state = "waiting" /\ state' = "idle" /\ missed' = missed + 1
  /\ shown' \in shown .. rendered
  /\ UNCHANGED <<rendered, process>>

Die ==
  /\ missed > 0 /\ process' = "dead"
  /\ UNCHANGED <<state, rendered, shown, missed>>

Next == process = "alive" /\ (Ask \/ Succeed \/ Miss \/ Die)

Spec == Init /\ [][Next]_vars
=============================================================================
