----------------------------- MODULE StagedInit -----------------------------
(***************************************************************************)
(* What the two codec sessions of libenzo_codec have in common: a zeroed   *)
(* control structure whose init function acquires one resource after the   *)
(* other, gives some of them back when a stage fails, and whose deinit     *)
(* function may be called however init ended.                              *)
(***************************************************************************)
EXTENDS Integers

CONSTANTS
  Resources,   \* what the structure may hold
  Faults       \* the kinds of call that may fail

VARIABLES
  stage,    \* the next stage of init, or how it ended
  mem,      \* each resource: null, held, dangling (released, the pointer or
            \* handle still there) or lost (held, with no pointer to it)
  counted,  \* whether totalfb counts the frame buffers
  release,  \* "bad" once something was released that was not held
  failed,   \* the kinds of call that have failed so far
  left      \* bound: how many more kinds may fail

States == {"null", "held", "dangling", "lost"}
Null == [r \in Resources |-> "null"]

Fault(kind) ==
  /\ kind \in Faults \ failed /\ left > 0
  /\ failed' = failed \cup {kind}
NoFault == UNCHANGED failed

(* The stage acquires r and hands over to the next one. *)
Acquire(r, next) ==
  /\ mem' = [mem EXCEPT ![r] = "held"] /\ stage' = next /\ NoFault

(* The stage fails; init clears some pointers and leaves others dangling.  *)
Abandon(kind, cleared, dangling) ==
  /\ Fault(kind) /\ stage' = "failed"
  /\ mem' = [r \in Resources |-> IF r \in dangling THEN "dangling"
                                 ELSE IF r \in cleared THEN "null"
                                 ELSE mem[r]]

Leaked == {r \in Resources : mem[r] \in {"held", "lost"}}
=============================================================================
