------------------------------ MODULE FrameSync ------------------------------
(***************************************************************************)
(* The frame hand-off of CodecOutputSurface: the rendering thread renders  *)
(* a frame into the surface and waits for it in awaitNewImage; the surface *)
(* takes the frame a while later and has onFrameAvailable called on        *)
(* another thread.  No class of the application uses it yet.               *)
(*                                                                         *)
(* The caller is the one the comments of the class speak of: one wait for  *)
(* each frame it renders.  It may catch the exception of a wait that       *)
(* failed and go on; one thrown by onFrameAvailable, on the thread of the  *)
(* main looper, ends the process.  The surface is in asynchronous mode: a  *)
(* frame may replace one nobody has latched, with a call of its own or     *)
(* without one, and updateTexImage latches the last.                       *)
(***************************************************************************)
EXTENDS Integers

CONSTANT MaxFrames    \* bound: how many frames are rendered

ASSUME FramesAssumption == MaxFrames \in Nat

VARIABLES
  pc,         \* where the rendering thread is
  available,  \* mFrameAvailable
  rendered,   \* frames rendered so far
  queued,     \* frames the surface has taken
  called,     \* calls of onFrameAvailable it has posted
  fired,      \* calls of onFrameAvailable that set the flag
  latched,    \* the frame in the texture
  failed,     \* waits that threw without taking the frame
  unlatched,  \* waits that took it and then threw
  process     \* alive, or dead by an exception of onFrameAvailable

frames == <<rendered, queued, called, fired, latched>>
misses == <<failed, unlatched>>
vars == <<pc, available, frames, misses, process>>

Init ==
  /\ pc = "idle" /\ available = "no"
  /\ rendered = 0 /\ queued = 0 /\ called = 0 /\ fired = 0 /\ latched = 0
  /\ failed = 0 /\ unlatched = 0 /\ process = "alive"
-----------------------------------------------------------------------------
(* The caller renders a frame and calls awaitNewImage. *)
Render ==
  /\ pc = "idle" /\ rendered < MaxFrames
  /\ rendered' = rendered + 1 /\ pc' = "await"
  /\ UNCHANGED <<available, queued, called, fired, latched, misses, process>>

(* Mutant: the flag stays as it is. *)
Take_Keeps == pc' = "latch" /\ UNCHANGED available

(* The flag is cleared, and the lock released. *)
Take == available' = "no" /\ pc' = "latch"

(* The loop is entered, under the lock. *)
Await ==
  /\ pc = "await"
  /\ IF available = "yes" THEN Take ELSE pc' = "waiting" /\ UNCHANGED available
  /\ UNCHANGED <<frames, misses, process>>

(* wait(TIMEOUT_MS) ends by itself, in time or for no reason at all. *)
WaitEnds ==
  /\ pc = "waiting" /\ pc' = "woken"
  /\ UNCHANGED <<available, frames, misses, process>>

(* Mutant: the thread waits on (the TODO of line 213). *)
Woken_WaitsOn ==
  /\ pc = "woken"
  /\ IF available = "yes" THEN Take ELSE pc' = "waiting" /\ UNCHANGED available
  /\ UNCHANGED <<frames, misses, process>>

(* Mutant: a wait that timed out is taken for one that was notified. *)
Woken_Trusts == pc = "woken" /\ Take /\ UNCHANGED <<frames, misses, process>>

(* The thread has the lock again.  It throws without a frame, and if it    *)
(* was interrupted even with one.                                          *)
Woken ==
  /\ pc = "woken"
  /\ \/ available = "yes" /\ Take /\ UNCHANGED failed
     \/ pc' = "idle" /\ failed' = failed + 1 /\ UNCHANGED available
  /\ UNCHANGED <<frames, unlatched, process>>

(* Mutant: a frame the surface has not taken yet. *)
Latch_Ahead ==
  /\ pc = "latch" /\ pc' = "idle" /\ latched' = rendered
  /\ UNCHANGED <<available, rendered, queued, called, fired, misses, process>>

(* updateTexImage, without the lock; it or the GL check before it may      *)
(* throw, with the frame in the texture or not, and the flag is cleared.   *)
Latch ==
  /\ pc = "latch" /\ pc' = "idle"
  /\ \/ latched' = queued /\ UNCHANGED unlatched
     \/ latched' \in {latched, queued} /\ unlatched' = unlatched + 1
  /\ UNCHANGED <<available, rendered, queued, called, fired, failed, process>>

(* The surface takes a frame. *)
Queue ==
  /\ queued < rendered /\ queued' = queued + 1
  /\ \/ called' = called + 1
     \/ latched < queued /\ UNCHANGED called      \* it replaces a frame
  /\ UNCHANGED <<pc, available, rendered, fired, latched, misses, process>>

(* Mutant: nobody is notified. *)
OnFrameAvailable_Silent ==
  /\ fired < called
  /\ IF available = "yes" THEN process' = "dead" /\ UNCHANGED <<available, fired>>
     ELSE available' = "yes" /\ fired' = fired + 1 /\ UNCHANGED process
  /\ UNCHANGED <<pc, rendered, queued, called, latched, misses>>

(* onFrameAvailable throws when the frame before was not taken; otherwise  *)
(* it sets the flag and wakes the waiting thread.                          *)
OnFrameAvailable ==
  /\ fired < called
  /\ IF available = "yes" THEN process' = "dead" /\ UNCHANGED <<pc, available, fired>>
     ELSE /\ available' = "yes" /\ fired' = fired + 1
          /\ pc' = IF pc = "waiting" THEN "woken" ELSE pc
          /\ UNCHANGED process
  /\ UNCHANGED <<rendered, queued, called, latched, misses>>
-----------------------------------------------------------------------------
Alive == process = "alive"
Waiting == Await \/ WaitEnds \/ Woken \/ Latch
Next == Alive /\ (Render \/ Waiting \/ Queue \/ OnFrameAvailable)

Spec == Init /\ [][Next]_vars

(* The rendering thread runs, and a wait ends by its timeout. *)
FairSpec == Spec /\ WF_vars(Alive /\ Waiting)
-----------------------------------------------------------------------------
(* Every variable has its type. *)
TypeOK ==
  /\ pc \in {"idle", "await", "waiting", "woken", "latch"}
  /\ available \in {"yes", "no"} /\ process \in {"alive", "dead"}
  /\ rendered \in 0 .. MaxFrames
  /\ queued \in 0 .. rendered /\ latched \in 0 .. queued
  /\ called \in 0 .. queued /\ fired \in 0 .. called
  /\ failed \in Nat /\ unlatched \in Nat

(* The thread never waits with a frame there, whatever the order in which  *)
(* the frame, the timeout and the waiting thread get the lock.             *)
NoLostWakeup == ~ (pc = "waiting" /\ available = "yes")

(* "Frame could be dropped" (CodecOutputSurface.java:246) is thrown only   *)
(* after a wait has failed that left the flag alone: that flag is the one  *)
(* too many.  An update of the texture that fails is no cause of it.       *)
OverrunNeedsTimeout == process = "dead" => failed > 0

(* The frame in the texture is the one just rendered, except that each     *)
(* wait that failed may leave it one frame behind for good.                *)
LagIsBounded == pc = "idle" => rendered - latched <= failed + unlatched

(* Every wait returns or throws. *)
AwaitEnds == (pc = "await") ~> (pc = "idle" \/ process = "dead")
-----------------------------------------------------------------------------
(* Flag, lock, callback and timeout together keep the promise of HandOff:  *)
(* the exceptions of the two methods are all that can come between a frame *)
(* and the texture (CodecOutputSurface.java:201 to 251).                   *)
Promise == INSTANCE HandOff WITH
  state <- IF pc = "idle" THEN "idle" ELSE "waiting",
  shown <- latched, missed <- failed + unlatched
HandOffSpec == Promise!Spec
=============================================================================
