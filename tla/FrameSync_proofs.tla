--------------------------- MODULE FrameSync_proofs ---------------------------
(* Proofs about FrameSync.  The flag counts: the calls that set it are the *)
(* waits that took it, plus one if it is set.                              *)
EXTENDS FrameSync, TLAPS

Pending == IF pc \in {"await", "waiting", "woken"} THEN 1 ELSE 0
Set == IF available = "yes" THEN 1 ELSE 0

(* Every frame but those of waits that left the flag alone was waited for  *)
(* by a call that took one setting of it, and after the latch the texture  *)
(* is as far as the surface was, or a wait more has failed.                *)
SyncInv ==
  /\ fired = rendered - failed - Pending + Set
  /\ rendered <= latched + failed + unlatched + (IF pc = "idle" THEN 0 ELSE 1)
  /\ NoLostWakeup
  /\ OverrunNeedsTimeout

USE FramesAssumption

LEMMA InitHolds == Init => TypeOK /\ SyncInv
<1> SUFFICES ASSUME Init PROVE TypeOK /\ SyncInv
  OBVIOUS
<1>1. TypeOK
  BY DEF Init, TypeOK
<1>2. Pending = 0 /\ Set = 0
  BY DEF Init, Pending, Set
<1>3. SyncInv
  BY <1>2 DEF Init, SyncInv, NoLostWakeup, OverrunNeedsTimeout
<1> QED
  BY <1>1, <1>3

LEMMA TypeStep == TypeOK /\ [Next]_vars => TypeOK'
<1> SUFFICES ASSUME TypeOK, [Next]_vars PROVE TypeOK'
  OBVIOUS
<1> USE DEF TypeOK
<1>1. CASE Render
  BY <1>1 DEF Render, misses
<1>2. CASE Await
  BY <1>2 DEF Await, Take, frames, misses
<1>3. CASE WaitEnds
  BY <1>3 DEF WaitEnds, frames, misses
<1>4. CASE Woken
  BY <1>4 DEF Woken, Take, frames, misses
<1>5. CASE Latch
  BY <1>5 DEF Latch
<1>6. CASE Queue
  BY <1>6 DEF Queue, misses
<1>7. CASE OnFrameAvailable
  BY <1>7 DEF OnFrameAvailable, misses
<1>8. CASE UNCHANGED vars
  BY <1>8 DEF vars, frames, misses
<1> QED
  BY <1>1, <1>2, <1>3, <1>4, <1>5, <1>6, <1>7, <1>8 DEF Next, Waiting

LEMMA SyncStep == TypeOK /\ SyncInv /\ [Next]_vars => SyncInv'
<1> SUFFICES ASSUME TypeOK, SyncInv, [Next]_vars PROVE SyncInv'
  OBVIOUS
<1> USE DEF TypeOK, SyncInv, Pending, Set, NoLostWakeup, OverrunNeedsTimeout
<1>1. CASE Render
  BY <1>1 DEF Render, misses
<1>2. CASE Await
  BY <1>2 DEF Await, Take, frames, misses
<1>3. CASE WaitEnds
  BY <1>3 DEF WaitEnds, frames, misses
<1>4. CASE Woken
  BY <1>4 DEF Woken, Take, frames, misses
<1>5. CASE Latch
  \* The latched frame is at least as late as the calls that set the flag.
  <2>1. fired <= queued /\ pc' = "idle" /\ rendered' = rendered /\ failed' = failed
    BY <1>5 DEF Latch
  <2>2. rendered' <= latched' + failed' + unlatched'
    <3>1. CASE latched' = queued /\ unlatched' = unlatched
      <4>1. rendered - failed <= fired
        BY <1>5 DEF Latch
      <4> QED BY <2>1, <3>1, <4>1
    <3>2. CASE latched' \in {latched, queued} /\ unlatched' = unlatched + 1
      <4>1. latched' \in Nat /\ latched <= latched'
        BY <3>2
      <4>2. rendered <= latched + failed + unlatched + 1
        BY <1>5 DEF Latch
      <4>3. \A a, b, c, d, e \in Int :
               a <= b + c + d + 1 /\ b <= e => a <= e + c + (d + 1)
        OBVIOUS
      <4>4. latched' \in Int /\ rendered \in Int /\ latched \in Int
            /\ failed \in Int /\ unlatched \in Int
        BY <4>1
      <4>5. rendered <= latched' + failed + (unlatched + 1)
        BY <4>1, <4>2, <4>3, <4>4
      <4> QED BY <2>1, <3>2, <4>5
    <3> QED BY <1>5, <3>1, <3>2 DEF Latch
  <2> QED
    BY <2>1, <2>2, <1>5 DEF Latch
<1>6. CASE Queue
  BY <1>6 DEF Queue, misses
<1>7. CASE OnFrameAvailable
  <2>1. CASE available = "yes"
    \* Fewer calls than frames with the flag set: a wait has failed.
    <3>1. fired < rendered /\ fired = rendered - failed - Pending + 1
      BY <2>1, <1>7 DEF OnFrameAvailable, misses
    <3>2. failed > 0
      BY <3>1
    <3> QED
      BY <3>2, <2>1, <1>7 DEF OnFrameAvailable, misses
  <2>2. CASE available # "yes"
    BY <2>2, <1>7 DEF OnFrameAvailable, misses
  <2> QED
    BY <2>1, <2>2
<1>8. CASE UNCHANGED vars
  BY <1>8 DEF vars, frames, misses
<1> QED
  BY <1>1, <1>2, <1>3, <1>4, <1>5, <1>6, <1>7, <1>8 DEF Next, Waiting

LEMMA Inductive == Spec => [](TypeOK /\ SyncInv)
<1>1. (TypeOK /\ SyncInv) /\ [Next]_vars => (TypeOK /\ SyncInv)'
  BY TypeStep, SyncStep
<1> QED
  BY <1>1, InitHolds, PTL DEF Spec

(* Every variable keeps its type, for any number of frames. *)
THEOREM TypeCorrect == Spec => []TypeOK
BY Inductive, PTL

(* Whatever the order in which frame, timeout and waiting thread get the   *)
(* lock, awaitNewImage never sleeps beside a frame.                        *)
THEOREM NoWakeupIsLost == Spec => []NoLostWakeup
<1>1. SyncInv => NoLostWakeup
  BY DEF SyncInv
<1> QED
  BY <1>1, Inductive, PTL

(* onFrameAvailable throws only if awaitNewImage has thrown before. *)
THEOREM OverrunFollowsTimeout == Spec => []OverrunNeedsTimeout
<1>1. SyncInv => OverrunNeedsTimeout
  BY DEF SyncInv
<1> QED
  BY <1>1, Inductive, PTL

(* The texture is behind by no more frames than awaitNewImage has thrown. *)
THEOREM LagFollowsTimeouts == Spec => []LagIsBounded
<1>1. TypeOK /\ SyncInv => LagIsBounded
  BY DEF TypeOK, SyncInv, LagIsBounded, Pending
<1> QED
  BY <1>1, Inductive, PTL
-----------------------------------------------------------------------------
(* Each step of the two threads and the surface is a step of the abstract  *)
(* hand-off or none at all.                                                *)
LEMMA HandOffStep ==
  ASSUME TypeOK, SyncInv, Next, OverrunNeedsTimeout'
  PROVE  Promise!Next \/ UNCHANGED Promise!vars
<1> USE DEF TypeOK, Promise!vars
<1>0. process = "alive"
  BY DEF Next, Alive
<1>1. CASE Render
  <2>1. Promise!Ask
    BY <1>1 DEF Render, misses, Promise!Ask
  <2> QED
    BY <1>0, <1>1, <2>1 DEF Promise!Next
<1>2. CASE Await \/ WaitEnds
  BY <1>2 DEF Await, Take, WaitEnds, frames, misses
<1>3. CASE Woken
  <2>1. CASE Take /\ UNCHANGED failed
    BY <1>3, <2>1 DEF Woken, Take, frames
  <2>2. CASE pc' = "idle" /\ failed' = failed + 1
    <3>1. /\ pc = "woken" /\ latched \in latched .. rendered
          /\ UNCHANGED <<rendered, latched, unlatched, process>>
          /\ failed' + unlatched' = failed + unlatched + 1
      BY <1>3, <2>2 DEF Woken, frames
    <3>2. Promise!Miss
      BY <2>2, <3>1 DEF Promise!Miss
    <3> QED BY <1>0, <3>2 DEF Promise!Next
  <2> QED
    BY <1>3, <2>1, <2>2 DEF Woken
<1>4. CASE Latch
  \* The flag was set once for every wait that did not leave it alone.
  <2>1. /\ pc = "latch" /\ pc' = "idle"
        /\ UNCHANGED <<rendered, failed, process>>
    BY <1>4 DEF Latch
  <2>2. CASE latched' = queued /\ UNCHANGED unlatched
    <3>1. rendered - failed <= fired
      BY <2>1 DEF SyncInv, Pending, Set
    <3>2. /\ latched' \in rendered - (failed + unlatched) .. rendered
          /\ latched <= latched'
      BY <2>2, <3>1
    <3>3. Promise!Succeed
      BY <2>1, <2>2, <3>2 DEF Promise!Succeed
    <3> QED BY <1>0, <3>3 DEF Promise!Next
  <2>3. CASE latched' \in {latched, queued} /\ unlatched' = unlatched + 1
    <3>1. /\ latched' \in latched .. rendered
          /\ failed' + unlatched' = failed + unlatched + 1
      BY <2>1, <2>3
    <3>2. Promise!Miss
      BY <2>1, <3>1 DEF Promise!Miss
    <3> QED BY <1>0, <3>2 DEF Promise!Next
  <2> QED
    BY <1>4, <2>2, <2>3 DEF Latch
<1>5. CASE Queue
  BY <1>5 DEF Queue, misses
<1>6. CASE OnFrameAvailable
  <2>1. CASE available = "yes"
    <3>1. Promise!Die
      BY <1>6, <2>1 DEF OnFrameAvailable, misses, OverrunNeedsTimeout, Promise!Die
    <3> QED
      BY <1>0, <1>6, <3>1 DEF Promise!Next
  <2>2. CASE available # "yes"
    BY <1>6, <2>2 DEF OnFrameAvailable, misses
  <2> QED
    BY <2>1, <2>2
<1> QED
  BY <1>1, <1>2, <1>3, <1>4, <1>5, <1>6 DEF Next, Waiting

(* The class implements the abstract hand-off, for any number of frames.   *)
THEOREM KeepsThePromise == Spec => HandOffSpec
<1>1. Init => Promise!Init
  BY DEF Init, Promise!Init
<1>2. /\ TypeOK /\ SyncInv /\ [Next]_vars /\ OverrunNeedsTimeout'
      => [Promise!Next]_(Promise!vars)
  <2>1. UNCHANGED vars => UNCHANGED Promise!vars
    BY DEF vars, frames, misses, Promise!vars
  <2> QED
    BY <2>1, HandOffStep
<1> QED
  BY <1>1, <1>2, Inductive, OverrunFollowsTimeout, PTL
     DEF Spec, HandOffSpec, Promise!Spec
=============================================================================
