-------------------------- MODULE DecoderView_proofs --------------------------
(***************************************************************************)
(* Theorems about the player, for any numbers of input and output buffers  *)
(* of the codec and any number of surface changes.                         *)
(***************************************************************************)
EXTENDS DecoderView, TLAPS

USE BuffersAssumption, EventsAssumption

(* One step preserves the types. *)
LEMMA TypeStep ==
  ASSUME TypeOK, [Next]_vars
  PROVE  TypeOK'
<1> USE DEF TypeOK, Misused, uiVars, media
<1>1. CASE SurfaceChanged
  BY <1>1 DEF SurfaceChanged
<1>2. CASE SurfaceDestroyed
  BY <1>2 DEF SurfaceDestroyed
<1>3. CASE InitFirstFrame
  BY <1>3 DEF InitFirstFrame
<1>4. CASE InitStart
  BY <1>4 DEF InitStart
<1>5. CASE Check
  BY <1>5 DEF Check
<1>6. CASE Frame
  BY <1>6 DEF Frame
<1>7. CASE Input
  BY <1>7 DEF Input
<1>8. CASE Output
  BY <1>8 DEF Output
<1>9. CASE Stop
  BY <1>9 DEF Stop
<1>10. CASE CloseCamEnc
  BY <1>10 DEF CloseCamEnc
<1>11. CASE Decode
  BY <1>11 DEF Decode
<1>12. CASE UNCHANGED vars
  BY <1>12 DEF vars
<1> QED
  BY <1>1, <1>2, <1>3, <1>4, <1>5, <1>6, <1>7, <1>8, <1>9, <1>10, <1>11,
     <1>12 DEF Next, UiSteps, RunSteps

(* Types: every variable of the player keeps to its type (DecoderView.java *)
(* and VideoDecoderActivity.java).                                         *)
THEOREM TypeCorrect == Spec => []TypeOK
<1>1. Init => TypeOK
  BY DEF Init, TypeOK
<1>2. TypeOK /\ [Next]_vars => TypeOK'
  BY TypeStep
<1> QED
  BY <1>1, <1>2, PTL DEF Spec
-----------------------------------------------------------------------------
(* Only the steps of the codec and of the thread at its input and output   *)
(* calls move frames.                                                      *)
LEMMA LatencyStep ==
  ASSUME TypeOK, LatencyBounded, [Next]_vars
  PROVE  LatencyBounded'
<1> USE DEF TypeOK, LatencyBounded, uiVars, media
<1>1. CASE Input
  BY <1>1 DEF Input
<1>2. CASE Output
  <2>1. CASE ready = 0 /\ UNCHANGED <<ready, seen>>
    BY <1>2, <2>1 DEF Output
  <2>2. CASE ready > 0 /\ ready' = ready - 1 /\ UNCHANGED seen
    BY <1>2, <2>2 DEF Output
  <2>3. CASE seen' = seen + 1 /\ UNCHANGED ready
    BY <1>2, <2>3 DEF Output
  <2> QED
    BY <1>2, <2>1, <2>2, <2>3 DEF Output
<1>3. CASE Decode
  BY <1>3 DEF Decode
<1>4. CASE InitStart
  BY <1>4 DEF InitStart
<1>5. CASE Stop
  BY <1>5 DEF Stop
<1>6. CASE SurfaceChanged \/ SurfaceDestroyed \/ InitFirstFrame
  BY <1>6 DEF SurfaceChanged, SurfaceDestroyed, InitFirstFrame
<1>7. CASE Check \/ Frame \/ CloseCamEnc
  BY <1>7 DEF Check, Frame, CloseCamEnc
<1>8. CASE UNCHANGED vars
  BY <1>8 DEF vars
<1> QED
  BY <1>1, <1>2, <1>3, <1>4, <1>5, <1>6, <1>7, <1>8
     DEF Next, UiSteps, RunSteps

(* However the thread and the codec interleave, the frames inside the      *)
(* codec are at most the input buffers and one for every INFO result that  *)
(* took the place of a frame (DecoderView.java:94-140).                    *)
THEOREM FramesInCodecAreBounded == Spec => []LatencyBounded
<1>1. Init => LatencyBounded
  BY DEF Init, LatencyBounded
<1>2. TypeOK /\ LatencyBounded /\ [Next]_vars => LatencyBounded'
  BY LatencyStep
<1> QED
  BY <1>1, <1>2, TypeCorrect, PTL DEF Spec

(* The wait without a limit for an input buffer (DecoderView.java:94)      *)
(* never coincides with a codec that has no output buffer left, provided   *)
(* the codec has more output buffers than INFO results.                    *)
THEOREM NoDeadlyEmbrace == Spec => []NoMutualWait
<1>1. TypeOK /\ LatencyBounded => NoMutualWait
  BY DEF TypeOK, LatencyBounded, NoMutualWait
<1> QED
  BY <1>1, TypeCorrect, FramesInCodecAreBounded, PTL
-----------------------------------------------------------------------------
(* Until surfaceChanged comes a second time, the session is open from the  *)
(* first init() to the last statement of run().                            *)
SessionInv ==
  /\ changes = 0 => ui = "idle" /\ pc = "new" /\ session = "none"
  /\ changes = 1 => /\ ui \in {"first_frame", "codec"} => pc = "new"
                    /\ pc # "dead" => session = "open"

LEMMA SessionStep ==
  ASSUME TypeOK, SessionInv, NativeSafe, [Next]_vars
  PROVE  SessionInv' /\ NativeSafe'
<1> USE DEF TypeOK, SessionInv, NativeSafe, Misused, uiVars, media
<1>1. CASE SurfaceChanged
  BY <1>1 DEF SurfaceChanged
<1>2. CASE SurfaceDestroyed
  BY <1>2 DEF SurfaceDestroyed
<1>3. CASE InitFirstFrame
  BY <1>3 DEF InitFirstFrame
<1>4. CASE InitStart
  BY <1>4 DEF InitStart
<1>5. CASE Frame
  BY <1>5 DEF Frame
<1>6. CASE CloseCamEnc
  BY <1>6 DEF CloseCamEnc
<1>7. CASE Check \/ Stop
  BY <1>7 DEF Check, Stop
<1>8. CASE Input \/ Output \/ Decode
  BY <1>8 DEF Input, Output, Decode
<1>9. CASE UNCHANGED vars
  BY <1>9 DEF vars
<1> QED
  BY <1>1, <1>2, <1>3, <1>4, <1>5, <1>6, <1>7, <1>8, <1>9
     DEF Next, UiSteps, RunSteps

(* As long as surfaceChanged came only once, the native session is used    *)
(* and closed only while it is open, although surfaceDestroyed does not    *)
(* wait for the thread (VideoDecoderActivity.java:45, DecoderView.java:153)*)
THEOREM SessionUsedWhileOpen == Spec => []NativeSafe
<1>1. Init => SessionInv /\ NativeSafe
  BY DEF Init, SessionInv, NativeSafe
<1>2. TypeOK /\ SessionInv /\ NativeSafe /\ [Next]_vars
        => SessionInv' /\ NativeSafe'
  BY SessionStep
<1> QED
  BY <1>1, <1>2, TypeCorrect, PTL DEF Spec
-----------------------------------------------------------------------------
(* While run() is between start() and the end of its loop there is a       *)
(* codec, and nobody but run() releases it.                                *)
CodecInv == pc \in {"check", "frame", "input", "output", "stop"}
              => codec = "started"

(* The thread waits for a free input buffer only while there is one or     *)
(* while the codec can free one: it has a frame to decode and a place to   *)
(* put it.                                                                 *)
InputIsFreed ==
  pc = "input" => queued < NIn
                  \/ (codec = "started" /\ queued > 0 /\ ready < NOut)

LEMMA CodecStep ==
  ASSUME CodecInv, [Next]_vars
  PROVE  CodecInv'
<1> USE DEF CodecInv, uiVars, media
<1>1. CASE SurfaceChanged \/ SurfaceDestroyed \/ InitFirstFrame
  BY <1>1 DEF SurfaceChanged, SurfaceDestroyed, InitFirstFrame
<1>2. CASE InitStart
  BY <1>2 DEF InitStart
<1>3. CASE Check \/ Frame \/ Stop
  BY <1>3 DEF Check, Frame, Stop
<1>4. CASE Input \/ Output
  BY <1>4 DEF Input, Output
<1>5. CASE CloseCamEnc \/ Decode
  BY <1>5 DEF CloseCamEnc, Decode
<1>6. CASE UNCHANGED vars
  BY <1>6 DEF vars
<1> QED
  BY <1>1, <1>2, <1>3, <1>4, <1>5, <1>6 DEF Next, UiSteps, RunSteps

(* dequeueInputBuffer(-1) never waits for good (DecoderView.java:94): the  *)
(* codec it waits for is there, has work and has room for the result.      *)
THEOREM InputNeverStarves == Spec => []InputIsFreed
<1>1. Init => CodecInv
  BY DEF Init, CodecInv
<1>2. CodecInv /\ [Next]_vars => CodecInv'
  BY CodecStep
<1>3. TypeOK /\ CodecInv /\ NoMutualWait => InputIsFreed
  BY DEF TypeOK, CodecInv, NoMutualWait, InputIsFreed
<1> QED
  BY <1>1, <1>2, <1>3, TypeCorrect, NoDeadlyEmbrace, PTL DEF Spec
-----------------------------------------------------------------------------
(* After close() the thread goes at most once more through its loop.  The  *)
(* statements it has left count double, because a frame it still queues    *)
(* gives the codec one step more.                                          *)
StatementsLeft ==
  IF pc = "frame"  THEN 6 ELSE
  IF pc = "input"  THEN 5 ELSE
  IF pc = "output" THEN 4 ELSE
  IF pc = "check"  THEN 3 ELSE
  IF pc = "stop"   THEN 2 ELSE
  IF pc = "close"  THEN 1 ELSE 0

StopLeft == 2 * StatementsLeft + queued

(* Once mRunning is false it stays false, every step of the thread and of  *)
(* the codec brings the end of run() nearer, and no callback of the UI     *)
(* thread puts it off.                                                     *)
StopIsBounded ==
  [][running = "no" /\ pc # "new"
       => /\ running' = "no" /\ pc' # "new"
          /\ StopLeft' <= StopLeft
          /\ RunSteps \/ Decode => StopLeft' < StopLeft]_vars

LEMMA StopStep ==
  ASSUME TypeOK, running = "no", pc # "new", Next
  PROVE  /\ running' = "no" /\ pc' # "new"
         /\ StopLeft' <= StopLeft
         /\ RunSteps \/ Decode => StopLeft' < StopLeft
<1>1. queued \in Nat
  BY DEF TypeOK
<1>2. CASE RunSteps
  <2> USE <1>1 DEF StopLeft, StatementsLeft, uiVars, media
  <2>1. CASE Check
    BY <2>1 DEF Check
  <2>2. CASE Frame
    BY <2>2 DEF Frame
  <2>3. CASE Input
    BY <2>3 DEF Input
  <2>4. CASE Output
    BY <2>4 DEF Output
  <2>5. CASE Stop
    BY <2>5 DEF Stop
  <2>6. CASE CloseCamEnc
    BY <2>6 DEF CloseCamEnc
  <2> QED
    BY <1>2, <2>1, <2>2, <2>3, <2>4, <2>5, <2>6 DEF RunSteps
<1>3. CASE Decode
  BY <1>1, <1>3 DEF Decode, StopLeft, StatementsLeft, uiVars
<1>4. CASE SurfaceChanged \/ SurfaceDestroyed \/ InitFirstFrame
  <2>1. running' = "no" /\ pc' = pc /\ queued' = queued
    BY <1>4 DEF SurfaceChanged, SurfaceDestroyed, InitFirstFrame, media
  <2>2. StopLeft' = StopLeft
    BY <2>1 DEF StopLeft, StatementsLeft
  <2>3. ~ (RunSteps \/ Decode)
    BY <1>4 DEF SurfaceChanged, SurfaceDestroyed, InitFirstFrame, RunSteps,
       Check, Frame, Input, Output, Stop, CloseCamEnc, Decode, uiVars, media
  <2> QED
    BY <1>1, <2>1, <2>2, <2>3 DEF StopLeft, StatementsLeft
<1>5. CASE InitStart
  <2>1. running' = "no" /\ pc' = pc /\ queued' = 0
    BY <1>5 DEF InitStart
  <2>2. StopLeft' <= StopLeft
    BY <1>1, <2>1 DEF StopLeft, StatementsLeft
  <2>3. ~ (RunSteps \/ Decode)
    BY <1>5 DEF InitStart, RunSteps, Check, Frame, Input, Output, Stop,
       CloseCamEnc, Decode, uiVars, media
  <2> QED
    BY <2>1, <2>2, <2>3
<1> QED
  BY <1>2, <1>3, <1>4, <1>5 DEF Next, UiSteps

(* After close() run() ends within 12 statements and decoded frames and    *)
(* one for every input buffer, whatever the codec and the UI thread do     *)
(* (VideoDecoderActivity.java:45, DecoderView.java:77-155).                *)
THEOREM CloseEndsSoon == Spec => [](StopLeft \in 0 .. 12 + NIn) /\ StopIsBounded
<1>1. TypeOK => StopLeft \in 0 .. 12 + NIn
  BY DEF TypeOK, StopLeft, StatementsLeft
<1>2. TypeOK /\ [Next]_vars
        => [running = "no" /\ pc # "new"
             => /\ running' = "no" /\ pc' # "new"
                /\ StopLeft' <= StopLeft
                /\ RunSteps \/ Decode => StopLeft' < StopLeft]_vars
  BY StopStep
<1> QED
  BY <1>1, <1>2, TypeCorrect, PTL DEF Spec, StopIsBounded
=============================================================================
