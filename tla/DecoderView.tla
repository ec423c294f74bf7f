----------------------------- MODULE DecoderView -----------------------------
(***************************************************************************)
(* The player of the application: the callbacks of VideoDecoderActivity on *)
(* the UI thread, the thread DecoderView.run, the MediaCodec between its   *)
(* input and its output buffers, and the native session of cam_enc.c that  *)
(* the two threads share.  An exception that nobody catches ends the       *)
(* process, and with it every behaviour.                                   *)
(*                                                                         *)
(* MediaCodec is modelled from how run() uses it: one frame out for every  *)
(* frame in, as long as an output buffer is free, and now and then an      *)
(* INFO result in place of a frame.                                        *)
(***************************************************************************)
EXTENDS Integers

CONSTANTS
  NIn,          \* input buffers of the codec
  NOut,         \* output buffers of the codec
  MaxEvents,    \* how often dequeueOutputBuffer returns an INFO_..._CHANGED
  MaxChanges    \* bound: how often surfaceChanged is called

ASSUME BuffersAssumption ==
  /\ NIn \in Nat \ {0} /\ NOut \in Nat \ {0}
  /\ MaxEvents \in Nat /\ MaxChanges \in Nat
ASSUME EventsAssumption == MaxEvents < NOut

VARIABLES
  ui,        \* idle, inside init(), or crashed
  surface,   \* whether the surface is there
  changes,   \* calls of surfaceChanged so far
  running,   \* mRunning
  pc,        \* where run() is; "new" before start()
  session,   \* the native session: none, open or closed
  misuse,    \* "yes" once it was used while not open, or opened while open
  codec,     \* mDecoder: none, started or released
  queued,    \* frames in the codec's input buffers
  ready,     \* frames in its output buffers
  seen       \* INFO results so far

uiVars == <<ui, surface, changes>>
media  == <<queued, ready, seen>>
vars   == <<uiVars, running, pc, session, misuse, codec, media>>

Misused(cond) == misuse' = IF cond THEN "yes" ELSE misuse

Init ==
  /\ ui = "idle" /\ surface = "none" /\ changes = 0
  /\ running = "yes" /\ pc = "new"
  /\ session = "none" /\ misuse = "no" /\ codec = "none"
  /\ queued = 0 /\ ready = 0 /\ seen = 0
-----------------------------------------------------------------------------
(* surfaceChanged runs DecoderView.init whenever there is a surface: the   *)
(* native session is opened over whatever was there,                       *)
SurfaceChanged ==
  /\ ui = "idle" /\ changes < MaxChanges
  /\ changes' = changes + 1 /\ surface' = "there"
  /\ Misused(session = "open") /\ session' = "open"
  /\ ui' = "first_frame"
  /\ UNCHANGED <<running, pc, codec, media>>

(* the first frame is taken, and without one mEncData.limit throws,        *)
InitFirstFrame ==
  /\ ui = "first_frame"
  /\ Misused(session # "open")
  /\ ui' \in {"codec", "crashed"}
  /\ UNCHANGED <<surface, changes, running, pc, session, codec, media>>

(* and the codec and the thread are started; a thread that was started     *)
(* before throws.                                                          *)
InitStart ==
  /\ ui = "codec"
  /\ codec' = "started" /\ queued' = 0 /\ ready' = 0
  /\ IF pc = "new" THEN pc' = "check" /\ ui' = "idle"
                   ELSE ui' = "crashed" /\ UNCHANGED pc
  /\ UNCHANGED <<surface, changes, running, session, misuse, seen>>

(* Mutant: close() closes the native session itself. *)
SurfaceDestroyed_Closes ==
  /\ ui = "idle" /\ surface = "there"
  /\ surface' = "none" /\ running' = "no" /\ session' = "closed"
  /\ UNCHANGED <<ui, changes, pc, misuse, codec, media>>

(* surfaceDestroyed calls close(), which does not wait for the thread. *)
SurfaceDestroyed ==
  /\ ui = "idle" /\ surface = "there"
  /\ surface' = "none" /\ running' = "no"
  /\ UNCHANGED <<ui, changes, pc, session, misuse, codec, media>>
-----------------------------------------------------------------------------
(* Mutant: the loop does not look at mRunning. *)
Check_Forever ==
  /\ pc = "check" /\ pc' = "frame"
  /\ UNCHANGED <<uiVars, running, session, misuse, codec, media>>

(* while (mRunning) *)
Check ==
  /\ pc = "check"
  /\ pc' = IF running = "yes" THEN "frame" ELSE "stop"
  /\ UNCHANGED <<uiVars, running, session, misuse, codec, media>>

(* getEncFrame; a bad frame ends the turn. *)
Frame ==
  /\ pc = "frame"
  /\ Misused(session # "open")
  /\ pc' \in {"input", "check"}
  /\ UNCHANGED <<uiVars, running, session, codec, media>>

(* Mutant: a buffer is queued whether or not one is free. *)
Input_NoWait ==
  /\ pc = "input"
  /\ queued' = queued + 1 /\ pc' = "output"
  /\ UNCHANGED <<uiVars, running, session, misuse, codec, ready, seen>>

(* dequeueInputBuffer(-1) waits for a free buffer, however long. *)
Input ==
  /\ pc = "input" /\ queued < NIn
  /\ queued' = queued + 1 /\ pc' = "output"
  /\ UNCHANGED <<uiVars, running, session, misuse, codec, ready, seen>>

(* Mutant: the output buffer is not released. *)
Output_NoRelease ==
  /\ pc = "output" /\ pc' = "check"
  /\ \/ ready = 0 /\ UNCHANGED <<ready, seen>>
     \/ ready > 0 /\ UNCHANGED <<ready, seen>>
     \/ seen < MaxEvents /\ seen' = seen + 1 /\ UNCHANGED ready
  /\ UNCHANGED <<uiVars, running, session, misuse, codec, queued>>

(* dequeueOutputBuffer: nothing within 10 ms, a frame, which is shown and  *)
(* released, or an INFO result.                                            *)
Output ==
  /\ pc = "output" /\ pc' = "check"
  /\ \/ ready = 0 /\ UNCHANGED <<ready, seen>>
     \/ ready > 0 /\ ready' = ready - 1 /\ UNCHANGED seen
     \/ seen < MaxEvents /\ seen' = seen + 1 /\ UNCHANGED ready
  /\ UNCHANGED <<uiVars, running, session, misuse, codec, queued>>

(* The codec is stopped and released, *)
Stop ==
  /\ pc = "stop" /\ pc' = "close"
  /\ codec' = "released" /\ queued' = 0 /\ ready' = 0
  /\ UNCHANGED <<uiVars, running, session, misuse, seen>>

(* and closeCamEnc ends the native session. *)
CloseCamEnc ==
  /\ pc = "close" /\ pc' = "dead"
  /\ Misused(session # "open") /\ session' = "closed"
  /\ UNCHANGED <<uiVars, running, codec, media>>

(* The codec decodes a frame. *)
Decode ==
  /\ codec = "started" /\ queued > 0 /\ ready < NOut
  /\ queued' = queued - 1 /\ ready' = ready + 1
  /\ UNCHANGED <<uiVars, running, pc, session, misuse, codec, seen>>
-----------------------------------------------------------------------------
UiSteps == InitFirstFrame \/ InitStart
RunSteps == Check \/ Frame \/ Input \/ Output \/ Stop \/ CloseCamEnc
Alive == ui # "crashed"

Next == Alive /\ (SurfaceChanged \/ SurfaceDestroyed \/ UiSteps \/ RunSteps
                  \/ Decode)

Spec == Init /\ [][Next]_vars

(* Both threads and the codec are scheduled; getEncFrame and the sleep     *)
(* before a frame is shown end.                                            *)
FairSpec ==
  /\ Spec
  /\ WF_vars(Alive /\ UiSteps) /\ WF_vars(Alive /\ RunSteps)
  /\ WF_vars(Alive /\ Decode)
-----------------------------------------------------------------------------
(* Every variable has its type. *)
TypeOK ==
  /\ ui \in {"idle", "first_frame", "codec", "crashed"}
  /\ surface \in {"none", "there"}
  /\ changes \in 0 .. MaxChanges
  /\ running \in {"yes", "no"}
  /\ pc \in {"new", "check", "frame", "input", "output", "stop", "close",
             "dead"}
  /\ session \in {"none", "open", "closed"}
  /\ misuse \in {"yes", "no"}
  /\ codec \in {"none", "started", "released"}
  /\ queued \in 0 .. NIn /\ ready \in 0 .. NOut
  /\ seen \in 0 .. MaxEvents

(* As long as surfaceChanged came only once, the two threads never use the *)
(* native session while it is not open and never open or close it twice,   *)
(* though surfaceDestroyed does not wait for run() to end.                 *)
NativeSafe == changes <= 1 => misuse = "no"

(* A turn of the loop puts one frame in and takes at most one out, so the  *)
(* number of frames in the codec never goes down again.  It is bounded all *)
(* the same: nothing comes out only while no output is ready, or when an   *)
(* INFO result takes the place of a frame.                                 *)
LatencyBounded ==
  queued + ready <= NIn + seen + (IF pc = "output" THEN 1 ELSE 0)

(* run() waiting without a limit for an input buffer and the codec waiting *)
(* for an output buffer never wait for each other.                         *)
NoMutualWait == ~ (pc = "input" /\ queued = NIn /\ ready = NOut)

(* A turn that has a frame comes to its end. *)
TurnEnds == (pc = "input") ~> (pc = "check" \/ ui = "crashed")

(* After close() the thread stops, the codec is released and the native    *)
(* session is closed, unless an exception ended the process before.        *)
StopsAfterClose ==
  (running = "no" /\ pc # "new")
    ~> ((pc = "dead" /\ codec = "released" /\ session = "closed")
        \/ ui = "crashed")
=============================================================================
