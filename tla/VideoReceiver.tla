--------------------------- MODULE VideoReceiver ---------------------------
(***************************************************************************)
(* The video receiver of the host station: the button of Main.qml,         *)
(* GstVideoReceiver, the streaming thread GStreamer (external) runs for    *)
(* each pipeline, and the event queue of Qt (external) between that thread *)
(* and the GUI thread.                                                     *)
(*                                                                         *)
(* Pipelines are numbered as they are built. A picture is its number in    *)
(* the order in which the decoders delivered them.                         *)
(***************************************************************************)
EXTENDS Naturals, Sequences, SequencesExt

CONSTANTS
  MaxFrames,   \* bound: pictures decoded
  MaxStarts    \* bound: calls of start()

ASSUME ReceiverAssumption == MaxFrames \in Nat \ {0} /\ MaxStarts \in Nat \ {0}

VARIABLES
  \* GUI thread
  gui,         \* in its event "loop", in "stop", in "launch" (start() after
               \* its stop()), or "ended"
  todo,        \* where it goes when stop() returns
  isPlaying,   \* of the button
  canvas,      \* the sink m_videoSink points to exists
  \* receiver
  pipeline,    \* m_pipeline; 0 if null
  appsink,     \* m_appsink, as the pipeline it belongs to; 0 if null
  owned,       \* references to GStreamer's objects the receiver has to drop
  starts,
  \* GStreamer, for each pipeline
  pstate,      \* its state
  thread,      \* its streaming thread: "idle", "called" (onNewSample) or
               \* "copied" (the sample is a QVideoFrame)
  sample,      \* the picture that thread is at
  arrived,     \* pictures decoded so far
  lost,        \* the last picture onNewSample could not copy
  \* Qt
  events,      \* frames of the calls of renderFrame() that are queued
  displayed    \* the frame the video sink has

guiVars == <<gui, todo, isPlaying, canvas>>
receiver == <<pipeline, appsink, owned, starts>>
gst == <<pstate, thread, sample, arrived, lost>>
vars == <<guiVars, receiver, gst, events, displayed>>

Pipelines == 1..MaxStarts
Frames == 1..MaxFrames

\* The receiver and its canvas have been created and bound to each other.
Init ==
  /\ gui = "loop" /\ todo = "loop" /\ isPlaying = FALSE /\ canvas = TRUE
  /\ pipeline = 0 /\ appsink = 0 /\ owned = {} /\ starts = 0
  /\ pstate = [p \in Pipelines |-> "none"]
  /\ thread = [p \in Pipelines |-> "idle"]
  /\ sample = [p \in Pipelines |-> 0]
  /\ arrived = 0 /\ lost = 0
  /\ events = <<>> /\ displayed = 0

----------------------------------------------------------------------------
(* GUI thread                                                              *)

\* Mutant: stop() waits for the streaming thread and changes the state to
\* NULL only then.
BeginStopLate(next) ==
  /\ gui' = "stop" /\ todo' = next
  /\ UNCHANGED pstate

\* stop() is called: the streaming thread is told to end its work.
BeginStop(next) ==
  /\ gui' = "stop" /\ todo' = next
  /\ pstate' = IF pipeline = 0 THEN pstate
                               ELSE [pstate EXCEPT ![pipeline] = "stopping"]

\* The button is clicked. start() calls stop() first if it has a pipeline,
\* which with this button it never has.
Click ==
  /\ gui = "loop"
  /\ isPlaying \/ starts < MaxStarts
  /\ IF isPlaying THEN BeginStop("loop")
     ELSE IF pipeline # 0 THEN BeginStop("launch")
     ELSE gui' = "launch" /\ UNCHANGED <<todo, pstate>>
  /\ UNCHANGED <<isPlaying, canvas, receiver, thread, sample, arrived, lost,
                 events, displayed>>

\* The window is closed, exec() returns and the QML objects are destroyed:
\* the destructor of the receiver calls stop().
Quit ==
  /\ gui = "loop"
  /\ BeginStop("ended")
  /\ UNCHANGED <<isPlaying, canvas, receiver, thread, sample, arrived, lost,
                 events, displayed>>

\* The canvas and its sink may be destroyed before the receiver.
CanvasGoes ==
  /\ todo = "ended" /\ canvas
  /\ canvas' = FALSE
  /\ UNCHANGED <<gui, todo, isPlaying, receiver, gst, events, displayed>>

\* The objects stop() and the pointers refer to.
Held == {<<"pipeline", pipeline>>, <<"appsink", appsink>>}
          \ {<<"pipeline", 0>>, <<"appsink", 0>>}

\* Mutant: m_appsink is not set to null.
StoppedSinkStays ==
  /\ pipeline' = 0 /\ UNCHANGED appsink
  /\ pstate' = IF pipeline = 0 THEN pstate
                               ELSE [pstate EXCEPT ![pipeline] = "freed"]
  /\ gui' = todo
  /\ isPlaying' = (isPlaying /\ todo # "loop")
  /\ events' = IF todo = "ended" THEN <<>> ELSE events
  /\ UNCHANGED <<todo, canvas, starts, thread, sample, arrived, lost, displayed>>

\* stop() returns. A receiver that is destroyed takes its events with it.
Stopped ==
  /\ pipeline' = 0 /\ appsink' = 0
  /\ pstate' = IF pipeline = 0 THEN pstate
                               ELSE [pstate EXCEPT ![pipeline] = "freed"]
  /\ gui' = todo
  /\ isPlaying' = (isPlaying /\ todo # "loop")
  /\ events' = IF todo = "ended" THEN <<>> ELSE events
  /\ UNCHANGED <<todo, canvas, starts, thread, sample, arrived, lost, displayed>>

\* Mutant: the pipeline is dropped without its change to NULL, which waits
\* for the streaming thread.
StopDoneUnjoined ==
  /\ gui = "stop"
  /\ owned' = owned \ Held
  /\ Stopped

\* set_state(NULL) returns when the streaming thread has ended its work.
StopDone ==
  /\ gui = "stop"
  /\ pipeline # 0 => thread[pipeline] = "idle"
  /\ owned' = owned \ Held
  /\ Stopped

\* The end of start(), whatever came of it: the button shows a running one.
Launched ==
  /\ gui = "launch"
  /\ gui' = "loop" /\ isPlaying' = TRUE
  /\ starts' = starts + 1
  /\ UNCHANGED <<todo, canvas, thread, sample, arrived, lost, events, displayed>>

\* Mutant: the element is looked for under another name.
LaunchSinkless ==
  /\ Launched
  /\ pipeline' = starts' /\ UNCHANGED appsink
  /\ owned' = owned \cup {<<"pipeline", starts'>>}
  /\ pstate' = [pstate EXCEPT ![starts'] = "playing"]

\* The pipeline is built and its appsink has the callback before the change
\* to PLAYING. Nobody looks at the result of that change.
Launch ==
  /\ Launched
  /\ pipeline' = starts' /\ appsink' = starts'
  /\ owned' = owned \cup {<<"pipeline", starts'>>, <<"appsink", starts'>>}
  /\ \E s \in {"playing", "failed"} : pstate' = [pstate EXCEPT ![starts'] = s]

\* Mutant: what was built is forgotten.
LaunchFailsForgets ==
  /\ Launched
  /\ pipeline' = 0
  /\ \/ UNCHANGED <<owned, pstate>>
     \/ /\ owned' = owned \cup {<<"pipeline", starts'>>}
        /\ pstate' = [pstate EXCEPT ![starts'] = "partial"]
  /\ UNCHANGED appsink

\* The description does not parse, for instance without the H.264 plugin:
\* nothing was built, or a part of it that stays in m_pipeline.
LaunchFails ==
  /\ Launched
  /\ \/ pipeline' = 0 /\ UNCHANGED <<owned, pstate>>
     \/ /\ pipeline' = starts'
        /\ owned' = owned \cup {<<"pipeline", starts'>>}
        /\ pstate' = [pstate EXCEPT ![starts'] = "partial"]
  /\ UNCHANGED appsink

\* Mutant: the newest queued frame is rendered first.
RenderNewest ==
  /\ gui = "loop" /\ events # <<>>
  /\ displayed' = Last(events)
  /\ events' = Front(events)
  /\ UNCHANGED <<guiVars, receiver, gst>>

\* renderFrame(), called by the event loop. There is no test of m_pipeline:
\* frames that are queued when stop() comes are rendered after it.
Render ==
  /\ gui = "loop" /\ events # <<>>
  /\ displayed' = Head(events)
  /\ events' = Tail(events)
  /\ UNCHANGED <<guiVars, receiver, gst>>

----------------------------------------------------------------------------
(* Streaming thread                                                        *)

\* A picture is decoded. appsink keeps the newest (drop, max-buffers=1) and
\* calls onNewSample() if it has been set.
Decode(p) ==
  /\ pstate[p] = "playing" /\ thread[p] = "idle" /\ arrived < MaxFrames
  /\ arrived' = arrived + 1
  /\ sample' = [sample EXCEPT ![p] = arrived + 1]
  /\ thread' = [thread EXCEPT ![p] = IF appsink = p THEN "called" ELSE "idle"]
  /\ UNCHANGED <<guiVars, receiver, pstate, lost, events, displayed>>

Returns(p) == thread' = [thread EXCEPT ![p] = "idle"]

\* The sample is pulled and copied into a QVideoFrame.
CopySample(p) ==
  /\ thread[p] = "called"
  /\ thread' = [thread EXCEPT ![p] = "copied"]
  /\ UNCHANGED <<guiVars, receiver, pstate, sample, arrived, lost, events,
                 displayed>>

\* The appsink of a pipeline that is being stopped gives none, or the new
\* frame cannot be mapped.
CopyFails(p) ==
  /\ thread[p] = "called"
  /\ Returns(p)
  /\ lost' = sample[p]
  /\ UNCHANGED <<guiVars, receiver, pstate, sample, arrived, events, displayed>>

\* Mutant: a direct connection, as between objects of one thread.
EmitDirect(p) ==
  /\ thread[p] = "copied"
  /\ Returns(p)
  /\ displayed' = sample[p]
  /\ UNCHANGED <<guiVars, receiver, pstate, sample, arrived, lost, events>>

\* Mutant: a blocking connection, which waits for the GUI thread to render.
EmitBlocking(p) ==
  /\ thread[p] = "copied" /\ gui = "loop"
  /\ Returns(p)
  /\ displayed' = sample[p]
  /\ UNCHANGED <<guiVars, receiver, pstate, sample, arrived, lost, events>>

\* newFrameReady is emitted on the streaming thread: a queued connection.
Emit(p) ==
  /\ thread[p] = "copied"
  /\ Returns(p)
  /\ events' = Append(events, sample[p])
  /\ UNCHANGED <<guiVars, receiver, pstate, sample, arrived, lost, displayed>>

\* A fatal error ends the stream. No code watches the bus.
GstError(p) ==
  /\ pstate[p] = "playing" /\ thread[p] = "idle"
  /\ pstate' = [pstate EXCEPT ![p] = "error"]
  /\ UNCHANGED <<guiVars, receiver, thread, sample, arrived, lost, events,
                 displayed>>

----------------------------------------------------------------------------
GuiStep == StopDone \/ Launch \/ LaunchFails
ThreadStep(p) == CopySample(p) \/ CopyFails(p) \/ Emit(p)

Next ==
  \/ Click \/ Quit \/ CanvasGoes
  \/ GuiStep \/ Render
  \/ \E p \in Pipelines : Decode(p) \/ ThreadStep(p) \/ GstError(p)

Spec == Init /\ [][Next]_vars

\* The event loop takes events in the order in which they were posted, so no
\* number of clicks keeps a frame waiting; start() and stop() go on when
\* nothing holds them, and a callback ends. Pictures need not come.
FairSpec ==
  /\ Spec
  /\ WF_vars(GuiStep) /\ SF_vars(Render)
  /\ \A p \in Pipelines : WF_vars(ThreadStep(p))

----------------------------------------------------------------------------
(* Properties                                                              *)

\* The type invariant.
TypeOK ==
  /\ gui \in {"loop", "stop", "launch", "ended"}
  /\ todo \in {"loop", "launch", "ended"}
  /\ isPlaying \in BOOLEAN /\ canvas \in BOOLEAN
  /\ starts \in 0..MaxStarts
  /\ pipeline \in 0..starts /\ appsink \in {0, pipeline}
  /\ owned \subseteq {"pipeline", "appsink"} \X Pipelines
  /\ pstate \in [Pipelines -> {"none", "partial", "playing", "failed", "error",
                               "stopping", "freed"}]
  /\ thread \in [Pipelines -> {"idle", "called", "copied"}]
  /\ sample \in [Pipelines -> 0..MaxFrames]
  /\ arrived \in 0..MaxFrames /\ lost \in 0..MaxFrames
  /\ events \in Seq(Frames)
  /\ displayed \in 0..MaxFrames

\* What the receiver has to drop is what its two pointers refer to: nothing
\* leaks and nothing is dropped twice on any path, also after a start() that
\* failed halfway. A button that offers to start has nothing behind it.
ReferencesBalanced ==
  /\ owned = Held
  /\ gui = "loop" /\ ~isPlaying => owned = {}
  /\ gui = "ended" => owned = {}

\* While onNewSample() runs, the receiver it was given as userData exists
\* and still has the pipeline: neither stop() nor the destructor overtakes it.
CallbackSafe ==
  \A p \in Pipelines :
    thread[p] # "idle" =>
      gui # "ended" /\ pipeline = p /\ <<"appsink", p>> \in owned

\* The video sink is touched by the GUI thread in its event loop only (the
\* comment of the constructor), hence never after it was destroyed.
RenderedSafely == [][displayed' # displayed => gui = "loop" /\ canvas]_vars

\* The queued pictures and the one in the callback, oldest first.
InFlight ==
  events \o IF pipeline # 0 /\ thread[pipeline] # "idle"
              THEN <<sample[pipeline]>> ELSE <<>>

\* From the decoder to the screen pictures stay in order, across stop(),
\* errors and restarts: no old picture after a newer one, none twice.
Fifo == INSTANCE LossyFifo WITH
          given <- arrived, taken <- displayed,
          pending <- {InFlight[i] : i \in 1..Len(InFlight)}
ImplementsFifo == Fifo!Spec

\* stop(), and with it the GUI thread, does not wait for ever for the
\* streaming thread, which hands its frames to the GUI thread.
StopReturns == gui = "stop" ~> gui # "stop"

\* What stop() still has to wait for, and its own return.
StopLeft ==
  IF gui # "stop" THEN 0
  ELSE IF pipeline = 0 THEN 1
  ELSE [idle |-> 1, copied |-> 2, called |-> 3][thread[pipeline]]

\* stop() waits for the callback it finds and for no other, however fast the
\* pictures come: each step of that callback brings its return nearer, and
\* no other step of any thread takes it further away.
StopAdvances ==
  [][gui = "stop" =>
       /\ StopLeft' <= StopLeft
       /\ StopDone \/ (\E p \in Pipelines : ThreadStep(p))
            => StopLeft' < StopLeft]_vars

\* Each picture that arrives is shown, or a newer one, unless it or a newer one
\* (which appsink may have kept in its place) could not be copied or the
\* application is closed, also when stop() comes meanwhile.
PictureShown ==
  \A f \in Frames :
    arrived = f ~> displayed >= f \/ lost >= f \/ todo = "ended"
=============================================================================
