----------------------------- MODULE EdgeVideo -----------------------------
(***************************************************************************)
(* The video path of the edge board: main() and its signal handler,        *)
(* Vision_thread, the camera it reads, the encoder it drives (Encoder.tla) *)
(* and the streamer, whose GStreamer thread (external) sends the packets   *)
(* and drops them from its own side.                                       *)
(*                                                                         *)
(* Vision_thread is a local program with counter vpc; between two steps of *)
(* it the streaming thread, the signal and main() may act. A picture is    *)
(* its number: the encoder counts the pictures it was given.               *)
(***************************************************************************)
EXTENDS Encoder

CONSTANT QueueLimit     \* packets that reach appsrc's max-bytes

\* Here malloc succeeds; Encoder.cfg covers what follows when it does not.
ASSUME EdgeVideoAssumption ==
  /\ QueueLimit \in Nat \ {0}
  /\ Holders = {"vision", "gst"}
  /\ Caller = "vision"
  /\ MallocMayFail = FALSE

VARIABLES
  running,     \* g_running
  main,        \* main(): "polling", or "returned", and the process is gone
  vpc,         \* where Vision_thread is
  camera,      \* UsbCamera::m_is_opened
  pipeline,    \* the GStreamer pipeline behind GstUdpStreamer
  queue,       \* packets in appsrc, as [buf, frame]
  sending,     \* the packet udpsink is at, or <<>>
  sent         \* the last picture udpsink sent

enc == vars
stream == <<pipeline, queue, sending, sent>>
videoVars == <<running, main, vpc, camera, stream, enc>>

Entry == [buf : Buffers, frame : 1..MaxFrames]

VideoInit ==
  /\ running = TRUE
  /\ main = "polling"
  /\ vpc = "openCamera"
  /\ camera = FALSE
  /\ pipeline = "none"
  /\ queue = <<>>
  /\ sending = <<>>
  /\ sent = 0
  /\ Init

----------------------------------------------------------------------------
(* main() and the signal                                                   *)

\* SIGINT or SIGTERM.
Signal ==
  /\ main = "polling" /\ running
  /\ running' = FALSE
  /\ UNCHANGED <<main, vpc, camera, stream, enc>>

\* main() sees the flag after at most 500 ms and returns. It joins no
\* thread: the process ends wherever the detached threads are.
MainReturns ==
  /\ main = "polling" /\ ~running
  /\ main' = "returned"
  /\ UNCHANGED <<running, vpc, camera, stream, enc>>

----------------------------------------------------------------------------
(* Vision_thread: setup                                                    *)

\* Vision_thread runs, at point p of its program.
At(p) == main = "polling" /\ vpc = p

\* cap.open(), which fails without the device.
OpenCamera ==
  /\ At("openCamera")
  /\ \/ vpc' = "openEncoder" /\ camera' = TRUE
     \/ vpc' = "exited" /\ UNCHANGED camera
  /\ UNCHANGED <<running, main, stream, enc>>

OpenEncoder ==
  /\ At("openEncoder")
  /\ Open
  /\ vpc' = "openStreamer"
  /\ UNCHANGED <<running, main, camera, stream>>

\* The codec refuses: the early return runs the destructors.
OpenEncoderFails ==
  /\ At("openEncoder")
  /\ vpc' = "closeCamera"
  /\ UNCHANGED <<running, main, camera, stream, enc>>

\* streamer.open(). Nobody looks at the result of the state change to
\* PLAYING: when it fails, appsrc stays flushing and refuses every packet.
OpenStreamer ==
  /\ At("openStreamer")
  /\ pipeline' \in {"playing", "flushing"}
  /\ vpc' = "loop"
  /\ UNCHANGED <<running, main, camera, queue, sending, sent, enc>>

\* Mutant: the early return leaves the encoder open.
OpenStreamerFailsBare ==
  /\ At("openStreamer")
  /\ vpc' = "closeCamera"
  /\ UNCHANGED <<running, main, camera, stream, enc>>

\* gst_parse_launch fails: the destructors close encoder, then camera.
OpenStreamerFails ==
  /\ At("openStreamer")
  /\ vpc' = "closeEncoder"
  /\ UNCHANGED <<running, main, camera, stream, enc>>

----------------------------------------------------------------------------
(* Vision_thread: the loop                                                 *)

\* Mutant: the loop was once while(1).
LoopForever ==
  /\ At("loop")
  /\ vpc' = "capture"
  /\ UNCHANGED <<running, main, camera, stream, enc>>

LoopHead ==
  /\ At("loop")
  /\ vpc' = IF running THEN "capture" ELSE "closeStreamer"
  /\ UNCHANGED <<running, main, camera, stream, enc>>

\* An empty frame, no memory for the NV12 copy, or sp_encoder_set_frame
\* fails: this picture is skipped and the loop goes on.
SkipFrame ==
  /\ At("capture")
  /\ vpc' = "loop"
  /\ UNCHANGED <<running, main, camera, stream, enc>>

\* The picture is captured, converted and given to the codec.
SubmitFrame ==
  /\ At("capture")
  /\ SetFrame
  /\ vpc' = "encode"
  /\ UNCHANGED <<running, main, camera, stream>>

\* Inside encode(). It returns with a packet, or empty.
Encode ==
  /\ At("encode")
  /\ \/ /\ TakeBuffer \/ Sleep \/ Expire \/ NoStream
        /\ UNCHANGED vpc
     \/ (Starve \/ GiveBack) /\ vpc' = "loop"
     \/ GetStream /\ vpc' = "push"
  /\ UNCHANGED <<running, main, camera, stream>>

Packet == [buf |-> cur, frame |-> content[cur]]

\* Mutant: the wrapped buffer takes the pointer but no copy of the
\* shared_ptr.
PushUncounted ==
  /\ At("push")
  /\ pipeline \in {"playing", "error"}
  /\ queue' = Append(queue, Packet)
  /\ vpc' = "drop"
  /\ UNCHANGED <<running, main, camera, pipeline, sending, sent, enc>>

\* Mutant: a packet that appsrc accepted is pushed again.
PushAgain ==
  /\ At("push")
  /\ pipeline \in {"playing", "error"}
  /\ Share(cur, "gst")
  /\ queue' = Append(queue, Packet)
  /\ vpc' \in {"push", "drop"}
  /\ UNCHANGED <<running, main, camera, pipeline, sending, sent>>

\* pushStream() wraps the packet in a buffer that owns a copy of it, and
\* appsrc queues that. Above max-bytes it may still do so: block is FALSE,
\* and no leaky-type is set.
Push ==
  /\ At("push")
  /\ pipeline \in {"playing", "error"}
  /\ Share(cur, "gst")
  /\ queue' = Append(queue, Packet)
  /\ vpc' = "drop"
  /\ UNCHANGED <<running, main, camera, pipeline, sending, sent>>

\* appsrc refuses the packet and releases the wrapped copy at once.
PushRefused ==
  /\ At("push")
  /\ pipeline = "flushing" \/ Len(queue) >= QueueLimit
  /\ vpc' = "drop"
  /\ UNCHANGED <<running, main, camera, stream, enc>>

\* encoded_packet goes out of scope at the end of the iteration.
DropPacket ==
  /\ At("drop")
  /\ Drop(cur, "vision")
  /\ vpc' = "loop"
  /\ UNCHANGED <<running, main, camera, stream>>

----------------------------------------------------------------------------
(* Vision_thread: shutdown                                                 *)

\* set_state(NULL) begins: the streaming thread is told to stop.
CloseStreamer ==
  /\ At("closeStreamer") /\ pipeline # "stopping"
  /\ pipeline' = "stopping"
  /\ UNCHANGED <<running, main, vpc, camera, queue, sending, sent, enc>>

\* The streaming thread has been joined: appsrc's queue is flushed.
FlushPacket ==
  /\ At("closeStreamer") /\ pipeline = "stopping"
  /\ sending = <<>> /\ queue # <<>>
  /\ Drop(Head(queue).buf, "gst")
  /\ queue' = Tail(queue)
  /\ UNCHANGED <<running, main, vpc, camera, pipeline, sending, sent>>

\* Mutant: close() only unrefs the pipeline, the streaming thread lives on.
StreamerAbandoned ==
  /\ At("closeStreamer") /\ pipeline = "stopping"
  /\ pipeline' = "none"
  /\ vpc' = "closeEncoder"
  /\ UNCHANGED <<running, main, camera, queue, sending, sent, enc>>

StreamerClosed ==
  /\ At("closeStreamer") /\ pipeline = "stopping"
  /\ sending = <<>> /\ queue = <<>>
  /\ pipeline' = "none"
  /\ vpc' = "closeEncoder"
  /\ UNCHANGED <<running, main, camera, queue, sending, sent, enc>>

CloseEncoder ==
  /\ At("closeEncoder")
  /\ Close
  /\ vpc' = "closeCamera"
  /\ UNCHANGED <<running, main, camera, stream>>

CloseCamera ==
  /\ At("closeCamera")
  /\ camera' = FALSE
  /\ vpc' = "exited"
  /\ UNCHANGED <<running, main, stream, enc>>

VisionStep ==
  \/ OpenCamera \/ OpenEncoder \/ OpenEncoderFails
  \/ OpenStreamer \/ OpenStreamerFails
  \/ LoopHead \/ SkipFrame \/ SubmitFrame \/ Encode
  \/ Push \/ PushRefused \/ DropPacket
  \/ CloseStreamer \/ FlushPacket \/ StreamerClosed
  \/ CloseEncoder \/ CloseCamera

----------------------------------------------------------------------------
(* GStreamer's streaming thread (external)                                 *)

\* The oldest packet leaves appsrc and is parsed and payloaded.
GstStart ==
  /\ main = "polling" /\ pipeline = "playing"
  /\ sending = <<>> /\ queue # <<>>
  /\ sending' = <<Head(queue)>>
  /\ queue' = Tail(queue)
  /\ UNCHANGED <<running, main, vpc, camera, pipeline, sent, enc>>

\* Mutant: the wrapped buffer has no destroy notify.
GstDoneLeaks ==
  /\ main = "polling" /\ sending # <<>>
  /\ sent' = sending[1].frame
  /\ sending' = <<>>
  /\ UNCHANGED <<running, main, vpc, camera, pipeline, queue, enc>>

\* udpsink has sent it: the buffer's destroy notify drops the copy.
GstDone ==
  /\ main = "polling" /\ sending # <<>>
  /\ Drop(sending[1].buf, "gst")
  /\ sent' = sending[1].frame
  /\ sending' = <<>>
  /\ UNCHANGED <<running, main, vpc, camera, pipeline, queue>>

\* A fatal error stops the streaming task. No code watches the bus.
GstError ==
  /\ main = "polling" /\ pipeline = "playing"
  /\ pipeline' = "error"
  /\ UNCHANGED <<running, main, vpc, camera, queue, sending, sent, enc>>

VideoNext ==
  \/ Signal \/ MainReturns
  \/ VisionStep
  \/ GstStart \/ GstDone \/ GstError

VideoSpec == VideoInit /\ [][VideoNext]_videoVars

\* Every call Vision_thread makes returns: the camera's driver, the wait in
\* encode() and the retries have time limits. The streaming thread moves
\* packets on while the pipeline plays, and finishes the one it is at.
\* Nothing is assumed of main(), of the signal or of the codec.
FairVideoSpec ==
  /\ VideoSpec
  /\ WF_videoVars(VisionStep)
  /\ WF_videoVars(GstStart)
  /\ WF_videoVars(GstDone)

----------------------------------------------------------------------------
(* Properties                                                              *)

VisionPoints ==
  {"openCamera", "openEncoder", "openStreamer", "loop", "capture", "encode",
   "push", "drop", "closeStreamer", "closeEncoder", "closeCamera", "exited"}

\* The type invariant.
VideoTypeOK ==
  /\ running \in BOOLEAN
  /\ main \in {"polling", "returned"}
  /\ vpc \in VisionPoints
  /\ camera \in BOOLEAN
  /\ pipeline \in {"none", "playing", "flushing", "error", "stopping"}
  /\ queue \in Seq(Entry)
  /\ sending \in {<<>>} \cup {<<e>> : e \in Entry}
  /\ sent \in 0..MaxFrames
  /\ TypeOK

\* The packets GStreamer has, oldest first.
InFlight == sending \o queue

\* What GStreamer is sending or will send is still the picture that was
\* pushed, in memory that is still allocated: the encoder may not reuse or
\* free a buffer the network side has not finished with.
NoTearing ==
  \A i \in 1..Len(InFlight) :
    LET e == InFlight[i] IN
      /\ content[e.buf] = e.frame
      /\ e.buf \in heap
      /\ "gst" \in refs[e.buf]

Held == IF vpc = "push" THEN <<content[cur]>> ELSE <<>>
Journey ==
  <<sent>> \o [i \in 1..Len(InFlight) |-> InFlight[i].frame] \o Held \o hw

\* From the codec to the wire pictures never overtake one another and none
\* is sent twice, although encode() times out, retries and drops.
InOrder == \A i, j \in 1..Len(Journey) : i < j => Journey[i] < Journey[j]

\* Hence the path from the camera to the wire is a queue that may lose
\* pictures and does nothing else to their order, starved calls, late
\* streams, refused packets and the flush at the end included.
Fifo == INSTANCE LossyFifo WITH
          given <- submitted, taken <- sent,
          pending <- {Journey[i] : i \in 2..Len(Journey)}
ImplementsFifo == Fifo!Spec

\* The pool is destroyed only when the streamer holds no packet any more, on
\* every path out of Vision_thread: no deleter runs after close().
EncoderOutlivesPackets ==
  stage = "closed" => heap = {} /\ InFlight = <<>> /\ pipeline = "none"

\* When Vision_thread returns, after a signal or a failed open, everything
\* it opened is closed and the pool is freed.
AllReleased ==
  vpc = "exited" =>
    ~camera /\ pipeline = "none" /\ stage \in {"new", "closed"} /\ heap = {}

\* After the signal Vision_thread finishes its shutdown, from anywhere in
\* its program, unless the end of the process cuts it short.
ShutdownEnds == ~running ~> vpc = "exited" \/ main = "returned"

\* What Vision_thread may still have to do once the flag is cleared: at most
\* one more picture, then the queue to flush and the closing.
VisionLeft ==
  [openCamera |-> 8, openEncoder |-> 7, openStreamer |-> 6,
   capture |-> MaxRetries + 13, encode |-> 8, push |-> 8, drop |-> 6, loop |-> 5,
   closeStreamer |-> IF pipeline = "stopping" THEN 3 ELSE 4,
   closeEncoder |-> 2, closeCamera |-> 1, exited |-> 0][vpc]
ShutdownLeft == VisionLeft + Len(queue) + StepsLeft

\* After the signal each step of Vision_thread brings it nearer to its end,
\* from anywhere in its program, and no step of GStreamer sends it back.
ShutdownAdvances ==
  [][~running => /\ ShutdownLeft' <= ShutdownLeft
                 /\ VisionStep => ShutdownLeft' < ShutdownLeft]_videoVars

\* Each packet comes back from GStreamer, also one that is refused or flushed,
\* unless the pipeline failed or its sink stalls (the fairness of the streaming
\* thread says that it does not).
PacketComesHome ==
  \A b \in Buffers :
    "gst" \in refs[b] ~>
      "gst" \notin refs[b] \/ pipeline = "error" \/ main = "returned"

\* udp_streamer.cpp:42 says of the full queue that it drops new data and
\* never blocks the encoding thread.
NeverBlocked == pc # "asleep"

\* hal_Encoder.hpp:76 says that encode() encodes one frame synchronously:
\* the packet it returns would be the frame it was given.
SyncEncode == vpc = "push" => content[cur] = submitted
=============================================================================
