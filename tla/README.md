# Qt_Vision in TLA+

Qt_Vision is a video link between an *edge* board (RDK X5: camera, hardware
H.264 encoder, RTP over UDP) and a Qt *host station* that shows the video, shows
the board's status and sets the parameters of the vision algorithm. This
directory holds TLA+ modules that model the parts of it whose correctness
depends on interleaving, ownership, reconnection or arithmetic, TLC
configurations that check them on small instances, and TLAPS proofs.

Paths below are relative to `src/`.

## 1. Inventory

### Edge (`edge_board/`)

| Component | State | Operations | Interacts with |
|---|---|---|---|
| **main** `app/server.cpp` | `g_running` | signal handler clears the flag; starts three threads, detaches them, polls the flag every 500 ms, returns | every thread reads the flag |
| **Vision_thread** `thread/thread_monitor.cpp:285` | program counter, frame counter, window start | open camera, encoder, streamer (early returns); loop: capture, count, allocate, convert, encode, push; close streamer, encoder, camera | calls camera, encoder, streamer; stores `g_camera_fps` |
| **UsbCamera** `src/usb_camera.cpp` | `m_is_opened`, the capture device | `open`, `getFrame`, `close` | frame shared by reference count with `cv::Mat` |
| **RDKX5Encoder** `src/rdkx5_encoder.cpp` | codec handle, `m_is_opened`, `BufferPool` (queue, mutex, condition variable) | `open`, `encode`, `close`, deleter of a packet, `~BufferPool` | codec library (external); packets travel to the streamer and come home through the deleter |
| **GstUdpStreamer** `src/udp_streamer.cpp` | pipeline, appsrc | `open`, `pushStream`, `close`, destroy notify | GStreamer's streaming thread (external) drops packets |
| **NetworkMonitorThread** `thread/thread_monitor.cpp:68` | listening and client socket | accept, sleep 1 s, report, send | reads `g_camera_fps`; TCP to the host |
| **ParamControlThread** `thread/thread_monitor.cpp:172` | sockets, line buffer, `g_paramTable` and its atomics | accept, recv, parse, range check, store, answer | TCP to the host |
| **Picture layout** `auxiliary/yuv_utils.hpp` | none | alignment, BGR to I420 to NV12 | buffers of Vision_thread |
| **SystemMonitor** `src/SystemMonitor.cpp` | last CPU counters | CPU, temperature, BPU load | called by NetworkMonitorThread |
| **affinity** `src/scheduler.cpp` | none | one system call | - |

### Host (`host_station/`)

| Component | State | Operations | Interacts with |
|---|---|---|---|
| **ParamClient** `src/paramclient.cpp` | socket, reconnect timer, `m_buffer` | connect, `setParam`, `onReadyRead`, `onSocketError`, disconnected | TCP 8890; called by sliders |
| **SystemMonitor** `src/systemmonitor.cpp` | socket, timer, shown values | connect, `onReadyRead`, `onSocketError`, disconnected | TCP 8888; properties bound in QML |
| **GstVideoReceiver** `src/gstvideoreceiver.cpp` | pipeline, appsink, video sink | `start`, `stop`, destructor, `onNewSample`, `renderFrame` | GStreamer's streaming thread calls back; a queued connection to the GUI thread |
| **Main.qml**, `app/main.cpp` | slider values, button state | presentation | the three classes above |

### What is hard here, and what correctness means

* *The zero-copy pool.* One set of buffers is at once the encoder's output, the
  network's send queue and memory whose owner changes between threads. Each
  buffer must have one owner, must be written only when nobody reads it, must
  come home on every path, and must be freed exactly once although `close()`
  and the last reader race.
* *`encode()`* waits with a deadline, retries, and can give up after the codec
  already has the picture: it must return, and order must survive.
* *Shutdown.* A flag, a thread blocked in three kinds of calls, a foreign
  thread that still holds packets, and a main that joins nobody.
* *Reconnection.* Two Qt clients with a timer, two single-client servers that
  block, restarts of both sides, either side that vanishes silently.
* *Reassembly.* TCP cuts lines anywhere; a buffer that outlives its connection
  mixes two of them.
* *Callbacks.* The host's GUI thread joins a foreign thread that hands it
  pictures, drops what that thread uses, and is itself behind a queue of them.
* *Staleness.* A frame rate that is computed only when frames arrive, read by
  another thread, shown by another machine.
* *Sizes* that are aligned, multiplied in 32 bits and handed to a library that
  trusts them.

`PROJECT.json` lists each hazard at its line with the properties that cover it.

## 2. Modules and the plan

    BufferLease    what the pool promises for each buffer
        ^ implemented by                        LossyFifo   what both ends of the video link promise
    Encoder  <--EXTENDS--- EdgeVideo  ------------^  ^------------ VideoReceiver
        ^                  implements                 implements       ^
    EncoderProofs  <--  EdgeVideoProofs         LossyFifoProofs    VideoReceiverProofs

    ParamChannel      StatusChannel      Nv12Layout      CpuUsage (definitions and proofs)
        ^                 ^                  ^
    MCParamChannel    StatusProofs       Nv12Proofs
    ParamProofs

Order of work: (1) pool and encoder, with proofs, because everything else on
the edge depends on it; (2) the video path composed with it; (3) the two TCP
channels; (4) the layout arithmetic; (5) the video receiver at the other end of
the link, with proofs, and the abstract fifo that both ends implement; (6) the
arithmetic of the CPU share. These are done. Still planned:

* a reopened encoder, with a second pool beside packets of the first;
* liveness with more restarts than one a side.

## 3. What each module models

**BufferLease** gives each buffer one of five phases (unborn, idle, writing,
lent, gone) and the seven moves between them. It knows no queue, mutex,
reference count or thread.

**Encoder** is `RDKX5Encoder`. `free` is the queue `free_buffers`, `refs[b]` the owners
of shared pointers to buffer b, `hw` the pictures inside the codec, `content[b]` the
picture whose stream b holds, `heap` what malloc returned and nobody freed.
`encode()` is split where another thread can act: `SetFrame` (before the lock),
`TakeBuffer` / `Sleep` (evaluation of the predicate under the mutex), `Expire` and
`Starve` (deadline, then the last evaluation), `GetStream` / `NoStream` (one attempt),
`GiveBack`. A critical section of `BufferPool::mtx` is one action; that a
notification wakes the sleeper is part of the deleter's action (`DropLast`).
`DropFinal` is the deleter that holds the last reference to the pool, so that
`~BufferPool` follows. Pool ownership is derived, not stored: the encoder owns
the pool while open and each lent packet owns it through its deleter.
`WriteNull` is what follows from an allocation that failed in `open()`.

**EdgeVideo** extends `Encoder`, has the holders "vision" and "gst" and adds the
local program of Vision_thread (`vpc`), the appsrc queue, the packet udpsink
is at, the signal and main's return. Each step of the thread conjoins the
encoder's action it performs. `SkipFrame` is every `continue` of the loop and a
`set_frame` that fails. A full appsrc may queue or refuse (versions of GStreamer
differ, and the code sets neither `leaky-type` nor `block`): both are allowed.
`set_state(NULL)` is three actions, since joining the streaming thread and
flushing the queue drop packets one by one.

**LossyFifo** says what both ends of the link promise about pictures: they come
out in the order they went in, each at most once, and some are lost. It has the
last picture that went in, the set of those that may still come out and the
last one that did. In `EdgeVideo` pictures go in at the codec and come out at
udpsink; in `VideoReceiver` they go in at the decoder and come out on the
screen. UDP between the two may reorder packets and is outside of it.

**VideoReceiver** has the button of Main.qml, `GstVideoReceiver`, the streaming
thread of each pipeline and Qt's event queue. `stop()` is two actions, because
it waits: `BeginStop` tells the pipeline to end its work, `StopDone` is the return of
`set_state(NULL)`, which needs the callback to have returned, and all that
follows. `start()` is `Launch` or, after a parse error with or without a partial
pipeline, `LaunchFails`. `onNewSample()` is `CopySample` or `CopyFails`, then `Emit`, which
posts an event; `Render` is its slot. `Decode` is appsink, which keeps the
newest picture and calls back. `Quit` closes the window: the destructor calls
`stop()`, and the canvas may go before or after (`CanvasGoes`). Pictures carry their
number, which the code does not have, so that order can be stated.

**CpuUsage** is `getCpuUsage()` as operators over four counters modulo `Word` (2^64 in the
code): the differences, their sums and the share. It has no behaviour, hence no
run; it is proved about for every word.

**ParamChannel** has host, edge and network of the parameter port. A line is two
pieces, so a chunk may end inside it; a connection that is cut loses a suffix
of what was under way. Connections are numbered and wait in a backlog until
the single-client server accepts them: the host can be connected and not yet
served. `Recv` is one whole iteration: append, parse, range check, store, answer,
test of the flag. A host restart, a link that breaks between two live
processes (`LinkBreaks`), an edge restart (defaults again), a failed bind and a
silent loss (`SilentLoss`) are actions.

**StatusChannel** has the meter (`Frame`, with time as ticks), the atomic it stores,
the server's accept/sleep/send cycle and the status client. A closed client
is found by the second send after it closed, a vanished one when TCP gives up.
The other direction has no such probe: `SystemMonitor` of the host only reads, so
a connection can be `dead` without its being told. `EdgeStops` does that when the
board loses power instead of ending its process, and `LinkBreaks`, the network
failing for longer than TCP's retries between two live processes, does it
unless the fault is on the host's side; the edge then finds out like with a
vanished host. A dead connection ends only with the host's process.

**Nv12Layout** follows one picture through the sizes, in arithmetic modulo `Word`
(2^32 in the code). A plane is known by the end of the last write to it.

What stands for code outside the repository (codec, GStreamer, TCP, clock,
`shared_ptr` counts) is marked external in the map.

## 4. Runs

Definitions whose comment begins with "Mutant:" are plausible bugs, used to make sure that
each property can fail; no specification uses them.

| Run | Asks | Result |
|---|---|---|
| `encoder` | custody, no use after free, no leak, no lost wakeup, stable packets, each step of `encode()` brings its return nearer, it returns, implements BufferLease | holds, 5 608 states |
| `edge_video` | no tearing, order on the wire, implements LossyFifo, encoder outlives packets, everything released, each step of the shutdown brings its end nearer, it ends, packets come home | holds, 47 965 states |
| `video_receiver` | references balanced, no callback after stop, sink touched only by the GUI thread while it exists, implements LossyFifo, `stop()` waits for one callback at most and returns, pictures are shown | holds, 32 401 states |
| `param_channel` | ranges, never stranded, answers in order, last set wins, reconnects | holds, 468 312 states |
| `status_channel` | truthful rate, no rate without a connection or from an earlier process, display follows and host reconnects unless left on a dead connection | holds, 539 720 states |
| `nv12_layout` | both conversions inside their buffers, picture fills its buffer | holds, 4 840 states |
| `never_blocked` | "never blocks the encoding thread" (`udp_streamer.cpp:42`) | violated: the pool runs dry |
| `sync_encode` | "encodes one frame synchronously" (`hal_Encoder.hpp:76`) | violated: a late stream shifts every later one |
| `every_answer` | "handles glued and broken packets" (`paramclient.h:35`) | violated: `m_buffer` survives the connection |
| `silent_loss` | "waits for the automatic reconnection" (`OPTIMIZATION...md:426`) | violated: `recv()` never returns |
| `silent_edge` | the same promise for a restart of the edge | violated: the status client never hears of the loss |
| `real_time_fps` | "real-time frame rate" (`thread_monitor.cpp:17`) | violated: nobody updates it when frames stop |

Some remarks on what the properties say. `AnswersInOrder` allows the first answer
on a connection to be missing, which is exactly what `every_answer` shows to
happen. `FpsTruthful` speaks of windows in which every tick had a frame, and
allows one frame more than the rate, because the frame that closes a window is
counted in it. `StatusReconnect` and `DisplayFollows` end in "or dead for good": this is
the part of the promise the code does not keep, and `EdgeRestartHeals`, the same
without the exception, is refuted by `silent_edge` already when the host never
restarts and no link breaks. What is left says that every loss the host can
notice is repaired, and that a dead client, or one that left, never blocks the
server for its successor. `NoGhostRate` lets the old rate stand on a connection
the edge has ended, until the host is told, or for ever if it is not.

### Bounds

* Encoder: 3 buffers, 2 retries, a codec that holds 2 pictures, 4 pictures, 2
  holders. Three buffers let one be written, one lent and one idle; four
  pictures use the whole pool and once more. The video path has 3 buffers, 3
  retries as in the code, 5 pictures and an appsrc queue of 2, so that the pool
  can run dry with one packet in udpsink and a stream can come late twice. (With
  the code's 5 buffers and 3 queued packets, 7 pictures, the same properties
  hold over 388 136 states.) The violation runs use 2 buffers, which are enough.
* VideoReceiver: 4 pictures, 3 starts: a stop with frames queued, a failed start
  with a partial pipeline, and a start after each.
* ParamChannel: 2 sets, 1 restart of the edge and 1 restart or broken link of the
  host, hence up to 3 connections, 3
  values of which one is out of range, one name the table lacks. A backlog of 2
  is what Linux keeps for `listen(..., 1)`.
* StatusChannel: 2 ticks to a second, at most 1 frame a tick, 1 restart of the
  edge and 1 restart or broken link of the host, 1 report in a socket's buffer:
  enough for a host behind its own vanished connection in the backlog, an edge
  that restarts under a dead connection, and both.
* Nv12Layout: widths around 16 and 32, odd and even heights, and a word of 768
  so that the largest products wrap around.

`MaxFrames`, `MaxSets` and `MaxRestarts` are guards of the actions they limit and not state
constraints, so that liveness is checked on a complete graph. Deadlock is not
checked: after shutdown, or with the bounds used up, the system really stops.

### Fairness

* `Encoder`: weak fairness of the step of `encode()` only. The thread is runnable
  or in a timed wait or sleep. No holder is ever made to drop a packet.
* `EdgeVideo`: Vision_thread's steps, since each call it makes returns (V4L2 read
  timeout, 2 s wait, 3 retries), and the streaming thread's: it takes the next
  packet while the pipeline plays and finishes the one it is at. Nothing is
  assumed of main, the signal or the codec.
* `VideoReceiver`: `stop()` and `start()` go on when nothing holds them, a callback
  ends, and `Render` is strongly fair: Qt's event loop takes events in the order
  in which they were posted, so clicks cannot keep a frame waiting, although
  each of them disables the loop for a while. Pictures, clicks, errors and the
  closing of the window are free.
* The channels: the Qt event loop and the server thread run. Restarts, sets, frames and
  failures are free. TCP delivers on a connection both ends have; it gives up
  on a vanished peer only when data is unacknowledged, which is why the status
  server recovers, and the parameter server and the status client do not.

## 5. Proofs

`EncoderProofs` proves, for every pool size, retry limit, codec depth, number of
pictures and set of holders (`EncoderAssumption`): `TypeCorrect`, `Custody`, `MemorySafe`,
`AllFreed`, `WakeupKept`, the action properties `PacketStable` and `EncodeNearsReturn`, and
`Refinement` (`Spec => Lease!Spec`).

The inductive invariant is

    Inv == TypeOK /\ Protocol /\ ExclusiveCustody /\ Memory /\ NoLostWakeup

Custody alone is not inductive: that `GiveBack` does not push a buffer twice
needs that the thread holds exactly `cur` at that point, and that nothing is queued
or lent before `open()` (`Protocol`). That a packet is in the heap after `close()`
needs that the pool lives as long as something is lent, and that it is empty
and freed when it does not (`Memory`). The proof has one lemma per action, resting
on lemmas about what the queue holds after a push and a pop. The action
property follows from the invariant because only `GetStream` writes a buffer, and
then nobody holds it. For the refinement each action is shown to move one
buffer (`OneMoves`), none (`NoneMoves`, `StutterSteps`) or all of them to "gone"
(`DisposeSteps`).

`EncodeNearsReturn` is the safety half of `EncodeReturns`. `StepsLeft` bounds what `encode()`
may still do, point by point: attempts left, one sleep, the step that gives
the buffer back. Every step of `encode()` makes it smaller (`EncodeStepShorter`) and no
other thread's step makes it larger (`OthersNoLonger`); the second needs that a
deleter leaves the queue non-empty when it wakes the sleeper, and both that a
fetch has an attempt left (`Protocol`). Hence `encode()` makes at most `MaxRetries` + 4
steps, whatever the codec and the holders do. That the thread takes them is the
fairness of `FairSpec`, which stays with TLC.

`EdgeVideoProofs` proves, for every pool, retry limit, codec depth, number of
pictures and limit of appsrc's queue, `VideoTyped`, `NeverTorn`, `NeverOvertaken`, `PacketsComeFirst`,
`EverythingReleased`, the action property `ShutdownNearsEnd`, `VideoRefinement`
(`VideoSpec => ImplementsFifo`) and `VideoUsesEncoder` (`VideoSpec => Spec`). `EdgeVideoAssumption`
gives the encoder's constants the values they have here: the holders are
"vision" and "gst", "vision" is the caller, and malloc succeeds. The inductive
invariant is

    VInv == VideoTypeOK /\ Inv /\ Control /\ Loans /\ Order

where `Inv` is the encoder's, because each step of the video path is a step of the
encoder or leaves it alone (`EncoderSteps`). `AllReleased` needs what is open at each
point of Vision_thread (`Control`), `NoTearing` that the holders of a buffer are
exactly those who have a packet of it (`Loans`). Two packets never share a buffer,
since they carry different pictures, and that they do is `Order`: the pictures that
were sent, that GStreamer has, that is about to be pushed and those in the codec
are in this order. So one invariant gives memory safety, order and the
refinement, and none of the three is inductive without the others.

`VideoUsesEncoder` is the composition: the guards of `Encoder` are no restriction on what
Vision_thread and GStreamer do, so the encoder's theorems hold of it in its
place (`VideoLeases` and `VideoEncodeNearsReturn` are two). `ShutdownNearsEnd` adds to `StepsLeft` what is
left of Vision_thread's program (`VisionLeft`) and the packets to flush. After the
signal each of its steps makes the sum smaller, and no step of the others makes
it larger; the one picture that may still be under way is counted before it is
given to the codec.

`Nv12Proofs` proves, for every word size divisible by 16 and all sizes at least 16
below it (`Nv12Assumption`), that `Stride` and `EvenHeight` return the next multiple
(`StrideAligns`, `HeightAligns`), that rows fit where larger rows do (`RowsFit`), and
from these `LayoutTyped`, `PlanesFit` and `PictureFits`. The invariant says that each buffer is
untouched or holds exactly one picture; the bounds are then arithmetic about
that picture.

`VideoReceiverProofs` proves, for any number of pictures and starts, `TypeCorrect`,
`Balanced`, `CallbackSafety`, the action properties `RenderedOnGui` and `StopNearsReturn`, and
`Refinement` (`Spec => Fifo!Spec`). The inductive
invariant is

    Inv == TypeOK /\ Control /\ owned = Held /\ Threads /\ Quiet /\ Order

`ReferencesBalanced` needs that the GUI thread reaches the places where it builds
a pipeline or ends with none left (`Control`); `CallbackSafe` that a pipeline which
plays or calls back is the receiver's own and has its appsink (`Threads`), which
`StopDone` keeps because it waits for the callback. `StopNearsReturn` needs that no pipeline
plays while `stop()` waits (`Quiet`): then no callback begins, and the one that runs
has two steps at most. (`StopReturns` alone would not notice a `stop()` that waits before it
changes the state, because the pictures of a run are bounded.) The refinement maps `pending` to
the queued frames and the one in the callback; `Order` says that they are newer
than the one shown and that the one in the callback is newest, so a frame that
is posted goes behind older ones, and one that is shown leaves newer ones.
Lemmas about the elements of a queue after a push and a pop carry it.

`LossyFifoProofs` proves once what both implementations get: nothing that may still
come out is older than what did (`AlwaysOrdered`), and a picture that comes out is
newer than all before (`NeverBack`). `WireNeverBack` and `ScreenNeverBack` carry this over to
udpsink and to the screen through the two refinements.

`CpuUsage` proves that the share is exact and in 0..100 percent as long as the
counters grow, whatever they were and however long ago (`UsageInRange`), and that
the assumption is needed: one tick back of the idle counter gives more than 100
percent (`UsageAboveWhole`).

`StatusProofs` proves, for any length of the window, frame rate, backlog, socket
buffer and number of restarts (`StatusAssumption`), `TypeCorrect`, `NoGhost` and the action
property `Truthful`. The inductive invariant is

    Inv == TypeOK /\ Metered /\ Held /\ Counted /\ Sourced

`FpsTruthful` needs to know what the counter holds when the window is over
(`Metered`): at most `Rate` a tick, and in a steady window one for each tick before
the last. `NoGhostRate` is about the label; that it stays true needs that a rate
other than 0 which is still in a report or in a socket comes from this process
or travels on a connection that was cut (`Sourced`), and that a connection which
was not cut is one the edge still holds (`Held`, which also says that the host's own
end is alive unless the connection is dead). `Counted` bounds the
connections by the restarts and broken links, so that the numbers suffice: an
edge that listens has used up a restart for each connection but the host's,
and for that one too once it is cut or dead.

`ParamProofs` proves, for any table of parameters, values, names, backlog, sets
and restarts, with and without silent loss (`ParamAssumption`), `TypeCorrect`, which
says that no set takes a stored value out of its range, and `TimerKept`. The
inductive invariant is

    Inv == TypeOK /\ Carried /\ Counted /\ NeverStranded

A stored value comes out of the line buffer, so typing needs what the two
directions carry (`Carried`): requests up, answers down. A new connection takes a
restart or a broken link, because a host drops its connection only when the
edge ended it or it restarts itself (`Counted`).

`AnswersKept` and `LastSetKept` need more, and rest on `ConversationKept`:

    Spec => [](Inv /\ Conversation)

As long as a connection is whole, what was asked on it splits in two places
(`Talks`): the answers to the sets up to `i` were read, those up to `j` are on their way
down, the sets behind `j` are on their way up (`Told`). That alone is not inductive.
A chunk may end inside a line, so each reader has to be in step with its queue
(`InStep`): it holds the head of the line whose tail comes next, or nothing. The
edge's buffer is new with each connection and always in step (`EdgeReader`); the
host's `m_buffer` may hold the rest of an earlier connection until the first line
has come (`HostReader`), and this is where the first answer is lost, and the only
place (`lost`). The values follow because the first `j` sets are executed, in order
and with nobody else's after them (`Executed`): sets of an earlier host are over
when its connection is, since the edge serves one client at a time. Lemmas on
what a queue carries after a push and a pop (`CarriesPush`, `CarriesPop`), and one lemma for
each action that reads or writes a whole connection, carry the induction.
`OneAnswerAtMost` sums up what is left of the promise that the run `every_answer` refutes.

Only model-checked is liveness (`EncodeReturns`, `ShutdownEnds`, `PacketComesHome`, `StopReturns`,
`PictureShown`, `AutoReconnect`, `StatusReconnect`, `DisplayFollows`): the prover does not reason about
fairness, which rests on ENABLED. For three of them (`EncodeReturns`, `ShutdownEnds`,
`StopReturns`) the measure that decreases is proved, as `EncodeAdvances`, `ShutdownAdvances` and
`StopAdvances`; what TLC adds is that a step remains possible until the end and that a
fair scheduler takes it. Every safety and action property and every refinement
that a passing run checks is also a theorem. What the violation runs refute
has no theorem, of course.

## 6. Not modelled

* The reading of `/proc` and `/sys`, the temperature and the BPU load, thread
  affinity, configuration loading and QML layout: input and presentation.
* What the sliders show. A slider is written by the operator only and no message
  carries the edge's values back, so nothing relates the two; the models have
  what the edge stores.
* The length of Qt's event queue when the GUI is slow: it has no bound in the
  code, and any bound in a model would be the model's.
* A guess whether a pipeline that was set to PLAYING plays: the receiver does not
  ask, and keeps no state that could be wrong.
* `encode()` reading `m_is_opened` without its mutex: the program calls `encode()`
  and `close()` from one thread, and the models keep that.
* The size of a stream compared with `width * height`, and frames larger than
  configured: undefined behaviour, listed as hazards.
* Allocation failures other than those of the pool and the NV12 buffer.
* Destruction of static objects after main returns: the threads end with it.
  main() joins none of its detached threads (`server.cpp:73-78`), so that the process
  may end in the middle of their loop or shutdown; `EdgeVideo` has that end
  (`MainReturns`), and the properties about the shutdown except it.
* A parameter edge that vanishes silently: `EdgeStops` of `ParamChannel` always closes the
  connection, so `AutoReconnect` is about losses the host is told of. The client would
  find out about another one only by a set it sends; without one it stays
  connected like the status client of `silent_edge`.
* A sink that stalls for good: `PacketComesHome` and the fairness of the streaming thread
  assume that each packet is sent; what the encoder does while packets are out
  is `never_blocked` and `EncodeReturns`.
* What a codec does with the null pointer of a failed allocation: `encode()` ends in
  "crashed", `NoUseAfterFree` exempts it and `EncodeReturns` counts it as an end.
* The size given to `encoder.open()`, which is the configured and not the aligned one
  although `hal_Encoder.hpp:56-57` asks for the frame's, and sizes whose products exceed
  32 bits: the bounds of `Nv12Layout` are stated under `NoWrap`.
