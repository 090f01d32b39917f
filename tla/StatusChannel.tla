--------------------------- MODULE StatusChannel ---------------------------
(***************************************************************************)
(* The status channel: the frame-rate meter in Vision_thread's loop, the   *)
(* atomic g_camera_fps it feeds, NetworkMonitorThread that reports it once *)
(* a second, and SystemMonitor of the host station that shows it.          *)
(*                                                                         *)
(* Of a report only camera_fps is kept. Time is counted in ticks, Second   *)
(* ticks to a second of the meter's clock. TCP (external) delivers whole   *)
(* reports: canReadLine() waits for a newline, and the socket's buffer     *)
(* does not outlive the connection.                                        *)
(***************************************************************************)
EXTENDS Integers, Sequences, SequencesExt

CONSTANTS
  Second,        \* ticks in the 1000 ms of the meter's window
  Rate,          \* most frames the camera delivers in a tick
  Backlog,       \* connections the kernel keeps for listen(..., 1)
  SocketBuffer,  \* reports a connection holds before send() blocks
  MaxRestarts    \* bound: restarts of the edge; of the host, broken links included

ASSUME StatusAssumption ==
  /\ Second \in Nat \ {0} /\ Rate \in Nat \ {0}
  /\ Backlog \in Nat \ {0} /\ SocketBuffer \in Nat \ {0}
  /\ MaxRestarts \in Nat

VARIABLES
  \* meter, in Vision_thread
  fps,       \* g_camera_fps
  count,     \* frame_count
  age,       \* ticks since fps_start_time, counted up to 2 * Second
  inTick,    \* frames in this tick
  steady,    \* every tick of this window so far had a frame
  idle,      \* ticks since the last frame, counted up to 2 * Second
  \* edge
  running,   \* g_running
  monitor,   \* NetworkMonitorThread: in "accept", "sleep" or "send",
             \* "ended", or "off" with the whole process
  mconn,     \* socket_client
  report,    \* the camera_fps in final_json_data
  \* host
  hstate, hconn, timer,    \* m_socket and m_reconnectTimer
  shown,     \* m_fps
  dead,      \* m_socket's connection is gone and nothing will say so
  \* network
  backlog,   \* connections established and not yet accepted
  wire,      \* per connection, reports on their way
  peer,      \* per connection, what became of the host's end
  cut,       \* connections the edge has closed
  conns, hrestarts, erestarts

meter == <<fps, count, age, inTick, steady, idle>>
edge == <<running, monitor, mconn, report>>
host == <<hstate, hconn, timer, shown, dead>>
net == <<backlog, wire, peer, cut, conns>>
vars == <<meter, edge, host, net, hrestarts, erestarts>>

Connections == 1..(2 * MaxRestarts + 1)
Horizon == 2 * Second

MeterStart ==
  /\ fps' = 0 /\ count' = 0 /\ age' = 0
  /\ inTick' = 0 /\ steady' = TRUE /\ idle' = 0

Init ==
  /\ fps = 0 /\ count = 0 /\ age = 0 /\ inTick = 0 /\ steady = TRUE /\ idle = 0
  /\ running = TRUE /\ monitor = "accept" /\ mconn = 0 /\ report = 0
  /\ hstate = "connecting" /\ hconn = 0 /\ timer = FALSE /\ shown = 0
  /\ dead = FALSE
  /\ backlog = <<>>
  /\ wire = [c \in Connections |-> <<>>]
  /\ peer = [c \in Connections |-> "none"]
  /\ cut = {}
  /\ conns = 0 /\ hrestarts = 0 /\ erestarts = 0

----------------------------------------------------------------------------
(* The meter                                                               *)

Capped(n) == IF n < Horizon THEN n + 1 ELSE n

Tick ==
  /\ monitor # "off"
  /\ age' = Capped(age) /\ idle' = Capped(idle)
  /\ steady' = (steady /\ inTick > 0)
  /\ inTick' = 0
  /\ UNCHANGED <<fps, count, edge, host, net, hrestarts, erestarts>>

\* Mutant: a window ends without a reset of frame_count.
PublishNoReset ==
  /\ fps' = count + 1
  /\ count' = count + 1
  /\ age' = 0 /\ steady' = TRUE

\* The window has lasted a second or more: its frames are the frame rate.
Publish ==
  /\ fps' = count + 1
  /\ count' = 0
  /\ age' = 0 /\ steady' = TRUE

\* A valid frame comes. Only then is the clock looked at.
Frame ==
  /\ monitor # "off" /\ inTick < Rate
  /\ inTick' = inTick + 1 /\ idle' = 0
  /\ IF age >= Second
       THEN Publish
       ELSE count' = count + 1 /\ UNCHANGED <<fps, age, steady>>
  /\ UNCHANGED <<edge, host, net, hrestarts, erestarts>>

----------------------------------------------------------------------------
(* Edge: NetworkMonitorThread                                              *)

Clients == ToSet(backlog) \cup ({mconn} \ {0})

\* g_running is false: client and listening socket are closed.
Leave ==
  /\ monitor' = "ended" /\ mconn' = 0 /\ backlog' = <<>>
  /\ cut' = cut \cup Clients

Accept ==
  /\ monitor = "accept" /\ backlog # <<>>
  /\ IF running
       THEN /\ monitor' = "sleep" /\ mconn' = Head(backlog)
            /\ backlog' = Tail(backlog)
            /\ UNCHANGED cut
       ELSE Leave
  /\ UNCHANGED <<meter, running, report, host, wire, peer, conns, hrestarts,
                 erestarts>>

\* Mutant: the report of the first pass is sent in every pass.
WakeOldReport ==
  /\ monitor = "sleep"
  /\ IF running
       THEN /\ monitor' = "send" /\ report' = (IF report = 0 THEN fps ELSE report)
            /\ UNCHANGED <<mconn, backlog, cut>>
       ELSE Leave /\ UNCHANGED report
  /\ UNCHANGED <<meter, running, host, wire, peer, conns, hrestarts, erestarts>>

\* After the sleep of a second the report is put together.
Wake ==
  /\ monitor = "sleep"
  /\ IF running
       THEN /\ monitor' = "send" /\ report' = fps
            /\ UNCHANGED <<mconn, backlog, cut>>
       ELSE Leave /\ UNCHANGED report
  /\ UNCHANGED <<meter, running, host, wire, peer, conns, hrestarts, erestarts>>

\* send() returns: to a host that is there or vanished while the buffer has
\* room, and once more to one that has closed, which answers with a reset.
\* The loop's test of g_running follows.
Sends ==
  /\ monitor = "send"
  /\ \/ /\ peer[mconn] \in {"alive", "vanished"}
        /\ Len(wire[mconn]) < SocketBuffer
        /\ wire' = [wire EXCEPT ![mconn] = Append(@, report)]
        /\ UNCHANGED peer
     \/ /\ peer[mconn] = "closed"
        /\ peer' = [peer EXCEPT ![mconn] = "reset"]
        /\ UNCHANGED wire
  /\ IF running
       THEN monitor' = "sleep" /\ UNCHANGED <<mconn, backlog, cut>>
       ELSE Leave
  /\ UNCHANGED <<meter, running, report, host, conns, hrestarts, erestarts>>

\* TCP gives up on data a vanished host does not acknowledge.
GiveUp ==
  /\ monitor = "send" /\ peer[mconn] = "vanished"
  /\ Len(wire[mconn]) = SocketBuffer
  /\ peer' = [peer EXCEPT ![mconn] = "reset"]
  /\ UNCHANGED <<meter, edge, host, backlog, wire, cut, conns, hrestarts,
                 erestarts>>

\* Mutant: the result of send() is not looked at.
SendErrorIgnored ==
  /\ monitor = "send" /\ peer[mconn] = "reset"
  /\ monitor' = "sleep"
  /\ UNCHANGED <<meter, running, mconn, report, host, net, hrestarts, erestarts>>

\* send() fails: the client is closed and the next one accepted.
SendFails ==
  /\ monitor = "send" /\ peer[mconn] = "reset"
  /\ IF running
       THEN /\ monitor' = "accept" /\ mconn' = 0 /\ cut' = cut \cup {mconn}
            /\ UNCHANGED backlog
       ELSE Leave
  /\ UNCHANGED <<meter, running, report, host, wire, peer, conns, hrestarts,
                 erestarts>>

EdgeSignal ==
  /\ running /\ monitor # "off"
  /\ running' = FALSE
  /\ UNCHANGED <<meter, monitor, mconn, report, host, net, hrestarts, erestarts>>

\* The process ends: the kernel closes its connections and may lose what it
\* still had to deliver. Or the board loses power: nobody closes anything.
EdgeStops ==
  /\ monitor # "off"
  /\ monitor' = "off" /\ mconn' = 0 /\ backlog' = <<>>
  /\ cut' = cut \cup Clients
  /\ \E k \in IF mconn = 0 THEN {0} ELSE 0..Len(wire[mconn]) :
       wire' = [c \in Connections |->
                  IF c = mconn THEN SubSeq(wire[c], 1, k) ELSE wire[c]]
  /\ dead' \in {dead, hstate = "connected"}
  /\ UNCHANGED <<meter, running, report, hstate, hconn, timer, shown, peer, conns,
                 hrestarts, erestarts>>

\* A new process; its monitor thread listens, or ends because it cannot.
EdgeStarts ==
  /\ monitor = "off" /\ erestarts < MaxRestarts
  /\ erestarts' = erestarts + 1
  /\ running' = TRUE /\ monitor' \in {"accept", "ended"}
  /\ report' = 0
  /\ MeterStart
  /\ UNCHANGED <<mconn, host, net, hrestarts>>

----------------------------------------------------------------------------
(* Host: SystemMonitor                                                     *)

Listening == monitor \in {"accept", "sleep", "send"}
Reachable == Listening /\ Len(backlog) < Backlog

TimerFires ==
  /\ timer /\ hstate = "unconnected"
  /\ hstate' = "connecting"
  /\ UNCHANGED <<meter, edge, hconn, timer, shown, dead, net, hrestarts, erestarts>>

Connected ==
  /\ hstate = "connecting" /\ Reachable
  /\ conns' = conns + 1
  /\ hstate' = "connected" /\ hconn' = conns + 1 /\ timer' = FALSE
  /\ backlog' = Append(backlog, conns + 1)
  /\ peer' = [peer EXCEPT ![conns + 1] = "alive"]
  /\ UNCHANGED <<meter, edge, shown, dead, wire, cut, hrestarts, erestarts>>

\* The attempt is refused or times out: onSocketError() aborts it.
ConnectFails ==
  /\ hstate = "connecting" /\ ~Reachable
  /\ hstate' = "unconnected" /\ timer' = TRUE
  /\ UNCHANGED <<meter, edge, hconn, shown, dead, net, hrestarts, erestarts>>

\* The host only reads, without a timeout or keepalive: on a dead connection
\* onReadyRead() has taken what arrived, and nothing ever comes again.
HostReads ==
  /\ hstate = "connected" /\ ~dead /\ wire[hconn] # <<>>
  /\ shown' = Head(wire[hconn])
  /\ wire' = [wire EXCEPT ![hconn] = Tail(@)]
  /\ UNCHANGED <<meter, edge, hstate, hconn, timer, dead, backlog, peer, cut, conns,
                 hrestarts, erestarts>>

\* Mutant: the frame rate of the lost connection stays on the display.
LoseSocketKeepsFps ==
  /\ hstate' = "unconnected" /\ hconn' = 0 /\ timer' = TRUE
  /\ UNCHANGED shown

\* onSocketError() and the signal disconnected, which abort() emits inside it:
\* one event of the GUI loop.
LoseSocket ==
  /\ hstate' = "unconnected" /\ hconn' = 0 /\ timer' = TRUE
  /\ shown' = 0

HostClosed ==
  /\ hstate = "connected" /\ ~dead /\ hconn \in cut /\ wire[hconn] = <<>>
  /\ LoseSocket
  /\ peer' = [peer EXCEPT ![hconn] = "closed"]
  /\ UNCHANGED <<meter, edge, dead, backlog, wire, cut, conns, hrestarts, erestarts>>

\* The link breaks between two live processes, and no end of the connection
\* reaches the other any more. The host is told, when the fault is on its own
\* side, or it is not; the edge finds out when TCP gives up on a report.
LinkBreaks ==
  /\ hstate = "connected" /\ ~dead /\ hrestarts < MaxRestarts
  /\ hrestarts' = hrestarts + 1
  /\ peer' = [peer EXCEPT ![hconn] = "vanished"]
  /\ \/ LoseSocket /\ UNCHANGED dead
     \/ dead' = TRUE /\ UNCHANGED <<hstate, hconn, timer, shown>>
  /\ UNCHANGED <<meter, edge, backlog, wire, cut, conns, erestarts>>

\* The host's application, or the whole host, goes and comes back. In the
\* second case, or when the connection is dead, the edge is not told.
HostRestarts ==
  /\ hrestarts < MaxRestarts
  /\ hrestarts' = hrestarts + 1
  /\ hstate' = "connecting" /\ hconn' = 0 /\ timer' = FALSE /\ shown' = 0
  /\ dead' = FALSE
  /\ IF hstate = "connected" /\ ~dead
       THEN \E end \in {"closed", "vanished"} : peer' = [peer EXCEPT ![hconn] = end]
       ELSE UNCHANGED peer
  /\ UNCHANGED <<meter, edge, backlog, wire, cut, conns, erestarts>>

----------------------------------------------------------------------------
MonitorStep == Accept \/ Wake \/ Sends \/ GiveUp \/ SendFails
HostStep == TimerFires \/ Connected \/ ConnectFails \/ HostReads \/ HostClosed

Next ==
  \/ Tick \/ Frame
  \/ MonitorStep
  \/ EdgeSignal \/ EdgeStops \/ EdgeStarts
  \/ HostStep \/ HostRestarts \/ LinkBreaks

Spec == Init /\ [][Next]_vars

\* The monitor's sleeps and sends end (TCP gives up on a vanished peer) and
\* the host's event loop runs. The camera may stop.
FairSpec == Spec /\ WF_vars(MonitorStep) /\ WF_vars(HostStep)

----------------------------------------------------------------------------
(* Properties                                                              *)

MaxCount == Rate * (Horizon + 1)

\* The type invariant.
TypeOK ==
  /\ fps \in 0..MaxCount /\ count \in 0..MaxCount
  /\ age \in 0..Horizon /\ idle \in 0..Horizon
  /\ inTick \in 0..Rate /\ steady \in BOOLEAN
  /\ running \in BOOLEAN
  /\ monitor \in {"off", "accept", "sleep", "send", "ended"}
  /\ mconn \in 0..conns /\ (monitor \in {"sleep", "send"} <=> mconn # 0)
  /\ report \in 0..MaxCount /\ shown \in 0..MaxCount
  /\ hstate \in {"unconnected", "connecting", "connected"}
  /\ hconn \in 0..conns /\ timer \in BOOLEAN
  /\ dead \in BOOLEAN /\ (dead => hstate = "connected")
  /\ backlog \in Seq(Connections)
  /\ \A c \in Connections : /\ wire[c] \in Seq(0..MaxCount)
                            /\ Len(wire[c]) <= SocketBuffer
                            /\ peer[c] \in {"none", "alive", "closed",
                                            "vanished", "reset"}
  /\ cut \subseteq 1..conns
  /\ conns \in 0..(2 * MaxRestarts + 1)

\* While the camera delivers in every tick the published rate is that of the
\* camera: at least one frame a tick, at most Rate a tick and the frame that
\* closes the window.
FpsTruthful ==
  [][age >= Second /\ age' = 0 /\ steady /\ erestarts' = erestarts
       => fps' \in Second..(Rate * Second + 1)]_vars

\* Main.qml shows ONLINE while the rate is not 0. It never does so without a
\* connection; and on one that the running edge process has accepted or will
\* accept only once that process has measured a rate, whatever reports of an
\* earlier process were on their way. On a connection the edge has ended the
\* old rate stays until the host is told.
Online == shown > 0
NoGhostRate ==
  Online => hstate = "connected" /\ (hconn \in cut \/ fps > 0)

\* While the edge keeps listening the host ends up connected and served, or on
\* a dead connection for good. A client that closed or vanished, or whose link
\* broke, is found out by the reports sent to it and does not block the server;
\* and a host that is told of a loss, in whatever state, comes back.
Served == hstate = "connected" /\ mconn = hconn
StatusReconnect ==
  <>[](Listening /\ running) => <>[]Served \/ <>[]dead

\* When the edge keeps listening and its rate settles, the display comes to
\* show that rate and stays with it, after any restarts, broken links and lost
\* reports, unless the host is left on a dead connection.
DisplayFollows ==
  \A r \in 0..(Rate * Second + 1) :
    <>[](Listening /\ running /\ fps = r) => <>[](shown = r) \/ <>[]dead

\* OPTIMIZATION_AND_PARAM_CONTROL.md:426: after a restart of either end the
\* other waits and is reconnected. A host that does not restart would be served
\* again by an edge that ended in whatever way and listens again.
EdgeRestartHeals ==
  [](hrestarts = 0) /\ <>[](Listening /\ running) => <>[]Served

\* thread_monitor.cpp:17 calls g_camera_fps the real-time frame rate: it
\* would be 0 when the camera has delivered nothing for two seconds.
RealTimeFps == idle >= 2 * Second => fps = 0
=============================================================================
