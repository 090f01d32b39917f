---------------------------- MODULE ParamChannel ----------------------------
(***************************************************************************)
(* The parameter control channel: ParamClient of the host station, TCP     *)
(* (external) and ParamControlThread of the edge board.                    *)
(*                                                                         *)
(* Both sides exchange lines, and TCP keeps their bytes in order but cuts  *)
(* them anywhere. A line is two pieces here, its head and its tail with    *)
(* the newline, received one at a time: a chunk of several pieces is       *)
(* handled as those pieces are, one after another. Connections are         *)
(* numbered; one that was established may outlive the host that made it.   *)
(***************************************************************************)
EXTENDS Integers, Sequences, SequencesExt

CONSTANTS
  ParamTable,    \* g_paramTable: name -> [min, max, init]
  OtherNames,    \* names that are not in the table
  Values,        \* values a param_set may carry
  Backlog,       \* connections the kernel keeps for listen(..., 1)
  MaxSets,       \* bound: calls of setParam that find the channel online
  MaxRestarts,   \* bound: restarts of each side, broken links with the host's
  SilentLoss     \* whether a host may vanish without closing its connection

Names == DOMAIN ParamTable

ASSUME ParamAssumption ==
  /\ \A n \in Names : ParamTable[n].init \in ParamTable[n].min..ParamTable[n].max
  /\ Names \cap OtherNames = {}
  /\ Backlog \in Nat \ {0}
  /\ MaxSets \in Nat /\ MaxRestarts \in Nat
  /\ SilentLoss \in BOOLEAN

VARIABLES
  \* host
  hstate,    \* state() of m_socket
  hconn,     \* the connection m_socket is on; 0 if none
  timer,     \* m_reconnectTimer->isActive()
  hbuf,      \* m_buffer: the pieces of an incomplete line
  asked,     \* the sets written on hconn
  acked,     \* the answers paramAckReceived announced for hconn
  \* edge
  running,   \* g_running
  ethread,   \* ParamControlThread: blocked in "accept" or "recv", "ended",
             \* or "off" with the whole process
  econn,     \* client_socket
  ebuf,      \* buffer
  param,     \* the atomics the table points to
  \* network
  backlog,   \* connections established and not yet accepted
  up, down,  \* per connection, the pieces on their way to edge and to host
  conns,     \* connections established so far
  sets, hrestarts, erestarts    \* counters of the bounds

host == <<hstate, hconn, timer, hbuf, asked, acked>>
edge == <<running, ethread, econn, ebuf, param>>
counters == <<sets, hrestarts, erestarts>>
vars == <<host, edge, backlog, up, down, conns, counters>>

Connections == 1..(2 * MaxRestarts + 1)
Requests == [name : Names \cup OtherNames, value : Values]

----------------------------------------------------------------------------
(* Lines and pieces                                                        *)

Line(m) == <<[part |-> "head", msg |-> m], [part |-> "tail", msg |-> m]>>
Fin == [part |-> "fin"]

\* What is complete once piece p has been appended to buf: a message if the
\* line is one, nothing if it is not finished or does not parse.
Parsed(buf, p) ==
  IF p.part = "tail" /\ buf = <<[part |-> "head", msg |-> p.msg]>>
    THEN <<p.msg>> ELSE <<>>
Rest(buf, p) == IF p.part = "tail" THEN <<>> ELSE Append(buf, p)

\* A connection is cut: what was on the way may be lost from some piece on.
CutTo(q, k) == Append(SubSeq(q, 1, k), Fin)

Init ==
  /\ hstate = "connecting" /\ hconn = 0 /\ timer = FALSE
  /\ hbuf = <<>> /\ asked = <<>> /\ acked = <<>>
  /\ running = TRUE /\ ethread = "accept" /\ econn = 0 /\ ebuf = <<>>
  /\ param = [n \in Names |-> ParamTable[n].init]
  /\ backlog = <<>>
  /\ up = [c \in Connections |-> <<>>]
  /\ down = [c \in Connections |-> <<>>]
  /\ conns = 0
  /\ sets = 0 /\ hrestarts = 0 /\ erestarts = 0

----------------------------------------------------------------------------
(* Host: ParamClient                                                       *)

Listening == ethread \in {"accept", "recv"}
Reachable == Listening /\ Len(backlog) < Backlog

\* The timer's timeout: connectToServer() acts on an unconnected socket.
TimerFires ==
  /\ timer /\ hstate = "unconnected"
  /\ hstate' = "connecting"
  /\ UNCHANGED <<hconn, timer, hbuf, asked, acked, edge, backlog, up, down,
                 conns, counters>>

\* Signal connected. The edge need not have called accept() yet. m_buffer
\* is not cleared.
Connected ==
  /\ hstate = "connecting" /\ Reachable
  /\ conns' = conns + 1
  /\ hstate' = "connected" /\ hconn' = conns + 1
  /\ timer' = FALSE
  /\ asked' = <<>> /\ acked' = <<>>
  /\ backlog' = Append(backlog, conns + 1)
  /\ UNCHANGED <<hbuf, edge, up, down, counters>>

\* Mutant: nothing restarts the timer.
LoseSocketForGood ==
  /\ hstate' = "unconnected" /\ hconn' = 0
  /\ UNCHANGED <<timer, hbuf, asked, acked>>

\* onSocketError() and the signal disconnected: the socket is aborted and
\* the timer runs, if it did not already. abort() emits disconnected inside the
\* handler of the error, so both are one event of the GUI loop.
LoseSocket ==
  /\ hstate' = "unconnected" /\ hconn' = 0
  /\ timer' = TRUE
  /\ UNCHANGED <<hbuf, asked, acked>>

ConnectFails ==
  /\ hstate = "connecting" /\ ~Reachable
  /\ LoseSocket
  /\ UNCHANGED <<edge, backlog, up, down, conns, counters>>

\* onReadyRead(): one more piece is read and a complete line is parsed.
HostReads ==
  /\ hstate = "connected" /\ down[hconn] # <<>>
  /\ LET p == Head(down[hconn]) IN
       /\ p.part # "fin"
       /\ acked' = acked \o Parsed(hbuf, p)
       /\ hbuf' = Rest(hbuf, p)
  /\ down' = [down EXCEPT ![hconn] = Tail(@)]
  /\ UNCHANGED <<hstate, hconn, timer, asked, edge, backlog, up, conns, counters>>

\* The remote side has closed.
HostClosed ==
  /\ hstate = "connected" /\ down[hconn] # <<>>
  /\ Head(down[hconn]).part = "fin"
  /\ LoseSocket
  /\ UNCHANGED <<edge, backlog, up, down, conns, counters>>

\* setParam(), online. (Offline it only writes a log line.)
SetParam(m) ==
  /\ hstate = "connected" /\ sets < MaxSets
  /\ sets' = sets + 1
  /\ up' = [up EXCEPT ![hconn] = @ \o Line(m)]
  /\ asked' = Append(asked, m)
  /\ UNCHANGED <<hstate, hconn, timer, hbuf, acked, edge, backlog, down,
                 conns, hrestarts, erestarts>>

\* The host's end of its connection goes. What was not written yet, or was
\* not read when a reset came, is lost; the edge may learn nothing of it.
HostEnds ==
  \/ /\ hstate = "connected"
     /\ \E k \in 0..Len(up[hconn]) : up' = [up EXCEPT ![hconn] = CutTo(@, k)]
  \/ /\ hstate # "connected" \/ SilentLoss
     /\ UNCHANGED up

\* The application ends and is started again.
HostRestarts ==
  /\ hrestarts < MaxRestarts
  /\ hrestarts' = hrestarts + 1
  /\ hstate' = "connecting" /\ hconn' = 0 /\ timer' = FALSE
  /\ hbuf' = <<>> /\ asked' = <<>> /\ acked' = <<>>
  /\ HostEnds
  /\ UNCHANGED <<edge, backlog, down, conns, sets, erestarts>>

\* The network fails and both processes live on: onSocketError().
LinkBreaks ==
  /\ hstate = "connected" /\ hrestarts < MaxRestarts
  /\ hrestarts' = hrestarts + 1
  /\ LoseSocket
  /\ HostEnds
  /\ UNCHANGED <<edge, backlog, down, conns, sets, erestarts>>

----------------------------------------------------------------------------
(* Edge: ParamControlThread                                                *)

InRange(m) ==
  /\ m.name \in Names
  /\ m.value \in ParamTable[m.name].min..ParamTable[m.name].max

Ack(m) == [name |-> m.name, value |-> m.value, ok |-> InRange(m)]

\* The connections the edge holds: the one served and the ones waiting.
Clients == ToSet(backlog) \cup ({econn} \ {0})

\* g_running is false: the client and the listening socket are closed and
\* the thread ends. d is what was on its way down.
Leave(d) ==
  /\ ethread' = "ended" /\ econn' = 0 /\ backlog' = <<>>
  /\ down' = [c \in Connections |-> IF c \in Clients THEN Append(d[c], Fin) ELSE d[c]]

\* Mutant: the buffer outlives its connection.
AcceptKeepsBuffer ==
  /\ ethread = "accept" /\ backlog # <<>>
  /\ IF running
       THEN /\ ethread' = "recv" /\ econn' = Head(backlog)
            /\ backlog' = Tail(backlog)
            /\ UNCHANGED down
       ELSE Leave(down)
  /\ UNCHANGED <<host, running, ebuf, param, up, conns, counters>>

\* accept() returns the oldest connection. The buffer is a new one.
Accept ==
  /\ ethread = "accept" /\ backlog # <<>>
  /\ ebuf' = <<>>
  /\ IF running
       THEN /\ ethread' = "recv" /\ econn' = Head(backlog)
            /\ backlog' = Tail(backlog)
            /\ UNCHANGED down
       ELSE Leave(down)
  /\ UNCHANGED <<host, running, param, up, conns, counters>>

\* Mutant: the table's limits are not looked at.
StoreUnchecked(ms) ==
  param' = [n \in Names |->
    IF \E i \in DOMAIN ms : ms[i].name = n THEN ms[1].value ELSE param[n]]

\* A set in range is stored.
Store(ms) ==
  param' = [n \in Names |->
    IF \E i \in DOMAIN ms : ms[i].name = n /\ InRange(ms[i])
      THEN ms[1].value ELSE param[n]]

\* Mutant: only a stored set is answered.
AnswerStored(ms) == IF ms # <<>> /\ InRange(ms[1]) THEN Line(Ack(ms[1])) ELSE <<>>

\* Every set is answered, also a refused one.
Answer(ms) == IF ms # <<>> THEN Line(Ack(ms[1])) ELSE <<>>

\* recv() returns one more piece; a complete line is executed and answered.
Recv ==
  /\ ethread = "recv" /\ up[econn] # <<>>
  /\ LET p == Head(up[econn])
         ms == Parsed(ebuf, p)
         sent == [down EXCEPT ![econn] = @ \o Answer(ms)]
     IN  /\ p.part # "fin"
         /\ ebuf' = Rest(ebuf, p)
         /\ Store(ms)
         /\ IF running
              THEN down' = sent /\ UNCHANGED <<ethread, econn, backlog>>
              ELSE Leave(sent)
  /\ up' = [up EXCEPT ![econn] = Tail(@)]
  /\ UNCHANGED <<host, running, conns, counters>>

\* Mutant: a recv() that returns 0 is tried again.
RecvEndIgnored ==
  /\ ethread = "recv" /\ up[econn] # <<>> /\ Head(up[econn]).part = "fin"
  /\ UNCHANGED vars

\* recv() returns 0 or fails: the client has closed. The next one is accepted.
RecvEnd ==
  /\ ethread = "recv" /\ up[econn] # <<>> /\ Head(up[econn]).part = "fin"
  /\ IF running
       THEN ethread' = "accept" /\ econn' = 0 /\ UNCHANGED <<backlog, down>>
       ELSE Leave(down)
  /\ UNCHANGED <<host, running, ebuf, param, up, conns, counters>>

\* The signal. accept() and recv() stay blocked: std::signal restarts them.
EdgeSignal ==
  /\ running /\ ethread # "off"
  /\ running' = FALSE
  /\ UNCHANGED <<host, ethread, econn, ebuf, param, backlog, up, down, conns,
                 counters>>

\* The process ends, because main() returned after the signal or because it
\* was killed. The kernel closes its connections; the board keeps its power.
EdgeStops ==
  /\ ethread # "off"
  /\ ethread' = "off" /\ econn' = 0 /\ backlog' = <<>>
  /\ \E k \in IF econn = 0 THEN {0} ELSE 0..Len(down[econn]) :
       down' = [c \in Connections |->
         IF c = econn THEN CutTo(down[c], k)
         ELSE IF c \in Clients THEN Append(down[c], Fin)
         ELSE down[c]]
  /\ UNCHANGED <<host, running, ebuf, param, up, conns, counters>>

\* A new process starts with the defaults. Its thread listens, or ends at
\* once because socket(), bind() or listen() failed.
EdgeStarts ==
  /\ ethread = "off" /\ erestarts < MaxRestarts
  /\ erestarts' = erestarts + 1
  /\ running' = TRUE
  /\ ethread' \in {"accept", "ended"}
  /\ ebuf' = <<>>
  /\ param' = [n \in Names |-> ParamTable[n].init]
  /\ UNCHANGED <<host, econn, backlog, up, down, conns, sets, hrestarts>>

----------------------------------------------------------------------------
HostStep == TimerFires \/ Connected \/ ConnectFails \/ HostReads \/ HostClosed
EdgeStep == Accept \/ Recv \/ RecvEnd

Next ==
  \/ HostStep
  \/ \E m \in Requests : SetParam(m)
  \/ HostRestarts \/ LinkBreaks
  \/ EdgeStep
  \/ EdgeSignal \/ EdgeStops \/ EdgeStarts

Spec == Init /\ [][Next]_vars

\* The host's event loop runs and the edge's thread is scheduled; TCP
\* delivers on a connection that both sides have. Restarts are not fair.
FairSpec == Spec /\ WF_vars(HostStep) /\ WF_vars(EdgeStep)

----------------------------------------------------------------------------
(* Properties                                                              *)

Piece == {Fin} \cup [part : {"head", "tail"}, msg : Requests]
              \cup [part : {"head", "tail"}, msg : {Ack(m) : m \in Requests}]

\* The type invariant. No set, whatever its name and value, takes a
\* parameter out of the range of its table entry.
TypeOK ==
  /\ hstate \in {"unconnected", "connecting", "connected"}
  /\ hconn \in 0..conns /\ timer \in BOOLEAN
  /\ hbuf \in Seq(Piece)
  /\ asked \in Seq(Requests) /\ acked \in Seq({Ack(m) : m \in Requests})
  /\ running \in BOOLEAN
  /\ ethread \in {"off", "accept", "recv", "ended"}
  /\ econn \in 0..conns /\ (ethread = "recv" <=> econn # 0)
  /\ ebuf \in Seq(Piece)
  /\ \A n \in Names : param[n] \in ParamTable[n].min..ParamTable[n].max
  /\ backlog \in Seq(Connections)
  /\ \A c \in Connections : up[c] \in Seq(Piece) /\ down[c] \in Seq(Piece)
  /\ conns \in 0..(2 * MaxRestarts + 1)

\* A host without a connection is trying to get one or will be woken by its
\* timer: no order of errors, disconnections and restarts strands it.
NeverStranded == hstate = "unconnected" => timer

Acks(ms) == [i \in DOMAIN ms |-> Ack(ms[i])]

\* Queue q holds the lines of ms[m + 1], ..., ms[n], in this order and
\* nothing else. The head of the first may have been read already.
Carries(q, ms, m, n) ==
  /\ Len(q) \in {2 * (n - m), 2 * (n - m) - 1}
  /\ \A k \in (m + 1)..n :
       LET t == Len(q) - 2 * (n - k)     \* where the tail of line k is
       IN  /\ q[t] = Line(ms[k])[2]
           /\ t > 1 => q[t - 1] = Line(ms[k])[1]

\* Online, and the connection has not been cut.
Whole(c) == hstate = "connected" /\ c \in Clients /\ c = hconn

\* On a connection the edge still holds, what the host asked is answered in
\* order, each set at most once and with the verdict for its own value: the
\* answers read, then those on their way down, then the sets on their way
\* up. At most the first answer is missing, when m_buffer held an unfinished
\* line of the last connection.
AnswersInOrder ==
  Whole(hconn) =>
    \E lost \in {0, 1}, i, j \in 0..Len(asked) :
      /\ lost <= i /\ i <= j
      /\ acked = Acks(SubSeq(asked, lost + 1, i))
      /\ Carries(down[hconn], Acks(asked), i, j)
      /\ Carries(up[hconn], asked, j, Len(asked))

\* Of the first n sets, number k is the last in range of its parameter.
LastInRange(k, n) ==
  /\ InRange(asked[k])
  /\ \A l \in (k + 1)..n : InRange(asked[l]) => asked[l].name # asked[k].name

\* Once the edge has read all that this host sent, each parameter has the
\* value of the last set of it that was in range, although earlier hosts'
\* sets may have been executed after this host connected.
LastSetWins ==
  Whole(hconn) /\ hconn = econn /\ up[hconn] = <<>> =>
    \A k \in 1..Len(asked) :
      LastInRange(k, Len(asked)) => param[asked[k].name] = asked[k].value

\* While the edge keeps listening, the host comes to be connected and served
\* and stays so, whatever restarts and broken links it was told of before. (Of
\* an edge that loses power nobody tells; StatusChannel has that case.)
AutoReconnect ==
  <>[](Listening /\ running) => <>[](hstate = "connected" /\ econn = hconn)

\* paramclient.h:35 says that m_buffer copes with lines that come glued or
\* broken: each set the edge has executed would be acknowledged to the UI.
EveryAnswer ==
  Whole(hconn) /\ down[hconn] = <<>> /\ up[hconn] = <<>> =>
    acked = Acks(asked)
=============================================================================
