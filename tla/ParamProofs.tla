----------------------------- MODULE ParamProofs -----------------------------
(***************************************************************************)
(* ParamChannel's typing, the ranges of the parameters included, that no   *)
(* host is stranded, that answers come in order and that the last set of a *)
(* parameter wins, proved for any table of parameters, values, names,      *)
(* backlog, number of sets and of restarts, with or without silent loss.   *)
(***************************************************************************)
EXTENDS ParamChannel, SequenceTheorems, TLAPS

Answers == {Ack(m) : m \in Requests}
UpPiece == {Fin} \cup [part : {"head", "tail"}, msg : Requests]
DownPiece == {Fin} \cup [part : {"head", "tail"}, msg : Answers]

Ended(q) == \E i \in 1..Len(q) : q[i] = Fin

----------------------------------------------------------------------------
(* The inductive invariant                                                 *)

\* Requests go up and answers come down; the host closes its end last.
Carried ==
  /\ up \in [Connections -> Seq(UpPiece)] /\ ebuf \in Seq(UpPiece)
  /\ down \in [Connections -> Seq(DownPiece)] /\ hbuf \in Seq(DownPiece)
  /\ \A c \in Connections : c > conns => up[c] = <<>> /\ down[c] = <<>>
  /\ \A i \in 1..Len(backlog) : backlog[i] \in 1..conns
  /\ hstate = "connected" => hconn # 0 /\ ~Ended(up[hconn])

\* A new connection takes a restart of one side, or a broken link.
Counted ==
  /\ hrestarts \in 0..MaxRestarts /\ erestarts \in 0..MaxRestarts
  /\ conns <= hrestarts + erestarts + 1
  /\ Listening /\ (hstate = "connected" => Ended(down[hconn]))
       => conns <= hrestarts + erestarts

Inv == TypeOK /\ Carried /\ Counted /\ NeverStranded

----------------------------------------------------------------------------
(* Lines                                                                   *)

LEMMA Pieces ==
  /\ Fin \in UpPiece /\ Fin \in DownPiece
  /\ UpPiece \subseteq Piece /\ DownPiece \subseteq Piece
  /\ \A p \in UpPiece : p.part # "fin" => p # Fin
  /\ \A p \in DownPiece : p.part # "fin" => p # Fin
  BY DEF UpPiece, DownPiece, Piece, Answers, Fin

\* A line is two pieces and no end.
LEMMA LineTyped ==
  /\ \A m \in Requests : /\ Line(m) \in Seq(UpPiece) /\ Len(Line(m)) = 2
                         /\ \A i \in 1..2 : Line(m)[i] # Fin
  /\ \A m \in Answers : /\ Line(m) \in Seq(DownPiece) /\ Len(Line(m)) = 2
                        /\ \A i \in 1..2 : Line(m)[i] # Fin
  <1>1. ASSUME NEW m
        PROVE  /\ Len(Line(m)) = 2
               /\ Line(m)[1] = [part |-> "head", msg |-> m]
               /\ Line(m)[2] = [part |-> "tail", msg |-> m]
               /\ Line(m)[1] # Fin /\ Line(m)[2] # Fin
    BY DEF Line, Fin
  <1>2. \A m \in Requests : Line(m) \in Seq(UpPiece)
    BY DEF Line, UpPiece
  <1>3. \A m \in Answers : Line(m) \in Seq(DownPiece)
    BY DEF Line, DownPiece
  <1>4. ASSUME NEW m, NEW i \in 1..2 PROVE Line(m)[i] # Fin
    <2>1. i = 1 \/ i = 2
      OBVIOUS
    <2> QED BY <1>1, <2>1
  <1> QED BY <1>1, <1>2, <1>3, <1>4

\* What a piece completes is a request on the edge, an answer on the host.
LEMMA ParsedTyped ==
  /\ \A b, p : Parsed(b, p) = <<>> \/ (Parsed(b, p) = <<p.msg>> /\ p.part = "tail")
  /\ \A p \in UpPiece : p.part = "tail" => p.msg \in Requests
  /\ \A p \in DownPiece : p.part = "tail" => p.msg \in Answers
  BY DEF Parsed, UpPiece, DownPiece, Fin

LEMMA RestTyped ==
  ASSUME NEW S, NEW b \in Seq(S), NEW p \in S
  PROVE  Rest(b, p) \in Seq(S)
  BY AppendProperties DEF Rest

\* What is put behind a queue ends it only if it is the end.
LEMMA EndedConcat ==
  ASSUME NEW S, NEW q \in Seq(S), NEW r \in Seq(S), Ended(q \o r)
  PROVE  Ended(q) \/ Ended(r)
  <1>1. PICK i \in 1..Len(q \o r) : (q \o r)[i] = Fin
    BY DEF Ended
  <1>2. CASE i \in 1..Len(q)
    BY <1>1, <1>2 DEF Ended
  <1>3. CASE i \notin 1..Len(q)
    <2>1. i - Len(q) \in 1..Len(r) /\ (q \o r)[i] = r[i - Len(q)]
      BY <1>1, <1>3
    <2> QED BY <1>1, <2>1 DEF Ended
  <1> QED BY <1>2, <1>3

LEMMA EndedTail ==
  ASSUME NEW S, NEW q \in Seq(S), q # <<>>, Ended(Tail(q))
  PROVE  Ended(q)
  <1>1. PICK i \in 1..Len(Tail(q)) : Tail(q)[i] = Fin
    BY DEF Ended
  <1>2. i + 1 \in 1..Len(q) /\ q[i + 1] = Tail(q)[i]
    BY <1>1
  <1> QED BY <1>1, <1>2 DEF Ended

LEMMA CutTyped ==
  ASSUME NEW S, Fin \in S, NEW q \in Seq(S), NEW k \in 0..Len(q)
  PROVE  CutTo(q, k) \in Seq(S)
  BY DEF CutTo

----------------------------------------------------------------------------
LEMMA InvInitially == Init => Inv
  <1> SUFFICES ASSUME Init PROVE Inv
    OBVIOUS
  <1>0. /\ <<>> \in Seq(Piece) /\ <<>> \in Seq(Requests) /\ <<>> \in Seq(Answers)
        /\ <<>> \in Seq(Connections) /\ <<>> \in Seq(UpPiece) /\ <<>> \in Seq(DownPiece)
        /\ Len(<<>>) = 0
    OBVIOUS
  <1>1. TypeOK
    <2>1. conns = 0 /\ hconn \in 0..conns /\ econn \in 0..conns
      BY DEF Init
    <2>2. conns \in 0..(2 * MaxRestarts + 1)
      BY <2>1, ParamAssumption
    <2>3. \A n \in Names : param[n] \in ParamTable[n].min..ParamTable[n].max
      BY ParamAssumption DEF Init
    <2>4. \A c \in Connections : up[c] \in Seq(Piece) /\ down[c] \in Seq(Piece)
      BY <1>0 DEF Init
    <2> QED BY <1>0, <2>1, <2>2, <2>3, <2>4 DEF Init, TypeOK, Answers
  <1>2. Carried
    BY <1>0 DEF Init, Carried
  <1>3. Counted /\ NeverStranded
    BY ParamAssumption DEF Init, Counted, NeverStranded
  <1> QED BY <1>1, <1>2, <1>3 DEF Inv

LEMMA Basics ==
  ASSUME Inv
  PROVE  /\ TypeOK /\ Carried /\ Counted
         /\ conns \in Nat /\ 1..conns \subseteq Connections /\ Connections \subseteq Nat
         /\ hconn # 0 => hconn \in 1..conns
         /\ econn # 0 => econn \in 1..conns
         /\ ethread = "recv" <=> econn # 0
         /\ Clients \subseteq 1..conns
         /\ hrestarts \in Nat /\ erestarts \in Nat
  <1>1. TypeOK /\ Carried /\ Counted
    BY DEF Inv
  <1>2. /\ conns \in Nat /\ 1..conns \subseteq Connections /\ Connections \subseteq Nat
        /\ hconn # 0 => hconn \in 1..conns
        /\ econn # 0 => econn \in 1..conns
        /\ ethread = "recv" <=> econn # 0
        /\ hrestarts \in Nat /\ erestarts \in Nat
    BY <1>1, ParamAssumption DEF TypeOK, Connections, Counted
  <1>3. \A c \in ToSet(backlog) : c \in 1..conns
    <2> SUFFICES ASSUME NEW i \in DOMAIN backlog PROVE backlog[i] \in 1..conns
      BY DEF ToSet
    <2>1. DOMAIN backlog = 1..Len(backlog)
      BY <1>1 DEF TypeOK
    <2> QED BY <1>1, <2>1 DEF Carried
  <1> QED BY <1>1, <1>2, <1>3 DEF Clients

\* What the host sends and the edge has read.
LEMMA UpStep ==
  ASSUME Inv, [Next]_vars
  PROVE  /\ up' \in [Connections -> Seq(UpPiece)] /\ ebuf' \in Seq(UpPiece)
         /\ \A c \in Connections : (c > conns => up[c] = <<>>)'
         /\ (hstate = "connected" => hconn # 0 /\ ~Ended(up[hconn]))'
  <1> DEFINE Result ==
         /\ up' \in [Connections -> Seq(UpPiece)] /\ ebuf' \in Seq(UpPiece)
         /\ \A c \in Connections : (c > conns => up[c] = <<>>)'
         /\ (hstate = "connected" => hconn # 0 /\ ~Ended(up[hconn]))'
  <1>0. /\ TypeOK /\ Carried
        /\ conns \in Nat /\ 1..conns \subseteq Connections /\ Connections \subseteq Nat
        /\ hconn # 0 => hconn \in 1..conns
        /\ econn # 0 => econn \in 1..conns
        /\ ethread = "recv" <=> econn # 0
    BY Basics
  <1>1. CASE \/ TimerFires \/ ConnectFails \/ HostReads \/ HostClosed \/ Accept
             \/ RecvEnd \/ EdgeSignal \/ EdgeStops \/ EdgeStarts \/ UNCHANGED vars
    <2>1. /\ UNCHANGED <<up, conns>>
          /\ ebuf' = ebuf \/ ebuf' = <<>>
          /\ hstate' = "connected" => hstate = "connected" /\ hconn' = hconn
      BY <1>1 DEF TimerFires, ConnectFails, HostReads, HostClosed, Accept, RecvEnd,
                  EdgeSignal, EdgeStops, EdgeStarts, LoseSocket, vars, host, edge
    <2>2. ebuf' \in Seq(UpPiece)
      BY <1>0, <2>1, EmptySeq DEF Carried
    <2> QED BY <1>0, <2>1, <2>2 DEF Carried, Ended
  <1>2. CASE Connected
    <2>1. /\ UNCHANGED <<up, ebuf>> /\ conns' = conns + 1 /\ hconn' = conns + 1
      BY <1>2 DEF Connected, edge
    <2>2. conns + 1 \in Connections
      BY <1>0, <1>2, ParamAssumption
         DEF Connected, Reachable, Inv, Counted, Connections
    <2>3. up[conns + 1] = <<>> /\ ~Ended(<<>>)
      BY <1>0, <2>2 DEF Carried, Ended
    <2>4. ~Ended(up[hconn])'
      BY <2>1, <2>3 DEF Ended
    <2> QED BY <1>0, <2>1, <2>4 DEF Carried
  <1>3. ASSUME NEW m \in Requests, SetParam(m) PROVE Result
    <2>1. /\ hstate = "connected" /\ up' = [up EXCEPT ![hconn] = @ \o Line(m)]
          /\ UNCHANGED <<ebuf, conns, hstate, hconn>>
      BY <1>3 DEF SetParam, edge
    <2>2. hconn \in Connections /\ hconn \in 1..conns /\ ~Ended(up[hconn])
      BY <1>0, <2>1 DEF Carried
    <2>3. up[hconn] \in Seq(UpPiece) /\ Line(m) \in Seq(UpPiece) /\ ~Ended(Line(m))
      BY <1>0, <2>2, LineTyped DEF Carried, Ended
    <2>4. up[hconn] \o Line(m) \in Seq(UpPiece) /\ ~Ended(up[hconn] \o Line(m))
      BY <2>2, <2>3, EndedConcat
    <2>5. up'[hconn] = up[hconn] \o Line(m)
      BY <1>0, <2>1, <2>2 DEF Carried
    <2>6. ~Ended(up[hconn])'
      BY <2>1, <2>4, <2>5 DEF Ended
    <2>7. \A c \in Connections : c > conns => c # hconn
      BY <1>0, <2>2
    <2> QED BY <1>0, <2>1, <2>2, <2>4, <2>6, <2>7 DEF Carried
  <1>4. CASE HostRestarts \/ LinkBreaks
    <2>1. /\ HostEnds /\ UNCHANGED <<ebuf, conns>> /\ hstate' # "connected"
      BY <1>4 DEF HostRestarts, LinkBreaks, LoseSocket, edge
    <2>2. CASE up' = up
      BY <1>0, <2>1, <2>2 DEF Carried
    <2>3. CASE up' # up
      <3>1. PICK k \in 0..Len(up[hconn]) : up' = [up EXCEPT ![hconn] = CutTo(@, k)]
        BY <2>1, <2>3 DEF HostEnds
      <3>2. hconn \in 1..conns /\ hconn \in Connections
        BY <1>0, <2>1, <2>3 DEF HostEnds, Carried
      <3>3. CutTo(up[hconn], k) \in Seq(UpPiece)
        BY <1>0, <3>2, CutTyped, Pieces DEF Carried
      <3>4. \A c \in Connections : c > conns => c # hconn
        BY <1>0, <3>2
      <3> QED BY <1>0, <2>1, <3>1, <3>3, <3>4 DEF Carried
    <2> QED BY <2>2, <2>3
  <1>5. CASE Recv
    <2>1. /\ ethread = "recv" /\ up[econn] # <<>>
          /\ up' = [up EXCEPT ![econn] = Tail(@)]
          /\ ebuf' = Rest(ebuf, Head(up[econn]))
          /\ UNCHANGED <<conns, hstate, hconn>>
      BY <1>5 DEF Recv, host
    <2>2. econn \in Connections /\ econn \in 1..conns
      BY <1>0, <2>1
    <2>3. /\ up[econn] \in Seq(UpPiece) /\ Head(up[econn]) \in UpPiece
          /\ Tail(up[econn]) \in Seq(UpPiece)
      BY <1>0, <2>1, <2>2 DEF Carried
    <2>4. ebuf' \in Seq(UpPiece)
      BY <1>0, <2>1, <2>3, RestTyped DEF Carried
    <2>5. up'[econn] = Tail(up[econn]) /\ \A c \in Connections : c # econn => up'[c] = up[c]
      BY <1>0, <2>1, <2>2 DEF Carried
    <2>6. \A c \in Connections : Ended(up'[c]) => Ended(up[c])
      BY <2>1, <2>3, <2>5, EndedTail
    <2>7. hstate' = "connected" => hconn' # 0 /\ ~Ended(up'[hconn'])
      BY <1>0, <2>1, <2>6 DEF Carried
    <2>8. \A c \in Connections : c > conns => c # econn
      BY <1>0, <2>2
    <2> QED BY <1>0, <2>1, <2>3, <2>4, <2>5, <2>7, <2>8 DEF Carried, Ended
  <1> QED BY <1>1, <1>2, <1>3, <1>4, <1>5 DEF Next, HostStep, EdgeStep

\* A thread that leaves cuts what it holds and nothing else.
LEMMA Leaves ==
  ASSUME Inv, NEW d \in [Connections -> Seq(DownPiece)],
         \A c \in Connections : c > conns => d[c] = <<>>,
         Leave(d)
  PROVE  /\ ethread' = "ended" /\ econn' = 0 /\ backlog' = <<>>
         /\ down' \in [Connections -> Seq(DownPiece)]
         /\ \A c \in Connections : c > conns => down'[c] = <<>>
  <1>1. /\ ethread' = "ended" /\ econn' = 0 /\ backlog' = <<>>
        /\ down' = [c \in Connections |->
                      IF c \in Clients THEN Append(d[c], Fin) ELSE d[c]]
    BY DEF Leave
  <1>2. \A c \in Connections : Append(d[c], Fin) \in Seq(DownPiece)
    BY AppendProperties, Pieces
  <1>3. \A c \in Connections : c > conns => c \notin Clients
    BY Basics
  <1> QED BY <1>1, <1>2, <1>3

\* What Recv sends is an answer.
LEMMA AnswerTyped ==
  ASSUME NEW b, NEW p \in UpPiece
  PROVE  /\ Answer(Parsed(b, p)) \in Seq(DownPiece)
         /\ ~Ended(Answer(Parsed(b, p)))
  <1>1. CASE Parsed(b, p) = <<>>
    BY <1>1 DEF Answer, Ended
  <1>2. CASE Parsed(b, p) # <<>>
    <2>1. Parsed(b, p) = <<p.msg>> /\ p.msg \in Requests
      BY <1>2, ParsedTyped
    <2>2. Answer(Parsed(b, p)) = Line(Ack(p.msg)) /\ Ack(p.msg) \in Answers
      BY <2>1 DEF Answer, Answers
    <2> QED BY <2>2, LineTyped DEF Ended
  <1> QED BY <1>1, <1>2

\* What the edge sends and the host has read.
LEMMA DownStep ==
  ASSUME Inv, [Next]_vars
  PROVE  /\ down' \in [Connections -> Seq(DownPiece)] /\ hbuf' \in Seq(DownPiece)
         /\ acked' \in Seq(Answers)
         /\ \A c \in Connections : (c > conns => down[c] = <<>>)'
  <1> DEFINE Result ==
         /\ down' \in [Connections -> Seq(DownPiece)] /\ hbuf' \in Seq(DownPiece)
         /\ acked' \in Seq(Answers)
         /\ \A c \in Connections : (c > conns => down[c] = <<>>)'
  <1>0. /\ TypeOK /\ Carried
        /\ conns \in Nat /\ 1..conns \subseteq Connections /\ Connections \subseteq Nat
        /\ hconn # 0 => hconn \in 1..conns
        /\ econn # 0 => econn \in 1..conns
        /\ ethread = "recv" <=> econn # 0
        /\ down \in [Connections -> Seq(DownPiece)] /\ hbuf \in Seq(DownPiece)
        /\ \A c \in Connections : c > conns => down[c] = <<>>
        /\ acked \in Seq(Answers)
    BY Basics DEF Carried, TypeOK, Answers
  <1>1. CASE \/ TimerFires \/ ConnectFails \/ HostClosed \/ EdgeSignal \/ EdgeStarts
             \/ UNCHANGED vars \/ HostRestarts \/ LinkBreaks
             \/ \E m \in Requests : SetParam(m)
    <2>1. UNCHANGED <<down, conns>>
      BY <1>1 DEF TimerFires, ConnectFails, HostClosed, EdgeSignal, EdgeStarts, vars,
                  HostRestarts, LinkBreaks, SetParam
    <2>2. /\ hbuf' = hbuf \/ hbuf' = <<>>
          /\ acked' = acked \/ acked' = <<>>
      BY <1>1 DEF TimerFires, ConnectFails, HostClosed, EdgeSignal, EdgeStarts, vars,
                  HostRestarts, LinkBreaks, SetParam, LoseSocket, host
    <2>3. hbuf' \in Seq(DownPiece) /\ acked' \in Seq(Answers)
      BY <1>0, <2>2, EmptySeq
    <2> QED BY <1>0, <2>1, <2>3
  <1>2. CASE Connected
    <2>1. UNCHANGED <<down, hbuf>> /\ conns' = conns + 1 /\ acked' = <<>>
      BY <1>2 DEF Connected
    <2> QED BY <1>0, <2>1, EmptySeq
  <1>3. CASE HostReads
    <2>1. /\ hstate = "connected" /\ down[hconn] # <<>>
          /\ acked' = acked \o Parsed(hbuf, Head(down[hconn]))
          /\ hbuf' = Rest(hbuf, Head(down[hconn]))
          /\ down' = [down EXCEPT ![hconn] = Tail(@)] /\ UNCHANGED conns
      BY <1>3 DEF HostReads
    <2>2. hconn \in Connections /\ hconn \in 1..conns
      BY <1>0, <2>1 DEF Carried
    <2>3. /\ down[hconn] \in Seq(DownPiece) /\ Head(down[hconn]) \in DownPiece
          /\ Tail(down[hconn]) \in Seq(DownPiece)
      BY <1>0, <2>1, <2>2
    <2>4. Parsed(hbuf, Head(down[hconn])) \in Seq(Answers)
      <3> DEFINE p == Head(down[hconn])
      <3>1. p \in DownPiece
        BY <2>3
      <3> HIDE DEF p
      <3>2. Parsed(hbuf, p) = <<>> \/ (Parsed(hbuf, p) = <<p.msg>> /\ p.msg \in Answers)
        BY <3>1, ParsedTyped
      <3>3. \A a \in Answers : <<a>> \in Seq(Answers)
        OBVIOUS
      <3>4. <<>> \in Seq(Answers)
        OBVIOUS
      <3>5. Parsed(hbuf, p) \in Seq(Answers)
        BY <3>2, <3>3, <3>4, Zenon
      <3> QED BY <3>5 DEF p
    <2>5. acked' \in Seq(Answers) /\ hbuf' \in Seq(DownPiece)
      BY <1>0, <2>1, <2>3, <2>4, RestTyped, ConcatProperties
    <2>6. \A c \in Connections : c > conns => c # hconn
      BY <1>0, <2>2
    <2> QED BY <1>0, <2>1, <2>3, <2>5, <2>6
  <1>4. CASE Accept \/ RecvEnd
    <2>1. UNCHANGED <<hbuf, acked, conns>> /\ (Leave(down) \/ UNCHANGED down)
      BY <1>4 DEF Accept, RecvEnd, host
    <2> QED BY <1>0, <2>1, Leaves
  <1>5. CASE Recv
    <2> DEFINE answer == Answer(Parsed(ebuf, Head(up[econn])))
               sent == [down EXCEPT ![econn] = @ \o answer]
    <2>1. /\ UNCHANGED <<hbuf, acked, conns>> /\ (Leave(sent) \/ down' = sent)
          /\ ethread = "recv" /\ up[econn] # <<>>
      BY <1>5 DEF Recv, host
    <2>2. econn \in Connections /\ econn \in 1..conns
      BY <1>0, <2>1
    <2>3. up[econn] \in Seq(UpPiece) /\ Head(up[econn]) \in UpPiece
      BY <1>0, <2>1, <2>2 DEF Carried
    <2>4. answer \in Seq(DownPiece)
      BY <2>3, AnswerTyped
    <2> HIDE DEF answer
    <2>5. down[econn] \o answer \in Seq(DownPiece)
      BY <1>0, <2>2, <2>4, ConcatProperties
    <2>6. /\ sent \in [Connections -> Seq(DownPiece)]
          /\ \A c \in Connections : c > conns => sent[c] = <<>>
      BY <1>0, <2>2, <2>5
    <2> HIDE DEF sent
    <2> QED BY <1>0, <2>1, <2>6, Leaves
  <1>6. CASE EdgeStops
    <2>1. /\ UNCHANGED <<hbuf, acked, conns>>
          /\ \E k \in IF econn = 0 THEN {0} ELSE 0..Len(down[econn]) :
               down' = [c \in Connections |->
                 IF c = econn THEN CutTo(down[c], k)
                 ELSE IF c \in Clients THEN Append(down[c], Fin)
                 ELSE down[c]]
      BY <1>6 DEF EdgeStops, host
    <2>2. PICK k \in IF econn = 0 THEN {0} ELSE 0..Len(down[econn]) :
            down' = [c \in Connections |->
              IF c = econn THEN CutTo(down[c], k)
              ELSE IF c \in Clients THEN Append(down[c], Fin)
              ELSE down[c]]
      BY <2>1
    <2>3. \A c \in Connections : Append(down[c], Fin) \in Seq(DownPiece)
      BY <1>0, AppendProperties, Pieces
    <2>4. ASSUME NEW c \in Connections, c = econn
          PROVE  CutTo(down[c], k) \in Seq(DownPiece)
      <3>1. k \in 0..Len(down[c]) /\ down[c] \in Seq(DownPiece)
        BY <1>0, <2>4
      <3> QED BY <3>1, CutTyped, Pieces
    <2>5. \A c \in Connections : c > conns => c \notin Clients /\ c # econn
      BY <1>0, Basics
    <2> QED BY <1>0, <2>1, <2>2, <2>3, <2>4, <2>5
  <1> QED BY <1>1, <1>2, <1>3, <1>4, <1>5, <1>6 DEF Next, HostStep, EdgeStep

LEMMA SeqWider ==
  ASSUME NEW S, NEW T, S \subseteq T, NEW q \in Seq(S)
  PROVE  q \in Seq(T)
  <1>1. /\ Len(q) \in Nat /\ \A i \in 1..Len(q) : q[i] \in T
        /\ q = [i \in 1..Len(q) |-> q[i]]
    BY ElementOfSeq, LenProperties
  <1> QED BY <1>1, IsASeq

\* What Store puts into a parameter is in the range of its table entry.
LEMMA Stored ==
  ASSUME Inv, NEW b, NEW p \in UpPiece, Store(Parsed(b, p))
  PROVE  \A n \in Names : param'[n] \in ParamTable[n].min..ParamTable[n].max
  <1> SUFFICES ASSUME NEW n \in Names
               PROVE  param'[n] \in ParamTable[n].min..ParamTable[n].max
    OBVIOUS
  <1> DEFINE ms == Parsed(b, p)
             hit == \E i \in DOMAIN ms : ms[i].name = n /\ InRange(ms[i])
  <1>1. param'[n] = IF hit THEN ms[1].value ELSE param[n]
    BY DEF Store
  <1>2. CASE hit
    <2>1. ms = <<p.msg>>
      BY <1>2, ParsedTyped
    <2>2. ms[1].name = n /\ InRange(ms[1])
      BY <1>2, <2>1
    <2> QED BY <1>1, <1>2, <2>2 DEF InRange
  <1>3. CASE ~hit
    BY <1>1, <1>3 DEF Inv, TypeOK
  <1> QED BY <1>2, <1>3

LEMMA TypeStep ==
  ASSUME Inv, [Next]_vars
  PROVE  TypeOK' /\ Carried'
  <1> DEFINE Rest1 ==
         /\ hstate' \in {"unconnected", "connecting", "connected"}
         /\ hconn' \in 0..conns' /\ timer' \in BOOLEAN
         /\ asked' \in Seq(Requests)
             Rest2 ==
         /\ running' \in BOOLEAN
         /\ ethread' \in {"off", "accept", "recv", "ended"}
         /\ econn' \in 0..conns' /\ (ethread' = "recv" <=> econn' # 0)
             Rest3 ==
         /\ backlog' \in Seq(Connections)
         /\ \A i \in 1..Len(backlog') : backlog'[i] \in 1..conns'
         /\ conns' \in 0..(2 * MaxRestarts + 1)
             InTable ==
         \A n \in Names : param'[n] \in ParamTable[n].min..ParamTable[n].max
  <1>0. /\ TypeOK /\ Carried
        /\ conns \in Nat /\ 1..conns \subseteq Connections
        /\ hconn # 0 => hconn \in 1..conns
        /\ econn # 0 => econn \in 1..conns
        /\ ethread = "recv" <=> econn # 0
        /\ <<>> \in Seq(Connections) /\ Len(<<>>) = 0 /\ <<>> \in Seq(Requests)
    BY Basics
  <1>9. /\ hstate \in {"unconnected", "connecting", "connected"}
        /\ hconn \in 0..conns /\ timer \in BOOLEAN
        /\ asked \in Seq(Requests)
        /\ running \in BOOLEAN
        /\ ethread \in {"off", "accept", "recv", "ended"}
        /\ econn \in 0..conns
        /\ backlog \in Seq(Connections)
        /\ conns \in 0..(2 * MaxRestarts + 1)
        /\ \A i \in 1..Len(backlog) : backlog[i] \in 1..conns
    BY <1>0 DEF TypeOK, Carried
  <1>1. Rest1
    <2>1. CASE Connected
      <3>1. /\ hstate' = "connected" /\ hconn' = conns + 1 /\ timer' = FALSE
            /\ asked' = <<>> /\ conns' = conns + 1
        BY <2>1 DEF Connected
      <3>2. hconn' \in 0..conns'
        BY <1>0, <3>1
      <3>3. asked' \in Seq(Requests)
        BY <1>0, <3>1
      <3> QED BY <3>1, <3>2, <3>3
    <2>2. ASSUME NEW m \in Requests, SetParam(m) PROVE Rest1
      <3>1. asked' = Append(asked, m) /\ UNCHANGED <<hstate, hconn, timer, conns>>
        BY <2>2 DEF SetParam
      <3>2. asked' \in Seq(Requests)
        BY <1>9, <3>1, AppendProperties
      <3> QED BY <1>9, <3>1, <3>2
    <2>3. CASE HostRestarts \/ LinkBreaks \/ ConnectFails \/ HostClosed \/ TimerFires
      <3>1. /\ hstate' \in {"connecting", "unconnected"} /\ UNCHANGED conns
            /\ hconn' = hconn \/ hconn' = 0
            /\ asked' = asked \/ asked' = <<>>
        BY <2>3 DEF HostRestarts, LinkBreaks, ConnectFails, HostClosed, TimerFires,
                    LoseSocket
      <3>2. timer' \in BOOLEAN
        BY <1>9, <2>3 DEF HostRestarts, LinkBreaks, ConnectFails, HostClosed, TimerFires,
                          LoseSocket
      <3>3. asked' \in Seq(Requests)
        BY <1>0, <1>9, <3>1
      <3> QED BY <1>0, <1>9, <3>1, <3>2, <3>3
    <2>4. CASE HostReads \/ Accept \/ Recv \/ RecvEnd \/ EdgeSignal \/ EdgeStops
               \/ EdgeStarts \/ UNCHANGED vars
      <3>1. UNCHANGED <<hstate, hconn, timer, asked, conns>>
        BY <2>4 DEF HostReads, Accept, Recv, RecvEnd, EdgeSignal, EdgeStops, EdgeStarts,
                    vars, host
      <3> QED BY <1>9, <3>1
    <2> QED BY <2>1, <2>2, <2>3, <2>4 DEF Next, HostStep, EdgeStep
  <1>2. Rest2
    <2>1. CASE Accept /\ running
      <3>1. /\ ethread' = "recv" /\ econn' = Head(backlog) /\ backlog # <<>>
            /\ UNCHANGED <<running, conns>>
        BY <2>1 DEF Accept
      <3>2. Head(backlog) = backlog[1] /\ 1 \in 1..Len(backlog)
        BY <1>0, <3>1, HeadTailProperties, EmptySeq, LenProperties, <1>9
      <3>3. econn' \in 1..conns
        BY <1>9, <3>1, <3>2
      <3> QED BY <1>0, <1>9, <3>1, <3>3
    <2>2. CASE ~(Accept /\ running)
      <3>1. \/ UNCHANGED <<ethread, econn>>
            \/ ethread' \in {"off", "accept", "ended"} /\ econn' = 0
            \/ ethread = "off" /\ ethread' \in {"accept", "ended"} /\ econn' = econn
        BY <2>2 DEF Next, HostStep, EdgeStep, TimerFires, Connected, ConnectFails,
                    HostReads, HostClosed, SetParam, HostRestarts, LinkBreaks, Accept,
                    Recv, RecvEnd, EdgeSignal, EdgeStops, EdgeStarts, Leave, vars, edge
      <3>2. conns' = conns \/ conns' = conns + 1
        BY DEF Next, HostStep, EdgeStep, TimerFires, Connected, ConnectFails,
                    HostReads, HostClosed, SetParam, HostRestarts, LinkBreaks, Accept,
                    Recv, RecvEnd, EdgeSignal, EdgeStops, EdgeStarts, vars
      <3>3. running' \in BOOLEAN
        BY <1>9 DEF Next, HostStep, EdgeStep, TimerFires, Connected, ConnectFails,
                    HostReads, HostClosed, SetParam, HostRestarts, LinkBreaks, Accept,
                    Recv, RecvEnd, EdgeSignal, EdgeStops, EdgeStarts, vars, edge
      <3> QED BY <1>0, <1>9, <3>1, <3>2, <3>3
    <2> QED BY <2>1, <2>2
  <1>3. Rest3
    <2>1. CASE Connected
      <3>1. backlog' = Append(backlog, conns + 1) /\ conns' = conns + 1
        BY <2>1 DEF Connected
      <3>2. conns' \in 0..(2 * MaxRestarts + 1) /\ conns + 1 \in Connections
        BY <1>0, <2>1, ParamAssumption
           DEF Connected, Reachable, Inv, Counted, Connections
      <3>3. backlog' \in Seq(Connections) /\ Len(backlog') = Len(backlog) + 1
            /\ Len(backlog) \in Nat
            /\ \A i \in 1..Len(backlog) : backlog'[i] = backlog[i]
            /\ backlog'[Len(backlog) + 1] = conns + 1
        BY <1>9, <3>1, <3>2, AppendProperties, LenProperties
      <3>4. \A i \in 1..Len(backlog') : backlog'[i] \in 1..conns'
        BY <1>0, <1>9, <3>1, <3>3
      <3> QED BY <3>2, <3>3, <3>4
    <2>2. CASE Accept
      <3>1. /\ backlog # <<>> /\ conns' = conns
            /\ backlog' = Tail(backlog) \/ backlog' = <<>>
        BY <2>2 DEF Accept, Leave
      <3>2. /\ Tail(backlog) \in Seq(Connections)
            /\ Len(backlog) \in Nat /\ Len(Tail(backlog)) = Len(backlog) - 1
            /\ \A i \in 1..Len(Tail(backlog)) : Tail(backlog)[i] = backlog[i + 1]
        BY <1>9, <3>1, HeadTailProperties, LenProperties, EmptySeq
      <3>3. \A i \in 1..Len(Tail(backlog)) : Tail(backlog)[i] \in 1..conns
        BY <1>9, <3>2
      <3>4. CASE backlog' = Tail(backlog)
        BY <1>9, <3>1, <3>2, <3>3, <3>4
      <3>5. CASE backlog' = <<>>
        BY <1>0, <1>9, <3>1, <3>5
      <3> QED BY <3>1, <3>4, <3>5
    <2>3. CASE ~Connected /\ ~Accept
      <3>1. conns' = conns /\ (backlog' = backlog \/ backlog' = <<>>)
        BY <2>3 DEF Next, HostStep, EdgeStep, TimerFires, ConnectFails,
                    HostReads, HostClosed, SetParam, HostRestarts, LinkBreaks,
                    Recv, RecvEnd, EdgeSignal, EdgeStops, EdgeStarts, Leave, vars
      <3>2. CASE backlog' = backlog
        BY <1>9, <3>1, <3>2
      <3>3. CASE backlog' = <<>>
        BY <1>0, <1>9, <3>1, <3>3
      <3> QED BY <3>1, <3>2, <3>3
    <2> QED BY <2>1, <2>2, <2>3
  <1>4. InTable
    <2>1. CASE Recv
      <3>1. /\ ethread = "recv" /\ up[econn] # <<>>
            /\ Store(Parsed(ebuf, Head(up[econn])))
        BY <2>1 DEF Recv
      <3>2. up[econn] \in Seq(UpPiece) /\ Head(up[econn]) \in UpPiece
        BY <1>0, <3>1 DEF Carried
      <3> QED BY <3>1, <3>2, Stored
    <2>2. CASE EdgeStarts
      BY <2>2, ParamAssumption DEF EdgeStarts
    <2>3. CASE ~Recv /\ ~EdgeStarts
      <3>1. param' = param
        BY <2>3 DEF Next, HostStep, EdgeStep, TimerFires, Connected, ConnectFails,
                    HostReads, HostClosed, SetParam, HostRestarts, LinkBreaks, Accept,
                    RecvEnd, EdgeSignal, EdgeStops, vars, edge
      <3> QED BY <1>0, <3>1 DEF TypeOK
    <2> QED BY <2>1, <2>2, <2>3
  <1>5. /\ hbuf' \in Seq(Piece) /\ ebuf' \in Seq(Piece)
        /\ \A c \in Connections : up'[c] \in Seq(Piece) /\ down'[c] \in Seq(Piece)
    BY UpStep, DownStep, SeqWider, Pieces
  <1>6. acked' \in Seq({Ack(m) : m \in Requests})
    BY DownStep DEF Answers
  <1>7. TypeOK'
    BY <1>1, <1>2, <1>3, <1>4, <1>5, <1>6 DEF TypeOK
  <1>8. Carried'
    BY <1>3, UpStep, DownStep DEF Carried
  <1> QED BY <1>7, <1>8

\* Only Connected makes a connection, and none while there is one that the
\* edge has not cut.
LEMMA CountStep ==
  ASSUME Inv, [Next]_vars
  PROVE  Counted'
  <1>0. /\ TypeOK /\ Carried /\ Counted
        /\ conns \in Nat /\ 1..conns \subseteq Connections /\ Connections \subseteq Nat
        /\ hconn # 0 => hconn \in 1..conns
        /\ econn # 0 => econn \in 1..conns
        /\ ethread = "recv" <=> econn # 0
        /\ hrestarts \in Nat /\ erestarts \in Nat /\ MaxRestarts \in Nat
    BY Basics, ParamAssumption
  <1>1. CASE Connected
    <2>1. /\ Listening /\ hstate = "connecting" /\ conns' = conns + 1
          /\ hconn' = conns + 1 /\ hstate' = "connected"
          /\ UNCHANGED <<down, hrestarts, erestarts>>
      BY <1>1 DEF Connected, Reachable, counters
    <2>2. conns + 1 \in Connections
      BY <1>0, <2>1, ParamAssumption DEF Counted, Connections
    <2>3. down[conns + 1] = <<>> /\ ~Ended(<<>>)
      BY <1>0, <2>2 DEF Carried, Ended
    <2>4. ~Ended(down[hconn])'
      BY <2>1, <2>3 DEF Ended
    <2> QED BY <1>0, <2>1, <2>4 DEF Counted
  <1>2. CASE HostRestarts \/ LinkBreaks
    <2>1. /\ hrestarts < MaxRestarts /\ hrestarts' = hrestarts + 1
          /\ UNCHANGED <<conns, erestarts>>
      BY <1>2 DEF HostRestarts, LinkBreaks
    <2> QED BY <1>0, <2>1 DEF Counted
  <1>3. CASE EdgeStarts
    <2>1. /\ erestarts < MaxRestarts /\ erestarts' = erestarts + 1
          /\ UNCHANGED <<conns, hrestarts>>
      BY <1>3 DEF EdgeStarts
    <2> QED BY <1>0, <2>1 DEF Counted
  <1>4. CASE HostClosed
    <2>1. /\ hstate = "connected" /\ down[hconn] # <<>>
          /\ Head(down[hconn]).part = "fin"
          /\ UNCHANGED <<ethread, conns, hrestarts, erestarts>>
      BY <1>4 DEF HostClosed, edge, counters
    <2>2. down[hconn] \in Seq(DownPiece)
      BY <1>0, <2>1 DEF Carried
    <2>3. /\ 1 \in 1..Len(down[hconn]) /\ Head(down[hconn]) = down[hconn][1]
          /\ Head(down[hconn]) \in DownPiece
      BY <2>1, <2>2, HeadTailProperties, EmptySeq, LenProperties
    <2>4. Head(down[hconn]) = Fin
      BY <2>1, <2>3 DEF DownPiece
    <2>5. Ended(down[hconn])
      BY <2>3, <2>4 DEF Ended
    <2> QED BY <1>0, <2>1, <2>5 DEF Counted, Listening
  <1>5. CASE HostReads
    <2>1. /\ hstate = "connected" /\ down[hconn] # <<>>
          /\ down' = [down EXCEPT ![hconn] = Tail(@)]
          /\ UNCHANGED <<hstate, hconn, ethread, conns, hrestarts, erestarts>>
      BY <1>5 DEF HostReads, edge, counters
    <2>2. hconn \in Connections /\ down[hconn] \in Seq(DownPiece)
      BY <1>0, <2>1 DEF Carried
    <2>3. down'[hconn] = Tail(down[hconn])
      BY <1>0, <2>1, <2>2 DEF Carried
    <2>4. Ended(down[hconn])' => Ended(down[hconn])
      <3>1. Ended(down[hconn])' => Ended(Tail(down[hconn]))
        BY <2>1, <2>3 DEF Ended
      <3> QED BY <2>1, <2>2, <3>1, EndedTail
    <2> QED BY <1>0, <2>1, <2>4 DEF Counted, Listening
  <1>6. CASE Recv
    <2> DEFINE answer == Answer(Parsed(ebuf, Head(up[econn])))
               sent == [down EXCEPT ![econn] = @ \o answer]
    <2>1. /\ UNCHANGED <<hstate, hconn, conns, hrestarts, erestarts>>
          /\ ~Listening' \/ (down' = sent /\ ethread' = ethread)
          /\ ethread = "recv" /\ up[econn] # <<>>
      BY <1>6 DEF Recv, Leave, host, counters, Listening
    <2>2. econn \in Connections
      BY <1>0, <2>1
    <2>3. up[econn] \in Seq(UpPiece) /\ Head(up[econn]) \in UpPiece
      BY <1>0, <2>1, <2>2 DEF Carried
    <2>4. answer \in Seq(DownPiece) /\ ~Ended(answer)
      BY <2>3, AnswerTyped
    <2> HIDE DEF answer
    <2>5. \A c \in Connections : Ended(sent[c]) => Ended(down[c])
      <3> SUFFICES ASSUME NEW c \in Connections, Ended(sent[c]) PROVE Ended(down[c])
        OBVIOUS
      <3>1. down[c] \in Seq(DownPiece)
        BY <1>0 DEF Carried
      <3>2. CASE c = econn
        <4>1. sent[c] = down[c] \o answer
          BY <1>0, <3>2 DEF Carried
        <4> QED BY <2>4, <3>1, <4>1, EndedConcat
      <3>3. CASE c # econn
        BY <1>0, <3>3 DEF Carried
      <3> QED BY <3>2, <3>3
    <2> HIDE DEF sent
    <2>6. CASE ~Listening'
      BY <1>0, <2>1, <2>6 DEF Counted
    <2>7. CASE down' = sent /\ ethread' = ethread
      <3>1. hstate = "connected" => (Ended(down[hconn])' => Ended(down[hconn]))
        <4>1. hstate = "connected" => hconn \in Connections
          BY <1>0 DEF Carried
        <4>2. Ended(down[hconn])' => Ended(sent[hconn])
          BY <2>1, <2>7 DEF Ended
        <4> QED BY <2>5, <4>1, <4>2
      <3> QED BY <1>0, <2>1, <2>7, <3>1 DEF Counted, Listening
    <2> QED BY <2>1, <2>6, <2>7
  <1>7. CASE Accept \/ RecvEnd \/ EdgeStops
    <2>1. /\ UNCHANGED <<hstate, hconn, conns, hrestarts, erestarts>>
          /\ ~Listening' \/ (Listening /\ UNCHANGED down)
      BY <1>7 DEF Accept, RecvEnd, EdgeStops, Leave, host, counters, Listening
    <2> QED BY <1>0, <2>1 DEF Counted, Ended
  <1>8. CASE \/ TimerFires \/ ConnectFails \/ EdgeSignal \/ UNCHANGED vars
             \/ \E m \in Requests : SetParam(m)
    <2>1. /\ UNCHANGED <<ethread, down, conns, hrestarts, erestarts>>
          /\ \/ UNCHANGED <<hstate, hconn>>
             \/ hstate # "connected" /\ hstate' # "connected"
      BY <1>8 DEF TimerFires, ConnectFails, EdgeSignal, SetParam, LoseSocket, vars,
                  edge, host, counters
    <2> QED BY <1>0, <2>1 DEF Counted, Listening, Ended
  <1> QED
    BY <1>1, <1>2, <1>3, <1>4, <1>5, <1>6, <1>7, <1>8 DEF Next, HostStep, EdgeStep

LEMMA TimerStep ==
  ASSUME NeverStranded, [Next]_vars
  PROVE  NeverStranded'
  BY DEF NeverStranded, Next, HostStep, EdgeStep, TimerFires, Connected, ConnectFails,
         HostReads, HostClosed, SetParam, HostRestarts, LinkBreaks, Accept, Recv,
         RecvEnd, EdgeSignal, EdgeStops, EdgeStarts, LoseSocket, vars, host

LEMMA Inductive == Inv /\ [Next]_vars => Inv'
  BY TypeStep, CountStep, TimerStep DEF Inv

\* Typing, what travels in each direction, the number of connections and the
\* timer are an invariant, for any table, backlog, sets and restarts.
THEOREM Invariance == Spec => []Inv
  BY InvInitially, Inductive, PTL DEF Spec

\* Every variable has its type; in particular no set, whatever its name and
\* value, takes a parameter out of its range (thread_monitor.cpp:250-256).
THEOREM TypeCorrect == Spec => []TypeOK
  <1>1. Inv => TypeOK
    BY DEF Inv
  <1> QED BY <1>1, Invariance, PTL

\* A socket without a connection has its timer running, whatever order
\* errors, closed connections and restarts come in (paramclient.cpp:18-47).
THEOREM TimerKept == Spec => []NeverStranded
  <1>1. Inv => NeverStranded
    BY DEF Inv
  <1> QED BY <1>1, Invariance, PTL

----------------------------------------------------------------------------
(* Queues of lines                                                         *)

\* An empty queue carries nothing, and only it does.
LEMMA CarriesNone ==
  ASSUME NEW f, NEW m \in Nat, NEW n \in Nat, m <= n
  PROVE  Carries(<<>>, f, m, n) <=> m = n
  BY DEF Carries

\* What is carried does not depend on the messages before and after it.
LEMMA CarriesSame ==
  ASSUME NEW q, NEW f, NEW g, NEW m \in Nat, NEW n \in Nat, Carries(q, f, m, n),
         \A k \in (m + 1)..n : f[k] = g[k]
  PROVE  Carries(q, g, m, n)
  BY DEF Carries

\* Behind what a queue carries, one more line is put.
LEMMA CarriesPush ==
  ASSUME NEW S, NEW q \in Seq(S), NEW f, NEW m \in Nat, NEW n \in Nat, m <= n,
         Carries(q, f, m, n), Line(f[n + 1]) \in Seq(S)
  PROVE  /\ Carries(q \o Line(f[n + 1]), f, m, n + 1)
         /\ Len(q \o Line(f[n + 1])) = Len(q) + 2
  <1> DEFINE l == Line(f[n + 1])
             p == q \o l
  <1>1. Len(l) = 2 /\ Len(q) \in Nat
    BY DEF Line
  <1>2. /\ Len(p) = Len(q) + 2
        /\ \A i \in 1..Len(q) : p[i] = q[i]
        /\ p[Len(q) + 1] = l[1] /\ p[Len(q) + 2] = l[2]
    <2>0. l \in Seq(S)
      OBVIOUS
    <2> HIDE DEF l
    <2>1. /\ Len(p) = Len(q) + 2
          /\ \A i \in 1..(Len(q) + 2) :
               p[i] = IF i <= Len(q) THEN q[i] ELSE l[i - Len(q)]
      <3>1. /\ Len(q \o l) = Len(q) + Len(l)
            /\ \A i \in 1..Len(q) + Len(l) :
                 (q \o l)[i] = IF i <= Len(q) THEN q[i] ELSE l[i - Len(q)]
        BY <2>0, ConcatProperties
      <3> QED BY <1>1, <3>1
    <2> HIDE DEF p
    <2>2. Len(q) + 1 \in 1..(Len(q) + 2) /\ Len(q) + 2 \in 1..(Len(q) + 2)
      BY <1>1
    <2> QED BY <1>1, <2>1, <2>2
  <1> HIDE DEF p
  <1>3. ASSUME NEW k \in (m + 1)..(n + 1), NEW t, t = Len(p) - 2 * (n + 1 - k)
        PROVE  /\ p[t] = Line(f[k])[2]
               /\ t > 1 => p[t - 1] = Line(f[k])[1]
    <2>1. CASE k = n + 1
      BY <1>1, <1>2, <1>3, <2>1
    <2>2. CASE k \in (m + 1)..n
      <3>1. t = Len(q) - 2 * (n - k) /\ t \in 1..Len(q)
        BY <1>1, <1>2, <1>3, <2>2 DEF Carries
      <3>2. /\ q[t] = Line(f[k])[2]
            /\ t > 1 => q[t - 1] = Line(f[k])[1]
        BY <2>2, <3>1 DEF Carries
      <3>3. t > 1 => t - 1 \in 1..Len(q)
        BY <1>1, <3>1
      <3> QED BY <1>2, <3>1, <3>2, <3>3
    <2> QED BY <1>3, <2>1, <2>2
  <1>4. Len(p) \in {2 * (n + 1 - m), 2 * (n + 1 - m) - 1}
    BY <1>1, <1>2 DEF Carries
  <1>5. Carries(p, f, m, n + 1)
    BY <1>3, <1>4 DEF Carries
  <1> QED BY <1>2, <1>5 DEF p

\* The next piece is the head of the oldest line, or the tail of it if the
\* head has gone, and what is behind it is carried on.
LEMMA CarriesPop ==
  ASSUME NEW S, NEW q \in Seq(S), NEW f, NEW m \in Nat, NEW n \in Nat, m <= n,
         Carries(q, f, m, n), q # <<>>
  PROVE  /\ m < n /\ Tail(q) \in Seq(S)
         /\ Len(q) = 2 * (n - m) =>
              /\ Head(q) = Line(f[m + 1])[1]
              /\ Carries(Tail(q), f, m, n)
              /\ Len(Tail(q)) # 2 * (n - m)
         /\ Len(q) # 2 * (n - m) =>
              /\ Head(q) = Line(f[m + 1])[2]
              /\ Carries(Tail(q), f, m + 1, n)
              /\ Len(Tail(q)) = 2 * (n - (m + 1))
  <1> DEFINE t == Tail(q)
  <1>1. /\ t \in Seq(S) /\ Len(t) = Len(q) - 1 /\ Len(q) \in Nat \ {0}
        /\ \A i \in 1..Len(t) : t[i] = q[i + 1]
        /\ Head(q) = q[1]
    BY HeadTailProperties, LenProperties, EmptySeq
  <1> HIDE DEF t
  <1>2. m < n /\ Len(q) \in {2 * (n - m), 2 * (n - m) - 1}
    BY <1>1 DEF Carries
  <1>3. ASSUME NEW k \in (m + 1)..n, NEW u, u = Len(t) - 2 * (n - k), u >= 1
        PROVE  /\ t[u] = Line(f[k])[2]
               /\ u > 1 => t[u - 1] = Line(f[k])[1]
    <2>1. u + 1 = Len(q) - 2 * (n - k) /\ u \in 1..Len(t)
      BY <1>1, <1>3
    <2>2. q[u + 1] = Line(f[k])[2] /\ q[u] = Line(f[k])[1]
      <3>1. /\ q[u + 1] = Line(f[k])[2]
            /\ u + 1 > 1 => q[(u + 1) - 1] = Line(f[k])[1]
        BY <2>1 DEF Carries
      <3>2. u + 1 > 1 /\ (u + 1) - 1 = u
        BY <1>1, <2>1
      <3> QED BY <3>1, <3>2
    <2>3. u > 1 => u - 1 \in 1..Len(t) /\ (u - 1) + 1 = u
      BY <1>1, <2>1
    <2> QED BY <1>1, <2>1, <2>2, <2>3
  <1>4. CASE Len(q) = 2 * (n - m)
    <2>1. Head(q) = Line(f[m + 1])[1]
      <3>1. m + 1 \in (m + 1)..n /\ Len(q) - 2 * (n - (m + 1)) = 2
        BY <1>2, <1>4
      <3>2. q[2 - 1] = Line(f[m + 1])[1]
        BY <3>1 DEF Carries
      <3> QED BY <1>1, <3>2
    <2>2. \A k \in (m + 1)..n : Len(t) - 2 * (n - k) >= 1
      BY <1>1, <1>4
    <2>3. Len(t) = 2 * (n - m) - 1
      BY <1>1, <1>4
    <2>4. Carries(t, f, m, n)
      BY <1>3, <2>2, <2>3 DEF Carries
    <2> QED BY <1>1, <1>2, <1>4, <2>1, <2>3, <2>4 DEF t
  <1>5. CASE Len(q) = 2 * (n - m) - 1
    <2>1. Head(q) = Line(f[m + 1])[2]
      <3>1. m + 1 \in (m + 1)..n /\ Len(q) - 2 * (n - (m + 1)) = 1
        BY <1>2, <1>5
      <3>2. q[1] = Line(f[m + 1])[2]
        BY <3>1 DEF Carries
      <3> QED BY <1>1, <3>2
    <2>2. \A k \in (m + 2)..n : k \in (m + 1)..n /\ Len(t) - 2 * (n - k) >= 1
      BY <1>1, <1>5
    <2>3. Len(t) = 2 * (n - (m + 1))
      BY <1>1, <1>5
    <2>4. (m + 1) + 1 = m + 2
      OBVIOUS
    <2>5. Carries(t, f, m + 1, n)
      BY <1>3, <2>2, <2>3, <2>4 DEF Carries
    <2> QED BY <1>1, <1>2, <1>5, <2>1, <2>3, <2>5 DEF t
  <1> QED BY <1>2, <1>4, <1>5

----------------------------------------------------------------------------
(* The conversation of a host and the edge                                 *)

\* A reader of queue q has in its buffer what q lacks of its first line.
InStep(buf, q, ms, m, n) ==
  buf = IF Len(q) = 2 * (n - m) THEN <<>> ELSE <<Line(ms[m + 1])[1]>>

\* Of the sets asked, the host has read i answers, all but the first `lost`
\* of them announced; answers i+1 to j come down and the other sets go up.
Told(lost, i, j) ==
  /\ lost \in 0..1 /\ i \in lost..Len(asked) /\ j \in i..Len(asked)
  /\ Len(acked) = i - lost
  /\ \A k \in 1..Len(acked) : acked[k] = Ack(asked[lost + k])
  /\ Carries(down[hconn], Acks(asked), i, j)
  /\ Carries(up[hconn], asked, j, Len(asked))

\* m_buffer: in step, or the first answer is still being appended to the
\* rest of a line of an earlier connection.
HostReader(i, j) ==
  \/ InStep(hbuf, down[hconn], Acks(asked), i, j)
  \/ i = 0 /\ hbuf # <<>> /\ (Len(down[hconn]) # 2 * j => Len(hbuf) > 1)

\* The edge's buffer; until the connection is accepted, nothing is read.
EdgeReader(j) ==
  IF hconn = econn THEN InStep(ebuf, up[hconn], asked, j, Len(asked))
                   ELSE j = 0 /\ Len(up[hconn]) = 2 * Len(asked)

\* The parameters have the values of the last of the sets executed.
Executed(j) ==
  hconn = econn =>
    \A k \in 1..j : LastInRange(k, j) => param[asked[k].name] = asked[k].value

Talks(lost, i, j) ==
  Told(lost, i, j) /\ HostReader(i, j) /\ EdgeReader(j) /\ Executed(j)

Conversation ==
  Whole(hconn) =>
    \E lost \in 0..1, i, j \in 0..Len(asked) : Talks(lost, i, j)

\* What a reader in step does with the next piece: a head is kept, a tail
\* completes the line, whose message is handled; either way it is in step.
LEMMA ReaderPop ==
  ASSUME NEW S, NEW q \in Seq(S), NEW f, NEW m \in Nat, NEW n \in Nat, m <= n,
         Carries(q, f, m, n), q # <<>>, NEW buf, InStep(buf, q, f, m, n)
  PROVE  /\ Len(q) = 2 * (n - m) =>
              /\ Parsed(buf, Head(q)) = <<>>
              /\ InStep(Rest(buf, Head(q)), Tail(q), f, m, n)
         /\ Len(q) # 2 * (n - m) =>
              /\ Parsed(buf, Head(q)) = <<f[m + 1]>>
              /\ InStep(Rest(buf, Head(q)), Tail(q), f, m + 1, n)
  <1> DEFINE x == f[m + 1]
             t == Tail(q)
  <1>1. CASE Len(q) = 2 * (n - m)
    <2>1. Head(q) = Line(x)[1] /\ Len(t) # 2 * (n - m) /\ buf = <<>>
      BY <1>1, CarriesPop DEF InStep
    <2>2. Head(q) = [part |-> "head", msg |-> x]
      BY <2>1 DEF Line
    <2>3. Parsed(buf, Head(q)) = <<>> /\ Rest(buf, Head(q)) = <<Head(q)>>
      BY <2>1, <2>2 DEF Parsed, Rest
    <2> QED BY <1>1, <2>1, <2>3 DEF InStep
  <1>2. CASE Len(q) # 2 * (n - m)
    <2>1. /\ Head(q) = Line(x)[2] /\ Len(t) = 2 * (n - (m + 1))
          /\ buf = <<Line(x)[1]>>
      BY <1>2, CarriesPop DEF InStep
    <2>2. /\ Head(q) = [part |-> "tail", msg |-> x]
          /\ buf = <<[part |-> "head", msg |-> x]>>
      BY <2>1 DEF Line
    <2>3. Parsed(buf, Head(q)) = <<x>> /\ Rest(buf, Head(q)) = <<>>
      BY <2>2 DEF Parsed, Rest
    <2> QED BY <1>2, <2>1, <2>3 DEF InStep
  <1> QED BY <1>1, <1>2

\* A buffer longer than one piece is not one piece.
LEMMA NotOne == \A b, x : Len(b) > 1 => b # <<x>>
  <1> SUFFICES ASSUME NEW b, NEW x, Len(b) > 1, b = <<x>> PROVE FALSE
    OBVIOUS
  <1>1. Len(<<x>>) = 1
    OBVIOUS
  <1>2. Len(b) = 1
    BY <1>1
  <1> QED BY <1>2

\* What is known of a host that is online on a connection the edge holds.
LEMMA TalkTyped ==
  ASSUME Inv, Whole(hconn)
  PROVE  /\ hconn \in 1..conns /\ hconn \in Connections
         /\ up \in [Connections -> Seq(UpPiece)] /\ ebuf \in Seq(UpPiece)
         /\ down \in [Connections -> Seq(DownPiece)] /\ hbuf \in Seq(DownPiece)
         /\ asked \in Seq(Requests) /\ acked \in Seq(Answers)
         /\ Len(asked) \in Nat /\ Len(acked) \in Nat
         /\ \A k \in 1..Len(asked) :
              /\ asked[k] \in Requests /\ Ack(asked[k]) \in Answers
              /\ Acks(asked)[k] = Ack(asked[k])
         /\ ~Ended(up[hconn])
  <1>1. /\ hconn \in 1..conns /\ hconn \in Connections
        /\ asked \in Seq(Requests) /\ acked \in Seq(Answers)
    BY Basics DEF Whole, TypeOK, Answers
  <1>2. \A k \in 1..Len(asked) :
              /\ asked[k] \in Requests /\ Ack(asked[k]) \in Answers
              /\ Acks(asked)[k] = Ack(asked[k])
    BY <1>1 DEF Acks, Answers
  <1> QED BY <1>1, <1>2, LenProperties, Basics DEF Whole, Carried

\* A new connection: nothing was asked, and the edge has not accepted it.
LEMMA TalkConnected ==
  ASSUME Inv, Connected
  PROVE  Conversation'
  <1>1. /\ hconn' = conns + 1 /\ UNCHANGED <<up, down, econn, hbuf>>
        /\ asked' = <<>> /\ acked' = <<>>
    BY DEF Connected, edge
  <1>2. conns + 1 \in Connections /\ econn # conns + 1
    BY Basics, ParamAssumption DEF Connected, Reachable, Counted, Connections
  <1>3. up'[hconn'] = <<>> /\ down'[hconn'] = <<>>
    BY <1>1, <1>2, Basics DEF Carried
  <1>4. Told(0, 0, 0)'
    BY <1>1, <1>3, CarriesNone DEF Told
  <1>5. HostReader(0, 0)' /\ EdgeReader(0)' /\ Executed(0)'
    BY <1>1, <1>2, <1>3 DEF HostReader, InStep, EdgeReader, Executed
  <1>6. Talks(0, 0, 0)' /\ Len(asked') = 0
    BY <1>1, <1>4, <1>5 DEF Talks
  <1> QED BY <1>6 DEF Conversation

\* A step that does not touch the connection, or between two states in
\* which the edge serves another one.
LEMMA TalkElsewhere ==
  ASSUME Inv, Conversation, Whole(hconn), UNCHANGED <<hconn, hbuf, asked, acked>>,
         up'[hconn] = up[hconn], down'[hconn] = down[hconn],
         \/ UNCHANGED <<econn, ebuf, param>>
         \/ hconn # econn /\ hconn # econn'
  PROVE  Conversation'
  <1>1. PICK lost \in 0..1, i \in 0..Len(asked), j \in 0..Len(asked) : Talks(lost, i, j)
    BY DEF Conversation
  <1>2. Told(lost, i, j)' /\ HostReader(i, j)' /\ EdgeReader(j)'
    BY <1>1 DEF Talks, Told, HostReader, EdgeReader
  <1>3. Executed(j)'
    BY <1>1 DEF Talks, Executed, LastInRange
  <1> QED BY <1>1, <1>2, <1>3 DEF Conversation, Talks

\* setParam() puts a line behind those on their way up.
LEMMA TalkSet ==
  ASSUME Inv, Conversation, NEW m \in Requests, SetParam(m), Whole(hconn)
  PROVE  Conversation'
  <1>1. PICK lost \in 0..1, i \in 0..Len(asked), j \in 0..Len(asked) : Talks(lost, i, j)
    BY DEF Conversation
  <1> DEFINE n == Len(asked)
  <1>2. /\ up' = [up EXCEPT ![hconn] = @ \o Line(m)] /\ asked' = Append(asked, m)
        /\ UNCHANGED <<hconn, hbuf, acked, econn, ebuf, param, down>>
    BY DEF SetParam, edge
  <1>3. /\ hconn \in Connections /\ up \in [Connections -> Seq(UpPiece)]
        /\ asked \in Seq(Requests) /\ n \in Nat
        /\ \A k \in 1..n : Acks(asked)[k] = Ack(asked[k])
    BY TalkTyped
  <1>4. /\ Len(asked') = n + 1 /\ asked'[n + 1] = m
        /\ \A k \in 1..n : asked'[k] = asked[k]
        /\ \A k \in 1..n : Acks(asked')[k] = Acks(asked)[k]
    <2>1. /\ asked' \in Seq(Requests) /\ Len(asked') = n + 1 /\ asked'[n + 1] = m
          /\ \A k \in 1..n : asked'[k] = asked[k]
      BY <1>2, <1>3, AppendProperties
    <2>2. \A k \in 1..n : Acks(asked')[k] = Ack(asked'[k])
      BY <1>3, <2>1 DEF Acks
    <2> QED BY <1>3, <2>1, <2>2
  <1>5. /\ i \in lost..n /\ j \in i..n /\ Len(acked) = i - lost
        /\ \A k \in 1..Len(acked) : acked[k] = Ack(asked[lost + k])
        /\ Carries(down[hconn], Acks(asked), i, j)
        /\ Carries(up[hconn], asked, j, n)
    BY <1>1 DEF Talks, Told
  <1> HIDE DEF n
  <1>6. Carries(down[hconn], Acks(asked'), i, j)
    <2>1. \A k \in (i + 1)..j : Acks(asked)[k] = Acks(asked')[k]
      BY <1>3, <1>4, <1>5
    <2> QED BY <1>3, <1>5, <2>1, CarriesSame
  <1>7. Carries(up'[hconn], asked', j, n + 1) /\ Len(up'[hconn]) = Len(up[hconn]) + 2
    <2>1. \A k \in (j + 1)..n : asked[k] = asked'[k]
      BY <1>3, <1>4, <1>5
    <2>2. Carries(up[hconn], asked', j, n)
      BY <1>3, <1>5, <2>1, CarriesSame
    <2>3. Line(asked'[n + 1]) \in Seq(UpPiece)
      BY <1>4, LineTyped
    <2>4. /\ Carries(up[hconn] \o Line(asked'[n + 1]), asked', j, n + 1)
          /\ Len(up[hconn] \o Line(asked'[n + 1])) = Len(up[hconn]) + 2
      BY <1>3, <1>5, <2>2, <2>3, CarriesPush
    <2>5. up'[hconn] = up[hconn] \o Line(asked'[n + 1])
      BY <1>2, <1>3, <1>4
    <2> QED BY <2>4, <2>5
  <1>8. Told(lost, i, j)'
    <2>1. \A k \in 1..Len(acked) : acked[k] = Ack(asked'[lost + k])
      BY <1>3, <1>4, <1>5
    <2> QED BY <1>2, <1>3, <1>4, <1>5, <1>6, <1>7, <2>1 DEF Told
  <1>9. HostReader(i, j)'
    <2>1. Len(down[hconn]) # 2 * (j - i) => Acks(asked')[i + 1] = Acks(asked)[i + 1]
      <3>1. /\ Len(down[hconn]) \in Nat
            /\ Len(down[hconn]) \in {2 * (j - i), 2 * (j - i) - 1}
        BY <1>5, TalkTyped DEF Carries
      <3>2. Len(down[hconn]) # 2 * (j - i) => i + 1 \in 1..n
        BY <1>3, <1>5, <3>1
      <3> QED BY <1>4, <3>2
    <2> QED BY <1>1, <1>2, <2>1 DEF Talks, HostReader, InStep
  <1>10. EdgeReader(j)'
    <2>1. /\ Len(up[hconn]) \in Nat /\ j \in Nat /\ j <= n
          /\ Len(up[hconn]) \in {2 * (n - j), 2 * (n - j) - 1}
      BY <1>3, <1>5 DEF Carries
    <2>2. Len(up[hconn]) # 2 * (n - j) => j + 1 \in 1..n
      BY <1>3, <2>1
    <2>3. Len(up'[hconn]) = 2 * (n + 1 - j) <=> Len(up[hconn]) = 2 * (n - j)
      BY <1>3, <1>7, <2>1
    <2>4. CASE hconn = econn
      <3>1. InStep(ebuf, up[hconn], asked, j, n)
        BY <1>1, <2>4 DEF Talks, EdgeReader, n
      <3>2. InStep(ebuf, up'[hconn], asked', j, n + 1)
        <4>1. CASE Len(up[hconn]) = 2 * (n - j)
          BY <1>3, <2>1, <2>3, <3>1, <4>1 DEF InStep
        <4>2. CASE Len(up[hconn]) # 2 * (n - j)
          <5>1. asked'[j + 1] = asked[j + 1]
            BY <1>4, <2>2, <4>2
          <5> QED BY <1>3, <2>1, <2>3, <3>1, <4>2, <5>1 DEF InStep
        <4> QED BY <4>1, <4>2
      <3> QED BY <1>2, <1>4, <2>4, <3>2 DEF EdgeReader
    <2>5. CASE hconn # econn
      <3>1. j = 0 /\ Len(up[hconn]) = 2 * n
        BY <1>1, <2>5 DEF Talks, EdgeReader, n
      <3> QED BY <1>2, <1>3, <1>4, <1>7, <2>5, <3>1 DEF EdgeReader
    <2> QED BY <2>4, <2>5
  <1>11. Executed(j)'
    <2>1. \A k \in 1..j : asked'[k] = asked[k] /\ k \in Nat
      BY <1>3, <1>4, <1>5
    <2>2. ASSUME NEW k \in 1..j, LastInRange(k, j)' PROVE LastInRange(k, j)
      <3>1. \A l \in (k + 1)..j : l \in 1..j
        BY <2>1
      <3> QED BY <2>1, <2>2, <3>1 DEF LastInRange
    <2> QED BY <1>1, <1>2, <2>1, <2>2 DEF Talks, Executed
  <1>12. i \in 0..Len(asked') /\ j \in 0..Len(asked')
    BY <1>3, <1>4, <1>5
  <1> QED BY <1>8, <1>9, <1>10, <1>11, <1>12 DEF Conversation, Talks

\* onReadyRead() takes a piece of the next answer. The tail of the first one
\* completes the rest of an older line instead, which does not parse.
LEMMA TalkHostReads ==
  ASSUME Inv, Conversation, HostReads, Whole(hconn)
  PROVE  Conversation'
  <1>1. PICK lost \in 0..1, i \in 0..Len(asked), j \in 0..Len(asked) : Talks(lost, i, j)
    BY DEF Conversation
  <1> DEFINE q == down[hconn]
             p == Head(q)
             f == Acks(asked)
  <1>2. /\ q # <<>> /\ acked' = acked \o Parsed(hbuf, p) /\ hbuf' = Rest(hbuf, p)
        /\ down' = [down EXCEPT ![hconn] = Tail(@)]
        /\ UNCHANGED <<hconn, asked, econn, ebuf, param, up>>
    BY DEF HostReads, edge
  <1>3. /\ q \in Seq(DownPiece) /\ acked \in Seq(Answers) /\ Len(acked) \in Nat
        /\ hbuf \in Seq(DownPiece) /\ Len(asked) \in Nat
        /\ \A k \in 1..Len(asked) : f[k] = Ack(asked[k]) /\ f[k] \in Answers
        /\ down'[hconn'] = Tail(q)
    BY <1>2, TalkTyped
  <1>4. /\ lost \in 0..1 /\ i \in lost..Len(asked) /\ j \in i..Len(asked)
        /\ Len(acked) = i - lost
        /\ \A k \in 1..Len(acked) : acked[k] = Ack(asked[lost + k])
        /\ Carries(q, f, i, j)
        /\ Carries(up[hconn], asked, j, Len(asked))
    BY <1>1 DEF Talks, Told
  <1>5. EdgeReader(j)' /\ Executed(j)'
    BY <1>1, <1>2 DEF Talks, EdgeReader, Executed, LastInRange
  <1> HIDE DEF q, f
  <1>6. /\ i < j /\ i \in Nat /\ j \in Nat /\ Tail(q) \in Seq(DownPiece)
        /\ Len(q) = 2 * (j - i) =>
              /\ p = Line(f[i + 1])[1]
              /\ Carries(Tail(q), f, i, j)
              /\ Len(Tail(q)) # 2 * (j - i)
        /\ Len(q) # 2 * (j - i) =>
              /\ p = Line(f[i + 1])[2]
              /\ Carries(Tail(q), f, i + 1, j)
              /\ Len(Tail(q)) = 2 * (j - (i + 1))
    <2>1. i <= j /\ q # <<>> /\ i \in Nat /\ j \in Nat
      BY <1>2, <1>3, <1>4
    <2> QED BY <1>3, <1>4, <2>1, CarriesPop
  <1>9. ASSUME InStep(hbuf, q, f, i, j)
        PROVE  /\ Len(q) = 2 * (j - i) => InStep(hbuf', Tail(q), f, i, j)
               /\ Len(q) # 2 * (j - i) => Parsed(hbuf, p) = <<f[i + 1]>>
    <2>1. i <= j /\ q # <<>> /\ hbuf' = Rest(hbuf, p)
      BY <1>2, <1>6
    <2> HIDE DEF p
    <2>2. /\ Len(q) = 2 * (j - i) => InStep(Rest(hbuf, Head(q)), Tail(q), f, i, j)
          /\ Len(q) # 2 * (j - i) => Parsed(hbuf, Head(q)) = <<f[i + 1]>>
      BY <1>3, <1>4, <1>6, <1>9, <2>1, ReaderPop
    <2> QED BY <2>1, <2>2 DEF p
  <1> HIDE DEF p
  <1>7. CASE Len(q) = 2 * (j - i)
    <2>1. Parsed(hbuf, p) = <<>> /\ hbuf' = Append(hbuf, p) /\ acked' = acked
      <3>1. p.part = "head"
        BY <1>6, <1>7 DEF Line
      <3> QED BY <1>2, <1>3, <3>1, ConcatEmptySeq DEF Parsed, Rest
    <2>2. Told(lost, i, j)'
      BY <1>2, <1>3, <1>4, <1>6, <1>7, <2>1 DEF Told, f
    <2>3. HostReader(i, j)'
      <3>1. CASE InStep(hbuf, q, f, i, j)
        <4>1. InStep(hbuf', Tail(q), f, i, j)
          BY <1>7, <1>9, <3>1
        <4> QED BY <1>2, <1>3, <4>1 DEF HostReader, f
      <3>2. CASE i = 0 /\ hbuf # <<>>
        <4>1. hbuf' # <<>> /\ Len(hbuf') > 1
          <5>1. p \in DownPiece
            BY <1>2, <1>3 DEF p
          <5>2. Len(hbuf') = Len(hbuf) + 1 /\ Len(hbuf) \in Nat \ {0}
            BY <1>3, <2>1, <3>2, <5>1, AppendProperties, LenProperties, EmptySeq
          <5> QED BY <5>2
        <4> QED BY <3>2, <4>1 DEF HostReader
      <3> QED BY <1>1, <3>1, <3>2 DEF Talks, HostReader, q, f
    <2> QED BY <1>2, <1>5, <2>2, <2>3 DEF Conversation, Talks
  <1>8. CASE Len(q) # 2 * (j - i)
    <2>1. p = [part |-> "tail", msg |-> f[i + 1]] /\ hbuf' = <<>>
      BY <1>2, <1>6, <1>8 DEF Line, Rest
    <2>2. HostReader(i + 1, j)'
      <3>1. InStep(hbuf', Tail(q), f, i + 1, j)
        BY <1>6, <1>8, <2>1 DEF InStep
      <3> QED BY <1>2, <1>3, <3>1 DEF HostReader, f
    <2>3. i + 1 \in 0..Len(asked) /\ Carries(Tail(q), f, i + 1, j) /\ i + 1 \in 1..Len(asked)
      BY <1>3, <1>4, <1>6, <1>8
    <2>4. CASE InStep(hbuf, q, f, i, j)
      <3>1. Parsed(hbuf, p) = <<f[i + 1]>>
        BY <1>8, <1>9, <2>4
      <3>2. /\ Len(acked') = Len(acked) + 1 /\ acked'[Len(acked) + 1] = f[i + 1]
            /\ \A k \in 1..Len(acked) : acked'[k] = acked[k]
        <4>1. acked' = Append(acked, f[i + 1])
          BY <1>2, <1>3, <2>3, <3>1, AppendIsConcat
        <4> QED BY <1>3, <2>3, <4>1, AppendProperties
      <3>3. \A k \in 1..Len(acked') : acked'[k] = Ack(asked[lost + k])
        <4> SUFFICES ASSUME NEW k \in 1..Len(acked')
                     PROVE  acked'[k] = Ack(asked[lost + k])
          OBVIOUS
        <4>1. CASE k \in 1..Len(acked)
          BY <1>4, <3>2, <4>1
        <4>2. CASE k = Len(acked) + 1
          <5>1. lost + k = i + 1
            BY <1>4, <4>2
          <5> QED BY <1>3, <2>3, <3>2, <4>2, <5>1
        <4> QED BY <1>3, <3>2, <4>1, <4>2
      <3>4. i + 1 \in lost..Len(asked) /\ j \in (i + 1)..Len(asked) /\ Len(acked') = i + 1 - lost
        BY <1>3, <1>4, <1>6, <3>2
      <3>5. Told(lost, i + 1, j)'
        <4>1. Carries(down'[hconn'], Acks(asked'), i + 1, j)
          BY <1>2, <1>3, <2>3 DEF f
        <4>2. Carries(up'[hconn'], asked', j, Len(asked'))
          BY <1>2, <1>4
        <4> QED BY <1>2, <1>4, <3>3, <3>4, <4>1, <4>2 DEF Told
      <3> QED BY <1>2, <1>5, <2>2, <2>3, <3>5 DEF Conversation, Talks
    <2>5. CASE i = 0 /\ hbuf # <<>> /\ Len(hbuf) > 1
      <3>1. Parsed(hbuf, p) = <<>>
        BY <2>5, NotOne DEF Parsed
      <3>2. acked' = acked /\ lost = 0 /\ Len(acked) = 0
        BY <1>2, <1>3, <1>4, <2>5, <3>1, ConcatEmptySeq
      <3>3. Told(1, 1, j)'
        <4>1. Carries(down'[hconn'], Acks(asked'), 1, j)
          <5>1. i + 1 = 1
            BY <2>5
          <5>2. Carries(Tail(q), f, 1, j)
            BY <2>3, <5>1
          <5> QED BY <1>2, <1>3, <5>2 DEF f
        <4>2. Carries(up'[hconn'], asked', j, Len(asked')) /\ j \in 1..Len(asked')
          BY <1>2, <1>4, <1>6, <2>5
        <4>3. Len(acked') = 0 /\ 1 \in 1..Len(asked')
          BY <1>2, <2>3, <2>5, <3>2
        <4> QED BY <4>1, <4>2, <4>3 DEF Told
      <3>4. HostReader(1, j)' /\ 1 \in 0..Len(asked)
        BY <2>2, <2>3, <2>5
      <3> QED BY <1>2, <1>5, <3>3, <3>4 DEF Conversation, Talks
    <2>6. \/ InStep(hbuf, q, f, i, j)
          \/ i = 0 /\ hbuf # <<>> /\ Len(hbuf) > 1
      BY <1>1, <1>8 DEF Talks, HostReader, q, f
    <2> QED BY <2>4, <2>5, <2>6
  <1> QED BY <1>7, <1>8

\* A thread that leaves holds no connection.
LEMMA LeaveEnds ==
  ASSUME NEW d, Leave(d)
  PROVE  ~Whole(hconn)'
  <1>1. econn' = 0 /\ backlog' = <<>>
    BY DEF Leave
  <1>2. Clients' = {}
    BY <1>1 DEF Clients, ToSet
  <1> QED BY <1>2 DEF Whole

\* accept() gives the connection a new buffer; nothing of it was read.
LEMMA TalkAccept ==
  ASSUME Inv, Conversation, Accept, Whole(hconn)'
  PROVE  Conversation'
  <1>1. /\ ethread = "accept" /\ ebuf' = <<>>
        /\ UNCHANGED <<hstate, hconn, hbuf, asked, acked, param, up>>
    BY DEF Accept, host
  <1>2. ~Leave(down)
    BY LeaveEnds
  <1>3. econn' = Head(backlog) /\ backlog' = Tail(backlog) /\ down' = down /\ backlog # <<>>
    BY <1>2 DEF Accept
  <1>4. Whole(hconn) /\ econn = 0 /\ hconn # 0
    <2>1. /\ backlog \in Seq(Connections) /\ Head(backlog) = backlog[1]
          /\ Len(backlog) \in Nat \ {0} /\ DOMAIN backlog = 1..Len(backlog)
          /\ DOMAIN Tail(backlog) = 1..Len(Tail(backlog))
          /\ Len(Tail(backlog)) = Len(backlog) - 1
          /\ \A i \in 1..Len(Tail(backlog)) : Tail(backlog)[i] = backlog[i + 1]
      BY <1>3, HeadTailProperties, LenProperties, EmptySeq, Basics DEF TypeOK
    <2>2. ToSet(Tail(backlog)) \subseteq ToSet(backlog)
      BY <2>1 DEF ToSet
    <2>3. Head(backlog) \in ToSet(backlog)
      BY <2>1 DEF ToSet
    <2>4. Clients' \subseteq ToSet(backlog)
      <3>1. Clients' = ToSet(Tail(backlog)) \cup ({Head(backlog)} \ {0})
        BY <1>3 DEF Clients
      <3> QED BY <2>2, <2>3, <3>1
    <2>5. hstate = "connected" /\ hconn \in Clients'
      BY <1>1 DEF Whole
    <2> QED BY <1>1, <2>4, <2>5, Basics DEF Whole, Clients, Carried
  <1>5. PICK lost \in 0..1, i \in 0..Len(asked), j \in 0..Len(asked) : Talks(lost, i, j)
    BY <1>4 DEF Conversation
  <1>6. Told(lost, i, j)' /\ HostReader(i, j)'
    BY <1>1, <1>3, <1>5 DEF Talks, Told, HostReader
  <1>7. j = 0 /\ Len(up[hconn]) = 2 * Len(asked) /\ Len(asked) \in Nat
    BY <1>4, <1>5, TalkTyped DEF Talks, EdgeReader
  <1>8. EdgeReader(j)'
    BY <1>1, <1>7 DEF EdgeReader, InStep
  <1>9. Executed(j)'
    BY <1>7 DEF Executed
  <1> QED BY <1>1, <1>5, <1>6, <1>8, <1>9 DEF Conversation, Talks

\* A piece of the next set is read. Its tail completes it: it is stored, if
\* it is in range, and answered behind the answers on their way.
LEMMA TalkRecv ==
  ASSUME Inv, Conversation, Recv, Whole(hconn)'
  PROVE  Conversation'
  <1> DEFINE q == up[econn]
             p == Head(q)
             ms == Parsed(ebuf, p)
             n == Len(asked)
  <1>1. /\ ethread = "recv" /\ q # <<>> /\ ebuf' = Rest(ebuf, p) /\ Store(ms)
        /\ up' = [up EXCEPT ![econn] = Tail(@)]
        /\ UNCHANGED <<hstate, hconn, hbuf, asked, acked>>
    BY DEF Recv, host
  <1>2. ~Leave([down EXCEPT ![econn] = @ \o Answer(ms)])
    BY LeaveEnds
  <1>3. /\ down' = [down EXCEPT ![econn] = @ \o Answer(ms)]
        /\ UNCHANGED <<econn, backlog>>
    BY <1>2 DEF Recv
  <1>4. Whole(hconn)
    BY <1>1, <1>3 DEF Whole, Clients
  <1>5. /\ hconn \in Connections /\ up \in [Connections -> Seq(UpPiece)]
        /\ down \in [Connections -> Seq(DownPiece)] /\ n \in Nat
        /\ \A k \in 1..n : /\ asked[k] \in Requests /\ Ack(asked[k]) \in Answers
                           /\ Acks(asked)[k] = Ack(asked[k])
    BY <1>4, TalkTyped
  <1>6. PICK lost \in 0..1, i \in 0..n, j \in 0..n : Talks(lost, i, j)
    BY <1>4 DEF Conversation
  <1>7. CASE hconn # econn
    <2>1. up'[hconn] = up[hconn] /\ down'[hconn] = down[hconn]
      BY <1>1, <1>3, <1>5, <1>7
    <2> QED BY <1>1, <1>3, <1>4, <1>7, <2>1, TalkElsewhere
  <1>8. CASE hconn = econn
    <2>1. /\ i \in lost..n /\ j \in i..n /\ Len(acked) = i - lost
          /\ \A k \in 1..Len(acked) : acked[k] = Ack(asked[lost + k])
          /\ Carries(down[hconn], Acks(asked), i, j)
          /\ Carries(q, asked, j, n)
          /\ InStep(ebuf, q, asked, j, n)
          /\ lost \in 0..1 /\ q \in Seq(UpPiece) /\ up'[hconn] = Tail(q)
      BY <1>1, <1>5, <1>6, <1>8 DEF Talks, Told, EdgeReader
    <2>2. \A k \in 1..j : LastInRange(k, j) => param[asked[k].name] = asked[k].value
      BY <1>6, <1>8 DEF Talks, Executed
    <2>3. down'[hconn] = down[hconn] \o Answer(ms) /\ down[hconn] \in Seq(DownPiece)
      BY <1>3, <1>5, <1>8
    <2> HIDE DEF q, n
    <2>4. i \in Nat /\ j \in Nat /\ n \in Nat /\ i <= j /\ j <= n
      BY <1>5, <2>1
    <2>5. /\ j < n /\ Tail(q) \in Seq(UpPiece)
          /\ Len(q) = 2 * (n - j) => Carries(Tail(q), asked, j, n)
          /\ Len(q) # 2 * (n - j) => Carries(Tail(q), asked, j + 1, n)
      BY <1>1, <2>1, <2>4, CarriesPop
    <2>6. /\ Len(q) = 2 * (n - j) =>
               ms = <<>> /\ InStep(ebuf', Tail(q), asked, j, n)
          /\ Len(q) # 2 * (n - j) =>
               ms = <<asked[j + 1]>> /\ InStep(ebuf', Tail(q), asked, j + 1, n)
      <3>1. /\ Len(q) = 2 * (n - j) =>
                 /\ Parsed(ebuf, Head(q)) = <<>>
                 /\ InStep(Rest(ebuf, Head(q)), Tail(q), asked, j, n)
            /\ Len(q) # 2 * (n - j) =>
                 /\ Parsed(ebuf, Head(q)) = <<asked[j + 1]>>
                 /\ InStep(Rest(ebuf, Head(q)), Tail(q), asked, j + 1, n)
        BY <1>1, <2>1, <2>4, ReaderPop
      <3> QED BY <1>1, <3>1
    <2> HIDE DEF ms
    <2>7. CASE Len(q) = 2 * (n - j)
      <3>1. down'[hconn] = down[hconn] /\ \A x \in Names : param'[x] = param[x]
        <4>1. Answer(ms) = <<>>
          BY <2>6, <2>7 DEF Answer
        <4>2. \A x \in Names : param'[x] = param[x]
          BY <1>1, <2>6, <2>7 DEF Store
        <4> QED BY <2>3, <4>1, <4>2, ConcatEmptySeq
      <3>2. Told(lost, i, j)'
        BY <1>1, <2>1, <2>5, <2>7, <3>1 DEF Told, n
      <3>3. HostReader(i, j)'
        BY <1>1, <1>6, <3>1 DEF Talks, HostReader
      <3>4. EdgeReader(j)'
        BY <1>1, <1>3, <1>8, <2>1, <2>6, <2>7 DEF EdgeReader, n
      <3>5. Executed(j)'
        <4>1. \A k \in 1..j : LastInRange(k, j)' => LastInRange(k, j) /\ asked[k].name \in Names
          BY <1>1 DEF LastInRange, InRange
        <4> QED BY <1>1, <2>2, <3>1, <4>1 DEF Executed
      <3> QED BY <1>1, <1>6, <3>2, <3>3, <3>4, <3>5 DEF Conversation, Talks, n
    <2>8. CASE Len(q) # 2 * (n - j)
      <3> DEFINE x == asked[j + 1]
      <3>1. /\ j + 1 \in 1..n /\ x \in Requests /\ ms = <<x>>
            /\ Acks(asked)[j + 1] = Ack(x) /\ Ack(x) \in Answers
        <4>1. j + 1 \in 1..n
          BY <2>4, <2>5
        <4> QED BY <1>5, <2>6, <2>8, <4>1 DEF n
      <3>2. /\ Carries(down'[hconn], Acks(asked), i, j + 1)
            /\ Len(down'[hconn]) = Len(down[hconn]) + 2
            /\ Len(down[hconn]) \in Nat
        <4>1. down'[hconn] = down[hconn] \o Line(Acks(asked)[j + 1])
          BY <2>3, <3>1 DEF Answer
        <4>2. Line(Acks(asked)[j + 1]) \in Seq(DownPiece)
          BY <3>1, LineTyped
        <4>3. Carries(down[hconn], Acks(asked), i, j) /\ down[hconn] \in Seq(DownPiece)
          BY <2>1, <2>3
        <4>4. /\ Carries(down[hconn] \o Line(Acks(asked)[j + 1]), Acks(asked), i, j + 1)
              /\ Len(down[hconn] \o Line(Acks(asked)[j + 1])) = Len(down[hconn]) + 2
          BY <2>4, <4>2, <4>3, CarriesPush
        <4> QED BY <4>1, <4>3, <4>4, LenProperties
      <3>3. Told(lost, i, j + 1)'
        <4>1. j + 1 \in i..n /\ Carries(Tail(q), asked, j + 1, n)
          BY <2>4, <2>5, <2>8
        <4> QED BY <1>1, <2>1, <3>2, <4>1 DEF Told, n
      <3>4. HostReader(i, j + 1)'
        <4>1. Len(down'[hconn]) = 2 * ((j + 1) - i) <=> Len(down[hconn]) = 2 * (j - i)
          BY <2>4, <3>2
        <4>2. Len(down'[hconn]) = 2 * (j + 1) <=> Len(down[hconn]) = 2 * j
          BY <2>4, <3>2
        <4>3. CASE InStep(hbuf, down[hconn], Acks(asked), i, j)
          <5>1. InStep(hbuf, down'[hconn], Acks(asked), i, j + 1)
            BY <2>4, <3>2, <4>1, <4>3 DEF InStep
          <5> QED BY <1>1, <5>1 DEF HostReader
        <4>4. CASE i = 0 /\ hbuf # <<>> /\ (Len(down[hconn]) # 2 * j => Len(hbuf) > 1)
          BY <1>1, <4>2, <4>4 DEF HostReader
        <4> QED BY <1>6, <4>3, <4>4 DEF Talks, HostReader
      <3>5. EdgeReader(j + 1)'
        BY <1>1, <1>3, <1>8, <2>1, <2>6, <2>8 DEF EdgeReader, n
      <3>6. Executed(j + 1)'
        <4> SUFFICES ASSUME NEW k \in 1..(j + 1), LastInRange(k, j + 1)'
                     PROVE  param'[asked[k].name] = asked[k].value
          BY <1>1 DEF Executed
        <4>1. LastInRange(k, j + 1)
          BY <1>1 DEF LastInRange
        <4>2. /\ asked[k].name \in Names
              /\ param'[asked[k].name] =
                   IF x.name = asked[k].name /\ InRange(x)
                     THEN x.value ELSE param[asked[k].name]
          <5>1. asked[k].name \in Names
            BY <4>1 DEF LastInRange, InRange
          <5>2. /\ ms[1] = x
                /\ \A y : (\E l \in DOMAIN ms : ms[l].name = y /\ InRange(ms[l]))
                           <=> x.name = y /\ InRange(x)
            BY <3>1
          <5> QED BY <1>1, <5>1, <5>2 DEF Store
        <4>3. CASE k = j + 1
          BY <4>1, <4>2, <4>3 DEF LastInRange
        <4>4. CASE k \in 1..j
          <5>1. LastInRange(k, j)
            <6>1. \A l \in (k + 1)..j : l \in (k + 1)..(j + 1)
              BY <2>4
            <6> QED BY <4>1, <6>1 DEF LastInRange
          <5>2. ~(x.name = asked[k].name /\ InRange(x))
            <6>1. j + 1 \in (k + 1)..(j + 1)
              BY <2>4, <4>4
            <6> QED BY <4>1, <6>1 DEF LastInRange
          <5> QED BY <2>2, <4>2, <4>4, <5>1, <5>2
        <4> QED BY <2>4, <4>3, <4>4
      <3>7. j + 1 \in 0..n
        BY <2>4, <2>5
      <3> QED BY <1>1, <1>6, <3>3, <3>4, <3>5, <3>6, <3>7 DEF Conversation, Talks, n
    <2> QED BY <2>7, <2>8
  <1> QED BY <1>7, <1>8

\* At the start no host is connected.
LEMMA TalkInitially == Init => Conversation
  BY DEF Init, Conversation, Whole

\* One case per action: those that end the connection, those that leave it
\* alone, and the four that use it.
LEMMA TalkStep ==
  ASSUME Inv, Conversation, [Next]_vars
  PROVE  Conversation'
  <1> SUFFICES ASSUME Whole(hconn)' PROVE Conversation'
    BY DEF Conversation
  <1>1. CASE Connected
    BY <1>1, TalkConnected
  <1>2. CASE Accept
    BY <1>2, TalkAccept
  <1>3. CASE Recv
    BY <1>3, TalkRecv
  <1>4. ASSUME NEW m \in Requests, SetParam(m) PROVE Conversation'
    <2>1. Whole(hconn)
      BY <1>4 DEF SetParam, Whole, Clients, edge
    <2> QED BY <1>4, <2>1, TalkSet
  <1>5. CASE HostReads
    <2>1. Whole(hconn)
      BY <1>5 DEF HostReads, Whole, Clients, edge
    <2> QED BY <1>5, <2>1, TalkHostReads
  <1>6. CASE \/ TimerFires \/ ConnectFails \/ HostClosed \/ HostRestarts \/ LinkBreaks
             \/ EdgeStops
    <2>1. hstate' # "connected" \/ (econn' = 0 /\ backlog' = <<>>)
      BY <1>6 DEF TimerFires, ConnectFails, HostClosed, HostRestarts, LinkBreaks,
                  EdgeStops, LoseSocket
    <2> QED BY <2>1 DEF Whole, Clients, ToSet
  <1>7. CASE EdgeSignal \/ EdgeStarts \/ UNCHANGED vars
    <2>1. /\ UNCHANGED <<hstate, hconn, hbuf, asked, acked, up, down, econn, backlog>>
          /\ \/ UNCHANGED <<ebuf, param>>
             \/ ethread = "off"
      BY <1>7 DEF EdgeSignal, EdgeStarts, vars, host, edge
    <2>2. Whole(hconn)
      BY <2>1 DEF Whole, Clients
    <2>3. ethread = "off" => hconn # econn
      BY <2>2, Basics DEF Whole, Carried
    <2> QED BY <2>1, <2>2, <2>3, TalkElsewhere
  <1>8. CASE RecvEnd
    <2>1. /\ ethread = "recv" /\ up[econn] # <<>> /\ Head(up[econn]).part = "fin"
          /\ UNCHANGED <<hstate, hconn, hbuf, asked, acked, up>>
      BY <1>8 DEF RecvEnd, host
    <2>2. econn' = 0 /\ UNCHANGED <<backlog, down>>
      BY <1>8, LeaveEnds DEF RecvEnd
    <2>3. Whole(hconn) /\ hconn # 0
      BY <2>1, <2>2, Basics DEF Whole, Clients, Carried
    <2>4. hconn # econn
      <3> SUFFICES ASSUME hconn = econn PROVE FALSE
        OBVIOUS
      <3>1. up[econn] \in Seq(UpPiece) /\ ~Ended(up[econn])
        BY <2>3, TalkTyped
      <3>2. /\ Head(up[econn]) = up[econn][1] /\ Head(up[econn]) \in UpPiece
            /\ 1 \in 1..Len(up[econn])
        BY <2>1, <3>1, HeadTailProperties, EmptySeq, LenProperties
      <3>3. Head(up[econn]) = Fin
        BY <2>1, <3>2 DEF UpPiece
      <3> QED BY <3>1, <3>2, <3>3 DEF Ended
    <2> QED BY <2>1, <2>2, <2>3, <2>4, TalkElsewhere
  <1> QED
    BY <1>1, <1>2, <1>3, <1>4, <1>5, <1>6, <1>7, <1>8 DEF Next, HostStep, EdgeStep

\* What a host and the edge have told each other is an invariant: the sets
\* split into those whose answer was read, is coming down, or is still to be
\* given (paramclient.cpp:47-95, thread_monitor.cpp:229-277).
THEOREM ConversationKept == Spec => [](Inv /\ Conversation)
  <1>1. Init => Inv /\ Conversation
    BY InvInitially, TalkInitially
  <1>2. Inv /\ Conversation /\ [Next]_vars => (Inv /\ Conversation)'
    BY Inductive, TalkStep
  <1> QED BY <1>1, <1>2, PTL DEF Spec

\* On a connection that both sides hold, each set is answered at most once,
\* in order and with the verdict for its own value; no answer but the first
\* is missing (paramclient.cpp:65-95, thread_monitor.cpp:229-277).
THEOREM AnswersKept == Spec => []AnswersInOrder
  <1>1. Inv /\ Conversation => AnswersInOrder
    <2> SUFFICES ASSUME Inv, Conversation, Whole(hconn)
                 PROVE  \E lost \in {0, 1}, i, j \in 0..Len(asked) :
                          /\ lost <= i /\ i <= j
                          /\ acked = Acks(SubSeq(asked, lost + 1, i))
                          /\ Carries(down[hconn], Acks(asked), i, j)
                          /\ Carries(up[hconn], asked, j, Len(asked))
      BY DEF AnswersInOrder
    <2>1. PICK lost \in 0..1, i \in 0..Len(asked), j \in 0..Len(asked) : Talks(lost, i, j)
      BY DEF Conversation
    <2>2. Told(lost, i, j) /\ asked \in Seq(Requests) /\ acked \in Seq(Answers)
          /\ Len(asked) \in Nat
      BY <2>1, TalkTyped DEF Talks
    <2> DEFINE s == SubSeq(asked, lost + 1, i)
    <2>3. /\ s \in Seq(Requests) /\ Len(s) = i - lost
          /\ \A k \in 1..(i - lost) : s[k] = asked[lost + k]
      BY <2>2 DEF Told
    <2> HIDE DEF s
    <2>4. Acks(s) = [k \in 1..(i - lost) |-> Ack(asked[lost + k])]
      <3>1. DOMAIN s = 1..(i - lost)
        BY <2>3, LenProperties
      <3> QED BY <2>3, <3>1 DEF Acks
    <2>5. acked = [k \in 1..(i - lost) |-> Ack(asked[lost + k])]
      <3>1. acked = [k \in 1..(i - lost) |-> acked[k]]
        BY <2>2 DEF Told
      <3> QED BY <2>2, <3>1 DEF Told
    <2>6. lost <= i /\ i <= j /\ lost \in {0, 1} /\ acked = Acks(s)
      BY <2>2, <2>4, <2>5 DEF Told
    <2> QED BY <2>2, <2>6 DEF Told, s
  <1> QED BY <1>1, ConversationKept, PTL

\* When the edge has read all that this host sent, each parameter has the
\* value of the host's last set of it in range (thread_monitor.cpp:241-256).
THEOREM LastSetKept == Spec => []LastSetWins
  <1>1. Inv /\ Conversation => LastSetWins
    <2> SUFFICES ASSUME Inv, Conversation,
                        Whole(hconn), hconn = econn, up[hconn] = <<>>,
                        NEW k \in 1..Len(asked), LastInRange(k, Len(asked))
                 PROVE  param[asked[k].name] = asked[k].value
      BY DEF LastSetWins
    <2>1. PICK lost \in 0..1, i \in 0..Len(asked), j \in 0..Len(asked) : Talks(lost, i, j)
      BY DEF Conversation
    <2>2. Carries(<<>>, asked, j, Len(asked)) /\ Executed(j)
      BY <2>1 DEF Talks, Told
    <2>3. j = Len(asked)
      BY <2>2, TalkTyped, CarriesNone
    <2> QED BY <2>2, <2>3 DEF Executed
  <1> QED BY <1>1, ConversationKept, PTL

\* What is left of paramclient.h:35, which promises that glued and broken
\* lines do no harm: when nothing is on its way any more, every set of this
\* connection has been acknowledged, except perhaps the first.
AllButFirst ==
  Whole(hconn) /\ down[hconn] = <<>> /\ up[hconn] = <<>> =>
    \/ acked = Acks(asked)
    \/ asked # <<>> /\ acked = Acks(Tail(asked))

THEOREM OneAnswerAtMost == Spec => []AllButFirst
  <1>1. Inv /\ AnswersInOrder => AllButFirst
    <2> SUFFICES ASSUME Inv, AnswersInOrder,
                        Whole(hconn), down[hconn] = <<>>, up[hconn] = <<>>
                 PROVE  \/ acked = Acks(asked)
                        \/ asked # <<>> /\ acked = Acks(Tail(asked))
      BY DEF AllButFirst
    <2>1. PICK lost \in {0, 1}, i \in 0..Len(asked), j \in 0..Len(asked) :
            /\ lost <= i /\ i <= j
            /\ acked = Acks(SubSeq(asked, lost + 1, i))
            /\ Carries(<<>>, Acks(asked), i, j)
            /\ Carries(<<>>, asked, j, Len(asked))
      BY DEF AnswersInOrder
    <2>2. asked \in Seq(Requests) /\ Len(asked) \in Nat
      BY LenProperties DEF Inv, TypeOK
    <2>3. i = j /\ j = Len(asked)
      BY <2>1, <2>2, CarriesNone
    <2> DEFINE s == SubSeq(asked, lost + 1, i)
    <2>4. acked = Acks(s)
      BY <2>1
    <2>5. CASE lost = 0
      <3>1. s = asked
        BY <2>2, <2>3, <2>5
      <3> QED BY <2>4, <3>1
    <2>6. CASE lost = 1
      <3>1. asked # <<>> /\ s = Tail(asked)
        BY <2>1, <2>2, <2>3, <2>6
      <3> HIDE DEF s
      <3> QED BY <2>4, <3>1
    <2> QED BY <2>5, <2>6
  <1> QED BY <1>1, Invariance, AnswersKept, PTL
=============================================================================
