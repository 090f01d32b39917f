---------------------------- MODULE StatusProofs ----------------------------
(***************************************************************************)
(* StatusChannel's safety properties, proved for any window, frame rate,   *)
(* backlog, socket buffer and number of restarts.                          *)
(***************************************************************************)
EXTENDS StatusChannel, SequenceTheorems, TLAPS

----------------------------------------------------------------------------
(* Queues and products                                                     *)

\* A connection that is established joins those in the backlog.
LEMMA ToSetAppend ==
  ASSUME NEW S, NEW q \in Seq(S), NEW e \in S
  PROVE  ToSet(Append(q, e)) = ToSet(q) \cup {e}
  <1> DEFINE p == Append(q, e)
  <1>1. /\ Len(q) \in Nat /\ Len(p) = Len(q) + 1
        /\ DOMAIN q = 1..Len(q) /\ DOMAIN p = 1..Len(p)
        /\ \A i \in 1..Len(q) : p[i] = q[i]
        /\ p[Len(q) + 1] = e
    BY AppendProperties, LenProperties
  <1> HIDE DEF p
  <1>2. DOMAIN p = DOMAIN q \cup {Len(q) + 1}
    BY <1>1
  <1> QED BY <1>1, <1>2 DEF ToSet, p

\* The oldest leaves it.
LEMMA ToSetTail ==
  ASSUME NEW S, NEW q \in Seq(S), q # <<>>
  PROVE  ToSet(q) = {Head(q)} \cup ToSet(Tail(q))
  <1> DEFINE t == Tail(q)
  <1>1. /\ t \in Seq(S) /\ Len(t) = Len(q) - 1 /\ Len(q) \in Nat \ {0}
        /\ \A i \in 1..Len(t) : t[i] = q[i + 1]
        /\ Head(q) = q[1]
        /\ DOMAIN q = 1..Len(q) /\ DOMAIN t = 1..Len(t)
    BY HeadTailProperties, LenProperties, EmptySeq
  <1> HIDE DEF t
  <1>2. \A i \in DOMAIN q : q[i] \in {Head(q)} \cup ToSet(t)
    <2> SUFFICES ASSUME NEW i \in DOMAIN q, i # 1 PROVE q[i] \in ToSet(t)
      BY <1>1
    <2>1. i - 1 \in DOMAIN t /\ q[i] = t[i - 1]
      BY <1>1
    <2> QED BY <2>1 DEF ToSet
  <1>3. \A i \in DOMAIN t : t[i] \in ToSet(q)
    <2> SUFFICES ASSUME NEW i \in DOMAIN t PROVE t[i] \in ToSet(q)
      OBVIOUS
    <2>1. i + 1 \in DOMAIN q /\ t[i] = q[i + 1]
      BY <1>1
    <2> QED BY <2>1 DEF ToSet
  <1>4. Head(q) \in ToSet(q)
    BY <1>1 DEF ToSet
  <1> QED BY <1>2, <1>3, <1>4 DEF ToSet, t

\* Frames of a time are at most Rate a tick.
LEMMA Frames ==
  /\ \A t \in Nat : Rate * t \in Nat /\ Rate * (t + 1) = Rate * t + Rate
  /\ \A t, u \in Nat : t <= u => Rate * t <= Rate * u
  <1>1. \A t \in Nat : Rate * t \in Nat /\ Rate * (t + 1) = Rate * t + Rate
    BY StatusAssumption
  <1>2. ASSUME NEW t \in Nat, NEW u \in Nat, t <= u PROVE Rate * t <= Rate * u
    BY <1>2, StatusAssumption
  <1> QED BY <1>1, <1>2

----------------------------------------------------------------------------
(* The inductive invariant                                                 *)

\* A window that is not over has had at most Rate frames a tick; one that
\* was steady has had a frame in each of its ticks.
Metered ==
  /\ count <= Rate * Second
  /\ age < Second => count <= Rate * age + inTick
  /\ fps <= Rate * Second + 1
  /\ steady => IF inTick = 0 THEN count + 1 >= age ELSE count >= age

\* A connection that was not cut is held by the edge; the host's is alive,
\* unless it is dead and the host has not been told.
Held ==
  /\ wire \in [Connections -> Seq(0..MaxCount)]
  /\ peer \in [Connections -> {"none", "alive", "closed", "vanished", "reset"}]
  /\ \A c \in Connections : c > conns => wire[c] = <<>>
  /\ ToSet(backlog) \subseteq 1..conns
  /\ 1..conns \subseteq cut \cup Clients
  /\ ~Listening => mconn = 0 /\ backlog = <<>>
  /\ hstate = "connected" => hconn # 0 /\ (dead \/ peer[hconn] = "alive")

\* A new connection takes a restart of one side or a broken link.
Counted ==
  /\ hrestarts \in 0..MaxRestarts /\ erestarts \in 0..MaxRestarts
  /\ conns <= hrestarts + erestarts + 1
  /\ Listening /\ (hstate = "connected" => hconn \in cut \/ dead)
       => conns <= hrestarts + erestarts

\* Rates other than 0 come from this process or an earlier connection.
Sourced ==
  /\ NoGhostRate
  /\ report > 0 => fps > 0
  /\ \A c \in Connections : \A i \in 1..Len(wire[c]) :
       wire[c][i] > 0 => c \in cut \/ fps > 0

Inv == TypeOK /\ Metered /\ Held /\ Counted /\ Sourced

----------------------------------------------------------------------------
LEMMA InvInitially == Init => Inv
  <1> SUFFICES ASSUME Init PROVE Inv
    OBVIOUS
  <1>0. /\ MaxCount \in Nat /\ <<>> \in Seq(Connections) /\ <<>> \in Seq(0..MaxCount)
        /\ Len(<<>>) = 0 /\ Horizon \in Nat /\ ToSet(<<>>) = {}
    BY StatusAssumption DEF MaxCount, Horizon, ToSet
  <1>1. TypeOK
    <2>1. conns = 0 /\ mconn = 0 /\ hconn = 0 /\ 0 \in 0..conns /\ cut \subseteq 1..conns
      BY DEF Init
    <2>2. conns \in 0..(2 * MaxRestarts + 1)
      BY <2>1, StatusAssumption
    <2>3. \A c \in Connections : wire[c] = <<>> /\ peer[c] = "none"
      BY DEF Init
    <2>4. /\ fps \in 0..MaxCount /\ count \in 0..MaxCount /\ report \in 0..MaxCount
          /\ shown \in 0..MaxCount /\ age \in 0..Horizon /\ idle \in 0..Horizon
          /\ inTick \in 0..Rate
      BY <1>0, StatusAssumption DEF Init
    <2>6. SocketBuffer >= 0
      BY StatusAssumption
    <2>5. \A c \in Connections : /\ wire[c] \in Seq(0..MaxCount)
                                /\ Len(wire[c]) <= SocketBuffer
      BY <1>0, <2>3, <2>6
    <2> QED BY <1>0, <2>1, <2>2, <2>3, <2>4, <2>5 DEF Init, TypeOK
  <1>2. Metered
    BY Frames, StatusAssumption DEF Init, Metered
  <1>3. Held
    BY <1>0 DEF Init, Held, Listening
  <1>4. Counted
    BY StatusAssumption DEF Init, Counted
  <1>5. Sourced
    BY <1>0 DEF Init, Sourced, NoGhostRate, Online
  <1> QED BY <1>1, <1>2, <1>3, <1>4, <1>5 DEF Inv

\* What is not a step of the meter or a new process leaves the meter alone.
LEMMA MeterAlone ==
  ASSUME [Next]_vars, ~Tick, ~Frame, ~EdgeStarts
  PROVE  UNCHANGED meter
  BY DEF Next, MonitorStep, HostStep, Accept, Wake, Sends, GiveUp, SendFails,
         EdgeSignal, EdgeStops, TimerFires, Connected, ConnectFails, HostReads,
         HostClosed, HostRestarts, LinkBreaks, vars

LEMMA MeterTypes ==
  ASSUME Inv
  PROVE  /\ fps \in Nat /\ count \in Nat /\ age \in Nat /\ inTick \in Nat
         /\ idle \in Nat /\ inTick <= Rate /\ age <= Horizon /\ idle <= Horizon
         /\ Horizon \in Nat /\ Horizon = 2 * Second
         /\ Rate * Second \in Nat /\ Rate * Second + 1 <= MaxCount /\ MaxCount \in Nat
  <1>1. Horizon \in Nat /\ Horizon = 2 * Second /\ Second <= Horizon
    BY StatusAssumption DEF Horizon
  <1>2. Rate * Second \in Nat /\ Rate * Horizon \in Nat
        /\ Rate * Second <= Rate * Horizon /\ Rate * (Horizon + 1) = Rate * Horizon + Rate
    BY <1>1, Frames, StatusAssumption
  <1>3. MaxCount \in Nat /\ Rate * Second + 1 <= MaxCount
    BY <1>2, StatusAssumption DEF MaxCount
  <1> QED BY <1>1, <1>2, <1>3, StatusAssumption DEF Inv, TypeOK

LEMMA MeterStep ==
  ASSUME Inv, [Next]_vars
  PROVE  /\ Metered'
         /\ fps' \in 0..MaxCount /\ count' \in 0..MaxCount
         /\ age' \in 0..Horizon /\ idle' \in 0..Horizon
         /\ inTick' \in 0..Rate /\ steady' \in BOOLEAN
         /\ fps > 0 /\ ~EdgeStarts => fps' > 0
  <1>0. /\ fps \in Nat /\ count \in Nat /\ age \in Nat /\ inTick \in Nat
        /\ idle \in Nat /\ inTick <= Rate /\ age <= Horizon /\ idle <= Horizon
        /\ Horizon \in Nat /\ Horizon = 2 * Second /\ Second \in Nat \ {0}
        /\ Rate * Second \in Nat /\ Rate * Second + 1 <= MaxCount /\ MaxCount \in Nat
        /\ Rate \in Nat \ {0} /\ steady \in BOOLEAN
    BY MeterTypes, StatusAssumption DEF Inv, TypeOK
  <1> DEFINE most == Rate * Second
             now == Rate * age
  <1>8. most \in Nat /\ most + 1 <= MaxCount
    BY <1>0
  <1>1. /\ now \in Nat /\ Rate * (age + 1) = now + Rate
        /\ age < Second => now + Rate <= most
    <2>1. now \in Nat /\ Rate * (age + 1) = now + Rate
      BY <1>0, Frames
    <2>2. age < Second => Rate * (age + 1) <= most
      BY <1>0, Frames
    <2> QED BY <2>1, <2>2
  <1>2. /\ count <= most /\ fps <= most + 1
        /\ age < Second => count <= now + inTick
        /\ steady => IF inTick = 0 THEN count + 1 >= age ELSE count >= age
    BY DEF Inv, Metered
  <1>3. CASE Tick
    <2>1. /\ age' = Capped(age) /\ idle' = Capped(idle)
          /\ steady' = (steady /\ inTick > 0) /\ inTick' = 0
          /\ fps' = fps /\ count' = count
      BY <1>3 DEF Tick
    <2>2. /\ age' \in 0..Horizon /\ idle' \in 0..Horizon
          /\ age' = age \/ age' = age + 1
      BY <1>0, <2>1 DEF Capped
    <2>3. age' < Second => age' = age + 1
      BY <1>0, <2>1 DEF Capped
    <2>4. age' < Second => count' <= Rate * age' + inTick'
      <3> SUFFICES ASSUME age' < Second PROVE count' <= Rate * age' + inTick'
        OBVIOUS
      <3>1. Rate * age' = now + Rate /\ age < Second
        BY <1>0, <1>1, <2>3
      <3> HIDE DEF now
      <3> QED BY <1>0, <1>1, <1>2, <2>1, <3>1
    <2>5. steady' => count' + 1 >= age'
      <3> SUFFICES ASSUME steady' PROVE count' + 1 >= age'
        OBVIOUS
      <3>1. steady /\ inTick > 0
        BY <2>1, Zenon
      <3>2. count >= age
        BY <1>0, <1>2, <3>1
      <3> QED BY <1>0, <2>1, <2>2, <3>2
    <2>6. steady' \in BOOLEAN
      BY <2>1, Zenon
    <2> HIDE DEF most, now
    <2> QED BY <1>0, <1>2, <2>1, <2>2, <2>4, <2>5, <2>6 DEF Metered, most
  <1>4. CASE Frame /\ age >= Second
    <2>1. /\ inTick' = inTick + 1 /\ idle' = 0 /\ inTick < Rate
          /\ fps' = count + 1 /\ count' = 0 /\ age' = 0 /\ steady' = TRUE
      BY <1>4 DEF Frame, Publish
    <2>2. Rate * age' = 0
      BY <1>0, <2>1
    <2> HIDE DEF most, now
    <2> QED BY <1>0, <1>2, <2>1, <2>2 DEF Metered, most
  <1>5. CASE Frame /\ ~(age >= Second)
    <2>1. /\ inTick' = inTick + 1 /\ idle' = 0 /\ inTick < Rate
          /\ fps' = fps /\ count' = count + 1 /\ age' = age /\ steady' = steady
      BY <1>5 DEF Frame
    <2>2. Rate * age' = now /\ age < Second
      BY <1>0, <1>5, <2>1
    <2> HIDE DEF most, now
    <2>3. count + 1 <= most /\ count + 1 <= now + (inTick + 1)
      BY <1>0, <1>1, <1>2, <1>8, <2>1, <2>2
    <2> QED BY <1>0, <1>2, <2>1, <2>2, <2>3 DEF Metered, most
  <1>6. CASE EdgeStarts
    <2>1. /\ fps' = 0 /\ count' = 0 /\ age' = 0
          /\ inTick' = 0 /\ steady' = TRUE /\ idle' = 0
      BY <1>6 DEF EdgeStarts, MeterStart
    <2>2. Rate * age' = 0
      BY <1>0, <2>1
    <2> HIDE DEF most, now
    <2> QED BY <1>0, <1>6, <2>1, <2>2 DEF Metered, most
  <1>7. CASE UNCHANGED meter
    <2> HIDE DEF most, now
    <2> QED BY <1>0, <1>2, <1>7 DEF meter, Inv, TypeOK, Metered
  <1> QED BY <1>3, <1>4, <1>5, <1>6, <1>7, MeterAlone

----------------------------------------------------------------------------
(* Connections                                                             *)

\* The type invariant without the meter.
Typed ==
  /\ running \in BOOLEAN
  /\ monitor \in {"off", "accept", "sleep", "send", "ended"}
  /\ mconn \in 0..conns /\ (monitor \in {"sleep", "send"} <=> mconn # 0)
  /\ report \in 0..MaxCount /\ shown \in 0..MaxCount
  /\ hstate \in {"unconnected", "connecting", "connected"}
  /\ hconn \in 0..conns /\ timer \in BOOLEAN
  /\ dead \in BOOLEAN /\ (dead => hstate = "connected")
  /\ backlog \in Seq(Connections)
  /\ \A c \in Connections : Len(wire[c]) <= SocketBuffer
  /\ cut \subseteq 1..conns
  /\ conns \in 0..(2 * MaxRestarts + 1)

LEMMA ConnectionTypes ==
  ASSUME Inv
  PROVE  /\ Typed /\ Held
         /\ conns \in Nat /\ 1..conns \subseteq Connections
         /\ Clients = ToSet(backlog) \cup ({mconn} \ {0})
         /\ Clients \subseteq 1..conns
         /\ hconn # 0 => hconn \in 1..conns
         /\ mconn # 0 => mconn \in 1..conns
         /\ fps \in 0..MaxCount /\ MaxCount \in Nat
  <1>1. Typed /\ Held /\ fps \in 0..MaxCount
    BY DEF Inv, TypeOK, Typed
  <1>2. conns \in Nat /\ 1..conns \subseteq Connections
    BY <1>1, StatusAssumption DEF Typed, Connections
  <1>3. Clients \subseteq 1..conns
    BY <1>1, <1>2 DEF Typed, Held, Clients
  <1>4. MaxCount \in Nat
    BY MeterTypes
  <1> QED BY <1>1, <1>2, <1>3, <1>4 DEF Typed, Clients

\* What is on its way, and what became of the host's ends.
LEMMA WireStep ==
  ASSUME Inv, [Next]_vars
  PROVE  /\ wire' \in [Connections -> Seq(0..MaxCount)]
         /\ peer' \in [Connections -> {"none", "alive", "closed", "vanished", "reset"}]
         /\ \A c \in Connections : (c > conns => wire[c] = <<>>)'
         /\ \A c \in Connections : Len(wire'[c]) <= SocketBuffer
         /\ (hstate = "connected" => hconn # 0 /\ (dead \/ peer[hconn] = "alive"))'
  <1> DEFINE Result ==
         /\ wire' \in [Connections -> Seq(0..MaxCount)]
         /\ peer' \in [Connections -> {"none", "alive", "closed", "vanished", "reset"}]
         /\ \A c \in Connections : (c > conns => wire[c] = <<>>)'
         /\ \A c \in Connections : Len(wire'[c]) <= SocketBuffer
         /\ (hstate = "connected" => hconn # 0 /\ (dead \/ peer[hconn] = "alive"))'
  <1>0. /\ Typed /\ Held
        /\ conns \in Nat /\ 1..conns \subseteq Connections
        /\ hconn # 0 => hconn \in 1..conns
        /\ mconn # 0 => mconn \in 1..conns
        /\ MaxCount \in Nat /\ SocketBuffer \in Nat /\ Connections \subseteq Nat
    BY ConnectionTypes, StatusAssumption DEF Connections
  <1>1. CASE \/ Tick \/ Frame \/ Accept \/ Wake \/ SendFails \/ EdgeSignal
             \/ EdgeStarts \/ TimerFires \/ ConnectFails \/ UNCHANGED vars
    <2>1. /\ UNCHANGED <<wire, peer, conns>>
          /\ hstate' = "connected"
               => hstate = "connected" /\ hconn' = hconn /\ dead' = dead
      BY <1>1 DEF Tick, Frame, Accept, Wake, SendFails, EdgeSignal, EdgeStarts,
                  TimerFires, ConnectFails, vars, host, net
    <2> QED BY <1>0, <2>1 DEF Typed, Held
  <1>2. CASE Sends /\ wire' # wire
    <2>1. /\ wire' = [wire EXCEPT ![mconn] = Append(@, report)]
          /\ Len(wire[mconn]) < SocketBuffer
          /\ UNCHANGED <<peer, conns, hstate, hconn, dead>>
          /\ monitor = "send"
      BY <1>2 DEF Sends, host
    <2>2. mconn \in Connections /\ mconn \in 1..conns
      BY <1>0, <2>1 DEF Typed
    <2>3. /\ Append(wire[mconn], report) \in Seq(0..MaxCount)
          /\ Len(Append(wire[mconn], report)) <= SocketBuffer
      BY <1>0, <2>1, <2>2 DEF Typed, Held
    <2>4. \A c \in Connections : c > conns => c # mconn
      BY <1>0, <2>2
    <2> QED BY <1>0, <2>1, <2>2, <2>3, <2>4 DEF Typed, Held
  <1>3. CASE (Sends /\ wire' = wire) \/ GiveUp
    <2>1. /\ peer' = [peer EXCEPT ![mconn] = "reset"] \/ peer' = peer
          /\ peer' # peer => peer[mconn] # "alive"
          /\ UNCHANGED <<wire, conns, hstate, hconn, dead>>
      BY <1>3 DEF Sends, GiveUp, host
    <2>2. hconn \in Connections => peer'[hconn] = peer[hconn] \/ peer[hconn] # "alive"
      BY <1>0, <2>1 DEF Held
    <2> QED BY <1>0, <2>1, <2>2 DEF Typed, Held
  <1>4. CASE EdgeStops
    <2>1. /\ UNCHANGED <<peer, conns, hstate, hconn>>
          /\ dead => dead'
          /\ \E k \in IF mconn = 0 THEN {0} ELSE 0..Len(wire[mconn]) :
               wire' = [c \in Connections |->
                          IF c = mconn THEN SubSeq(wire[c], 1, k) ELSE wire[c]]
      <3>1. UNCHANGED <<peer, conns, hstate, hconn>> /\ dead' \in {dead, hstate = "connected"}
        BY <1>4 DEF EdgeStops
      <3>2. dead => dead'
        BY <1>0, <3>1, Zenon DEF Typed
      <3> QED BY <1>4, <3>1, <3>2 DEF EdgeStops
    <2>2. mconn # 0 => mconn \in Connections /\ mconn \in 1..conns
      BY <1>0
    <2>3. CASE mconn = 0
      <3>1. wire' = wire
        BY <1>0, <2>1, <2>3 DEF Held, Connections
      <3> QED BY <1>0, <2>1, <3>1 DEF Typed, Held
    <2>4. CASE mconn # 0
      <3>1. PICK k \in 0..Len(wire[mconn]) :
              wire' = [c \in Connections |->
                         IF c = mconn THEN SubSeq(wire[c], 1, k) ELSE wire[c]]
        BY <2>1, <2>4
      <3>2. wire[mconn] \in Seq(0..MaxCount) /\ Len(wire[mconn]) <= SocketBuffer
        BY <1>0, <2>2, <2>4 DEF Typed, Held
      <3>3. /\ SubSeq(wire[mconn], 1, k) \in Seq(0..MaxCount)
            /\ Len(SubSeq(wire[mconn], 1, k)) <= SocketBuffer
        BY <1>0, <3>2
      <3>4. \A c \in Connections : c > conns => c # mconn
        BY <1>0, <2>2, <2>4
      <3> QED BY <1>0, <2>1, <3>1, <3>3, <3>4 DEF Typed, Held
    <2> QED BY <2>3, <2>4
  <1>5. CASE Connected
    <2>1. /\ conns' = conns + 1 /\ hconn' = conns + 1 /\ UNCHANGED wire
          /\ peer' = [peer EXCEPT ![conns + 1] = "alive"]
      BY <1>5 DEF Connected
    <2>2. conns + 1 \in Connections
      BY <1>0, <1>5, StatusAssumption
         DEF Connected, Reachable, Inv, Counted, Connections
    <2> QED BY <1>0, <2>1, <2>2 DEF Typed, Held
  <1>6. CASE HostReads
    <2>1. /\ wire' = [wire EXCEPT ![hconn] = Tail(@)] /\ wire[hconn] # <<>>
          /\ UNCHANGED <<peer, conns, hstate, hconn, dead>> /\ hstate = "connected"
      BY <1>6 DEF HostReads
    <2>2. hconn \in Connections /\ hconn \in 1..conns
      BY <1>0, <2>1 DEF Held
    <2>3. /\ Tail(wire[hconn]) \in Seq(0..MaxCount)
          /\ Len(Tail(wire[hconn])) <= SocketBuffer
      BY <1>0, <2>1, <2>2 DEF Typed, Held
    <2>4. \A c \in Connections : c > conns => c # hconn
      BY <1>0, <2>2
    <2> QED BY <1>0, <2>1, <2>2, <2>3, <2>4 DEF Typed, Held
  <1>7. CASE HostClosed
    <2>1. /\ peer' = [peer EXCEPT ![hconn] = "closed"]
          /\ UNCHANGED <<wire, conns>> /\ hstate' = "unconnected"
      BY <1>7 DEF HostClosed, LoseSocket
    <2> QED BY <1>0, <2>1 DEF Typed, Held
  <1>8. CASE HostRestarts
    <2>1. /\ \/ peer' = peer
             \/ \E end \in {"closed", "vanished"} : peer' = [peer EXCEPT ![hconn] = end]
          /\ UNCHANGED <<wire, conns>> /\ hstate' = "connecting"
      BY <1>8 DEF HostRestarts
    <2> QED BY <1>0, <2>1 DEF Typed, Held
  <1>9. CASE LinkBreaks
    <2>1. /\ peer' = [peer EXCEPT ![hconn] = "vanished"]
          /\ UNCHANGED <<wire, conns>> /\ hstate = "connected"
          /\ hstate' # "connected" \/ (dead' = TRUE /\ hconn' = hconn)
      BY <1>9 DEF LinkBreaks, LoseSocket
    <2> QED BY <1>0, <2>1 DEF Typed, Held
  <1> QED
    BY <1>1, <1>2, <1>3, <1>4, <1>5, <1>6, <1>7, <1>8, <1>9
    DEF Next, MonitorStep, HostStep

\* What the edge holds, and what it has cut.
LEMMA ClientsStep ==
  ASSUME Inv, [Next]_vars
  PROVE  /\ Typed'
         /\ ToSet(backlog)' \subseteq 1..conns'
         /\ 1..conns' \subseteq cut' \cup Clients'
         /\ (~Listening => mconn = 0 /\ backlog = <<>>)'
  <1> DEFINE Result ==
         /\ Typed'
         /\ ToSet(backlog)' \subseteq 1..conns'
         /\ 1..conns' \subseteq cut' \cup Clients'
         /\ (~Listening => mconn = 0 /\ backlog = <<>>)'
  <1>0. /\ Typed /\ Held /\ Counted
        /\ conns \in Nat /\ 1..conns \subseteq Connections
        /\ Clients = ToSet(backlog) \cup ({mconn} \ {0})
        /\ Clients' = ToSet(backlog)' \cup ({mconn'} \ {0})
        /\ Clients \subseteq 1..conns
        /\ hconn # 0 => hconn \in 1..conns
        /\ mconn # 0 => mconn \in 1..conns
        /\ fps \in 0..MaxCount /\ MaxCount \in Nat
        /\ \A c \in Connections : Len(wire'[c]) <= SocketBuffer
    BY ConnectionTypes, WireStep DEF Inv, Clients
  <1>9. ToSet(<<>>) = {} /\ <<>> \in Seq(Connections)
    BY DEF ToSet
  <1>1. CASE \/ Tick \/ Frame \/ EdgeSignal \/ GiveUp \/ UNCHANGED vars
             \/ TimerFires \/ ConnectFails \/ HostReads \/ HostClosed
             \/ HostRestarts \/ LinkBreaks
    <2>1. UNCHANGED <<monitor, mconn, report, backlog, cut, conns>>
      BY <1>1 DEF Tick, Frame, EdgeSignal, GiveUp, vars, TimerFires, ConnectFails,
                  HostReads, HostClosed, HostRestarts, LinkBreaks, edge, net
    <2>2. running' \in BOOLEAN /\ timer' \in BOOLEAN
      BY <1>0, <1>1 DEF Tick, Frame, EdgeSignal, GiveUp, vars, TimerFires, ConnectFails,
                  HostReads, HostClosed, HostRestarts, LinkBreaks, LoseSocket, edge,
                  host, Typed
    <2>3. /\ hstate' \in {"unconnected", "connecting", "connected"}
          /\ hconn' \in 0..conns
      BY <1>0, <1>1 DEF Tick, Frame, EdgeSignal, GiveUp, vars, TimerFires, ConnectFails,
                  HostReads, HostClosed, HostRestarts, LinkBreaks, LoseSocket, edge,
                  host, Typed
    <2>4. shown' \in 0..MaxCount
      <3>1. CASE HostReads
        <4>1. /\ shown' = Head(wire[hconn]) /\ wire[hconn] # <<>>
              /\ hstate = "connected"
          BY <3>1 DEF HostReads
        <4>2. hconn \in Connections
          BY <1>0, <4>1 DEF Held
        <4> QED BY <1>0, <4>1, <4>2 DEF Held
      <3>2. CASE ~HostReads
        <4>1. shown' = shown \/ shown' = 0
          BY <1>1, <3>2 DEF Tick, Frame, EdgeSignal, GiveUp, vars, TimerFires,
                  ConnectFails, HostClosed, HostRestarts, LinkBreaks, LoseSocket,
                  edge, host
        <4> QED BY <1>0, <4>1 DEF Typed
      <3> QED BY <3>1, <3>2
    <2>5. dead' \in BOOLEAN /\ (dead' => hstate' = "connected")
      <3>1. \/ dead' = dead /\ (hstate' = hstate \/ hstate # "connected" \/ ~dead)
            \/ dead' = FALSE
            \/ dead' = TRUE /\ hstate' = "connected"
        BY <1>1 DEF Tick, Frame, EdgeSignal, GiveUp, vars, TimerFires, ConnectFails,
                    HostReads, HostClosed, HostRestarts, LinkBreaks, host
      <3>2. dead \in BOOLEAN /\ (dead => hstate = "connected")
        BY <1>0 DEF Typed
      <3>3. CASE dead' = dead /\ (hstate' = hstate \/ hstate # "connected" \/ ~dead)
        BY <3>2, <3>3, Zenon
      <3>4. CASE dead' = FALSE \/ (dead' = TRUE /\ hstate' = "connected")
        BY <3>4, Zenon
      <3> QED BY <3>1, <3>3, <3>4, Zenon
    <2> QED BY <1>0, <2>1, <2>2, <2>3, <2>4, <2>5 DEF Typed, Held, Listening, ToSet
  <1>2. CASE Accept /\ running
    <2>1. /\ monitor = "accept" /\ backlog # <<>> /\ monitor' = "sleep"
          /\ mconn' = Head(backlog) /\ backlog' = Tail(backlog)
          /\ UNCHANGED <<running, report, host, conns, cut>>
      BY <1>2 DEF Accept
    <2>2. /\ ToSet(backlog) = {mconn'} \cup ToSet(Tail(backlog))
          /\ backlog' \in Seq(Connections)
      BY <1>0, <2>1, ToSetTail DEF Typed
    <2>3. ToSet(backlog)' = ToSet(Tail(backlog))
      BY <2>1 DEF ToSet
    <2>4. mconn = 0
      BY <1>0, <2>1 DEF Typed
    <2>5. mconn' \in 1..conns /\ ToSet(backlog)' \subseteq 1..conns /\ mconn' # 0
      <3>1. ToSet(backlog) \subseteq 1..conns
        BY <1>0 DEF Held
      <3>2. mconn' \in 1..conns /\ ToSet(backlog)' \subseteq 1..conns
        BY <2>2, <2>3, <3>1, Zenon
      <3> QED BY <1>0, <3>2
    <2>6. Clients' = Clients
      BY <1>0, <2>2, <2>3, <2>4, <2>5
    <2> QED BY <1>0, <2>1, <2>2, <2>5, <2>6 DEF Typed, Held, Listening, host
  <1>3. CASE (Accept \/ Wake \/ Sends \/ SendFails) /\ ~running
    <2>1. Leave /\ UNCHANGED <<running, report, host, conns>>
      BY <1>3 DEF Accept, Wake, Sends, SendFails
    <2>2. /\ monitor' = "ended" /\ mconn' = 0 /\ backlog' = <<>>
          /\ cut' \subseteq 1..conns /\ 1..conns \subseteq cut'
          /\ backlog' \in Seq(Connections) /\ ToSet(backlog)' = {}
      <3>1. /\ monitor' = "ended" /\ mconn' = 0 /\ backlog' = <<>>
            /\ cut' = cut \cup Clients
        BY <2>1 DEF Leave
      <3>2. ToSet(backlog)' = {} /\ backlog' \in Seq(Connections)
        BY <1>9, <3>1 DEF ToSet
      <3> QED BY <1>0, <3>1, <3>2 DEF Held, Typed
    <2> QED BY <1>0, <2>1, <2>2 DEF Typed, host
  <1>4. CASE (Wake \/ Sends) /\ running
    <2>1. /\ monitor \in {"sleep", "send"} /\ monitor' \in {"sleep", "send"}
          /\ UNCHANGED <<running, host, conns, mconn, backlog, cut>>
          /\ report' \in {report, fps}
      BY <1>4 DEF Wake, Sends
    <2> QED BY <1>0, <2>1 DEF Typed, Held, Listening, host, ToSet
  <1>5. CASE SendFails /\ running
    <2>1. /\ monitor = "send" /\ monitor' = "accept" /\ mconn' = 0
          /\ cut' = cut \cup {mconn}
          /\ UNCHANGED <<running, host, conns, report, backlog>>
      BY <1>5 DEF SendFails
    <2>2. mconn \in 1..conns
      BY <1>0, <2>1 DEF Typed
    <2>3. ToSet(backlog)' = ToSet(backlog)
      BY <2>1 DEF ToSet
    <2> QED BY <1>0, <2>1, <2>2, <2>3 DEF Typed, Held, Listening, host
  <1>6. CASE EdgeStops
    <2>1. /\ monitor' = "off" /\ mconn' = 0 /\ backlog' = <<>>
          /\ cut' = cut \cup Clients
          /\ UNCHANGED <<running, report, hstate, hconn, timer, shown, conns>>
          /\ dead' \in {dead, hstate = "connected"}
      BY <1>6 DEF EdgeStops
    <2>2. /\ cut' \subseteq 1..conns /\ 1..conns \subseteq cut'
          /\ backlog' \in Seq(Connections) /\ ToSet(backlog)' = {}
      <3>1. ToSet(backlog)' = {} /\ backlog' \in Seq(Connections)
        BY <1>9, <2>1 DEF ToSet
      <3> QED BY <1>0, <2>1, <3>1 DEF Held, Typed
    <2>3. dead' \in BOOLEAN /\ (dead' => hstate' = "connected")
      BY <1>0, <2>1, Zenon DEF Typed
    <2> QED BY <1>0, <2>1, <2>2, <2>3 DEF Typed
  <1>7. CASE EdgeStarts
    <2>1. /\ monitor = "off" /\ monitor' \in {"accept", "ended"}
          /\ running' = TRUE /\ report' = 0
          /\ UNCHANGED <<mconn, host, backlog, cut, conns>>
      BY <1>7 DEF EdgeStarts, net
    <2>2. mconn = 0 /\ backlog = <<>> /\ ToSet(backlog)' = ToSet(backlog)
      BY <1>0, <2>1 DEF Held, Listening, ToSet
    <2> QED BY <1>0, <2>1, <2>2 DEF Typed, Held, host
  <1>8. CASE Connected
    <2>1. /\ conns' = conns + 1 /\ hconn' = conns + 1 /\ hstate' = "connected"
          /\ timer' = FALSE /\ backlog' = Append(backlog, conns + 1)
          /\ UNCHANGED <<running, monitor, mconn, report, shown, dead, cut>>
          /\ Listening
      BY <1>8 DEF Connected, edge, Reachable
    <2>2. conns + 1 \in Connections /\ conns + 1 \in 0..(2 * MaxRestarts + 1)
      BY <1>0, <1>8, StatusAssumption
         DEF Connected, Reachable, Inv, Counted, Connections
    <2>3. /\ ToSet(backlog') = ToSet(backlog) \cup {conns + 1}
          /\ backlog' \in Seq(Connections)
      BY <1>0, <2>1, <2>2, ToSetAppend DEF Typed
    <2>4. ToSet(backlog)' = ToSet(backlog')
      BY DEF ToSet
    <2>5. Clients' = Clients \cup {conns + 1}
      BY <1>0, <2>1, <2>3, <2>4
    <2>6. 1..conns' = 1..conns \cup {conns + 1}
      BY <1>0, <2>1
    <2>7. cut' \subseteq 1..conns' /\ mconn' \in 0..conns' /\ hconn' \in 0..conns'
      BY <1>0, <2>1, <2>6 DEF Typed
    <2>8. Typed'
      BY <1>0, <2>1, <2>2, <2>3, <2>7 DEF Typed
    <2>9. ToSet(backlog)' \subseteq 1..conns' /\ 1..conns' \subseteq cut' \cup Clients'
      BY <1>0, <2>1, <2>3, <2>4, <2>5, <2>6 DEF Held
    <2> QED BY <2>1, <2>8, <2>9 DEF Listening
  <1> QED
    BY <1>1, <1>2, <1>3, <1>4, <1>5, <1>6, <1>7, <1>8 DEF Next, MonitorStep, HostStep

LEMMA TypeStep ==
  ASSUME Inv, [Next]_vars
  PROVE  TypeOK' /\ Held'
  <1>1. Held'
    BY WireStep, ClientsStep DEF Held
  <1>2. \A c \in Connections : /\ wire'[c] \in Seq(0..MaxCount)
                               /\ peer'[c] \in {"none", "alive", "closed",
                                                "vanished", "reset"}
    BY <1>1 DEF Held
  <1> QED BY <1>1, <1>2, MeterStep, ClientsStep DEF TypeOK, Typed

\* Only Connected makes a connection, and none while there is one.
LEMMA CountStep ==
  ASSUME Inv, [Next]_vars
  PROVE  Counted'
  <1>0. /\ Typed /\ Held /\ Counted /\ conns \in Nat
        /\ Clients \subseteq 1..conns
        /\ hrestarts \in Nat /\ erestarts \in Nat /\ MaxRestarts \in Nat
    BY ConnectionTypes, StatusAssumption DEF Inv, Counted
  <1>1. CASE Connected
    <2>1. /\ Listening /\ hstate = "connecting" /\ conns' = conns + 1
          /\ hconn' = conns + 1 /\ hstate' = "connected"
          /\ UNCHANGED <<dead, cut, hrestarts, erestarts>>
      BY <1>1 DEF Connected, Reachable
    <2>2. conns + 1 \notin cut /\ ~dead'
      <3>1. conns + 1 \notin cut /\ ~dead /\ dead' = dead
        BY <1>0, <2>1 DEF Typed
      <3> QED BY <3>1, Zenon
    <2> QED BY <1>0, <2>1, <2>2 DEF Counted
  <1>2. CASE HostRestarts \/ LinkBreaks
    <2>1. /\ hrestarts < MaxRestarts /\ hrestarts' = hrestarts + 1
          /\ UNCHANGED <<conns, erestarts>>
      BY <1>2 DEF HostRestarts, LinkBreaks
    <2> QED BY <1>0, <2>1 DEF Counted
  <1>3. CASE EdgeStarts
    <2>1. /\ erestarts < MaxRestarts /\ erestarts' = erestarts + 1
          /\ UNCHANGED <<conns, hrestarts>>
      BY <1>3 DEF EdgeStarts, net
    <2> QED BY <1>0, <2>1 DEF Counted
  <1>4. CASE HostClosed
    <2>1. /\ hstate = "connected" /\ hconn \in cut
          /\ UNCHANGED <<monitor, conns, cut, hrestarts, erestarts>>
      BY <1>4 DEF HostClosed, edge
    <2> QED BY <1>0, <2>1 DEF Counted, Listening
  <1>5. CASE SendFails
    <2>1. /\ monitor = "send" /\ peer[mconn] = "reset"
          /\ UNCHANGED <<hstate, hconn, dead, conns, hrestarts, erestarts>>
          /\ cut' = cut \cup {mconn} \/ ~Listening'
      BY <1>5 DEF SendFails, Leave, host, Listening
    <2>2. hstate = "connected" => hconn # mconn \/ dead
      BY <1>0, <2>1 DEF Held
    <2> QED BY <1>0, <2>1, <2>2 DEF Counted, Listening
  <1>6. CASE Accept \/ Wake \/ Sends \/ EdgeStops
    <2>1. /\ UNCHANGED <<hstate, hconn, conns, hrestarts, erestarts>>
          /\ ~Listening' \/ (Listening /\ cut' = cut /\ dead' = dead)
      BY <1>6 DEF Accept, Wake, Sends, EdgeStops, Leave, host, Listening
    <2> QED BY <1>0, <2>1 DEF Counted
  <1>7. CASE \/ Tick \/ Frame \/ EdgeSignal \/ GiveUp \/ UNCHANGED vars
             \/ TimerFires \/ ConnectFails \/ HostReads
    <2>1. /\ UNCHANGED <<monitor, cut, conns, hrestarts, erestarts>>
          /\ \/ UNCHANGED <<hstate, hconn, dead>>
             \/ hstate # "connected" /\ hstate' # "connected"
      BY <1>7 DEF Tick, Frame, EdgeSignal, GiveUp, vars, TimerFires, ConnectFails,
                  HostReads, edge, host, net
    <2> QED BY <1>0, <2>1 DEF Counted, Listening
  <1> QED
    BY <1>1, <1>2, <1>3, <1>4, <1>5, <1>6, <1>7 DEF Next, MonitorStep, HostStep

\* A rate gets onto the display from this process through its report and its
\* connection; what an earlier process left comes on a connection it cut.
LEMMA SourceStep ==
  ASSUME Inv, [Next]_vars
  PROVE  Sourced'
  <1>0. /\ Typed /\ Held /\ Sourced /\ conns \in Nat
        /\ 1..conns \subseteq Connections
        /\ fps \in Nat /\ fps' \in Nat /\ report \in Nat
        /\ fps > 0 /\ ~EdgeStarts => fps' > 0
        /\ hconn # 0 => hconn \in 1..conns
        /\ mconn # 0 => mconn \in 1..conns
    BY ConnectionTypes, MeterStep, MeterTypes DEF Inv, Typed
  <1>1. CASE EdgeStarts
    <2>1. /\ ~Listening /\ report' = 0
          /\ UNCHANGED <<hstate, hconn, shown, wire, cut>>
      BY <1>1 DEF EdgeStarts, host, net, Listening
    <2>2. Clients = {} /\ 1..conns \subseteq cut
      BY <1>0, <2>1 DEF Held, Clients, ToSet
    <2>3. hstate = "connected" => hconn \in cut
      BY <1>0, <2>2 DEF Held
    <2>4. \A c \in Connections : c \notin cut => wire[c] = <<>>
      <3> SUFFICES ASSUME NEW c \in Connections, c \notin cut PROVE wire[c] = <<>>
        OBVIOUS
      <3>1. c > conns
        BY <1>0, <2>2, StatusAssumption DEF Connections
      <3> QED BY <1>0, <3>1 DEF Held
    <2>5. \A c \in Connections : \A i \in 1..Len(wire'[c]) : wire'[c][i] > 0 => c \in cut'
      BY <2>1, <2>4
    <2> QED BY <1>0, <2>1, <2>3, <2>5 DEF Sourced, NoGhostRate, Online
  <1>2. CASE Sends
    <2>1. /\ UNCHANGED <<fps, report, hstate, hconn, shown>>
          /\ cut \subseteq cut' /\ monitor = "send"
          /\ wire' = [wire EXCEPT ![mconn] = Append(@, report)] \/ wire' = wire
      BY <1>2 DEF Sends, Leave, host, meter
    <2>2. mconn \in Connections
      BY <1>0, <2>1 DEF Typed
    <2>3. \A c \in Connections : \A i \in 1..Len(wire'[c]) :
            wire'[c][i] > 0 => c \in cut' \/ fps' > 0
      <3>1. CASE wire' = wire
        BY <1>0, <2>1, <3>1 DEF Sourced
      <3>2. CASE wire' = [wire EXCEPT ![mconn] = Append(@, report)]
        <4> SUFFICES ASSUME NEW c \in Connections, NEW i \in 1..Len(wire'[c]),
                            wire'[c][i] > 0
                     PROVE  c \in cut' \/ fps' > 0
          OBVIOUS
        <4>1. wire[c] \in Seq(0..MaxCount)
          BY <1>0 DEF Held
        <4>2. CASE i \in 1..Len(wire[c]) /\ wire'[c][i] = wire[c][i]
          BY <1>0, <2>1, <4>2 DEF Sourced
        <4>3. CASE wire'[c][i] = report
          BY <1>0, <2>1, <4>3 DEF Sourced
        <4>4. \/ i \in 1..Len(wire[c]) /\ wire'[c][i] = wire[c][i]
              \/ wire'[c][i] = report
          BY <1>0, <2>2, <3>2, <4>1 DEF Held
        <4> QED BY <4>2, <4>3, <4>4
      <3> QED BY <2>1, <3>1, <3>2
    <2> QED BY <1>0, <2>1, <2>3 DEF Sourced, NoGhostRate, Online
  <1>3. CASE EdgeStops
    <2>1. /\ UNCHANGED <<fps, report, hstate, hconn, shown>>
          /\ cut' = cut \cup Clients
          /\ mconn # 0 => mconn \in cut'
          /\ \A c \in Connections : c # mconn => wire'[c] = wire[c]
      BY <1>3 DEF EdgeStops, Clients, host, meter
    <2>2. \A c \in Connections : c # 0
      BY StatusAssumption DEF Connections
    <2> QED BY <1>0, <2>1, <2>2 DEF Sourced, NoGhostRate, Online
  <1>4. CASE HostReads
    <2>1. /\ shown' = Head(wire[hconn])
          /\ wire' = [wire EXCEPT ![hconn] = Tail(@)] /\ wire[hconn] # <<>>
          /\ UNCHANGED <<fps, report, cut, hstate, hconn>> /\ hstate = "connected"
      BY <1>4 DEF HostReads, edge, meter
    <2>2. hconn \in Connections /\ wire[hconn] \in Seq(0..MaxCount)
      BY <1>0, <2>1 DEF Held
    <2>3. /\ 1 \in 1..Len(wire[hconn]) /\ Head(wire[hconn]) = wire[hconn][1]
          /\ Len(Tail(wire[hconn])) = Len(wire[hconn]) - 1
          /\ \A i \in 1..Len(Tail(wire[hconn])) :
               i + 1 \in 1..Len(wire[hconn]) /\ Tail(wire[hconn])[i] = wire[hconn][i + 1]
      BY <2>1, <2>2
    <2>4. Online' => hconn \in cut \/ fps > 0
      BY <1>0, <2>1, <2>2, <2>3 DEF Sourced, Online
    <2>5. \A c \in Connections : \A i \in 1..Len(wire'[c]) :
            wire'[c][i] > 0 => c \in cut \/ fps > 0
      <3> SUFFICES ASSUME NEW c \in Connections, NEW i \in 1..Len(wire'[c]),
                          wire'[c][i] > 0
                   PROVE  c \in cut \/ fps > 0
        OBVIOUS
      <3>1. CASE c = hconn
        <4>1. wire'[c] = Tail(wire[hconn])
          BY <1>0, <2>1, <2>2, <3>1 DEF Held
        <4> QED BY <1>0, <2>2, <2>3, <3>1, <4>1 DEF Sourced
      <3>2. CASE c # hconn
        <4>1. wire'[c] = wire[c]
          BY <1>0, <2>1, <3>2 DEF Held
        <4> QED BY <1>0, <4>1 DEF Sourced
      <3> QED BY <3>1, <3>2
    <2> QED BY <1>0, <2>1, <2>4, <2>5 DEF Sourced, NoGhostRate
  <1>5. CASE Connected
    <2>1. /\ hstate = "connecting" /\ UNCHANGED <<fps, report, shown, wire, cut>>
      BY <1>5 DEF Connected, edge, meter
    <2> QED BY <1>0, <2>1 DEF Sourced, NoGhostRate, Online
  <1>6. CASE HostClosed \/ HostRestarts \/ LinkBreaks
    <2>1. /\ shown' = 0 \/ UNCHANGED <<hstate, hconn, shown>>
          /\ UNCHANGED <<fps, report, wire, cut>>
      BY <1>6 DEF HostClosed, HostRestarts, LinkBreaks, LoseSocket, edge, meter
    <2> QED BY <1>0, <2>1 DEF Sourced, NoGhostRate, Online
  <1>7. CASE Tick \/ Frame \/ EdgeSignal \/ GiveUp \/ UNCHANGED vars \/ Accept
             \/ SendFails \/ TimerFires \/ ConnectFails \/ Wake
    <2>1. /\ UNCHANGED <<shown, wire>> /\ cut \subseteq cut'
          /\ report' = report \/ report' = fps
          /\ \/ UNCHANGED <<hstate, hconn>>
             \/ hstate # "connected"
      BY <1>7 DEF Tick, Frame, EdgeSignal, GiveUp, vars, TimerFires, ConnectFails,
                  Accept, SendFails, Wake, Leave, edge, host, net
    <2>2. ~EdgeStarts
      <3>1. EdgeStarts => monitor = "off" /\ erestarts' = erestarts + 1
        BY DEF EdgeStarts
      <3>2. erestarts' = erestarts
        BY <1>7 DEF Tick, Frame, EdgeSignal, GiveUp, vars, TimerFires, ConnectFails,
                    Accept, SendFails, Wake
      <3> QED BY <3>1, <3>2 DEF Inv, Counted
    <2> QED BY <1>0, <2>1, <2>2 DEF Sourced, NoGhostRate, Online
  <1> QED
    BY <1>1, <1>2, <1>3, <1>4, <1>5, <1>6, <1>7 DEF Next, MonitorStep, HostStep

----------------------------------------------------------------------------
LEMMA Inductive == Inv /\ [Next]_vars => Inv'
  BY TypeStep, MeterStep, CountStep, SourceStep DEF Inv

\* Typing, the meter's window, the connections and the origin of every rate
\* on its way are an invariant, for any window, rates, buffers and restarts.
THEOREM Invariance == Spec => []Inv
  BY InvInitially, Inductive, PTL DEF Spec

\* Every variable has its type; frame_count and g_camera_fps stay within what
\* the camera can deliver in a window.
THEOREM TypeCorrect == Spec => []TypeOK
  <1>1. Inv => TypeOK
    BY DEF Inv
  <1> QED BY <1>1, Invariance, PTL

\* The host shows ONLINE only with a connection (systemmonitor.cpp:20), and on
\* one that the running edge process holds only after that process measured
\* a rate.
THEOREM NoGhost == Spec => []NoGhostRate
  <1>1. Inv => NoGhostRate
    BY DEF Inv, Sourced
  <1> QED BY <1>1, Invariance, PTL

\* A window in which the camera delivered in every tick publishes a rate
\* between one frame a tick and Rate frames a tick and one
\* (thread_monitor.cpp:389-405), for every length of the window.
THEOREM Truthful == Spec => FpsTruthful
  <1>1. Inv /\ [Next]_vars
          => [age >= Second /\ age' = 0 /\ steady /\ erestarts' = erestarts
                => fps' \in Second..(Rate * Second + 1)]_vars
    <2> SUFFICES ASSUME Inv, Next, age >= Second, age' = 0, steady,
                        erestarts' = erestarts
                 PROVE  fps' \in Second..(Rate * Second + 1)
      OBVIOUS
    <2>0. /\ count \in Nat /\ age \in Nat /\ Second \in Nat \ {0}
          /\ Rate * Second \in Nat /\ erestarts \in Nat
      BY MeterTypes, StatusAssumption DEF Inv, Counted
    <2>1. ~EdgeStarts
      BY <2>0 DEF EdgeStarts
    <2>2. ~Tick
      BY <2>0 DEF Tick, Capped, Horizon
    <2>3. Frame
      <3>1. age' # age
        BY <2>0
      <3> QED BY <2>1, <2>2, <3>1, MeterAlone DEF meter
    <2>4. fps' = count + 1
      BY <2>3 DEF Frame, Publish
    <2>5. count <= Rate * Second /\ count + 1 >= age
      BY <2>0 DEF Inv, Metered
    <2> QED BY <2>0, <2>4, <2>5
  <1> QED BY <1>1, Invariance, PTL DEF Spec, FpsTruthful
=============================================================================
