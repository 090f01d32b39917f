------------------------ MODULE VideoReceiverProofs ------------------------
(***************************************************************************)
(* VideoReceiver's safety properties, and that it implements LossyFifo,    *)
(* proved for any number of pictures and any number of starts.             *)
(***************************************************************************)
EXTENDS VideoReceiver, SequenceTheorems, TLAPS

----------------------------------------------------------------------------
(* What a queue holds                                                      *)

Elements(q) == {q[i] : i \in 1..Len(q)}
Sorted(q) == \A i, j \in 1..Len(q) : i < j => q[i] < q[j]

\* A frame that is posted joins those that are queued.
LEMMA ElementsAppend ==
  ASSUME NEW S, NEW q \in Seq(S), NEW e \in S
  PROVE  Elements(Append(q, e)) = Elements(q) \cup {e}
  <1> DEFINE p == Append(q, e)
  <1>1. /\ Len(q) \in Nat /\ Len(p) = Len(q) + 1
        /\ \A i \in 1..Len(q) : p[i] = q[i]
        /\ p[Len(q) + 1] = e
    BY AppendProperties, LenProperties
  <1> HIDE DEF p
  <1>2. 1..Len(p) = 1..Len(q) \cup {Len(q) + 1}
    BY <1>1
  <1> QED BY <1>1, <1>2 DEF Elements, p

\* So does a sequence of one element that is put behind it.
LEMMA ElementsConcat ==
  ASSUME NEW S, NEW q \in Seq(S), NEW e
  PROVE  Elements(q \o <<e>>) = Elements(q) \cup {e}
  <1> DEFINE p == q \o <<e>>
  <1>1. q \in Seq(S \cup {e}) /\ <<e>> \in Seq(S \cup {e})
    OBVIOUS
  <1>2. /\ Len(q) \in Nat /\ Len(p) = Len(q) + 1
        /\ \A i \in 1..Len(q) : p[i] = q[i]
        /\ p[Len(q) + 1] = e
    BY <1>1
  <1> HIDE DEF p
  <1>3. 1..Len(p) = 1..Len(q) \cup {Len(q) + 1}
    BY <1>2
  <1> QED BY <1>2, <1>3 DEF Elements, p

\* The oldest frame of a queue in order is older than all that stay in it.
LEMMA ElementsTail ==
  ASSUME NEW q \in Seq(Nat), Sorted(q), q # <<>>
  PROVE  /\ Head(q) \in Elements(q) /\ Head(q) = q[1]
         /\ Elements(Tail(q)) = Elements(q) \ {Head(q)}
         /\ \A f \in Elements(Tail(q)) : Head(q) < f
         /\ Sorted(Tail(q))
  <1> DEFINE t == Tail(q)
  <1>1. /\ t \in Seq(Nat) /\ Len(t) = Len(q) - 1 /\ Len(q) \in Nat \ {0}
        /\ \A i \in 1..Len(t) : t[i] = q[i + 1]
        /\ Head(q) = q[1] /\ \A i \in 1..Len(q) : q[i] \in Nat
    BY HeadTailProperties, LenProperties, EmptySeq
  <1> HIDE DEF t
  <1>2. Head(q) \in Elements(q)
    BY <1>1 DEF Elements
  <1>3. \A f \in Elements(t) : f \in Elements(q) /\ Head(q) < f
    <2> SUFFICES ASSUME NEW i \in 1..Len(t)
                 PROVE  t[i] \in Elements(q) /\ Head(q) < t[i]
      BY DEF Elements
    <2>1. i + 1 \in 1..Len(q) /\ 1 \in 1..Len(q) /\ 1 < i + 1
      BY <1>1
    <2> QED BY <1>1, <2>1 DEF Elements, Sorted
  <1>4. \A f \in Elements(q) : f # Head(q) => f \in Elements(t)
    <2> SUFFICES ASSUME NEW j \in 1..Len(q), q[j] # Head(q)
                 PROVE  q[j] \in Elements(t)
      BY DEF Elements
    <2>1. j - 1 \in 1..Len(t) /\ q[j] = t[j - 1]
      BY <1>1
    <2> QED BY <2>1 DEF Elements
  <1>5. Head(q) \in Nat /\ \A f \in Elements(t) : f \in Nat
    BY <1>1, <1>2, <1>3 DEF Elements
  <1>6. Elements(t) = Elements(q) \ {Head(q)}
    BY <1>3, <1>4, <1>5
  <1>7. Sorted(t)
    <2> SUFFICES ASSUME NEW i \in 1..Len(t), NEW j \in 1..Len(t), i < j
                 PROVE  t[i] < t[j]
      BY DEF Sorted
    <2>1. i + 1 \in 1..Len(q) /\ j + 1 \in 1..Len(q) /\ i + 1 < j + 1
      BY <1>1
    <2> QED BY <1>1, <2>1 DEF Sorted
  <1> QED BY <1>1, <1>2, <1>3, <1>6, <1>7 DEF t

\* A newer frame may be put behind a queue in order.
LEMMA SortedAppend ==
  ASSUME NEW q \in Seq(Nat), Sorted(q), NEW e \in Nat, \A f \in Elements(q) : f < e
  PROVE  Sorted(Append(q, e))
  <1> DEFINE p == Append(q, e)
  <1>1. /\ Len(q) \in Nat /\ Len(p) = Len(q) + 1
        /\ \A i \in 1..Len(q) : p[i] = q[i] /\ q[i] \in Elements(q)
        /\ p[Len(q) + 1] = e
    BY AppendProperties, LenProperties DEF Elements
  <1> HIDE DEF p
  <1> SUFFICES ASSUME NEW i \in 1..Len(p), NEW j \in 1..Len(p), i < j
               PROVE  p[i] < p[j]
    BY DEF Sorted, p
  <1>2. i \in 1..Len(q)
    BY <1>1
  <1>3. CASE j \in 1..Len(q)
    BY <1>1, <1>2, <1>3 DEF Sorted
  <1>4. CASE j = Len(q) + 1
    BY <1>1, <1>2, <1>4
  <1> QED BY <1>1, <1>3, <1>4

----------------------------------------------------------------------------
(* The inductive invariant                                                 *)

\* Where the GUI thread is, the receiver has a pipeline or has none.
Control ==
  /\ gui \in {"launch", "ended"} => pipeline = 0
  /\ gui = "loop" /\ ~isPlaying => pipeline = 0
  /\ gui = "ended" => todo = "ended"
  /\ todo = "ended" => gui \in {"stop", "ended"}
  /\ ~canvas => todo = "ended"
  /\ gui = "launch" \/ (gui = "stop" /\ todo = "launch") => starts < MaxStarts

\* Only the receiver's own pipeline plays and calls back.
Threads ==
  \A p \in Pipelines :
    pstate[p] = "playing" \/ thread[p] # "idle" => pipeline = p /\ appsink = p

\* While stop() waits no pipeline plays.
Quiet == gui = "stop" => \A p \in Pipelines : pstate[p] # "playing"

\* The frames on their way are in order and newer than the one shown.
Order ==
  /\ Sorted(events)
  /\ \A f \in Elements(events) : displayed < f /\ f <= arrived
  /\ \A p \in Pipelines :
       thread[p] # "idle" =>
         /\ displayed < sample[p] /\ sample[p] <= arrived
         /\ \A f \in Elements(events) : f < sample[p]
  /\ displayed <= arrived

Inv == TypeOK /\ Control /\ owned = Held /\ Threads /\ Quiet /\ Order

\* Queued frames are numbers of pictures.
LEMMA EventsTyped ==
  ASSUME TypeOK
  PROVE  /\ events \in Seq(Nat)
         /\ \A f \in Elements(events) : f \in Frames
  <1>1. \A i \in 1..Len(events) : events[i] \in Frames /\ events[i] \in Nat
    BY ElementOfSeq, ReceiverAssumption DEF TypeOK, Frames
  <1>2. events \in Seq(Nat)
    BY ReceiverAssumption, SMT DEF TypeOK, Frames
  <1> QED BY <1>1, <1>2 DEF Elements

LEMMA Numbered ==
  ASSUME TypeOK
  PROVE  /\ events \in Seq(Nat)
         /\ \A f \in Elements(events) : f \in Nat
         /\ displayed \in Nat /\ arrived \in Nat
         /\ \A p \in Pipelines : sample[p] \in Nat
  <1>1. 0..MaxFrames \subseteq Nat /\ Frames \subseteq Nat
    BY ReceiverAssumption DEF Frames
  <1>2. events \in Seq(Nat) /\ \A f \in Elements(events) : f \in Nat
    BY <1>1, EventsTyped
  <1> QED BY <1>1, <1>2 DEF TypeOK

LEMMA InvInitially == Init => Inv
  <1> SUFFICES ASSUME Init PROVE Inv
    OBVIOUS
  <1>1. TypeOK
    <2>1. 0 \in 0..MaxStarts /\ 0 \in 0..MaxFrames /\ <<>> \in Seq(Frames)
      BY ReceiverAssumption
    <2>2. owned \subseteq {"pipeline", "appsink"} \X Pipelines
      BY DEF Init
    <2>3. /\ pstate \in [Pipelines -> {"none", "partial", "playing", "failed",
                                     "error", "stopping", "freed"}]
          /\ thread \in [Pipelines -> {"idle", "called", "copied"}]
          /\ sample \in [Pipelines -> 0..MaxFrames]
      BY <2>1 DEF Init
    <2>4. starts \in 0..MaxStarts /\ pipeline \in 0..starts /\ appsink \in {0, pipeline}
      BY <2>1 DEF Init
    <2> QED BY <2>1, <2>2, <2>3, <2>4 DEF Init, TypeOK
  <1>2. Control /\ owned = Held /\ Threads /\ Quiet
    BY DEF Init, Control, Held, Threads, Quiet
  <1>3. Elements(events) = {} /\ Sorted(events)
    BY DEF Init, Elements, Sorted
  <1>4. Order
    BY <1>3 DEF Init, Order
  <1> QED BY <1>1, <1>2, <1>4 DEF Inv

\* What start() and stop() do to the types.
LEMMA TypeStep == Inv /\ [Next]_vars => TypeOK'
  <1> SUFFICES ASSUME Inv, [Next]_vars PROVE TypeOK'
    OBVIOUS
  <1> USE ReceiverAssumption DEF Pipelines, Frames
  <1>1. CASE Click \/ Quit \/ CanvasGoes
    BY <1>1 DEF Click, Quit, CanvasGoes, BeginStop, receiver, gst, Inv, TypeOK
  <1>2. CASE StopDone
    <2>1. owned' \subseteq owned /\ pipeline' = 0 /\ appsink' = 0 /\ gui' = todo
      BY <1>2 DEF StopDone, Stopped
    <2>2. events' \in Seq(Frames)
      BY <1>2, EmptySeq DEF StopDone, Stopped, Inv, TypeOK
    <2>3. pstate' \in [Pipelines -> {"none", "partial", "playing", "failed",
                                    "error", "stopping", "freed"}]
      <3>1. CASE pipeline = 0
        BY <1>2, <3>1 DEF StopDone, Stopped, Inv, TypeOK
      <3>2. CASE pipeline # 0
        <4>1. pstate' = [pstate EXCEPT ![pipeline] = "freed"]
          BY <1>2, <3>2 DEF StopDone, Stopped
        <4> QED BY <4>1 DEF Inv, TypeOK
      <3> QED BY <3>1, <3>2
    <2>4. /\ gui' \in {"loop", "stop", "launch", "ended"}
          /\ isPlaying' \in BOOLEAN
      BY <1>2 DEF StopDone, Stopped, Inv, TypeOK
    <2>5. UNCHANGED <<todo, canvas, starts, thread, sample, arrived, lost, displayed>>
      BY <1>2 DEF StopDone, Stopped
    <2> QED BY <2>1, <2>2, <2>3, <2>4, <2>5 DEF Inv, TypeOK
  <1>3. CASE Launch \/ LaunchFails
    <2>1. starts' \in Pipelines /\ starts' \in 0..MaxStarts
      BY <1>3 DEF Launch, LaunchFails, Launched, Inv, TypeOK, Control
    <2>2. owned' \subseteq {"pipeline", "appsink"} \X Pipelines
      BY <1>3, <2>1 DEF Launch, LaunchFails, Inv, TypeOK
    <2>3. appsink = 0 /\ appsink' \in {0, pipeline'} /\ pipeline' \in 0..starts'
      BY <1>3, <2>1 DEF Launch, LaunchFails, Launched, Inv, TypeOK, Control
    <2>4. pstate' \in [Pipelines -> {"none", "partial", "playing", "failed",
                                    "error", "stopping", "freed"}]
      BY <1>3, <2>1 DEF Launch, LaunchFails, Inv, TypeOK
    <2> QED BY <1>3, <2>1, <2>2, <2>3, <2>4
            DEF Launch, LaunchFails, Launched, Inv, TypeOK
  <1>4. CASE Render
    <2>1. Head(events) \in Frames /\ Tail(events) \in Seq(Frames)
      BY <1>4 DEF Render, Inv, TypeOK
    <2> QED BY <1>4, <2>1 DEF Render, guiVars, receiver, gst, Inv, TypeOK
  <1>5. ASSUME NEW p \in Pipelines, Decode(p)
        PROVE  TypeOK'
    BY <1>5 DEF Decode, guiVars, receiver, Inv, TypeOK
  <1>6. ASSUME NEW p \in Pipelines, CopySample(p) \/ CopyFails(p)
        PROVE  TypeOK'
    <2>1. lost' \in 0..MaxFrames
      BY <1>6 DEF CopySample, CopyFails, Inv, TypeOK
    <2>2. thread' \in [Pipelines -> {"idle", "called", "copied"}]
      BY <1>6 DEF CopySample, CopyFails, Returns, Inv, TypeOK
    <2> QED BY <1>6, <2>1, <2>2
            DEF CopySample, CopyFails, guiVars, receiver, Inv, TypeOK
  <1>7. ASSUME NEW p \in Pipelines, Emit(p)
        PROVE  TypeOK'
    <2>1. sample[p] \in Frames
      BY <1>7 DEF Emit, Inv, Order, TypeOK
    <2>2. events' \in Seq(Frames)
      BY <1>7, <2>1 DEF Emit, Inv, TypeOK
    <2> QED BY <1>7, <2>2 DEF Emit, Returns, guiVars, receiver, Inv, TypeOK
  <1>8. ASSUME NEW p \in Pipelines, GstError(p)
        PROVE  TypeOK'
    BY <1>8 DEF GstError, guiVars, receiver, Inv, TypeOK
  <1>9. CASE UNCHANGED vars
    BY <1>9 DEF vars, guiVars, receiver, gst, Inv, TypeOK
  <1> QED
    BY <1>1, <1>2, <1>3, <1>4, <1>5, <1>6, <1>7, <1>8, <1>9
       DEF Next, GuiStep, ThreadStep

\* The steps of the streaming thread and of Qt leave the receiver alone.
LEMMA ControlStep == Inv /\ [Next]_vars => Control' /\ (owned = Held)'
  <1> SUFFICES ASSUME Inv, [Next]_vars PROVE Control' /\ (owned = Held)'
    OBVIOUS
  <1>1. CASE Click \/ Quit \/ CanvasGoes
    BY <1>1 DEF Click, Quit, CanvasGoes, BeginStop, receiver, gst, Held,
                Inv, TypeOK, Control
  <1>2. CASE StopDone
    BY <1>2 DEF StopDone, Stopped, Held, Inv, TypeOK, Control
  <1>3. CASE Launch \/ LaunchFails
    <2>1. pipeline = 0 /\ appsink = 0 /\ owned = {} /\ starts' # 0
      BY <1>3 DEF Launch, LaunchFails, Launched, Inv, TypeOK, Control, Held
    <2>2. (owned = Held)'
      BY <1>3, <2>1 DEF Launch, LaunchFails, Held
    <2>3. Control'
      BY <1>3, <2>1 DEF Launch, LaunchFails, Launched, Inv, TypeOK, Control
    <2> QED BY <2>2, <2>3
  <1>4. CASE \/ Render \/ UNCHANGED vars
             \/ \E p \in Pipelines : Decode(p) \/ ThreadStep(p) \/ GstError(p)
    <2>1. UNCHANGED <<guiVars, receiver>>
      BY <1>4 DEF Render, Decode, ThreadStep, CopySample, CopyFails, Emit,
                  GstError, vars
    <2> QED BY <2>1 DEF guiVars, receiver, Inv, Control, Held
  <1> QED BY <1>1, <1>2, <1>3, <1>4 DEF Next, GuiStep

\* stop() waits for the callback, and start() has no pipeline to overtake.
LEMMA ThreadsStep == Inv /\ [Next]_vars => Threads'
  <1> SUFFICES ASSUME Inv, [Next]_vars, NEW q \in Pipelines,
                      (pstate[q] = "playing" \/ thread[q] # "idle")'
               PROVE  (pipeline = q /\ appsink = q)'
    BY DEF Threads, Pipelines
  <1>1. CASE Click \/ Quit
    BY <1>1 DEF Click, Quit, BeginStop, receiver, Inv, TypeOK, Threads
  <1>2. CASE StopDone
    BY <1>2 DEF StopDone, Stopped, Inv, TypeOK, Threads, Pipelines
  <1>3. CASE Launch \/ LaunchFails
    <2>1. pipeline = 0 /\ appsink = 0
      BY <1>3 DEF Launch, LaunchFails, Launched, Inv, TypeOK, Control
    <2>2. pstate[q] # "playing" /\ thread[q] = "idle"
      BY <2>1 DEF Inv, Threads, Pipelines
    <2>3. starts' \in Pipelines
      BY <1>3, ReceiverAssumption
         DEF Launch, LaunchFails, Launched, Inv, TypeOK, Control, Pipelines
    <2> QED BY <1>3, <2>2, <2>3 DEF Launch, LaunchFails, Launched, Inv, TypeOK
  <1>4. ASSUME NEW p \in Pipelines, Decode(p) \/ ThreadStep(p) \/ GstError(p)
        PROVE  (pipeline = q /\ appsink = q)'
    BY <1>4 DEF Decode, ThreadStep, CopySample, CopyFails, Emit, Returns,
                GstError, receiver, Inv, TypeOK, Threads
  <1>5. CASE CanvasGoes \/ Render \/ UNCHANGED vars
    BY <1>5 DEF CanvasGoes, Render, vars, receiver, gst, Inv, Threads
  <1> QED BY <1>1, <1>2, <1>3, <1>4, <1>5 DEF Next, GuiStep

\* stop() tells the one pipeline that may play, and none is built meanwhile.
LEMMA QuietStep == Inv /\ [Next]_vars => Quiet'
  <1> SUFFICES ASSUME Inv, [Next]_vars, gui' = "stop", NEW q \in Pipelines
               PROVE  pstate'[q] # "playing"
    BY DEF Quiet, Pipelines
  <1>1. CASE Click \/ Quit
    <2>1. CASE gui = "loop" /\ pipeline = 0
      <3>1. pstate[q] # "playing"
        BY <2>1, ReceiverAssumption DEF Inv, Threads, Pipelines
      <3> QED BY <1>1, <2>1, <3>1 DEF Click, Quit, BeginStop
    <2>2. CASE gui = "loop" /\ pipeline # 0
      <3>1. pstate' = [pstate EXCEPT ![pipeline] = "stopping"]
        BY <1>1, <2>2 DEF Click, Quit, BeginStop, Inv, Control
      <3> QED BY <3>1 DEF Inv, TypeOK, Threads
    <2> QED BY <1>1, <2>1, <2>2 DEF Click, Quit
  <1>2. ~(StopDone \/ Launch \/ LaunchFails)
    BY DEF StopDone, Stopped, Launch, LaunchFails, Launched, Inv, TypeOK
  <1>3. CASE \/ CanvasGoes \/ Render \/ UNCHANGED vars
             \/ \E p \in Pipelines : Decode(p) \/ ThreadStep(p) \/ GstError(p)
    <2>1. gui = "stop" /\ (pstate' = pstate \/ \E p \in Pipelines :
                             pstate' = [pstate EXCEPT ![p] = "error"])
      BY <1>3 DEF CanvasGoes, Render, Decode, ThreadStep, CopySample, CopyFails,
                  Emit, GstError, guiVars, gst, vars
    <2> QED BY <2>1 DEF Inv, TypeOK, Quiet
  <1> QED BY <1>1, <1>2, <1>3 DEF Next, GuiStep

\* A new picture is the newest, and one that is posted is newer than those
\* that are queued.
LEMMA OrderStep == Inv /\ [Next]_vars => Order'
  <1> SUFFICES ASSUME Inv, [Next]_vars PROVE Order'
    OBVIOUS
  <1> USE DEF Pipelines
  <1>0. /\ events \in Seq(Nat)
        /\ \A f \in Elements(events) : f \in Nat
        /\ displayed \in Nat /\ arrived \in Nat
        /\ \A p \in Pipelines : sample[p] \in Nat
    BY Numbered DEF Inv
  <1>1. CASE \/ Click \/ Quit \/ CanvasGoes \/ Launch \/ LaunchFails
             \/ UNCHANGED vars \/ \E p \in Pipelines : GstError(p)
    <2>1. UNCHANGED <<events, displayed, arrived, sample, thread>>
      BY <1>1 DEF Click, Quit, CanvasGoes, Launch, LaunchFails, Launched, GstError,
                  gst, vars
    <2> QED BY <2>1 DEF Inv, Order, Elements, Sorted
  <1>2. CASE StopDone
    <2>1. UNCHANGED <<displayed, arrived, sample, thread>>
      BY <1>2 DEF StopDone, Stopped
    <2>2. events' = events \/ (Elements(events') = {} /\ Sorted(events'))
      BY <1>2 DEF StopDone, Stopped, Elements, Sorted
    <2> QED BY <2>1, <2>2 DEF Inv, Order, Elements, Sorted
  <1>3. CASE Render
    <2>1. /\ events' = Tail(events) /\ displayed' = Head(events)
          /\ UNCHANGED <<arrived, sample, thread>>
      BY <1>3 DEF Render, gst
    <2>2. /\ Head(events) \in Elements(events)
          /\ \A f \in Elements(Tail(events)) : f \in Elements(events) /\ Head(events) < f
          /\ Sorted(Tail(events))
      BY <1>0, <1>3, ElementsTail DEF Render, Inv, Order
    <2>3. Elements(events)' = Elements(Tail(events)) /\ Sorted(events)'
      BY <2>1, <2>2 DEF Elements, Sorted
    <2> QED BY <1>0, <2>1, <2>2, <2>3 DEF Inv, Order
  <1>4. ASSUME NEW p \in Pipelines, Decode(p) PROVE Order'
    <2>1. /\ UNCHANGED <<events, displayed>> /\ arrived' = arrived + 1
          /\ sample' = [sample EXCEPT ![p] = arrived + 1]
          /\ \A q \in Pipelines : thread'[q] # "idle" => q = p \/ thread[q] # "idle"
      BY <1>4 DEF Decode, Inv, TypeOK
    <2>2. \A q \in Pipelines :
            sample'[q] = IF q = p THEN arrived + 1 ELSE sample[q]
      BY <2>1 DEF Inv, TypeOK
    <2>3. Elements(events)' = Elements(events) /\ Sorted(events)'
      BY <2>1 DEF Elements, Sorted, Inv, Order
    <2> QED BY <1>0, <2>1, <2>2, <2>3 DEF Inv, Order
  <1>5. ASSUME NEW p \in Pipelines, CopySample(p) \/ CopyFails(p) PROVE Order'
    <2>1. /\ UNCHANGED <<events, displayed, arrived, sample>>
          /\ \A q \in Pipelines : thread'[q] # "idle" => thread[q] # "idle"
      BY <1>5 DEF CopySample, CopyFails, Returns, Inv, TypeOK
    <2>3. Elements(events)' = Elements(events) /\ Sorted(events)'
      BY <2>1 DEF Elements, Sorted, Inv, Order
    <2> QED BY <2>1, <2>3 DEF Inv, Order
  <1>6. ASSUME NEW p \in Pipelines, Emit(p) PROVE Order'
    <2>1. /\ events' = Append(events, sample[p])
          /\ UNCHANGED <<displayed, arrived, sample>>
          /\ thread[p] # "idle"
          /\ \A q \in Pipelines : thread'[q] # "idle" => q # p /\ thread[q] # "idle"
      BY <1>6 DEF Emit, Returns, Inv, TypeOK
    <2>2. \A q \in Pipelines : thread'[q] = "idle"
      BY <2>1 DEF Inv, Threads
    <2>3. Elements(events)' = Elements(events) \cup {sample[p]}
      BY <1>0, <2>1, ElementsAppend DEF Elements
    <2>4. Sorted(events)'
      BY <1>0, <2>1, SortedAppend DEF Inv, Order, Sorted
    <2> QED BY <1>0, <2>1, <2>2, <2>3, <2>4 DEF Inv, Order
  <1> QED
    BY <1>1, <1>2, <1>3, <1>4, <1>5, <1>6 DEF Next, GuiStep, ThreadStep

LEMMA Inductive == Inv /\ [Next]_vars => Inv'
  BY TypeStep, ControlStep, ThreadsStep, QuietStep, OrderStep DEF Inv

\* The conjunction is an invariant: wherever start(), stop(), the callback
\* and the event loop are, the receiver's pointers, its references, the only
\* thread that may call back and the frames on their way fit together.
THEOREM Invariance == Spec => []Inv
  BY InvInitially, Inductive, PTL DEF Spec

\* Every variable has its type, for any number of pictures and starts.
THEOREM TypeCorrect == Spec => []TypeOK
  <1>1. Inv => TypeOK
    BY DEF Inv
  <1> QED BY <1>1, Invariance, PTL

\* stop() and start() leave no reference behind and drop none twice
\* (gstvideoreceiver.cpp:27-79), whether gst_parse_launch() gave nothing, a
\* part of a pipeline or all of it.
THEOREM Balanced == Spec => []ReferencesBalanced
  <1>1. Inv => ReferencesBalanced
    <2> SUFFICES ASSUME Inv PROVE ReferencesBalanced
      OBVIOUS
    <2>1. pipeline = 0 => Held = {}
      BY DEF Inv, TypeOK, Held
    <2> QED BY <2>1 DEF Inv, Control, ReferencesBalanced
  <1> QED BY <1>1, Invariance, PTL

\* onNewSample() never runs on a receiver that is gone or has another
\* pipeline: stop() returns only after the streaming thread has.
THEOREM CallbackSafety == Spec => []CallbackSafe
  <1>1. Inv => CallbackSafe
    <2> SUFFICES ASSUME Inv, NEW p \in Pipelines, thread[p] # "idle"
                 PROVE  gui # "ended" /\ pipeline = p /\ <<"appsink", p>> \in owned
      BY DEF CallbackSafe
    <2>1. pipeline = p /\ appsink = p /\ p # 0
      BY ReceiverAssumption DEF Inv, Threads, Pipelines
    <2>2. <<"appsink", p>> \in owned
      BY <2>1 DEF Inv, Held
    <2> QED BY <2>1, <2>2 DEF Inv, Control
  <1> QED BY <1>1, Invariance, PTL

\* Only the GUI thread's event loop touches the video sink, while there is
\* one: the frames that outlive stop() do not outlive the sink.
THEOREM RenderedOnGui == Spec => RenderedSafely
  <1>1. Inv /\ [Next]_vars => [displayed' # displayed => gui = "loop" /\ canvas]_vars
    <2> SUFFICES ASSUME Inv, Next, displayed' # displayed
                 PROVE  gui = "loop" /\ canvas
      OBVIOUS
    <2>1. Render
      BY DEF Next, GuiStep, ThreadStep, Click, Quit, CanvasGoes, StopDone, Stopped,
             Launch, LaunchFails, Launched, Decode, CopySample, CopyFails, Emit,
             GstError, gst
    <2> QED BY <2>1 DEF Render, Inv, Control
  <1> QED BY <1>1, Invariance, PTL DEF Spec, RenderedSafely

----------------------------------------------------------------------------
(* stop() comes to an end                                                  *)

\* While stop() waits the callback it found goes on, and none begins.
LEMMA StopNearer ==
  ASSUME Inv, Next, gui = "stop"
  PROVE  /\ StopLeft' <= StopLeft
         /\ StopDone \/ (\E p \in Pipelines : ThreadStep(p)) => StopLeft' < StopLeft
  <1>1. /\ pipeline = 0 => StopLeft = 1
        /\ pipeline # 0 =>
             /\ pipeline \in Pipelines
             /\ thread[pipeline] = "idle" => StopLeft = 1
             /\ thread[pipeline] = "copied" => StopLeft = 2
             /\ thread[pipeline] = "called" => StopLeft = 3
    BY ReceiverAssumption DEF StopLeft, Inv, TypeOK, Pipelines
  <1>2. thread \in [Pipelines -> {"idle", "called", "copied"}]
    BY DEF Inv, TypeOK
  <1>3. \A p \in Pipelines : thread[p] # "idle" => pipeline = p /\ p # 0
    BY ReceiverAssumption DEF Inv, Threads, Pipelines
  <1>4. CASE StopDone
    <2>1. StopLeft' = 0
      BY <1>4 DEF StopDone, Stopped, StopLeft, Inv, TypeOK
    <2> QED BY <1>1, <1>2, <2>1
  <1>5. ASSUME NEW p \in Pipelines, ThreadStep(p)
        PROVE  StopLeft' < StopLeft
    <2>1. pipeline = p /\ p # 0 /\ thread[p] # "idle"
      BY <1>3, <1>5 DEF ThreadStep, CopySample, CopyFails, Emit
    <2>2. gui' = "stop" /\ pipeline' = p
      BY <1>5, <2>1
         DEF ThreadStep, CopySample, CopyFails, Emit, guiVars, receiver
    <2>3. \/ thread[p] = "called" /\ thread'[p] \in {"copied", "idle"}
          \/ thread[p] = "copied" /\ thread'[p] = "idle"
      BY <1>2, <1>5 DEF ThreadStep, CopySample, CopyFails, Emit, Returns
    <2>4. /\ thread'[p] = "idle" => StopLeft' = 1
          /\ thread'[p] = "copied" => StopLeft' = 2
      BY <2>1, <2>2 DEF StopLeft
    <2> QED BY <1>1, <2>1, <2>3, <2>4
  <1>6. CASE CanvasGoes \/ \E p \in Pipelines : GstError(p)
    <2>1. UNCHANGED <<gui, pipeline, thread>>
      BY <1>6 DEF CanvasGoes, GstError, guiVars, receiver, gst
    <2>2. StopLeft' = StopLeft /\ StopLeft \in Nat
      BY <1>1, <1>2, <2>1 DEF StopLeft
    <2>3. ~StopDone /\ ~\E p \in Pipelines : ThreadStep(p)
      BY <1>2, <2>1 DEF StopDone, Stopped, ThreadStep, CopySample, CopyFails, Emit,
                        Returns, Inv, TypeOK
    <2> QED BY <2>2, <2>3
  <1>7. ~(Click \/ Quit \/ Render \/ Launch \/ LaunchFails)
    BY DEF Click, Quit, Render, Launch, LaunchFails, Launched
  <1>8. ~\E p \in Pipelines : Decode(p)
    BY DEF Decode, Inv, Quiet
  <1>9. StopLeft \in Nat
    BY <1>1, <1>2
  <1>10. StopLeft' \in Nat
    <2>1. CASE StopDone
      BY <2>1 DEF StopDone, Stopped, StopLeft, Inv, TypeOK
    <2>2. CASE \E p \in Pipelines : ThreadStep(p)
      <3>1. Inv'
        BY Inductive
      <3> QED
        BY <3>1, ReceiverAssumption DEF StopLeft, Inv, TypeOK, Pipelines
    <2>3. CASE CanvasGoes \/ \E p \in Pipelines : GstError(p)
      BY <1>9, <2>3 DEF CanvasGoes, GstError, guiVars, receiver, gst, StopLeft
    <2> QED BY <1>7, <1>8, <2>1, <2>2, <2>3 DEF Next, GuiStep
  <1>11. CASE StopDone \/ \E p \in Pipelines : ThreadStep(p)
    BY <1>4, <1>5, <1>9, <1>10, <1>11
  <1> QED BY <1>6, <1>7, <1>8, <1>11 DEF Next, GuiStep

\* stop() (gstvideoreceiver.cpp:67-79) waits for one callback at most, from
\* the moment it changes the state, for any rate and number of pictures.
THEOREM StopNearsReturn == Spec => StopAdvances
  <1>1. Inv /\ [Next]_vars =>
          [gui = "stop" =>
             /\ StopLeft' <= StopLeft
             /\ StopDone \/ (\E p \in Pipelines : ThreadStep(p))
                  => StopLeft' < StopLeft]_vars
    BY StopNearer
  <1> QED BY <1>1, Invariance, PTL DEF Spec, StopAdvances

----------------------------------------------------------------------------
(* Refinement                                                              *)

\* The pictures on their way: queued, or in the callback.
Waiting ==
  Elements(events) \cup {sample[p] : p \in {q \in Pipelines : thread[q] # "idle"}}

LEMMA WaitingInFlight == Inv => Elements(InFlight) = Waiting
  <1> SUFFICES ASSUME Inv PROVE Elements(InFlight) = Waiting
    OBVIOUS
  <1>1. CASE pipeline # 0 /\ thread[pipeline] # "idle"
    <2>1. pipeline \in Pipelines
      BY <1>1, ReceiverAssumption DEF Inv, TypeOK, Pipelines
    <2>2. InFlight = events \o <<sample[pipeline]>>
      BY <1>1 DEF InFlight
    <2>3. Elements(InFlight) = Elements(events) \cup {sample[pipeline]}
      BY <2>2, EventsTyped, ElementsConcat DEF Inv
    <2>4. {q \in Pipelines : thread[q] # "idle"} = {pipeline}
      BY <1>1, <2>1 DEF Inv, Threads
    <2> QED BY <2>3, <2>4 DEF Waiting
  <1>2. CASE pipeline = 0 \/ thread[pipeline] = "idle"
    <2>1. InFlight = events
      BY <1>2, EventsTyped DEF InFlight, Inv
    <2>2. {q \in Pipelines : thread[q] # "idle"} = {}
      BY <1>2, ReceiverAssumption DEF Inv, Threads, Pipelines
    <2> QED BY <2>1, <2>2 DEF Waiting
  <1> QED BY <1>1, <1>2

\* How each step changes the pictures on their way.
LEMMA WaitingStep ==
  ASSUME Inv, [Next]_vars
  PROVE  \/ /\ arrived' = arrived + 1 /\ displayed' = displayed
            /\ Waiting' = Waiting \cup {arrived'}
         \/ arrived' = arrived /\ displayed' = displayed /\ Waiting' \subseteq Waiting
         \/ /\ arrived' = arrived /\ displayed' \in Waiting
            /\ Waiting' = Waiting \ {displayed'}
            /\ \A f \in Waiting' : f > displayed'
  <1> DEFINE Busy == {q \in Pipelines : thread[q] # "idle"}
             Given == /\ arrived' = arrived + 1 /\ displayed' = displayed
                      /\ Waiting' = Waiting \cup {arrived'}
             Kept == /\ arrived' = arrived /\ displayed' = displayed
                     /\ Waiting' \subseteq Waiting
             Taken == /\ arrived' = arrived /\ displayed' \in Waiting
                      /\ Waiting' = Waiting \ {displayed'}
                      /\ \A f \in Waiting' : f > displayed'
  <1>0. /\ events \in Seq(Nat)
        /\ \A f \in Elements(events) : f \in Nat
        /\ displayed \in Nat /\ arrived \in Nat
        /\ \A p \in Pipelines : sample[p] \in Nat
    BY Numbered DEF Inv
  <1>1. CASE \/ Click \/ Quit \/ CanvasGoes \/ Launch \/ LaunchFails
             \/ UNCHANGED vars \/ \E p \in Pipelines : GstError(p)
    <2>1. UNCHANGED <<events, displayed, arrived, sample, thread>>
      BY <1>1 DEF Click, Quit, CanvasGoes, Launch, LaunchFails, Launched, GstError,
                  gst, vars
    <2> QED BY <2>1 DEF Waiting, Elements
  <1>2. CASE StopDone
    <2>1. UNCHANGED <<displayed, arrived, sample, thread>>
      BY <1>2 DEF StopDone, Stopped
    <2>2. Elements(events)' \subseteq Elements(events)
      BY <1>2 DEF StopDone, Stopped, Elements
    <2> QED BY <2>1, <2>2 DEF Waiting
  <1>3. CASE Render
    <2>1. /\ events' = Tail(events) /\ displayed' = Head(events)
          /\ UNCHANGED <<arrived, sample, thread>>
      BY <1>3 DEF Render, gst
    <2>2. /\ Head(events) \in Elements(events)
          /\ Elements(Tail(events)) = Elements(events) \ {Head(events)}
          /\ \A f \in Elements(Tail(events)) : Head(events) < f
      BY <1>0, <1>3, ElementsTail DEF Render, Inv, Order
    <2>3. Elements(events)' = Elements(events) \ {displayed'}
      BY <2>1, <2>2 DEF Elements
    <2>4. \A q \in Busy : displayed' < sample[q]
      BY <2>1, <2>2 DEF Inv, Order
    <2>5. /\ Waiting = Elements(events) \cup {sample[q] : q \in Busy}
          /\ Waiting' = Elements(events)' \cup {sample[q] : q \in Busy}
      BY <2>1 DEF Waiting
    <2>6. displayed' \in Nat /\ displayed' \in Waiting
      BY <1>0, <2>1, <2>2, <2>5
    <2>7. \A f \in Elements(events)' : displayed' < f /\ f \in Nat
      BY <1>0, <2>1, <2>2, <2>3 DEF Elements
    <2>8. \A f \in {sample[q] : q \in Busy} : displayed' < f /\ f \in Nat
      BY <1>0, <2>4
    <2>9. /\ Waiting' = Waiting \ {displayed'}
          /\ \A f \in Waiting' : f > displayed'
      BY <2>3, <2>5, <2>6, <2>7, <2>8
    <2> QED BY <2>1, <2>6, <2>9
  <1>4. ASSUME NEW p \in Pipelines, Decode(p) PROVE Given
    <2>1. /\ UNCHANGED <<events, displayed>> /\ arrived' = arrived + 1
          /\ sample' = [sample EXCEPT ![p] = arrived + 1]
          /\ thread[p] = "idle" /\ pstate[p] = "playing"
          /\ thread' = [thread EXCEPT ![p] = IF appsink = p THEN "called" ELSE "idle"]
      BY <1>4 DEF Decode
    <2>2. appsink = p /\ pipeline = p /\ \A q \in Pipelines : thread[q] = "idle"
      BY <2>1 DEF Inv, Threads
    <2>3. \A q \in Pipelines : thread'[q] # "idle" <=> q = p
      BY <2>1, <2>2 DEF Inv, TypeOK
    <2>4. sample'[p] = arrived'
      BY <2>1 DEF Inv, TypeOK
    <2>5. Waiting = Elements(events)
      BY <2>2 DEF Waiting
    <2>6. Waiting' = Elements(events)' \cup {sample'[p]}
      BY <2>3 DEF Waiting
    <2> QED BY <2>1, <2>4, <2>5, <2>6 DEF Elements
  <1>5. ASSUME NEW p \in Pipelines, CopySample(p) \/ CopyFails(p) PROVE Kept
    <2>1. /\ UNCHANGED <<events, displayed, arrived, sample>>
          /\ \A q \in Pipelines : thread'[q] # "idle" => thread[q] # "idle"
      BY <1>5 DEF CopySample, CopyFails, Returns, Inv, TypeOK
    <2> QED BY <2>1 DEF Waiting, Elements
  <1>6. ASSUME NEW p \in Pipelines, Emit(p) PROVE Kept
    <2>1. /\ events' = Append(events, sample[p])
          /\ UNCHANGED <<displayed, arrived, sample>>
          /\ thread[p] # "idle"
          /\ \A q \in Pipelines : thread'[q] # "idle" => q # p /\ thread[q] # "idle"
      BY <1>6 DEF Emit, Returns, Inv, TypeOK
    <2>2. Elements(events)' = Elements(events) \cup {sample[p]}
      BY <1>0, <2>1, ElementsAppend DEF Elements
    <2> QED BY <2>1, <2>2 DEF Waiting
  <1> QED
    BY <1>1, <1>2, <1>3, <1>4, <1>5, <1>6 DEF Next, GuiStep, ThreadStep

\* Frames come to the screen in the order in which they were decoded and at
\* most once, across stop(), errors and restarts: the receiver implements
\* LossyFifo.
THEOREM Refinement == Spec => ImplementsFifo
  <1>1. Init => Fifo!Init
    <2> SUFFICES ASSUME Init PROVE Fifo!Init
      OBVIOUS
    <2>1. Waiting = {}
      BY DEF Init, Waiting, Elements
    <2>2. Elements(InFlight) = {}
      BY <2>1, InvInitially, WaitingInFlight
    <2> QED BY <2>2 DEF Fifo!Init, Init, Elements
  <1>2. Inv' => (Elements(InFlight) = Waiting)'
    BY WaitingInFlight, PTL
  <1>3. Inv /\ Inv' /\ [Next]_vars => [Fifo!Next]_(Fifo!fifo)
    <2> SUFFICES ASSUME Inv, Inv', [Next]_vars PROVE [Fifo!Next]_(Fifo!fifo)
      OBVIOUS
    <2>1. Elements(InFlight) = Waiting
      BY WaitingInFlight
    <2>2. Elements(InFlight)' = Waiting'
      BY <1>2
    <2> HIDE DEF Waiting, Elements
    <2>3. \/ /\ arrived' = arrived + 1 /\ displayed' = displayed
             /\ Elements(InFlight)' = Elements(InFlight) \cup {arrived'}
          \/ /\ arrived' = arrived /\ displayed' = displayed
             /\ Elements(InFlight)' \subseteq Elements(InFlight)
          \/ /\ arrived' = arrived /\ displayed' \in Elements(InFlight)
             /\ Elements(InFlight)' = Elements(InFlight) \ {displayed'}
             /\ \A f \in Elements(InFlight)' : f > displayed'
      BY <2>1, <2>2, WaitingStep
    <2> QED
      BY <2>3 DEF Fifo!Next, Fifo!Give, Fifo!Lose, Fifo!Take, Fifo!fifo, Elements
  <1> QED BY <1>1, <1>3, Invariance, PTL DEF Spec, ImplementsFifo, Fifo!Spec

Link == INSTANCE LossyFifoProofs WITH
          given <- arrived, taken <- displayed,
          pending <- {InFlight[i] : i \in 1..Len(InFlight)}

\* What LossyFifoProofs proves of the abstract fifo holds of the screen: no
\* step of the receiver replaces a picture by an older one.
THEOREM ScreenNeverBack == Spec => [][displayed' >= displayed]_displayed
  <1>1. Fifo!Init => Link!Init
    BY DEF Fifo!Init, Link!Init
  <1>2. [Fifo!Next]_(Fifo!fifo) => [Link!Next]_(Link!fifo)
    BY DEF Fifo!Next, Fifo!Give, Fifo!Lose, Fifo!Take, Fifo!fifo,
           Link!Next, Link!Give, Link!Lose, Link!Take, Link!fifo
  <1>3. ImplementsFifo => Link!Spec
    BY <1>1, <1>2, PTL DEF ImplementsFifo, Fifo!Spec, Link!Spec
  <1>4. Link!Spec => [][displayed' = displayed \/ displayed' > displayed]_(Link!fifo)
    BY Link!NeverBack
  <1>5. TypeOK /\ TypeOK' /\ [displayed' = displayed \/ displayed' > displayed]_(Link!fifo)
          => [displayed' >= displayed]_displayed
    <2>1. TypeOK /\ TypeOK' => displayed \in Nat /\ displayed' \in Nat
      BY ReceiverAssumption DEF TypeOK
    <2>2. [displayed' = displayed \/ displayed' > displayed]_(Link!fifo)
            => displayed' = displayed \/ displayed' > displayed
      BY DEF Link!fifo
    <2> QED BY <2>1, <2>2
  <1> QED BY <1>3, <1>4, <1>5, Refinement, TypeCorrect, PTL
=============================================================================
