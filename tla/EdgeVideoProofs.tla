--------------------------- MODULE EdgeVideoProofs ---------------------------
(***************************************************************************)
(* EdgeVideo's safety properties, proved for every pool, retry limit,      *)
(* codec depth, number of pictures and limit of appsrc's queue. Each step  *)
(* of the video path is a step of the encoder or leaves it alone, so that  *)
(* EncoderProofs' invariant carries over.                                  *)
(***************************************************************************)
EXTENDS EdgeVideo, EncoderProofs

----------------------------------------------------------------------------
(* Queues in order                                                         *)

Sorted(q) == \A i, j \in 1..Len(q) : i < j => q[i] < q[j]
FramesOf(q) == [i \in 1..Len(q) |-> q[i].frame]

\* A sorted queue has no element twice.
LEMMA SortedInjective ==
  ASSUME NEW q \in Seq(Nat), Sorted(q)
  PROVE  IsInjective(q)
  <1>1. Len(q) \in Nat /\ DOMAIN q = 1..Len(q) /\ \A i \in 1..Len(q) : q[i] \in Nat
    BY LenProperties, ElementOfSeq
  <1> SUFFICES ASSUME NEW i \in 1..Len(q), NEW j \in 1..Len(q), q[i] = q[j]
               PROVE  i = j
    BY <1>1 DEF IsInjective
  <1>2. ~(i < j) /\ ~(j < i)
    BY <1>1 DEF Sorted
  <1> QED BY <1>2

\* The oldest of a sorted queue is before the others.
LEMMA SortedPop ==
  ASSUME NEW q \in Seq(Nat), Sorted(q), q # <<>>
  PROVE  /\ Head(q) \in Range(q) /\ Tail(q) \in Seq(Nat)
         /\ Range(Tail(q)) = Range(q) \ {Head(q)}
         /\ \A n \in Range(Tail(q)) : Head(q) < n
         /\ Sorted(Tail(q))
  <1> DEFINE t == Tail(q)
  <1>1. /\ t \in Seq(Nat) /\ Len(t) = Len(q) - 1 /\ Len(q) \in Nat \ {0}
        /\ \A i \in 1..Len(t) : t[i] = q[i + 1]
        /\ Head(q) = q[1] /\ DOMAIN t = 1..Len(t)
    BY HeadTailProperties, LenProperties, EmptySeq
  <1>2. Head(q) \in Range(q) /\ Range(t) = Range(q) \ {Head(q)}
    BY QueuePop, SortedInjective
  <1> HIDE DEF t
  <1>3. ASSUME NEW i \in 1..Len(t) PROVE Head(q) < t[i]
    <2>1. 1 \in 1..Len(q) /\ i + 1 \in 1..Len(q) /\ 1 < i + 1
      BY <1>1
    <2> QED BY <1>1, <2>1 DEF Sorted
  <1>4. \A n \in Range(t) : Head(q) < n
    BY <1>1, <1>3 DEF Range
  <1>5. Sorted(t)
    <2> SUFFICES ASSUME NEW i \in 1..Len(t), NEW j \in 1..Len(t), i < j
                 PROVE  t[i] < t[j]
      BY DEF Sorted
    <2>1. i + 1 \in 1..Len(q) /\ j + 1 \in 1..Len(q) /\ i + 1 < j + 1
      BY <1>1
    <2> QED BY <1>1, <2>1 DEF Sorted
  <1> QED BY <1>1, <1>2, <1>4, <1>5 DEF t

\* A newer one may be put behind it.
LEMMA SortedPush ==
  ASSUME NEW q \in Seq(Nat), Sorted(q), NEW e \in Nat, \A n \in Range(q) : n < e
  PROVE  /\ Append(q, e) \in Seq(Nat)
         /\ Sorted(Append(q, e))
         /\ Range(Append(q, e)) = Range(q) \cup {e}
  <1> DEFINE p == Append(q, e)
  <1>1. /\ Len(q) \in Nat /\ Len(p) = Len(q) + 1 /\ p \in Seq(Nat)
        /\ \A i \in 1..Len(q) : p[i] = q[i] /\ q[i] \in Range(q)
        /\ p[Len(q) + 1] = e
    BY AppendProperties, LenProperties DEF Range
  <1>2. Range(p) = Range(q) \cup {e}
    BY QueuePush, SortedInjective
  <1> HIDE DEF p
  <1>3. Sorted(p)
    <2> SUFFICES ASSUME NEW i \in 1..Len(p), NEW j \in 1..Len(p), i < j
                 PROVE  p[i] < p[j]
      BY DEF Sorted
    <2>1. i \in 1..Len(q)
      BY <1>1
    <2>2. CASE j \in 1..Len(q)
      BY <1>1, <2>1, <2>2 DEF Sorted
    <2>3. CASE j = Len(q) + 1
      BY <1>1, <2>1, <2>3
    <2> QED BY <1>1, <2>2, <2>3
  <1> QED BY <1>1, <1>2, <1>3 DEF p

\* Two sorted sequences, one older than the other, make a third.
LEMMA SortedJoin ==
  ASSUME NEW s \in Seq(Nat), NEW t \in Seq(Nat), Sorted(s), Sorted(t),
         \A m \in Range(s), n \in Range(t) : m < n
  PROVE  /\ s \o t \in Seq(Nat) /\ Sorted(s \o t)
         /\ Range(s \o t) = Range(s) \cup Range(t)
  <1> DEFINE p == s \o t
  <1>1. /\ Len(s) \in Nat /\ Len(t) \in Nat /\ Len(p) = Len(s) + Len(t)
        /\ p \in Seq(Nat) /\ DOMAIN p = 1..Len(p)
        /\ DOMAIN s = 1..Len(s) /\ DOMAIN t = 1..Len(t)
        /\ \A i \in 1..Len(s) : p[i] = s[i] /\ s[i] \in Range(s)
        /\ \A i \in 1..Len(p) \ 1..Len(s) :
             /\ i - Len(s) \in 1..Len(t)
             /\ p[i] = t[i - Len(s)]
             /\ p[i] \in Range(t)
    <2>1. /\ Len(s) \in Nat /\ Len(t) \in Nat /\ Len(p) = Len(s) + Len(t)
          /\ p \in Seq(Nat) /\ DOMAIN p = 1..Len(p)
          /\ DOMAIN s = 1..Len(s) /\ DOMAIN t = 1..Len(t)
          /\ \A i \in 1..Len(p) : p[i] = IF i <= Len(s) THEN s[i] ELSE t[i - Len(s)]
      BY ConcatProperties, LenProperties
    <2> HIDE DEF p
    <2>2. \A i \in 1..Len(s) : p[i] = s[i] /\ s[i] \in Range(s)
      BY <2>1 DEF Range
    <2>3. ASSUME NEW i \in 1..Len(p) \ 1..Len(s)
          PROVE  i - Len(s) \in 1..Len(t) /\ p[i] = t[i - Len(s)]
      BY <2>1
    <2>4. \A i \in 1..Len(t) : t[i] \in Range(t)
      BY <2>1 DEF Range
    <2> QED BY <2>1, <2>2, <2>3, <2>4
  <1> HIDE DEF p
  <1>2. Sorted(p)
    <2> SUFFICES ASSUME NEW i \in 1..Len(p), NEW j \in 1..Len(p), i < j
                 PROVE  p[i] < p[j]
      BY DEF Sorted
    <2>1. CASE j \in 1..Len(s)
      BY <1>1, <2>1 DEF Sorted
    <2>2. CASE i \notin 1..Len(s)
      <3>1. j \notin 1..Len(s) /\ i - Len(s) < j - Len(s)
        BY <1>1, <2>2
      <3> QED BY <1>1, <2>2, <3>1 DEF Sorted
    <2>3. CASE i \in 1..Len(s) /\ j \notin 1..Len(s)
      BY <1>1, <2>3
    <2> QED BY <2>1, <2>2, <2>3
  <1>3. Range(p) = Range(s) \cup Range(t)
    <2>1. ASSUME NEW i \in 1..Len(t) PROVE t[i] \in Range(p)
      <3>1. i + Len(s) \in 1..Len(p) \ 1..Len(s) /\ (i + Len(s)) - Len(s) = i
        BY <1>1
      <3> QED BY <1>1, <3>1 DEF Range
    <2>2. \A i \in 1..Len(s) : s[i] \in Range(p)
      BY <1>1 DEF Range
    <2>3. \A i \in 1..Len(p) : p[i] \in Range(s) \cup Range(t)
      BY <1>1
    <2> QED BY <1>1, <2>1, <2>2, <2>3 DEF Range
  <1> QED BY <1>1, <1>2, <1>3 DEF p

----------------------------------------------------------------------------
(* The packets GStreamer has                                               *)

Rising(q) == \A i, j \in 1..Len(q) : i < j => q[i].frame < q[j].frame

\* Pictures in order are different packets, and come in order.
LEMMA RisingFrames ==
  ASSUME NEW q \in Seq(Entry), Rising(q)
  PROVE  /\ IsInjective(q)
         /\ FramesOf(q) \in Seq(Nat) /\ Sorted(FramesOf(q))
         /\ Range(FramesOf(q)) = {e.frame : e \in Range(q)}
  <1> DEFINE f == FramesOf(q)
  <1>1. /\ Len(q) \in Nat /\ DOMAIN q = 1..Len(q)
        /\ \A i \in 1..Len(q) : q[i] \in Entry /\ q[i].frame \in Nat
    <2>1. \A e \in Entry : e.frame \in Nat
      BY DEF Entry
    <2> QED BY <2>1, LenProperties, ElementOfSeq
  <1>2. /\ f \in Seq(Nat) /\ Len(f) = Len(q) /\ DOMAIN f = 1..Len(q)
        /\ \A i \in 1..Len(q) : f[i] = q[i].frame
    BY <1>1 DEF FramesOf
  <1>3. IsInjective(q)
    <2> SUFFICES ASSUME NEW i \in 1..Len(q), NEW j \in 1..Len(q), q[i] = q[j]
                 PROVE  i = j
      BY <1>1 DEF IsInjective
    <2>1. ~(i < j) /\ ~(j < i)
      BY <1>1 DEF Rising
    <2> QED BY <2>1
  <1> HIDE DEF f
  <1>4. Sorted(f)
    BY <1>2 DEF Sorted, Rising
  <1>5. Range(f) = {e.frame : e \in Range(q)}
    BY <1>1, <1>2 DEF Range
  <1> QED BY <1>2, <1>3, <1>4, <1>5 DEF f

\* The oldest packet leaves.
LEMMA RisingPop ==
  ASSUME NEW q \in Seq(Entry), Rising(q), q # <<>>
  PROVE  /\ Head(q) \in Range(q) /\ Head(q) \in Entry
         /\ Tail(q) \in Seq(Entry)
         /\ Range(Tail(q)) = Range(q) \ {Head(q)}
         /\ \A e \in Range(Tail(q)) : Head(q).frame < e.frame
         /\ Rising(Tail(q))
  <1> DEFINE t == Tail(q)
  <1>1. /\ t \in Seq(Entry) /\ Len(t) = Len(q) - 1 /\ Len(q) \in Nat \ {0}
        /\ \A i \in 1..Len(t) : t[i] = q[i + 1]
        /\ Head(q) = q[1] /\ DOMAIN t = 1..Len(t)
    BY HeadTailProperties, LenProperties, EmptySeq
  <1>2. Head(q) \in Entry /\ Head(q) \in Range(q) /\ Range(t) = Range(q) \ {Head(q)}
    BY QueuePop, RisingFrames
  <1> HIDE DEF t
  <1>3. ASSUME NEW i \in 1..Len(t) PROVE Head(q).frame < t[i].frame
    <2>1. 1 \in 1..Len(q) /\ i + 1 \in 1..Len(q) /\ 1 < i + 1
      BY <1>1
    <2> QED BY <1>1, <2>1 DEF Rising
  <1>4. \A e \in Range(t) : Head(q).frame < e.frame
    BY <1>1, <1>3 DEF Range
  <1>5. Rising(t)
    <2> SUFFICES ASSUME NEW i \in 1..Len(t), NEW j \in 1..Len(t), i < j
                 PROVE  t[i].frame < t[j].frame
      BY DEF Rising
    <2>1. i + 1 \in 1..Len(q) /\ j + 1 \in 1..Len(q) /\ i + 1 < j + 1
      BY <1>1
    <2> QED BY <1>1, <2>1 DEF Rising
  <1> QED BY <1>1, <1>2, <1>4, <1>5 DEF t

\* A newer one is queued.
LEMMA RisingPush ==
  ASSUME NEW q \in Seq(Entry), Rising(q), NEW e \in Entry,
         \A f \in Range(q) : f.frame < e.frame
  PROVE  /\ Append(q, e) \in Seq(Entry)
         /\ Rising(Append(q, e))
         /\ Range(Append(q, e)) = Range(q) \cup {e}
  <1> DEFINE p == Append(q, e)
  <1>1. /\ Len(q) \in Nat /\ Len(p) = Len(q) + 1 /\ p \in Seq(Entry)
        /\ \A i \in 1..Len(q) : p[i] = q[i] /\ q[i] \in Range(q)
        /\ p[Len(q) + 1] = e
    BY AppendProperties, LenProperties DEF Range
  <1>2. Range(p) = Range(q) \cup {e}
    <2>1. e \notin Range(q)
      BY DEF Entry
    <2> QED BY <2>1, QueuePush, RisingFrames
  <1> HIDE DEF p
  <1>3. Rising(p)
    <2> SUFFICES ASSUME NEW i \in 1..Len(p), NEW j \in 1..Len(p), i < j
                 PROVE  p[i].frame < p[j].frame
      BY DEF Rising
    <2>1. i \in 1..Len(q)
      BY <1>1
    <2>2. CASE j \in 1..Len(q)
      BY <1>1, <2>1, <2>2 DEF Rising
    <2>3. CASE j = Len(q) + 1
      BY <1>1, <2>1, <2>3
    <2> QED BY <1>1, <2>2, <2>3
  <1> QED BY <1>1, <1>2, <1>3 DEF p

\* The packet udpsink is at stands before those in appsrc.
LEMMA FlightSplit ==
  ASSUME NEW S, NEW e \in S, NEW q \in Seq(S)
  PROVE  /\ <<e>> \o q \in Seq(S) /\ <<e>> \o q # <<>>
         /\ Head(<<e>> \o q) = e /\ Tail(<<e>> \o q) = q
         /\ \A p \in S : <<e>> \o Append(q, p) = Append(<<e>> \o q, p)
         /\ q # <<>> => <<Head(q)>> \o Tail(q) = q
  <1> DEFINE c == <<e>> \o q
  <1>1. <<e>> \in Seq(S) /\ Len(<<e>>) = 1 /\ <<e>>[1] = e
    OBVIOUS
  <1>2. /\ c \in Seq(S) /\ Len(c) = 1 + Len(q) /\ Len(q) \in Nat
        /\ \A i \in 1..(1 + Len(q)) : c[i] = IF i <= 1 THEN <<e>>[i] ELSE q[i - 1]
    BY <1>1, ConcatProperties, LenProperties
  <1> HIDE DEF c
  <1>3. c # <<>> /\ Head(c) = e
    BY <1>1, <1>2
  <1>4. Tail(c) = q
    <2>1. /\ Tail(c) \in Seq(S) /\ Len(Tail(c)) = Len(c) - 1
          /\ \A i \in 1..Len(Tail(c)) : Tail(c)[i] = c[i + 1]
      BY <1>2, <1>3, HeadTailProperties
    <2>2. \A i \in 1..Len(Tail(c)) : Tail(c)[i] = q[i]
      BY <1>2, <2>1
    <2> QED BY <1>2, <2>1, <2>2, SeqEqual
  <1>5. ASSUME NEW p \in S PROVE <<e>> \o Append(q, p) = Append(c, p)
    BY <1>1, <1>2, AppendIsConcat, ConcatAssociative DEF c
  <1>6. q # <<>> => <<Head(q)>> \o Tail(q) = q
    <2> SUFFICES ASSUME q # <<>> PROVE <<Head(q)>> \o Tail(q) = q
      OBVIOUS
    <2> DEFINE d == <<Head(q)>> \o Tail(q)
    <2>1. /\ Head(q) \in S /\ Tail(q) \in Seq(S) /\ Len(Tail(q)) = Len(q) - 1
          /\ \A i \in 1..Len(Tail(q)) : Tail(q)[i] = q[i + 1]
          /\ Head(q) = q[1] /\ Len(q) \in Nat \ {0}
      BY HeadTailProperties, EmptySeq
    <2>2. <<Head(q)>> \in Seq(S) /\ Len(<<Head(q)>>) = 1 /\ <<Head(q)>>[1] = Head(q)
      BY <2>1
    <2>3. /\ d \in Seq(S) /\ Len(d) = Len(q)
          /\ \A i \in 1..Len(q) : d[i] = IF i <= 1 THEN <<Head(q)>>[i] ELSE Tail(q)[i - 1]
      BY <2>1, <2>2, ConcatProperties
    <2> HIDE DEF d
    <2>4. \A i \in 1..Len(q) : d[i] = q[i]
      BY <2>1, <2>2, <2>3
    <2>5. d = q
      BY <2>3, <2>4, SeqEqual
    <2> QED BY <2>5 DEF d
  <1> QED BY <1>2, <1>3, <1>4, <1>5, <1>6 DEF c

----------------------------------------------------------------------------
(* The inductive invariant                                                 *)

Flight == InFlight
Working == {"loop", "capture", "encode", "push", "drop", "closeStreamer"}
Holding == {"push", "drop"}

\* What is open where Vision_thread is.
Control ==
  /\ vpc \in {"openCamera", "openEncoder"} => stage = "new"
  /\ vpc \in Working \cup {"openStreamer", "closeEncoder"} => stage = "open"
  /\ vpc \in {"closeCamera", "exited"} => stage \in {"new", "closed"}
  /\ pc = "idle" <=> vpc # "encode"
  /\ camera => vpc \notin {"openCamera", "exited"}
  /\ pipeline = "none" <=> vpc \notin Working
  /\ pipeline = "stopping" => vpc = "closeStreamer"
  /\ pipeline = "none" => queue = <<>> /\ sending = <<>>

\* Who holds a packet, and what is in it.
Loans ==
  /\ vpc \in Holding => cur \in Buffers
  /\ \A b \in Buffers : "vision" \in refs[b] <=> vpc \in Holding /\ b = cur
  /\ \A e \in Range(Flight) : "gst" \in refs[e.buf] /\ content[e.buf] = e.frame
  /\ \A b \in Buffers : "gst" \in refs[b] => \E e \in Range(Flight) : e.buf = b

\* The pictures between the codec and udpsink: those GStreamer has, the one
\* about to be pushed, and those in the codec.
Out == {e.frame : e \in Range(Flight)}
InHand == IF vpc = "push" THEN {content[cur]} ELSE {}

Order ==
  /\ Rising(Flight) /\ Sorted(hw)
  /\ sent <= submitted
  /\ \A n \in Out : sent < n /\ n <= submitted
  /\ \A n \in InHand : sent < n /\ n <= submitted /\ \A k \in Out : k < n
  /\ \A n \in Range(hw) : sent < n /\ n <= submitted /\ \A k \in Out \cup InHand : k < n

VInv == VideoTypeOK /\ Inv /\ Control /\ Loans /\ Order

----------------------------------------------------------------------------
LEMMA FlightTyped ==
  ASSUME VideoTypeOK
  PROVE  /\ queue \in Seq(Entry) /\ Flight \in Seq(Entry)
         /\ sending = <<>> => Flight = queue
         /\ sending # <<>> =>
              /\ sending[1] \in Entry /\ sending = <<sending[1]>>
              /\ Flight # <<>> /\ Head(Flight) = sending[1] /\ Tail(Flight) = queue
  <1>1. /\ queue \in Seq(Entry)
        /\ sending # <<>> => \E e \in Entry : sending = <<e>>
    BY DEF VideoTypeOK
  <1>2. CASE sending = <<>>
    BY <1>1, <1>2, ConcatEmptySeq DEF Flight, InFlight
  <1>3. ASSUME NEW e \in Entry, sending = <<e>>
        PROVE  /\ sending[1] = e /\ Flight \in Seq(Entry) /\ Flight # <<>>
               /\ Head(Flight) = e /\ Tail(Flight) = queue
    BY <1>1, <1>3, FlightSplit DEF Flight, InFlight
  <1> QED BY <1>1, <1>2, <1>3

\* Pictures are numbers.
LEMMA Numbers ==
  ASSUME VideoTypeOK
  PROVE  /\ sent \in Nat /\ submitted \in Nat /\ hw \in Seq(Nat)
         /\ \A b \in Buffers : content[b] \in Nat
         /\ \A n \in Out : n \in Nat
         /\ \A n \in Range(hw) : n \in 1..MaxFrames
  <1>1. TypeOK /\ sent \in 0..MaxFrames
    BY DEF VideoTypeOK
  <1>2. /\ hw \in Seq(1..MaxFrames) /\ submitted \in 0..MaxFrames
        /\ content \in [Buffers -> 0..MaxFrames]
    BY <1>1 DEF TypeOK
  <1>3. hw \in Seq(Nat) /\ \A n \in Range(hw) : n \in 1..MaxFrames
    <2>1. 1..MaxFrames \subseteq Nat
      BY EncoderAssumption
    <2> QED BY <1>2, <2>1, SeqMonotonic, QueueNonEmpty
  <1>4. \A e \in Range(Flight) : e.frame \in Nat
    <2>1. \A e \in Range(Flight) : e \in Entry
      BY FlightTyped, QueueNonEmpty
    <2> QED BY <2>1 DEF Entry
  <1> QED BY <1>1, <1>2, <1>3, <1>4 DEF Out

LEMMA VideoInitially == VideoInit => VInv
  <1> SUFFICES ASSUME VideoInit PROVE VInv
    OBVIOUS
  <1>1. Init /\ Inv /\ TypeOK
    BY InitInv DEF VideoInit, Inv
  <1>2. Flight = <<>> /\ Range(Flight) = {} /\ Range(hw) = {} /\ hw = <<>>
    <2>1. queue = <<>> /\ sending = <<>> /\ hw = <<>>
      BY <1>1 DEF VideoInit, Init
    <2> QED BY <2>1, QueueEmpty, ConcatEmptySeq DEF Flight, InFlight
  <1>3. VideoTypeOK
    <2>1. queue \in Seq(Entry) /\ sent \in 0..MaxFrames /\ TypeOK
      BY <1>1, EncoderAssumption DEF VideoInit
    <2> QED BY <2>1 DEF VideoInit, VideoTypeOK, VisionPoints
  <1>4. Control
    BY <1>1 DEF VideoInit, Init, Control, Working
  <1>5. Loans
    BY <1>1, <1>2 DEF VideoInit, Init, Loans, Holding
  <1>6. Order
    BY <1>1, <1>2 DEF VideoInit, Init, Order, Out, InHand, Rising, Sorted
  <1> QED BY <1>1, <1>3, <1>4, <1>5, <1>6 DEF VInv

\* Each step of the video path is a step of the encoder, or none.
LEMMA EncoderSteps ==
  ASSUME VInv, [VideoNext]_videoVars
  PROVE  [Next]_vars /\ Inv' /\ TypeOK'
  <1>0. [Next]_vars
    <2>1. "vision" \in Holders /\ "gst" \in Holders
      BY EdgeVideoAssumption
    <2>2. CASE UNCHANGED enc
      BY <2>2 DEF enc, vars
    <2>3. CASE OpenEncoder
      BY <2>3 DEF OpenEncoder, Next
    <2>4. CASE SubmitFrame
      BY <2>4 DEF SubmitFrame, Next
    <2>5. CASE Encode
      BY <2>5 DEF Encode, Next, EncodeStep
    <2>6. CASE Push
      <3>1. cur \in Buffers
        BY <2>6 DEF VInv, Loans, Holding, Push, At
      <3> QED BY <2>1, <2>6, <3>1 DEF Push, Next
    <2>7. CASE DropPacket
      <3>1. cur \in Buffers
        BY <2>7 DEF VInv, Loans, Holding, DropPacket, At
      <3> QED BY <2>1, <2>7, <3>1 DEF DropPacket, Next
    <2>8. CASE FlushPacket
      <3>1. Head(queue).buf \in Buffers
        <4>1. queue \in Seq(Entry) /\ queue # <<>>
          BY <2>8, FlightTyped DEF VInv, FlushPacket
        <4>2. Head(queue) \in Entry
          BY <4>1, HeadTailProperties
        <4> QED BY <4>2 DEF Entry
      <3> QED BY <2>1, <2>8, <3>1 DEF FlushPacket, Next
    <2>9. CASE GstDone
      <3>1. sending[1].buf \in Buffers
        BY <2>9, FlightTyped DEF VInv, Entry, GstDone
      <3> QED BY <2>1, <2>9, <3>1 DEF GstDone, Next
    <2>10. CASE CloseEncoder
      BY <2>10 DEF CloseEncoder, Next
    <2> QED
      BY <2>2, <2>3, <2>4, <2>5, <2>6, <2>7, <2>8, <2>9, <2>10
         DEF VideoNext, VisionStep, videoVars, Signal, MainReturns,
             OpenCamera, OpenEncoderFails, OpenStreamer,
             OpenStreamerFails, LoopHead, SkipFrame, PushRefused,
             CloseStreamer, StreamerClosed, CloseCamera,
             GstStart, GstError
  <1>1. Inv'
    BY <1>0, NextInv DEF VInv
  <1>2. TypeOK'
    BY <1>1 DEF Inv
  <1> QED BY <1>0, <1>1, <1>2

\* Steps that leave packets and pictures alone.
Quiet ==
  /\ UNCHANGED <<refs, content, submitted, queue, sending, sent>>
  /\ hw' \in {hw, <<>>}
  /\ vpc' \in Holding <=> vpc \in Holding
  /\ vpc' = "push" => vpc = "push"
  /\ vpc \in Holding => cur' = cur

QuietStep ==
  \/ Signal \/ MainReturns
  \/ OpenCamera \/ OpenEncoder \/ OpenEncoderFails
  \/ OpenStreamer \/ OpenStreamerFails
  \/ LoopHead \/ SkipFrame \/ PushRefused
  \/ CloseStreamer \/ StreamerClosed \/ CloseEncoder \/ CloseCamera
  \/ GstError

LEMMA QuietSteps ==
  ASSUME \/ QuietStep
         \/ Encode /\ ~GetStream
         \/ UNCHANGED videoVars
  PROVE  Quiet
  <1>1. CASE QuietStep /\ UNCHANGED enc
    BY <1>1 DEF QuietStep, Quiet, Holding, stream, enc, vars, At,
             Signal, MainReturns,
             OpenCamera, OpenEncoder, OpenEncoderFails, OpenStreamer,
             OpenStreamerFails, LoopHead, SkipFrame, PushRefused,
             CloseStreamer, StreamerClosed, CloseEncoder, CloseCamera,
             GstError
  <1>2. CASE OpenEncoder
    BY <1>2 DEF OpenEncoder, Open, Quiet, Holding, stream, At
  <1>3. CASE CloseEncoder
    BY <1>3 DEF CloseEncoder, Close, Quiet, Holding, stream, At
  <1>4. CASE Encode /\ ~GetStream
    BY <1>4
       DEF Encode, TakeBuffer, Sleep, Expire, Starve, NoStream, GiveBack,
           Quiet, Holding, stream, At
  <1>5. CASE UNCHANGED videoVars
    BY <1>5 DEF videoVars, stream, enc, vars, Quiet
  <1>6. QuietStep => OpenEncoder \/ CloseEncoder \/ UNCHANGED enc
    BY DEF QuietStep, Signal, MainReturns,
             OpenCamera, OpenEncoderFails, OpenStreamer,
             OpenStreamerFails, LoopHead, SkipFrame, PushRefused,
             CloseStreamer, StreamerClosed, CloseCamera,
             GstError
  <1> QED BY <1>1, <1>2, <1>3, <1>4, <1>5, <1>6

\* The actions that move packets and pictures are the others.
LEMMA Steps ==
  ASSUME [VideoNext]_videoVars
  PROVE  \/ QuietStep
         \/ Encode /\ ~GetStream
         \/ UNCHANGED videoVars
         \/ SubmitFrame
         \/ Encode /\ GetStream
         \/ Push \/ DropPacket \/ FlushPacket
         \/ GstStart \/ GstDone
  BY DEF QuietStep, VideoNext, VisionStep

\* The program of Vision_thread opens and closes in order.
LEMMA ControlStep ==
  ASSUME VInv, [VideoNext]_videoVars
  PROVE  Control'
  <1> USE DEF VInv, Control, Working, At, stream
  <1>0. /\ vpc \in VisionPoints
        /\ stage \in Stages /\ pc \in EncodePoints
        /\ pc \notin {"idle", "crashed"} => stage = "open"
        /\ stage = "crashed" <=> pc = "crashed"
    BY DEF VideoTypeOK, Inv, TypeOK, Protocol
  <1>1. CASE UNCHANGED enc
    <2>1. stage' = stage /\ pc' = pc
      BY <1>1 DEF enc, vars
    <2>2. CASE Signal \/ MainReturns \/ GstStart \/ GstError
               \/ UNCHANGED videoVars
      BY <1>0, <2>1, <2>2
         DEF Signal, MainReturns, GstStart, GstError, videoVars
    <2>3. CASE OpenCamera \/ OpenEncoderFails \/ OpenStreamer
               \/ OpenStreamerFails \/ CloseCamera
      BY <1>0, <2>1, <2>3
         DEF OpenCamera, OpenEncoderFails, OpenStreamer,
             OpenStreamerFails, CloseCamera
    <2>4. CASE LoopHead \/ SkipFrame \/ PushRefused
               \/ CloseStreamer \/ StreamerClosed
      BY <1>0, <2>1, <2>4
         DEF LoopHead, SkipFrame, PushRefused, CloseStreamer,
             StreamerClosed
    <2>5. ~SubmitFrame /\ ~CloseEncoder /\ ~OpenEncoder
      BY <2>1
         DEF SubmitFrame, CloseEncoder, OpenEncoder, SetFrame, Close, Open
    <2>6. CASE \/ Encode \/ Push \/ DropPacket \/ FlushPacket
               \/ GstDone
      <3>1. ~Encode
        BY <1>0, <1>1
           DEF Encode, enc, vars, TakeBuffer, Sleep, Expire, Starve, NoStream, GiveBack,
               GetStream, Inv, TypeOK
      <3> QED
        BY <1>0, <2>1, <2>6, <3>1 DEF Push, DropPacket, FlushPacket, GstDone
    <2> QED BY <2>2, <2>3, <2>4, <2>5, <2>6 DEF VideoNext, VisionStep
  <1>2. CASE OpenEncoder
    BY <1>0, <1>2 DEF OpenEncoder, Open
  <1>3. CASE CloseEncoder
    BY <1>0, <1>3 DEF CloseEncoder, Close
  <1>4. CASE SubmitFrame
    BY <1>0, <1>4 DEF SubmitFrame, SetFrame
  <1>5. CASE Encode
    BY <1>0, <1>5
       DEF Encode, TakeBuffer, Sleep, Expire, Starve, NoStream, GiveBack, GetStream
  <1>6. CASE Push
    BY <1>0, <1>6 DEF Push, Share
  <1>7. ASSUME NEW b, NEW h, Drop(b, h), pc = "idle" PROVE stage' = stage /\ pc' = pc
    BY <1>7 DEF Drop, DropShared, DropLast, DropFinal, Unref, Notify
  <1>8. CASE DropPacket
    BY <1>0, <1>7, <1>8 DEF DropPacket
  <1>9. CASE FlushPacket
    BY <1>0, <1>7, <1>9 DEF FlushPacket
  <1>10. CASE GstDone
    <2>1. ASSUME NEW b, NEW h, Drop(b, h)
          PROVE stage' = stage /\ (pc' = "idle" <=> pc = "idle")
      BY <2>1 DEF Drop, DropShared, DropLast, DropFinal, Unref, Notify
    <2> QED BY <1>0, <2>1, <1>10 DEF GstDone
  <1>11. \/ UNCHANGED enc
         \/ OpenEncoder \/ CloseEncoder \/ SubmitFrame \/ Encode
         \/ Push \/ DropPacket \/ FlushPacket \/ GstDone
    BY DEF VideoNext, VisionStep, videoVars, Signal, MainReturns,
             OpenCamera, OpenEncoderFails, OpenStreamer,
             OpenStreamerFails, LoopHead, SkipFrame, PushRefused,
             CloseStreamer, StreamerClosed, CloseCamera,
             GstStart, GstError
  <1> QED BY <1>1, <1>2, <1>3, <1>4, <1>5, <1>6, <1>8, <1>9, <1>10, <1>11

----------------------------------------------------------------------------
(* What the steps do to packets                                            *)

LEMMA DropEffect ==
  ASSUME TypeOK, NEW b \in Buffers, NEW h, Drop(b, h)
  PROVE  /\ h \in refs[b] /\ refs'[b] = refs[b] \ {h}
         /\ \A c \in Buffers \ {b} : refs'[c] = refs[c]
         /\ UNCHANGED <<content, hw, submitted, cur>>
  BY DEF Drop, DropShared, DropLast, DropFinal, Unref, TypeOK

\* The packet about to be pushed is nobody else's yet.
LEMMA PacketPushed ==
  ASSUME VInv, vpc = "push"
  PROVE  /\ Packet \in Entry /\ cur \in Buffers
         /\ Packet.buf = cur /\ Packet.frame = content[cur]
         /\ \A e \in Range(Flight) : e.frame < content[cur]
  <1>1. cur \in Buffers /\ content[cur] \in InHand
    BY DEF VInv, Loans, Holding, InHand
  <1>2. content[cur] \in 0..MaxFrames /\ sent \in Nat
    BY <1>1, Numbers DEF VInv, Inv, TypeOK
  <1>3. sent < content[cur] /\ \A k \in Out : k < content[cur]
    BY <1>1 DEF VInv, Order
  <1>4. content[cur] \in 1..MaxFrames
    BY <1>2, <1>3, EncoderAssumption
  <1>5. Packet \in Entry
    BY <1>1, <1>4 DEF Packet, Entry
  <1> QED BY <1>1, <1>3, <1>5 DEF Packet, Out

LEMMA FlightMoves ==
  ASSUME VInv
  PROVE  /\ UNCHANGED <<queue, sending>> => Flight' = Flight
         /\ GstStart => Flight' = Flight
         /\ Push => Flight' = Append(Flight, Packet)
         /\ FlushPacket => /\ Flight # <<>> /\ Head(Flight) = Head(queue)
                               /\ Flight' = Tail(Flight)
         /\ GstDone => /\ Flight # <<>> /\ Head(Flight) = sending[1]
                           /\ Flight' = Tail(Flight)
  <1> DEFINE e == sending[1]
  <1>1. /\ queue \in Seq(Entry)
        /\ sending = <<>> => Flight = queue
        /\ sending # <<>> => /\ e \in Entry /\ sending = <<e>> /\ Flight # <<>>
                             /\ Head(Flight) = e /\ Tail(Flight) = queue
    BY FlightTyped DEF VInv
  <1>2. UNCHANGED <<queue, sending>> => Flight' = Flight
    BY DEF Flight, InFlight
  <1>3. ASSUME GstStart PROVE Flight' = Flight
    <2>1. Head(queue) \in Entry /\ queue # <<>> /\ Flight = queue
      BY <1>1, <1>3, HeadTailProperties DEF GstStart
    <2>2. <<Head(queue)>> \o Tail(queue) = queue
      BY <1>1, <2>1, FlightSplit
    <2> QED BY <1>3, <2>1, <2>2 DEF GstStart, Flight, InFlight
  <1>4. ASSUME Push PROVE Flight' = Append(Flight, Packet)
    <2>1. Packet \in Entry
      BY <1>4, PacketPushed DEF Push, At
    <2>2. sending' = sending /\ queue' = Append(queue, Packet)
      BY <1>4 DEF Push
    <2>3. CASE sending = <<>>
      <3>1. queue' \in Seq(Entry)
        BY <1>1, <2>1, <2>2, AppendProperties
      <3>2. <<>> \o queue' = queue'
        BY <3>1, ConcatEmptySeq
      <3> QED BY <1>1, <2>2, <2>3, <3>2 DEF Flight, InFlight
    <2>4. CASE sending # <<>>
      <3>1. <<e>> \o Append(queue, Packet) = Append(<<e>> \o queue, Packet)
        BY <1>1, <2>1, <2>4, FlightSplit
      <3>2. sending = <<e>>
        BY <1>1, <2>4
      <3> HIDE DEF e
      <3> QED BY <2>2, <3>1, <3>2 DEF Flight, InFlight
    <2> QED BY <2>3, <2>4
  <1>5. ASSUME FlushPacket
        PROVE  Flight # <<>> /\ Head(Flight) = Head(queue) /\ Flight' = Tail(Flight)
    <2>1. /\ Flight = queue /\ queue # <<>> /\ sending' = <<>> /\ queue' = Tail(queue)
          /\ Tail(queue) \in Seq(Entry)
      BY <1>1, <1>5, HeadTailProperties DEF FlushPacket
    <2>2. <<>> \o queue' = queue'
      BY <2>1, ConcatEmptySeq
    <2> QED BY <2>1, <2>2 DEF Flight, InFlight
  <1>6. ASSUME GstDone
        PROVE  Flight # <<>> /\ Head(Flight) = e /\ Flight' = Tail(Flight)
    <2>1. /\ Flight # <<>> /\ Head(Flight) = e /\ Tail(Flight) = queue
          /\ sending' = <<>> /\ queue' = queue
      BY <1>1, <1>6 DEF GstDone
    <2>2. <<>> \o queue' = queue'
      BY <1>1, <2>1, ConcatEmptySeq
    <2> QED BY <2>1, <2>2 DEF Flight, InFlight
  <1> QED BY <1>2, <1>3, <1>4, <1>5, <1>6

\* GStreamer drops the packet at the front, and no other has its buffer.
LEMMA FrontDropped ==
  ASSUME VInv, FlushPacket \/ GstDone
  PROVE  LET b == Head(Flight).buf
         IN  /\ b \in Buffers /\ Head(Flight) \in Range(Flight)
             /\ "gst" \in refs[b] /\ refs'[b] = refs[b] \ {"gst"}
             /\ \A c \in Buffers \ {b} : refs'[c] = refs[c]
             /\ UNCHANGED <<content, hw, submitted, cur, vpc>>
             /\ Range(Flight') = Range(Flight) \ {Head(Flight)}
             /\ \A e \in Range(Flight') : Head(Flight).frame < e.frame /\ e.buf # b
             /\ Rising(Flight')
  <1>1. /\ Flight \in Seq(Entry) /\ Rising(Flight) /\ TypeOK
    BY FlightTyped DEF VInv, Order, Inv
  <1>2. Flight # <<>> /\ Flight' = Tail(Flight)
    BY FlightMoves
  <1>3. Drop(Head(Flight).buf, "gst") /\ vpc' = vpc
    BY FlightMoves DEF FlushPacket, GstDone
  <1>4. /\ Head(Flight) \in Range(Flight) /\ Head(Flight) \in Entry
        /\ Range(Flight') = Range(Flight) \ {Head(Flight)}
        /\ \A e \in Range(Flight') : Head(Flight).frame < e.frame
        /\ Rising(Flight')
    BY <1>1, <1>2, RisingPop
  <1>5. Head(Flight).buf \in Buffers /\ Head(Flight).frame \in Nat
    BY <1>4 DEF Entry
  <1>6. \A e \in Range(Flight') : e.buf # Head(Flight).buf
    BY <1>4, <1>5 DEF VInv, Loans
  <1> QED BY <1>1, <1>3, <1>4, <1>5, <1>6, DropEffect

\* The buffer that receives a stream is in nobody's hands but encode()'s.
LEMMA StreamWritten ==
  ASSUME VInv, Encode, GetStream
  PROVE  /\ cur \in Buffers /\ refs[cur] = {} /\ refs'[cur] = {"vision"}
         /\ \A c \in Buffers \ {cur} : refs'[c] = refs[c] /\ content'[c] = content[c]
         /\ content'[cur] = Head(hw) /\ hw # <<>> /\ hw' = Tail(hw)
         /\ UNCHANGED <<submitted, cur, queue, sending, sent>>
         /\ vpc = "encode" /\ vpc' = "push"
  <1>1. vpc = "encode" /\ vpc' = "push" /\ UNCHANGED <<queue, sending, sent>>
    BY DEF Encode, At, stream, GetStream, TakeBuffer, Sleep, Expire,
           NoStream, Starve, GiveBack
  <1>2. cur \in Buffers /\ refs[cur] = {}
    BY DEF VInv, Inv, Protocol, ExclusiveCustody, Writing, Lent, GetStream
  <1>3. /\ refs \in [Buffers -> SUBSET Holders] /\ content \in [Buffers -> 0..MaxFrames]
    BY DEF VInv, Inv, TypeOK
  <1> QED BY <1>1, <1>2, <1>3, EdgeVideoAssumption DEF GetStream

----------------------------------------------------------------------------
(* The invariant is inductive                                              *)

LEMMA SubmitEffect ==
  ASSUME VInv, SubmitFrame
  PROVE  /\ UNCHANGED <<refs, content, queue, sending, sent, cur>>
         /\ submitted' = submitted + 1 /\ hw' = Append(hw, submitted + 1)
         /\ vpc = "capture" /\ vpc' = "encode"
  BY DEF SubmitFrame, At, stream, SetFrame

LEMMA PushEffect ==
  ASSUME VInv, Push
  PROVE  /\ cur \in Buffers /\ refs'[cur] = refs[cur] \cup {"gst"}
         /\ \A c \in Buffers \ {cur} : refs'[c] = refs[c]
         /\ UNCHANGED <<content, submitted, cur, hw, sent>>
         /\ vpc = "push" /\ vpc' = "drop"
         /\ Packet.buf = cur /\ Packet.frame = content[cur]
         /\ Range(Flight') = Range(Flight) \cup {Packet}
         /\ \A e \in Range(Flight) : e.frame < content[cur]
         /\ Rising(Flight')
  <1>1. vpc = "push" /\ vpc' = "drop" /\ Share(cur, "gst") /\ sent' = sent
    BY DEF Push, At
  <1>2. /\ cur \in Buffers /\ Packet \in Entry
        /\ Packet.buf = cur /\ Packet.frame = content[cur]
        /\ \A e \in Range(Flight) : e.frame < content[cur]
    BY <1>1, PacketPushed
  <1>3. Flight' = Append(Flight, Packet)
    BY FlightMoves
  <1>4. /\ Rising(Flight')
        /\ Range(Flight') = Range(Flight) \cup {Packet}
    BY <1>2, <1>3, RisingPush, FlightTyped DEF VInv, Order
  <1>5. refs \in [Buffers -> SUBSET Holders]
    BY DEF VInv, Inv, TypeOK
  <1> QED BY <1>1, <1>2, <1>4, <1>5 DEF Share

LEMMA DropPacketEffect ==
  ASSUME VInv, DropPacket
  PROVE  /\ cur \in Buffers /\ refs'[cur] = refs[cur] \ {"vision"}
         /\ \A c \in Buffers \ {cur} : refs'[c] = refs[c]
         /\ UNCHANGED <<content, submitted, cur, hw, queue, sending, sent>>
         /\ vpc = "drop" /\ vpc' = "loop"
  <1>1. vpc = "drop" /\ vpc' = "loop" /\ Drop(cur, "vision") /\ UNCHANGED stream
    BY DEF DropPacket, At
  <1>2. cur \in Buffers /\ TypeOK
    BY <1>1 DEF VInv, Loans, Holding, Inv
  <1> QED BY <1>1, <1>2, DropEffect DEF stream

LEMMA StartEffect ==
  ASSUME VInv, GstStart
  PROVE  UNCHANGED <<refs, content, submitted, cur, hw, sent, vpc, Flight>>
  BY FlightMoves DEF GstStart, enc, vars

LEMMA FlightBuffers ==
  ASSUME VInv
  PROVE  \A e \in Range(Flight) : e.buf \in Buffers
  <1>1. \A e \in Range(Flight) : e \in Entry
    BY FlightTyped, QueueNonEmpty DEF VInv
  <1> QED BY <1>1 DEF Entry

\* Holders of packets: a step takes its own packet from or to a holder.
LEMMA LoansStep ==
  ASSUME VInv, [VideoNext]_videoVars
  PROVE  Loans'
  <1>0. Loans
    BY DEF VInv
  <1> USE DEF Loans, Holding
  <1>1. CASE Quiet
    <2>1. Flight' = Flight
      BY <1>1, FlightMoves DEF Quiet
    <2> QED BY <1>0, <1>1, <2>1 DEF Quiet
  <1>2. CASE SubmitFrame
    <2>1. Flight' = Flight
      BY <1>2, SubmitEffect, FlightMoves
    <2> QED BY <1>0, <1>2, <2>1, SubmitEffect
  <1>3. CASE Encode /\ GetStream
    <2>1. Flight' = Flight
      BY <1>3, StreamWritten, FlightMoves
    <2>2. \A e \in Range(Flight) : e.buf \in Buffers
      BY FlightBuffers
    <2>3. \A e \in Range(Flight) : e.buf # cur
      BY <1>0, <1>3, StreamWritten
    <2> QED BY <1>0, <1>3, <2>1, <2>2, <2>3, StreamWritten
  <1>4. CASE Push
    <2>1. \A e \in Range(Flight) : e.buf \in Buffers
      BY FlightBuffers
    <2> QED BY <1>0, <1>4, <2>1, PushEffect
  <1>5. CASE DropPacket
    <2>1. Flight' = Flight
      BY <1>5, DropPacketEffect, FlightMoves
    <2>2. \A e \in Range(Flight) : e.buf \in Buffers
      BY FlightBuffers
    <2> QED BY <1>0, <1>5, <2>1, <2>2, DropPacketEffect
  <1>6. CASE FlushPacket \/ GstDone
    <2> DEFINE b == Head(Flight).buf
    <2>1. \A e \in Range(Flight) : e.buf \in Buffers
      BY FlightBuffers
    <2>2. /\ b \in Buffers /\ Head(Flight) \in Range(Flight)
          /\ refs'[b] = refs[b] \ {"gst"}
          /\ \A c \in Buffers \ {b} : refs'[c] = refs[c]
          /\ UNCHANGED <<content, cur, vpc>>
          /\ Range(Flight') = Range(Flight) \ {Head(Flight)}
          /\ \A e \in Range(Flight') : e.buf # b
      BY <1>6, FrontDropped
    <2> HIDE DEF b
    <2>3. \A c \in Buffers : "gst" \in refs'[c] => \E e \in Range(Flight') : e.buf = c
      <3> SUFFICES ASSUME NEW c \in Buffers, "gst" \in refs'[c]
                   PROVE  \E e \in Range(Flight') : e.buf = c
        OBVIOUS
      <3>1. c # b /\ "gst" \in refs[c]
        BY <2>2
      <3>2. PICK e \in Range(Flight) : e.buf = c
        BY <1>0, <3>1
      <3>3. e # Head(Flight)
        BY <3>1, <3>2 DEF b
      <3> QED BY <2>2, <3>2, <3>3
    <2> QED BY <1>0, <2>1, <2>2, <2>3
  <1>7. CASE GstStart
    BY <1>0, <1>7, StartEffect
  <1> QED BY <1>1, <1>2, <1>3, <1>4, <1>5, <1>6, <1>7, Steps, QuietSteps

\* Pictures move along in order.
LEMMA OrderStep ==
  ASSUME VInv, [VideoNext]_videoVars
  PROVE  Order'
  <1>0. /\ Order
        /\ sent \in Nat /\ submitted \in Nat /\ hw \in Seq(Nat)
        /\ \A b \in Buffers : content[b] \in Nat
        /\ \A n \in Out : n \in Nat
        /\ \A n \in Range(hw) : n \in Nat
        /\ \A n \in InHand : n \in Nat
    <2>1. \A n \in InHand : n \in Nat
      BY Numbers DEF VInv, InHand, Loans, Holding
    <2>2. \A n \in Range(hw) : n \in Nat
      BY Numbers, EncoderAssumption DEF VInv
    <2> QED BY <2>1, <2>2, Numbers DEF VInv
  <1> USE DEF Order
  <1>1. CASE Quiet
    <2>1. Flight' = Flight /\ Out' = Out
      BY <1>1, FlightMoves DEF Quiet, Out
    <2>2. InHand' \subseteq InHand
      BY <1>1 DEF Quiet, InHand, Holding
    <2>3. Sorted(hw') /\ Range(hw') \subseteq Range(hw)
      <3>1. Sorted(<<>>) /\ Range(<<>>) = {}
        BY QueueEmpty DEF Sorted
      <3> QED BY <1>0, <1>1, <3>1 DEF Quiet
    <2> QED BY <1>0, <1>1, <2>1, <2>2, <2>3 DEF Quiet
  <1>2. CASE SubmitFrame
    <2>1. /\ Flight' = Flight /\ Out' = Out /\ InHand' = {} /\ InHand = {}
          /\ sent' = sent /\ submitted' = submitted + 1
      BY <1>2, SubmitEffect, FlightMoves DEF Out, InHand
    <2>2. /\ Sorted(hw') /\ Range(hw') = Range(hw) \cup {submitted + 1}
      <3>1. \A n \in Range(hw) : n < submitted + 1
        BY <1>0
      <3>2. submitted + 1 \in Nat /\ hw' = Append(hw, submitted + 1)
        BY <1>0, <1>2, SubmitEffect
      <3> QED BY <1>0, <3>1, <3>2, SortedPush
    <2> QED BY <1>0, <2>1, <2>2
  <1>3. CASE Encode /\ GetStream
    <2>1. /\ Flight' = Flight /\ Out' = Out /\ InHand' = {Head(hw)} /\ InHand = {}
          /\ sent' = sent /\ submitted' = submitted
      BY <1>3, StreamWritten, FlightMoves DEF Out, InHand
    <2>2. /\ Sorted(hw') /\ Range(hw') = Range(hw) \ {Head(hw)}
          /\ Head(hw) \in Range(hw) /\ \A n \in Range(hw') : Head(hw) < n
      BY <1>0, <1>3, StreamWritten, SortedPop
    <2> QED BY <1>0, <2>1, <2>2
  <1>4. CASE Push
    <2>1. /\ Out' = Out \cup {content[cur]} /\ InHand = {content[cur]} /\ InHand' = {}
          /\ UNCHANGED <<sent, submitted, hw>> /\ Rising(Flight')
      BY <1>4, PushEffect DEF Out, InHand
    <2> QED BY <1>0, <2>1
  <1>5. CASE DropPacket
    <2>1. /\ Flight' = Flight /\ Out' = Out /\ InHand' = {}
          /\ UNCHANGED <<sent, submitted, hw>>
      BY <1>5, DropPacketEffect, FlightMoves DEF Out, InHand
    <2> QED BY <1>0, <2>1
  <1>6. CASE FlushPacket \/ GstDone
    <2> DEFINE f == Head(Flight).frame
    <2>1. /\ Head(Flight) \in Range(Flight) /\ f \in Out
          /\ Out' \subseteq Out /\ \A n \in Out' : f < n
          /\ InHand' = InHand /\ Rising(Flight')
          /\ UNCHANGED <<submitted, hw>>
      BY <1>6, FrontDropped DEF Out, InHand
    <2>2. sent' = sent \/ sent' = f
      BY <1>6, FlightMoves DEF FlushPacket, GstDone
    <2> HIDE DEF f
    <2>3. \A n \in InHand \cup Range(hw) : f < n
      BY <1>0, <2>1
    <2> QED BY <1>0, <2>1, <2>2, <2>3
  <1>7. CASE GstStart
    <2>1. Out' = Out /\ InHand' = InHand /\ UNCHANGED <<Flight, hw, sent, submitted>>
      BY <1>7, StartEffect DEF Out, InHand
    <2> QED BY <1>0, <2>1
  <1> QED BY <1>1, <1>2, <1>3, <1>4, <1>5, <1>6, <1>7, Steps, QuietSteps

LEMMA TypeStep ==
  ASSUME VInv, [VideoNext]_videoVars
  PROVE  VideoTypeOK'
  <1>0. VideoTypeOK /\ TypeOK'
    BY EncoderSteps DEF VInv
  <1>1. queue' \in Seq(Entry)
    <2>1. queue \in Seq(Entry)
      BY <1>0 DEF VideoTypeOK
    <2>2. CASE Push
      <3>1. Packet \in Entry /\ queue' = Append(queue, Packet)
        BY <2>2, PacketPushed DEF Push, At
      <3> QED BY <2>1, <3>1, AppendProperties
    <2>3. CASE GstStart \/ FlushPacket
      <3>1. queue # <<>> /\ queue' = Tail(queue)
        BY <2>3 DEF GstStart, FlushPacket
      <3> QED BY <2>1, <3>1, HeadTailProperties
    <2>4. CASE UNCHANGED queue
      BY <2>1, <2>4
    <2>5. Push \/ GstStart \/ FlushPacket \/ UNCHANGED queue
      BY Steps, QuietSteps, SubmitEffect, StreamWritten, DropPacketEffect
         DEF Quiet, GstDone
    <2> QED BY <2>2, <2>3, <2>4, <2>5
  <1>2. sending' = <<>> \/ \E e \in Entry : sending' = <<e>>
    <2>1. CASE GstStart
      <3>1. Head(queue) \in Entry /\ sending' = <<Head(queue)>>
        BY <1>0, <2>1, HeadTailProperties DEF VideoTypeOK, GstStart
      <3> QED BY <3>1
    <2>2. GstStart \/ sending' = sending \/ sending' = <<>>
      BY Steps, QuietSteps, SubmitEffect, StreamWritten, DropPacketEffect
         DEF Quiet, GstDone, Push, FlushPacket
    <2> QED BY <1>0, <2>1, <2>2 DEF VideoTypeOK
  <1>3. sent' \in 0..MaxFrames
    <2>1. CASE GstDone
      <3>1. sending[1] \in Entry /\ sent' = sending[1].frame
        BY <2>1, FlightTyped DEF VInv, GstDone
      <3> QED BY <3>1, EncoderAssumption DEF Entry
    <2>2. GstDone \/ sent' = sent
      BY Steps, QuietSteps, SubmitEffect, StreamWritten, DropPacketEffect
         DEF Quiet, GstStart, Push, FlushPacket
    <2> QED BY <1>0, <2>1, <2>2 DEF VideoTypeOK
  <1>4. /\ running' \in BOOLEAN /\ main' \in {"polling", "returned"}
        /\ vpc' \in VisionPoints /\ camera' \in BOOLEAN
        /\ pipeline' \in {"none", "playing", "flushing", "error", "stopping"}
    <2>1. /\ running \in BOOLEAN /\ main \in {"polling", "returned"}
          /\ vpc \in VisionPoints /\ camera \in BOOLEAN
          /\ pipeline \in {"none", "playing", "flushing", "error", "stopping"}
      BY <1>0 DEF VideoTypeOK
    <2> QED
      BY <2>1
         DEF VideoNext, VisionStep, videoVars, stream, VisionPoints,
             Signal, MainReturns, OpenCamera, OpenEncoder,
             OpenEncoderFails, OpenStreamer, OpenStreamerFails,
             LoopHead, SkipFrame, SubmitFrame, Encode, Push,
             PushRefused, DropPacket, CloseStreamer, FlushPacket,
             StreamerClosed, CloseEncoder, CloseCamera,
             GstStart, GstDone, GstError
  <1> QED BY <1>0, <1>1, <1>2, <1>3, <1>4 DEF VideoTypeOK

LEMMA VideoStep == VInv /\ [VideoNext]_videoVars => VInv'
  BY TypeStep, EncoderSteps, ControlStep, LoansStep, OrderStep DEF VInv

\* The encoder's invariant, what Vision_thread has open where, who holds each
\* packet and the order of the pictures are an invariant.
THEOREM VideoInvariance == VideoSpec => []VInv
  <1>1. VideoInit => VInv
    BY VideoInitially
  <1>2. VInv /\ [VideoNext]_videoVars => VInv'
    BY VideoStep
  <1> QED BY <1>1, <1>2, PTL DEF VideoSpec

----------------------------------------------------------------------------
(* The theorems                                                            *)

\* Every variable of the video path keeps its type, the encoder's included.
THEOREM VideoTyped == VideoSpec => []VideoTypeOK
  <1>1. VInv => VideoTypeOK
    BY DEF VInv
  <1> QED BY <1>1, VideoInvariance, PTL

\* A packet that GStreamer has (udp_streamer.cpp:52-74) is allocated and still
\* holds the picture that was pushed.
THEOREM NeverTorn == VideoSpec => []NoTearing
  <1>1. VInv => NoTearing
    <2> SUFFICES ASSUME VInv, NEW i \in 1..Len(Flight)
                 PROVE  /\ content[Flight[i].buf] = Flight[i].frame
                        /\ Flight[i].buf \in heap
                        /\ "gst" \in refs[Flight[i].buf]
      BY DEF NoTearing, Flight
    <2>1. Flight \in Seq(Entry) /\ DOMAIN Flight = 1..Len(Flight)
      BY FlightTyped, LenProperties DEF VInv
    <2>2. Flight[i] \in Range(Flight) /\ Flight[i].buf \in Buffers
      <3>1. Flight[i] \in Entry
        BY <2>1, ElementOfSeq
      <3> QED BY <2>1, <3>1 DEF Range, Entry
    <2>3. /\ content[Flight[i].buf] = Flight[i].frame
          /\ "gst" \in refs[Flight[i].buf]
      BY <2>2 DEF VInv, Loans
    <2> QED BY <2>2, <2>3 DEF VInv, Inv, Memory, Lent
  <1> QED BY <1>1, VideoInvariance, PTL

\* Outside of the loop and its shutdown nobody holds a packet.
LEMMA NothingOut ==
  ASSUME VInv, pipeline = "none", vpc \notin Holding
  PROVE  Flight = <<>> /\ \A b \in Buffers : ~Lent(b)
  <1>1. Flight = <<>> /\ Range(Flight) = {}
    <2>1. queue = <<>> /\ sending = <<>>
      BY DEF VInv, Control
    <2> QED BY <2>1, FlightTyped, QueueEmpty DEF VInv
  <1>2. \A b \in Buffers : "gst" \notin refs[b] /\ "vision" \notin refs[b]
    BY <1>1 DEF VInv, Loans
  <1>3. \A b \in Buffers : refs[b] \subseteq {"vision", "gst"}
    BY EdgeVideoAssumption DEF VInv, Inv, TypeOK
  <1> QED BY <1>1, <1>2, <1>3 DEF Lent

\* close() of the encoder finds no packet at the network: the pool is
\* destroyed there, on every path out of Vision_thread.
THEOREM PacketsComeFirst == VideoSpec => []EncoderOutlivesPackets
  <1>1. VInv => EncoderOutlivesPackets
    <2> SUFFICES ASSUME VInv, stage = "closed"
                 PROVE  heap = {} /\ Flight = <<>> /\ pipeline = "none"
      BY DEF EncoderOutlivesPackets, Flight
    <2>1. pipeline = "none" /\ vpc \notin Holding
      BY DEF VInv, Control, Working, Holding, VideoTypeOK, VisionPoints
    <2>2. Flight = <<>> /\ \A b \in Buffers : ~Lent(b)
      BY <2>1, NothingOut
    <2> QED BY <2>1, <2>2 DEF VInv, Inv, Memory, PoolAlive
  <1> QED BY <1>1, VideoInvariance, PTL

\* Wherever Vision_thread returns from, the camera, the pipeline and the
\* encoder are closed and no buffer of the pool is left.
THEOREM EverythingReleased == VideoSpec => []AllReleased
  <1>1. VInv => AllReleased
    <2> SUFFICES ASSUME VInv, vpc = "exited"
                 PROVE  /\ ~camera /\ pipeline = "none"
                        /\ stage \in {"new", "closed"} /\ heap = {}
      BY DEF AllReleased
    <2>1. ~camera /\ pipeline = "none" /\ stage \in {"new", "closed"}
      BY DEF VInv, Control, Working
    <2>2. \A b \in Buffers : ~Lent(b)
      BY <2>1, NothingOut DEF Holding
    <2> QED BY <2>1, <2>2 DEF VInv, Inv, Protocol, Memory, PoolAlive
  <1> QED BY <1>1, VideoInvariance, PTL

----------------------------------------------------------------------------
(* Order                                                                   *)

Ahead == {Journey[i] : i \in 2..Len(Journey)}
OnTheWay == Out \cup InHand \cup Range(hw)

LEMMA One ==
  ASSUME NEW n \in Nat
  PROVE  <<n>> \in Seq(Nat) /\ Sorted(<<n>>) /\ Range(<<n>>) = {n}
  <1>1. <<n>> \in Seq(Nat) /\ Len(<<n>>) = 1 /\ <<n>>[1] = n /\ DOMAIN <<n>> = {1}
    OBVIOUS
  <1> QED BY <1>1 DEF Sorted, Range

\* The pictures between the codec and the wire, oldest first, are in order.
LEMMA JourneySorted ==
  ASSUME VInv
  PROVE  Sorted(Journey) /\ Ahead = OnTheWay
  <1> DEFINE f == FramesOf(Flight)
             h == Held
  <1>1. /\ Order
        /\ sent \in Nat /\ hw \in Seq(Nat) /\ \A b \in Buffers : content[b] \in Nat
        /\ Flight \in Seq(Entry)
    BY Numbers, FlightTyped DEF VInv
  <1>2. f \in Seq(Nat) /\ Sorted(f) /\ Range(f) = Out
    BY <1>1, RisingFrames DEF Order, Out
  <1>3. h \in Seq(Nat) /\ Sorted(h) /\ Range(h) = InHand
    <2>1. CASE vpc = "push"
      <3>1. content[cur] \in Nat
        BY <1>1, <2>1 DEF VInv, Loans, Holding
      <3> QED BY <2>1, <3>1, One DEF Held, InHand
    <2>2. CASE vpc # "push"
      BY <2>2, QueueEmpty DEF Held, InHand, Sorted
    <2> QED BY <2>1, <2>2
  <1> DEFINE a == <<sent>> \o f
             c == a \o h
             j == c \o hw
  <1>4. Journey = j
    BY DEF Journey, FramesOf, Flight
  <1> HIDE DEF f, h
  <1>5. a \in Seq(Nat) /\ Sorted(a) /\ Range(a) = {sent} \cup Out /\ a[1] = sent /\ Len(a) > 0
    <2>1. <<sent>> \in Seq(Nat) /\ Sorted(<<sent>>) /\ Range(<<sent>>) = {sent}
      BY <1>1, One
    <2>2. a \in Seq(Nat) /\ Sorted(a) /\ Range(a) = {sent} \cup Out
      BY <1>1, <1>2, <2>1, SortedJoin DEF Order
    <2>3. Len(a) = 1 + Len(f) /\ Len(f) \in Nat /\ a[1] = sent
      BY <1>2, <2>1, ConcatProperties, LenProperties
    <2> QED BY <2>2, <2>3
  <1> HIDE DEF a
  <1>6. /\ c \in Seq(Nat) /\ Sorted(c) /\ Range(c) = {sent} \cup Out \cup InHand
        /\ c[1] = sent /\ Len(c) > 0
    <2>1. c \in Seq(Nat) /\ Sorted(c) /\ Range(c) = {sent} \cup Out \cup InHand
      BY <1>1, <1>3, <1>5, SortedJoin DEF Order
    <2>2. Len(a) \in Nat /\ Len(h) \in Nat /\ Len(c) = Len(a) + Len(h) /\ c[1] = a[1]
      BY <1>3, <1>5, ConcatProperties, LenProperties
    <2> QED BY <1>5, <2>1, <2>2
  <1> HIDE DEF c
  <1>7. /\ j \in Seq(Nat) /\ Sorted(j) /\ Range(j) = {sent} \cup OnTheWay
        /\ j[1] = sent /\ Len(j) > 0 /\ Len(j) \in Nat /\ DOMAIN j = 1..Len(j)
    <2>1. j \in Seq(Nat) /\ Sorted(j) /\ Range(j) = {sent} \cup OnTheWay
      BY <1>1, <1>6, SortedJoin DEF Order, OnTheWay
    <2>2. /\ Len(c) \in Nat /\ Len(hw) \in Nat /\ Len(j) = Len(c) + Len(hw)
          /\ j[1] = c[1] /\ DOMAIN j = 1..Len(j)
      BY <1>1, <1>6, <2>1, ConcatProperties, LenProperties
    <2> QED BY <1>6, <2>1, <2>2
  <1> HIDE DEF j
  <1>8. {j[i] : i \in 2..Len(j)} = OnTheWay
    <2>1. \A i \in 2..Len(j) : j[i] \in Range(j) /\ sent < j[i]
      BY <1>7 DEF Range, Sorted
    <2>2. \A n \in OnTheWay : sent < n
      BY <1>1 DEF Order, OnTheWay
    <2>3. \A n \in OnTheWay : \E i \in 2..Len(j) : j[i] = n
      <3> SUFFICES ASSUME NEW n \in OnTheWay PROVE \E i \in 2..Len(j) : j[i] = n
        OBVIOUS
      <3>1. PICK i \in 1..Len(j) : j[i] = n
        BY <1>7 DEF Range
      <3>2. i # 1
        BY <1>1, <1>7, <2>2, <3>1
      <3> QED BY <1>7, <3>1, <3>2
    <2>4. sent \notin {j[i] : i \in 2..Len(j)}
      BY <1>1, <2>1
    <2> QED BY <1>7, <2>1, <2>3, <2>4
  <1> QED BY <1>4, <1>7, <1>8 DEF Ahead

\* No picture overtakes another between the codec and the wire, whatever
\* encode() times out on, retries or drops.
THEOREM NeverOvertaken == VideoSpec => []InOrder
  <1>1. VInv => InOrder
    BY JourneySorted DEF InOrder, Sorted
  <1> QED BY <1>1, VideoInvariance, PTL

\* What a step does to the pictures on the way: some are lost, or one goes
\* in, or the oldest comes out.
Loses == UNCHANGED <<submitted, sent>> /\ OnTheWay' \subseteq OnTheWay
Gives == /\ submitted' = submitted + 1 /\ sent' = sent
         /\ OnTheWay' = OnTheWay \cup {submitted + 1}
Takes == /\ submitted' = submitted /\ sent' \in OnTheWay
         /\ OnTheWay' = OnTheWay \ {sent'}
         /\ \A n \in OnTheWay' : n > sent'

LEMMA WayMoves ==
  ASSUME VInv, [VideoNext]_videoVars
  PROVE  Loses \/ Gives \/ Takes
  <1>0. /\ Order
        /\ sent \in Nat /\ submitted \in Nat /\ hw \in Seq(Nat)
        /\ \A n \in Out : n \in Nat
        /\ \A n \in Range(hw) : n \in Nat
    <2>1. \A n \in Range(hw) : n \in Nat
      BY Numbers, EncoderAssumption DEF VInv
    <2> QED BY <2>1, Numbers DEF VInv
  <1>1. CASE Quiet
    <2>1. Out' = Out
      BY <1>1, FlightMoves DEF Quiet, Out
    <2>2. InHand' \subseteq InHand /\ Range(hw') \subseteq Range(hw)
      <3>1. Range(<<>>) = {}
        BY QueueEmpty
      <3> QED BY <1>1, <3>1 DEF Quiet, InHand, Holding
    <2> QED BY <1>1, <2>1, <2>2 DEF Quiet, OnTheWay, Loses
  <1>2. CASE SubmitFrame
    <2>1. /\ Out' = Out /\ InHand' = {} /\ InHand = {}
          /\ sent' = sent /\ submitted' = submitted + 1
      BY <1>2, SubmitEffect, FlightMoves DEF Out, InHand
    <2>2. Range(hw') = Range(hw) \cup {submitted + 1}
      <3>1. \A n \in Range(hw) : n < submitted + 1
        BY <1>0 DEF Order
      <3>2. submitted + 1 \in Nat /\ hw' = Append(hw, submitted + 1)
        BY <1>0, <1>2, SubmitEffect
      <3> QED BY <1>0, <3>1, <3>2, SortedPush DEF Order
    <2> QED BY <2>1, <2>2 DEF OnTheWay, Gives
  <1>3. CASE Encode /\ GetStream
    <2>1. /\ Out' = Out /\ InHand' = {Head(hw)} /\ InHand = {}
          /\ sent' = sent /\ submitted' = submitted
      BY <1>3, StreamWritten, FlightMoves DEF Out, InHand
    <2>2. Range(hw') = Range(hw) \ {Head(hw)} /\ Head(hw) \in Range(hw)
      BY <1>0, <1>3, StreamWritten, SortedPop DEF Order
    <2> QED BY <2>1, <2>2 DEF OnTheWay, Loses
  <1>4. CASE Push
    <2>1. /\ Out' = Out \cup {content[cur]} /\ InHand = {content[cur]} /\ InHand' = {}
          /\ UNCHANGED <<sent, submitted, hw>>
      BY <1>4, PushEffect DEF Out, InHand
    <2> QED BY <2>1 DEF OnTheWay, Loses
  <1>5. CASE DropPacket
    <2>1. Out' = Out /\ InHand' = {} /\ UNCHANGED <<sent, submitted, hw>>
      BY <1>5, DropPacketEffect, FlightMoves DEF Out, InHand
    <2> QED BY <2>1 DEF OnTheWay, Loses
  <1>6. CASE FlushPacket
    <2>1. Out' \subseteq Out /\ InHand' = InHand /\ UNCHANGED <<sent, submitted, hw>>
      BY <1>6, FrontDropped DEF Out, InHand, FlushPacket
    <2> QED BY <2>1 DEF OnTheWay, Loses
  <1>7. CASE GstDone
    <2>1. /\ Head(Flight) \in Range(Flight) /\ sent' = Head(Flight).frame
          /\ Range(Flight') = Range(Flight) \ {Head(Flight)}
          /\ \A e \in Range(Flight') : sent' < e.frame
          /\ InHand' = InHand /\ UNCHANGED <<submitted, hw>>
      BY <1>7, FrontDropped, FlightMoves DEF InHand, GstDone
    <2>2. sent' \in Out /\ sent' \in Nat
      BY <1>0, <2>1 DEF Out
    <2>3. \A n \in Out' : n \in Out /\ sent' < n
      BY <2>1 DEF Out
    <2>4. \A n \in Out : n # sent' => n \in Out'
      BY <2>1 DEF Out
    <2>5. \A n \in InHand \cup Range(hw) : sent' < n
      BY <1>0, <2>2 DEF Order
    <2>6. OnTheWay' = OnTheWay \ {sent'}
      <3>1. sent' \notin Out' /\ sent' \notin InHand \cup Range(hw)
        BY <2>2, <2>3, <2>5
      <3> QED BY <2>1, <2>3, <2>4, <3>1 DEF OnTheWay
    <2>7. \A n \in OnTheWay' : n > sent'
      BY <2>1, <2>3, <2>5 DEF OnTheWay
    <2> QED BY <2>1, <2>2, <2>6, <2>7 DEF OnTheWay, Takes
  <1>8. CASE GstStart
    <2>1. Out' = Out /\ InHand' = InHand /\ UNCHANGED <<hw, sent, submitted>>
      BY <1>8, StartEffect DEF Out, InHand
    <2> QED BY <2>1 DEF OnTheWay, Loses
  <1> QED
    BY <1>1, <1>2, <1>3, <1>4, <1>5, <1>6, <1>7, <1>8, Steps, QuietSteps

\* From the codec to the wire the video path is a queue that may lose
\* pictures and does nothing else to their order.
THEOREM VideoRefinement == VideoSpec => ImplementsFifo
  <1>1. VideoInit => Fifo!Init
    <2> SUFFICES ASSUME VideoInit PROVE Fifo!Init
      OBVIOUS
    <2>1. VInv /\ submitted = 0 /\ sent = 0
      BY VideoInitially DEF VideoInit, Init
    <2>2. Ahead = OnTheWay
      BY <2>1, JourneySorted
    <2>3. \A n \in OnTheWay : n \in Nat /\ sent < n /\ n <= submitted
      <3>1. \A n \in InHand : n \in Nat
        BY <2>1, Numbers DEF VInv, InHand, Loans, Holding
      <3>2. \A n \in Range(hw) : n \in Nat
        BY <2>1, Numbers, EncoderAssumption DEF VInv
      <3> QED BY <2>1, <3>1, <3>2, Numbers DEF VInv, Order, OnTheWay
    <2>4. Ahead = {}
      BY <2>1, <2>2, <2>3
    <2> QED BY <2>1, <2>4 DEF Fifo!Init, Ahead
  <1>2. VInv => Ahead = OnTheWay
    BY JourneySorted
  <1>3. VInv /\ Ahead = OnTheWay /\ (Ahead = OnTheWay)' /\ [VideoNext]_videoVars
          => [Fifo!Next]_Fifo!fifo
    <2> SUFFICES ASSUME VInv, Ahead = OnTheWay, Ahead' = OnTheWay', [VideoNext]_videoVars
                 PROVE  Fifo!Next
      OBVIOUS
    <2>1. Loses \/ Gives \/ Takes
      BY WayMoves
    <2>2. CASE Loses
      BY <2>2 DEF Loses, Fifo!Next, Fifo!Lose, Ahead
    <2>3. CASE Gives
      BY <2>3 DEF Gives, Fifo!Next, Fifo!Give, Ahead
    <2>4. CASE Takes
      BY <2>4 DEF Takes, Fifo!Next, Fifo!Take, Ahead
    <2> QED BY <2>1, <2>2, <2>3, <2>4
  <1> QED
    BY <1>1, <1>2, <1>3, VideoInvariance, PTL
       DEF VideoSpec, ImplementsFifo, Fifo!Spec

Link == INSTANCE LossyFifoProofs WITH
          given <- submitted, taken <- sent,
          pending <- {Journey[i] : i \in 2..Len(Journey)}

\* What LossyFifoProofs proves of the abstract fifo holds of the wire: udpsink
\* never sends a picture that is older than one it has sent.
THEOREM WireNeverBack == VideoSpec => [][sent' >= sent]_sent
  <1>1. Fifo!Init => Link!Init
    BY DEF Fifo!Init, Link!Init
  <1>2. [Fifo!Next]_(Fifo!fifo) => [Link!Next]_(Link!fifo)
    BY DEF Fifo!Next, Fifo!Give, Fifo!Lose, Fifo!Take, Fifo!fifo,
           Link!Next, Link!Give, Link!Lose, Link!Take, Link!fifo
  <1>3. ImplementsFifo => Link!Spec
    BY <1>1, <1>2, PTL DEF ImplementsFifo, Fifo!Spec, Link!Spec
  <1>4. Link!Spec => [][sent' = sent \/ sent' > sent]_(Link!fifo)
    BY Link!NeverBack
  <1>5. VideoTypeOK /\ VideoTypeOK' /\ [sent' = sent \/ sent' > sent]_(Link!fifo)
          => [sent' >= sent]_sent
    <2>1. VideoTypeOK /\ VideoTypeOK' => sent \in Nat /\ sent' \in Nat
      BY EncoderAssumption DEF VideoTypeOK
    <2>2. [sent' = sent \/ sent' > sent]_(Link!fifo) => sent' = sent \/ sent' > sent
      BY DEF Link!fifo
    <2> QED BY <2>1, <2>2
  <1> QED BY <1>3, <1>4, <1>5, VideoRefinement, VideoTyped, PTL

----------------------------------------------------------------------------
(* The encoder inside the video path                                       *)

\* Vision_thread and GStreamer drive the encoder as Encoder allows it to be
\* driven: all that is proved of the encoder holds of it here.
THEOREM VideoUsesEncoder == VideoSpec => Spec
  <1>1. VideoInit => Init
    BY DEF VideoInit
  <1>2. VInv /\ [VideoNext]_videoVars => [Next]_vars
    BY EncoderSteps
  <1> QED BY <1>1, <1>2, VideoInvariance, PTL DEF VideoSpec, Spec

\* The lease of every pool buffer, with the real calls of pushStream()
\* (udp_streamer.cpp:42-74) and the real destructors around it.
THEOREM VideoLeases == VideoSpec => ImplementsLease
  BY VideoUsesEncoder, Refinement, PTL

\* Each step of encode() in Vision_thread brings it nearer to its return.
THEOREM VideoEncodeNearsReturn == VideoSpec => EncodeAdvances
  BY VideoUsesEncoder, EncodeNearsReturn, PTL

----------------------------------------------------------------------------
(* Shutdown                                                                *)

\* What is left of Vision_thread's program, point by point.
LEMMA VisionLeftAt ==
  /\ vpc = "openCamera" => VisionLeft = 8
  /\ vpc = "openEncoder" => VisionLeft = 7
  /\ vpc = "openStreamer" => VisionLeft = 6
  /\ vpc = "capture" => VisionLeft = MaxRetries + 13
  /\ vpc = "encode" => VisionLeft = 8
  /\ vpc = "push" => VisionLeft = 8
  /\ vpc = "drop" => VisionLeft = 6
  /\ vpc = "loop" => VisionLeft = 5
  /\ vpc = "closeStreamer" => VisionLeft = IF pipeline = "stopping" THEN 3 ELSE 4
  /\ vpc = "closeEncoder" => VisionLeft = 2
  /\ vpc = "closeCamera" => VisionLeft = 1
  /\ vpc = "exited" => VisionLeft = 0
  BY DEF VisionLeft

LEMMA VisionLeftNat == VideoTypeOK => VisionLeft \in Nat
  <1> SUFFICES ASSUME VideoTypeOK PROVE VisionLeft \in Nat
    OBVIOUS
  <1>1. MaxRetries \in Nat /\ vpc \in VisionPoints
    BY EncoderAssumption DEF VideoTypeOK
  <1> QED BY <1>1, VisionLeftAt DEF VisionPoints

\* Outside of encode() there is nothing left of it; inside, only its own
\* steps count, and theirs only downwards.
LEMMA EncodePart ==
  ASSUME VInv, [VideoNext]_videoVars
  PROVE  /\ StepsLeft \in Nat /\ StepsLeft' \in Nat
         /\ StepsLeft' <= MaxRetries + 4
         /\ vpc # "encode" => StepsLeft = 0
         /\ vpc' # "encode" => StepsLeft' = 0
         /\ vpc' # "encode" \/ vpc = "encode" => StepsLeft' <= StepsLeft
  <1>1. Inv /\ [Next]_vars /\ Inv' /\ Control /\ Control'
    BY EncoderSteps, ControlStep DEF VInv
  <1>2. /\ MaxRetries \in Nat \ {0} /\ retry' \in 0..MaxRetries
        /\ pc' \in EncodePoints
    BY <1>1, EncoderAssumption DEF Inv, TypeOK
  <1>3. StepsLeft \in Nat /\ StepsLeft' \in Nat /\ StepsLeft' <= MaxRetries + 4
    BY <1>1, <1>2, StepsLeftNat DEF StepsLeft, EncodePoints
  <1>4. (vpc # "encode" => StepsLeft = 0) /\ (vpc' # "encode" => StepsLeft' = 0)
    <2>1. (vpc # "encode" => pc = "idle") /\ (vpc' # "encode" => pc' = "idle")
      BY <1>1 DEF Control
    <2> QED BY <2>1 DEF StepsLeft
  <1>5. vpc = "encode" => StepsLeft' <= StepsLeft
    BY <1>1, OthersNoLonger DEF Control
  <1> QED BY <1>3, <1>4, <1>5

\* A step of Vision_thread while it shuts down.
LEMMA VisionStepShorter ==
  ASSUME VInv, ~running, VisionStep
  PROVE  ShutdownLeft' < ShutdownLeft
  <1> USE DEF ShutdownLeft, At
  <1> DEFINE Same == queue' = queue /\ vpc # "encode" /\ vpc' # "encode"
  <1>1. /\ queue \in Seq(Entry) /\ Len(queue) \in Nat /\ VisionLeft \in Nat
        /\ MaxRetries \in Nat
    <2>1. queue \in Seq(Entry) /\ VisionLeft \in Nat
      BY FlightTyped, VisionLeftNat DEF VInv
    <2> QED BY <2>1, LenProperties, EncoderAssumption
  <1>2. /\ StepsLeft \in Nat /\ StepsLeft' \in Nat
        /\ StepsLeft' <= MaxRetries + 4
        /\ vpc # "encode" => StepsLeft = 0
        /\ vpc' # "encode" => StepsLeft' = 0
    BY EncodePart DEF VideoNext
  <1>3. /\ vpc' = "openEncoder" => VisionLeft' = 7
        /\ vpc' = "openStreamer" => VisionLeft' = 6
        /\ vpc' = "encode" => VisionLeft' = 8
        /\ vpc' = "push" => VisionLeft' = 8
        /\ vpc' = "drop" => VisionLeft' = 6
        /\ vpc' = "loop" => VisionLeft' = 5
        /\ vpc' = "closeStreamer" => VisionLeft' = IF pipeline' = "stopping" THEN 3 ELSE 4
        /\ vpc' = "closeEncoder" => VisionLeft' = 2
        /\ vpc' = "closeCamera" => VisionLeft' = 1
        /\ vpc' = "exited" => VisionLeft' = 0
    BY DEF VisionLeft
  <1>4. ASSUME Same, VisionLeft' < VisionLeft, VisionLeft' \in Nat
        PROVE  ShutdownLeft' < ShutdownLeft
    BY <1>1, <1>2, <1>4
  <1>5. CASE \/ OpenCamera \/ OpenEncoder \/ OpenEncoderFails
             \/ OpenStreamer \/ OpenStreamerFails
    BY <1>3, <1>4, <1>5, VisionLeftAt
       DEF OpenCamera, OpenEncoder, OpenEncoderFails, OpenStreamer,
           OpenStreamerFails, stream
  <1>6. CASE LoopHead \/ SkipFrame \/ PushRefused \/ DropPacket
    BY <1>1, <1>3, <1>4, <1>6, VisionLeftAt
       DEF LoopHead, SkipFrame, PushRefused, DropPacket, stream
  <1>7. CASE CloseStreamer \/ StreamerClosed \/ CloseEncoder \/ CloseCamera
    BY <1>3, <1>4, <1>7, VisionLeftAt
       DEF CloseStreamer, StreamerClosed, CloseEncoder, CloseCamera, stream
  <1>8. CASE SubmitFrame
    BY <1>1, <1>2, <1>3, <1>8, VisionLeftAt DEF SubmitFrame, stream
  <1>9. CASE Encode
    <2>1. StepsLeft' < StepsLeft
      BY <1>9, EncodeStepShorter DEF Encode, EncodeStep, VInv
    <2>2. VisionLeft' <= VisionLeft /\ VisionLeft' \in Nat /\ queue' = queue
      <3>1. vpc = "encode" /\ vpc' \in {"encode", "loop", "push"} /\ queue' = queue
        BY <1>9 DEF Encode, stream
      <3> QED BY <1>3, <3>1, VisionLeftAt
    <2> QED BY <1>1, <1>2, <2>1, <2>2
  <1>10. CASE Push
    <2>1. vpc = "push" /\ vpc' = "drop" /\ Len(queue') = Len(queue) + 1
      BY <1>1, <1>10 DEF Push
    <2> QED BY <1>1, <1>2, <1>3, <2>1, VisionLeftAt
  <1>11. CASE FlushPacket
    <2>1. /\ vpc = "closeStreamer" /\ vpc' = "closeStreamer"
          /\ pipeline = "stopping" /\ pipeline' = "stopping"
          /\ Len(queue') = Len(queue) - 1
      BY <1>1, <1>11, HeadTailProperties DEF FlushPacket
    <2> QED BY <1>1, <1>2, <1>3, <2>1, VisionLeftAt
  <1> QED
    BY <1>5, <1>6, <1>7, <1>8, <1>9, <1>10, <1>11 DEF VisionStep

\* A step of GStreamer or main() meanwhile.
LEMMA ShutdownNoLonger ==
  ASSUME VInv, ~running, [VideoNext]_videoVars, ~VisionStep
  PROVE  ShutdownLeft' <= ShutdownLeft
  <1>1. queue \in Seq(Entry) /\ Len(queue) \in Nat /\ VisionLeft \in Nat
    <2>1. queue \in Seq(Entry) /\ VisionLeft \in Nat
      BY FlightTyped, VisionLeftNat DEF VInv
    <2> QED BY <2>1, LenProperties
  <1>2. vpc' = vpc
    BY DEF VideoNext, Signal, MainReturns, GstStart, GstDone, GstError, videoVars
  <1>3. StepsLeft \in Nat /\ StepsLeft' \in Nat /\ StepsLeft' <= StepsLeft
    BY <1>2, EncodePart
  <1>4. (pipeline' = "stopping" <=> pipeline = "stopping") /\ VisionLeft' = VisionLeft
    <2>1. pipeline' = "stopping" <=> pipeline = "stopping"
      BY DEF VideoNext, Signal, MainReturns, GstStart, GstDone, GstError,
             videoVars, stream
    <2> QED BY <1>2, <2>1 DEF VisionLeft
  <1>5. Len(queue') \in Nat /\ Len(queue') <= Len(queue)
    <2>1. CASE GstStart
      BY <1>1, <2>1, HeadTailProperties, LenProperties DEF GstStart
    <2>2. CASE ~GstStart
      <3>1. queue' = queue
        BY <2>2 DEF VideoNext, Signal, MainReturns, GstDone, GstError,
                    videoVars, stream
      <3> QED BY <1>1, <3>1
    <2> QED BY <2>1, <2>2
  <1> QED BY <1>1, <1>3, <1>4, <1>5 DEF ShutdownLeft

\* After the signal (server.cpp:11-14) each step of Vision_thread brings its end
\* nearer, wherever it is, and no step of GStreamer or main() sends it back:
\* at most one more picture, then the flush, then the closing.
THEOREM ShutdownNearsEnd == VideoSpec => ShutdownAdvances
  <1>1. VInv /\ [VideoNext]_videoVars =>
          [~running => /\ ShutdownLeft' <= ShutdownLeft
                       /\ VisionStep => ShutdownLeft' < ShutdownLeft]_videoVars
    <2> SUFFICES ASSUME VInv, VideoNext, ~running
                 PROVE  /\ ShutdownLeft' <= ShutdownLeft
                        /\ VisionStep => ShutdownLeft' < ShutdownLeft
      OBVIOUS
    <2>1. CASE VisionStep
      <3>1. ShutdownLeft' < ShutdownLeft
        BY <2>1, VisionStepShorter
      <3>2. ShutdownLeft \in Int /\ ShutdownLeft' \in Int
        <4>1. /\ queue \in Seq(Entry) /\ queue' \in Seq(Entry)
              /\ vpc' \in VisionPoints /\ MaxRetries \in Nat
          BY VideoStep, EncoderAssumption DEF VInv, VideoTypeOK
        <4>2. VisionLeft \in Nat /\ VisionLeft' \in Nat
          BY <4>1, VisionLeftNat DEF VInv, VisionLeft, VisionPoints
        <4>3. Len(queue) \in Nat /\ Len(queue') \in Nat
          BY <4>1, LenProperties
        <4>4. StepsLeft \in Nat /\ StepsLeft' \in Nat
          BY EncodePart
        <4> QED BY <4>2, <4>3, <4>4 DEF ShutdownLeft
      <3> QED BY <3>1, <3>2
    <2>2. CASE ~VisionStep
      BY <2>2, ShutdownNoLonger
    <2> QED BY <2>1, <2>2
  <1> QED BY <1>1, VideoInvariance, PTL DEF VideoSpec, ShutdownAdvances
=============================================================================
