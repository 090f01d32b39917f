--------------------------- MODULE EncoderProofs ---------------------------
(***************************************************************************)
(* Encoder's safety properties, proved for every capacity of the pool,     *)
(* every number of retries, any set of packet holders and any codec depth. *)
(***************************************************************************)
EXTENDS Encoder, SequenceTheorems, TLAPS

----------------------------------------------------------------------------
(* Queues without repetition                                               *)

\* The empty queue holds nothing.
LEMMA QueueEmpty ==
  ASSUME NEW S
  PROVE  /\ <<>> \in Seq(S)
         /\ IsInjective(<<>>)
         /\ Range(<<>>) = {}
  BY DEF IsInjective, Range

\* A queue that is not empty holds something.
LEMMA QueueNonEmpty ==
  ASSUME NEW S, NEW q \in Seq(S), NEW e \in Range(q)
  PROVE  q # <<>> /\ e \in S
  BY DEF Range

\* Pushing a buffer that is not queued: BufferPool's push().
LEMMA QueuePush ==
  ASSUME NEW S, NEW q \in Seq(S), NEW e \in S, IsInjective(q), e \notin Range(q)
  PROVE  /\ Append(q, e) \in Seq(S)
         /\ IsInjective(Append(q, e))
         /\ Range(Append(q, e)) = Range(q) \cup {e}
  <1> DEFINE p == Append(q, e)
  <1>1. /\ p \in Seq(S) /\ Len(p) = Len(q) + 1
        /\ \A i \in 1..Len(q) : p[i] = q[i]
        /\ p[Len(q) + 1] = e
    BY AppendProperties
  <1>2. Len(q) \in Nat /\ DOMAIN q = 1..Len(q) /\ DOMAIN p = 1..(Len(q) + 1)
    BY <1>1, LenProperties
  <1>3. \A i \in DOMAIN q : q[i] # e
    BY DEF Range
  <1>4. IsInjective(p)
    <2> HIDE DEF p
    <2> SUFFICES ASSUME NEW i \in DOMAIN p, NEW j \in DOMAIN p, p[i] = p[j]
                 PROVE  i = j
      BY DEF IsInjective
    <2> QED  BY <1>1, <1>2, <1>3 DEF IsInjective
  <1>5. Range(p) = Range(q) \cup {e}
    <2> HIDE DEF p
    <2>1. \A i \in DOMAIN p : p[i] \in Range(q) \cup {e}
      BY <1>1, <1>2 DEF Range
    <2>2. \A i \in DOMAIN q : q[i] \in Range(p)
      BY <1>1, <1>2 DEF Range
    <2>3. e \in Range(p)
      BY <1>1, <1>2 DEF Range
    <2> QED  BY <2>1, <2>2, <2>3 DEF Range
  <1> QED  BY <1>1, <1>4, <1>5

\* Taking the oldest buffer: front() and pop().
LEMMA QueuePop ==
  ASSUME NEW S, NEW q \in Seq(S), IsInjective(q), q # <<>>
  PROVE  /\ Head(q) \in S
         /\ Head(q) \in Range(q)
         /\ Tail(q) \in Seq(S)
         /\ IsInjective(Tail(q))
         /\ Range(Tail(q)) = Range(q) \ {Head(q)}
  <1> DEFINE t == Tail(q)
  <1>1. /\ t \in Seq(S) /\ Len(t) = Len(q) - 1
        /\ \A i \in 1..Len(t) : t[i] = q[i + 1]
        /\ Head(q) \in S
    BY HeadTailProperties
  <1>2. /\ Len(q) \in Nat \ {0} /\ DOMAIN q = 1..Len(q)
        /\ DOMAIN t = 1..(Len(q) - 1)
    BY <1>1, LenProperties, EmptySeq
  <1>3. Head(q) = q[1] /\ 1 \in DOMAIN q
    BY <1>2
  <1>4. Head(q) \in Range(q)
    BY <1>3 DEF Range
  <1>5. IsInjective(t)
    <2> HIDE DEF t
    <2> SUFFICES ASSUME NEW i \in DOMAIN t, NEW j \in DOMAIN t, t[i] = t[j]
                 PROVE  i = j
      BY DEF IsInjective
    <2>1. /\ i + 1 \in DOMAIN q /\ t[i] = q[i + 1] /\ i \in Nat
          /\ j + 1 \in DOMAIN q /\ t[j] = q[j + 1] /\ j \in Nat
      BY <1>1, <1>2
    <2>2. i + 1 = j + 1
      BY <2>1 DEF IsInjective
    <2> QED  BY <2>1, <2>2
  <1>6. Range(t) = Range(q) \ {Head(q)}
    <2> HIDE DEF t
    <2>1. \A i \in DOMAIN t : i + 1 \in DOMAIN q /\ i + 1 # 1 /\ t[i] = q[i + 1]
      BY <1>1, <1>2
    <2>2. \A i \in DOMAIN t : t[i] \in Range(q) \ {Head(q)}
      BY <2>1, <1>3 DEF Range, IsInjective
    <2>3. ASSUME NEW i \in DOMAIN q, q[i] # q[1] PROVE q[i] \in Range(t)
      <3>1. i - 1 \in DOMAIN t /\ t[i - 1] = q[i]
        BY <2>3, <1>1, <1>2
      <3> QED  BY <3>1 DEF Range
    <2> QED  BY <2>2, <2>3, <1>3 DEF Range
  <1> QED  BY <1>1, <1>4, <1>5, <1>6

\* The queue open() fills: every buffer once.
LEMMA QueueFull ==
  LET q == [i \in Buffers |-> i]
  IN  q \in Seq(Buffers) /\ IsInjective(q) /\ Range(q) = Buffers
  BY EncoderAssumption DEF IsInjective, Range, Buffers


----------------------------------------------------------------------------
(* The inductive invariant                                                 *)

\* Where the thread inside encode() can be at each stage of the encoder's
\* life, and what it has in hand there.
Protocol ==
  /\ stage = "new" => /\ free = <<>> /\ heap = {} /\ pc = "idle"
                      /\ \A b \in Buffers : ~Lent(b)
  /\ pc \notin {"idle", "crashed"} => stage = "open"
  /\ stage = "crashed" <=> pc = "crashed"
  /\ pc \in {"fetch", "giveback", "crashed"} => cur \in Buffers
  /\ pc = "fetch" => retry < MaxRetries

\* What is on the heap while the pool has an owner, and afterwards.
Memory ==
  /\ \A b \in Buffers : Lent(b) => b \in heap
  /\ ~MallocMayFail /\ PoolAlive => heap = Buffers
  /\ stage = "closed" /\ ~PoolAlive => heap = {} /\ free = <<>>

Inv == TypeOK /\ Protocol /\ ExclusiveCustody /\ Memory /\ NoLostWakeup

\* The initial states satisfy the invariant.
LEMMA InitInv == Init => Inv
  <1> SUFFICES ASSUME Init PROVE Inv
    OBVIOUS
  <1>1. \A b \in Buffers : ~Lent(b) /\ ~Writing(b) /\ ~Idle(b)
    BY QueueEmpty DEF Init, Lent, Writing, Idle
  <1>2. TypeOK
    <2>1. free \in Seq(Buffers) /\ hw \in Seq(1..MaxFrames)
      BY QueueEmpty DEF Init
    <2> QED
      BY <2>1, EncoderAssumption
         DEF Init, TypeOK, Stages, EncodePoints, NoBuffer
  <1>3. Protocol
    BY <1>1 DEF Init, Protocol
  <1>4. ExclusiveCustody
    BY <1>1, QueueEmpty DEF Init, ExclusiveCustody, PoolAlive
  <1>5. Memory
    BY <1>1 DEF Init, Memory, PoolAlive
  <1>6. NoLostWakeup
    BY DEF Init, NoLostWakeup
  <1> QED  BY <1>2, <1>3, <1>4, <1>5, <1>6 DEF Inv

\* open() fills the queue with every slot of the pool.
LEMMA OpenInv == Inv /\ Open => Inv'
  <1> SUFFICES ASSUME Inv, Open PROVE Inv'
    OBVIOUS
  <1> USE DEF Inv
  <1>1. /\ stage = "new" /\ stage' = "open" /\ pc = "idle" /\ pc' = "idle"
        /\ \A b \in Buffers : refs[b] = {} /\ refs'[b] = {}
        /\ heap' \in SUBSET Buffers
        /\ ~MallocMayFail => heap' = Buffers
    BY DEF Open, Protocol, Lent
  <1>2. /\ free' \in Seq(Buffers) /\ IsInjective(free')
        /\ Range(free') = Buffers
    BY QueueFull DEF Open
  <1>3. TypeOK'
    BY <1>1, <1>2 DEF Open, TypeOK, Stages
  <1>4. Protocol'
    BY <1>1 DEF Open, Protocol
  <1>5. ExclusiveCustody'
    BY <1>1, <1>2 DEF ExclusiveCustody, Idle, Writing, Lent
  <1>6. Memory' /\ NoLostWakeup'
    BY <1>1 DEF Memory, PoolAlive, Lent, NoLostWakeup
  <1> QED  BY <1>3, <1>4, <1>5, <1>6

\* close() destroys the pool exactly when no packet is out.
LEMMA CloseInv == Inv /\ Close => Inv'
  <1> SUFFICES ASSUME Inv, Close PROVE Inv'
    OBVIOUS
  <1> USE DEF Inv
  <1>1. /\ stage = "open" /\ stage' = "closed" /\ pc = "idle" /\ pc' = "idle"
        /\ refs' = refs /\ hw' = <<>>
    BY DEF Close
  <1>2. \A b \in Buffers : ~Writing(b) /\ (Idle(b) \/ Lent(b))
    BY <1>1 DEF ExclusiveCustody, Writing, PoolAlive
  <1>3. CASE \E b \in Buffers : Lent(b)
    <2>1. heap' = heap /\ free' = free
      BY <1>3 DEF Close
    <2>2. TypeOK'
      BY <1>1, <2>1, QueueEmpty DEF Close, TypeOK, Stages
    <2>3. Protocol' /\ NoLostWakeup'
      BY <1>1, <2>1 DEF Close, Protocol, NoLostWakeup
    <2>4. ExclusiveCustody'
      BY <1>1, <1>2, <2>1 DEF ExclusiveCustody, Idle, Writing, Lent
    <2>5. Memory'
      BY <1>1, <1>3, <2>1 DEF Memory, PoolAlive, Lent
    <2> QED  BY <2>2, <2>3, <2>4, <2>5
  <1>4. CASE ~\E b \in Buffers : Lent(b)
    <2>1. heap' = heap \ Range(free) /\ free' = <<>>
      BY <1>4 DEF Close, DestroyPool
    <2>2. heap' = {} /\ free' \in Seq(Buffers)
      BY <1>2, <1>4, <2>1, QueueEmpty DEF TypeOK, Idle
    <2>3. TypeOK'
      BY <1>1, <2>2, QueueEmpty DEF Close, TypeOK, Stages
    <2>4. Protocol' /\ NoLostWakeup'
      BY <1>1 DEF Close, Protocol, NoLostWakeup
    <2>5. ExclusiveCustody'
      BY <1>1, <1>4, <2>1, QueueEmpty
         DEF ExclusiveCustody, Idle, Writing, Lent, PoolAlive
    <2>6. Memory'
      BY <1>1, <1>4, <2>1, <2>2 DEF Memory, PoolAlive, Lent
    <2> QED  BY <2>3, <2>4, <2>5, <2>6
  <1> QED  BY <1>3, <1>4

\* Steps of encode() that touch neither the queue, the heap nor a packet.
LEMMA EncodeControlInv ==
  Inv /\ (SetFrame \/ Sleep \/ Expire \/ Starve \/ NoStream \/ WriteNull) => Inv'
  <1> SUFFICES ASSUME Inv,
                      SetFrame \/ Sleep \/ Expire \/ Starve \/ NoStream \/ WriteNull
               PROVE  Inv'
    OBVIOUS
  <1> USE DEF Inv
  <1>1. heap' = heap /\ free' = free /\ refs' = refs /\ cur' = cur
    BY DEF SetFrame, Sleep, Expire, Starve, NoStream, WriteNull
  <1>2. stage' = stage \/ (stage = "open" /\ stage' = "crashed")
    BY DEF SetFrame, Sleep, Expire, Starve, NoStream, WriteNull, Protocol
  <1>3. \A b \in Buffers : Writing(b)' <=> Writing(b)
    BY <1>1 DEF SetFrame, Sleep, Expire, Starve, NoStream, WriteNull, Writing
  <1>4. TypeOK'
    <2>1. CASE SetFrame
      <3>1. submitted + 1 \in 1..MaxFrames
        BY <2>1, EncoderAssumption DEF SetFrame, TypeOK
      <3>2. hw' \in Seq(1..MaxFrames)
        BY <2>1, <3>1, AppendProperties DEF SetFrame, TypeOK
      <3> QED
        BY <2>1, <3>1, <3>2 DEF SetFrame, TypeOK, EncodePoints
    <2>2. CASE NoStream
      BY <2>2, EncoderAssumption DEF NoStream, TypeOK, EncodePoints, Protocol
    <2>3. CASE Sleep \/ Expire \/ Starve \/ WriteNull
      BY <2>3 DEF Sleep, Expire, Starve, WriteNull, TypeOK, EncodePoints, Stages
    <2> QED  BY <2>1, <2>2, <2>3
  <1>5. Protocol'
    <2>1. CASE NoStream
      BY <2>1, EncoderAssumption DEF NoStream, TypeOK, Protocol
    <2>2. CASE SetFrame \/ Sleep \/ Expire \/ Starve \/ WriteNull
      BY <2>2 DEF SetFrame, Sleep, Expire, Starve, WriteNull, Protocol
    <2> QED  BY <2>1, <2>2
  <1>6. PoolAlive' <=> PoolAlive
    BY <1>1, <1>2 DEF PoolAlive, Lent
  <1>7. ExclusiveCustody'
    BY <1>1, <1>3, <1>6 DEF ExclusiveCustody, Idle, Lent
  <1>8. Memory'
    BY <1>1, <1>2, <1>6 DEF Memory, Lent
  <1>9. NoLostWakeup'
    BY <1>1 DEF SetFrame, Sleep, Expire, Starve, NoStream, WriteNull, NoLostWakeup
  <1> QED  BY <1>4, <1>5, <1>7, <1>8, <1>9

\* The buffer at the head of the queue moves into encode()'s hands.
LEMMA TakeBufferInv == Inv /\ TakeBuffer => Inv'
  <1> SUFFICES ASSUME Inv, TakeBuffer PROVE Inv'
    OBVIOUS
  <1> USE DEF Inv
  <1>1. /\ pc \in {"wait", "expired"} /\ pc' = "fetch" /\ stage = "open"
        /\ cur' = Head(free) /\ free' = Tail(free) /\ free # <<>>
        /\ stage' = stage /\ heap' = heap /\ refs' = refs /\ retry' = 0
    BY DEF TakeBuffer, Protocol
  <1>2. /\ cur' \in Buffers /\ Idle(cur')
        /\ free' \in Seq(Buffers) /\ IsInjective(free')
        /\ Range(free') = Range(free) \ {cur'}
    BY <1>1, QueuePop DEF TypeOK, ExclusiveCustody, Idle
  <1>3. TypeOK'
    BY <1>1, <1>2, EncoderAssumption DEF TakeBuffer, TypeOK, EncodePoints
  <1>4. Protocol'
    BY <1>1, <1>2, EncoderAssumption DEF Protocol
  <1>5. ExclusiveCustody'
    BY <1>1, <1>2 DEF ExclusiveCustody, Idle, Writing, Lent, PoolAlive
  <1>6. Memory' /\ NoLostWakeup'
    BY <1>1 DEF Memory, PoolAlive, Lent, NoLostWakeup
  <1> QED  BY <1>3, <1>4, <1>5, <1>6

\* The buffer in hand becomes a packet.
LEMMA GetStreamInv == Inv /\ GetStream => Inv'
  <1> SUFFICES ASSUME Inv, GetStream PROVE Inv'
    OBVIOUS
  <1> USE DEF Inv
  <1>1. /\ pc = "fetch" /\ pc' = "idle" /\ stage = "open" /\ stage' = stage
        /\ cur \in heap /\ cur \in Buffers /\ cur' = cur
        /\ heap' = heap /\ free' = free
        /\ refs \in [Buffers -> SUBSET Holders]
        /\ refs' = [refs EXCEPT ![cur] = {Caller}]
        /\ hw # <<>>
    BY DEF GetStream, Protocol, TypeOK
  <1>2. Head(hw) \in 1..MaxFrames /\ hw' \in Seq(1..MaxFrames)
    BY <1>1, HeadTailProperties DEF TypeOK, GetStream
  <1>3. TypeOK'
    BY <1>1, <1>2, EncoderAssumption DEF GetStream, TypeOK, EncodePoints
  <1>4. Protocol' /\ NoLostWakeup'
    BY <1>1 DEF Protocol, NoLostWakeup
  <1>5. ExclusiveCustody'
    BY <1>1 DEF ExclusiveCustody, Idle, Writing, Lent, PoolAlive
  <1>6. Memory'
    BY <1>1 DEF Memory, PoolAlive, Lent
  <1> QED  BY <1>3, <1>4, <1>5, <1>6

\* The error path of encode() pushes the buffer it holds.
LEMMA GiveBackInv == Inv /\ GiveBack => Inv'
  <1> SUFFICES ASSUME Inv, GiveBack PROVE Inv'
    OBVIOUS
  <1> USE DEF Inv
  <1>1. /\ pc = "giveback" /\ pc' = "idle" /\ stage = "open" /\ stage' = stage
        /\ cur \in Buffers /\ heap' = heap /\ refs' = refs
        /\ free' = Append(free, cur) /\ Writing(cur)
    BY DEF GiveBack, Protocol, Writing
  <1>2. /\ free' \in Seq(Buffers) /\ IsInjective(free')
        /\ Range(free') = Range(free) \cup {cur}
    BY <1>1, QueuePush DEF TypeOK, ExclusiveCustody, Idle
  <1>3. TypeOK'
    BY <1>1, <1>2 DEF GiveBack, TypeOK, EncodePoints
  <1>4. Protocol' /\ NoLostWakeup'
    BY <1>1 DEF GiveBack, Protocol, NoLostWakeup
  <1>5. ExclusiveCustody'
    BY <1>1, <1>2 DEF ExclusiveCustody, Idle, Writing, Lent, PoolAlive
  <1>6. Memory'
    BY <1>1 DEF Memory, PoolAlive, Lent
  <1> QED  BY <1>3, <1>4, <1>5, <1>6

\* A copy of a packet that is out goes to one more owner.
LEMMA ShareInv ==
  ASSUME Inv, NEW b \in Buffers, NEW h \in Holders, Share(b, h)
  PROVE  Inv'
  <1> USE DEF Inv
  <1>1. /\ stage' = stage /\ pc' = pc /\ cur' = cur /\ heap' = heap
        /\ free' = free /\ retry' = retry
        /\ refs \in [Buffers -> SUBSET Holders]
        /\ refs' = [refs EXCEPT ![b] = @ \cup {h}]
    BY DEF Share, TypeOK
  <1>2. \A c \in Buffers : Lent(c)' <=> Lent(c)
    BY <1>1 DEF Share, Lent
  <1>3. TypeOK'
    BY <1>1 DEF Share, TypeOK
  <1>4. Protocol' /\ NoLostWakeup'
    BY <1>1, <1>2 DEF Protocol, NoLostWakeup
  <1>5. ExclusiveCustody' /\ Memory'
    BY <1>1, <1>2 DEF ExclusiveCustody, Memory, Idle, Writing, PoolAlive
  <1> QED  BY <1>3, <1>4, <1>5

\* A copy goes while others remain.
LEMMA DropSharedInv ==
  ASSUME Inv, NEW b \in Buffers, NEW h \in Holders, DropShared(b, h)
  PROVE  Inv'
  <1> USE DEF Inv
  <1>1. /\ stage' = stage /\ pc' = pc /\ cur' = cur /\ heap' = heap
        /\ free' = free /\ retry' = retry
        /\ refs \in [Buffers -> SUBSET Holders]
        /\ refs' = [refs EXCEPT ![b] = @ \ {h}]
        /\ h \in refs[b] /\ refs[b] # {h}
    BY DEF DropShared, Unref, LastOwner, TypeOK
  <1>2. \A c \in Buffers : Lent(c)' <=> Lent(c)
    BY <1>1 DEF Lent
  <1>3. TypeOK'
    BY <1>1 DEF DropShared, Unref, TypeOK
  <1>4. Protocol' /\ NoLostWakeup'
    BY <1>1, <1>2 DEF Protocol, NoLostWakeup
  <1>5. ExclusiveCustody' /\ Memory'
    BY <1>1, <1>2 DEF ExclusiveCustody, Memory, Idle, Writing, PoolAlive
  <1> QED  BY <1>3, <1>4, <1>5

\* The deleter pushes the buffer into a pool that others keep alive.
LEMMA DropLastInv ==
  ASSUME Inv, NEW b \in Buffers, NEW h \in Holders, DropLast(b, h)
  PROVE  Inv'
  <1> USE DEF Inv
  <1>1. /\ stage' = stage /\ cur' = cur /\ heap' = heap /\ retry' = retry
        /\ refs \in [Buffers -> SUBSET Holders]
        /\ refs' = [refs EXCEPT ![b] = @ \ {h}]
        /\ refs[b] = {h} /\ stage # "crashed"
        /\ free' = Append(free, b)
        /\ pc' = IF pc = "asleep" THEN "wait" ELSE pc
    BY DEF DropLast, Unref, LastOwner, Notify, TypeOK
  <1>2. refs'[b] = {} /\ \A c \in Buffers \ {b} : refs'[c] = refs[c]
    BY <1>1
  <1>3. /\ free' \in Seq(Buffers) /\ IsInjective(free')
        /\ Range(free') = Range(free) \cup {b}
    <2>1. free \in Seq(Buffers) /\ IsInjective(free) /\ b \notin Range(free)
      BY <1>1 DEF TypeOK, ExclusiveCustody, Idle, Lent
    <2> QED  BY <1>1, <2>1, QueuePush
  <1>4. \A c \in Buffers : Writing(c)' <=> Writing(c)
    BY <1>1 DEF Writing
  <1>5. PoolAlive /\ PoolAlive'
    BY <1>1, <1>2 DEF DropLast, OthersLent, PoolAlive, Lent
  <1>6. stage # "new"
    BY <1>1 DEF Protocol, Lent
  <1>7. TypeOK'
    BY <1>1, <1>3 DEF DropLast, Unref, TypeOK, EncodePoints
  <1>8. Protocol' /\ NoLostWakeup'
    BY <1>1, <1>6 DEF Protocol, NoLostWakeup
  <1>9. ExclusiveCustody'
    BY <1>1, <1>2, <1>3, <1>4, <1>5 DEF ExclusiveCustody, Idle, Lent
  <1>10. Memory'
    BY <1>1, <1>2, <1>5 DEF Memory, Lent
  <1> QED  BY <1>7, <1>8, <1>9, <1>10

\* The last packet after close(): the pool dies with its deleter.
LEMMA DropFinalInv ==
  ASSUME Inv, NEW b \in Buffers, NEW h \in Holders, DropFinal(b, h)
  PROVE  Inv'
  <1> USE DEF Inv
  <1>1. /\ stage' = stage /\ cur' = cur /\ pc' = pc /\ retry' = retry
        /\ refs \in [Buffers -> SUBSET Holders]
        /\ refs' = [refs EXCEPT ![b] = @ \ {h}]
        /\ refs[b] = {h} /\ stage \notin {"open", "crashed"}
        /\ heap' = heap \ (Range(free) \cup {b}) /\ free' = <<>>
        /\ \A c \in Buffers \ {b} : refs[c] = {}
    BY DEF DropFinal, Unref, LastOwner, DestroyPool, OthersLent, Lent, TypeOK
  <1>2. stage = "closed" /\ pc = "idle" /\ PoolAlive
    BY <1>1 DEF Protocol, TypeOK, Stages, Lent, PoolAlive
  <1>3. \A c \in Buffers : refs'[c] = {}
    BY <1>1
  <1>4. heap' = {}
    <2>1. \A c \in Buffers \ {b} : Idle(c)
      BY <1>1, <1>2 DEF ExclusiveCustody, Writing, Lent
    <2> QED  BY <1>1, <2>1 DEF Idle, TypeOK
  <1>5. TypeOK'
    BY <1>1, <1>4, QueueEmpty DEF DropFinal, Unref, TypeOK
  <1>6. Protocol' /\ NoLostWakeup'
    BY <1>1, <1>2 DEF Protocol, NoLostWakeup
  <1>7. ExclusiveCustody'
    BY <1>1, <1>2, <1>3, QueueEmpty
       DEF ExclusiveCustody, Idle, Writing, Lent, PoolAlive
  <1>8. Memory'
    BY <1>1, <1>2, <1>3, <1>4 DEF Memory, PoolAlive, Lent
  <1> QED  BY <1>5, <1>6, <1>7, <1>8

\* Every step preserves the invariant.
LEMMA NextInv == Inv /\ [Next]_vars => Inv'
  <1> SUFFICES ASSUME Inv, [Next]_vars PROVE Inv'
    OBVIOUS
  <1>1. CASE Open          BY <1>1, OpenInv
  <1>2. CASE Close         BY <1>2, CloseInv
  <1>3. CASE SetFrame \/ Sleep \/ Expire \/ Starve \/ NoStream \/ WriteNull
    BY <1>3, EncodeControlInv
  <1>4. CASE TakeBuffer    BY <1>4, TakeBufferInv
  <1>5. CASE GetStream     BY <1>5, GetStreamInv
  <1>6. CASE GiveBack      BY <1>6, GiveBackInv
  <1>7. ASSUME NEW b \in Buffers, NEW h \in Holders, Share(b, h) \/ Drop(b, h)
        PROVE  Inv'
    BY <1>7, ShareInv, DropSharedInv, DropLastInv, DropFinalInv DEF Drop
  <1>8. CASE UNCHANGED vars
    BY <1>8 DEF vars, Inv, TypeOK, Protocol, ExclusiveCustody, Memory,
                NoLostWakeup, PoolAlive, Idle, Writing, Lent
  <1> QED
    BY <1>1, <1>2, <1>3, <1>4, <1>5, <1>6, <1>7, <1>8 DEF Next, EncodeStep

\* The invariant holds in every reachable state.
THEOREM Invariance == Spec => []Inv
  <1>1. Init => Inv
    BY InitInv
  <1>2. Inv /\ [Next]_vars => Inv'
    BY NextInv
  <1> QED  BY <1>1, <1>2, PTL DEF Spec

----------------------------------------------------------------------------
(* The theorems                                                            *)

\* Every variable keeps its type.
THEOREM TypeCorrect == Spec => []TypeOK
  <1>1. Inv => TypeOK
    BY DEF Inv
  <1> QED  BY <1>1, Invariance, PTL

\* A pool buffer always has exactly one custodian: the queue, encode() or
\* the packet that carries it.
THEOREM Custody == Spec => []ExclusiveCustody
  <1>1. Inv => ExclusiveCustody
    BY DEF Inv
  <1> QED  BY <1>1, Invariance, PTL

\* No packet and no write of the codec refers to freed memory.
THEOREM MemorySafe == Spec => []NoUseAfterFree
  <1>1. Inv => NoUseAfterFree
    <2> SUFFICES ASSUME Inv, NEW b \in Buffers
                 PROVE  /\ Lent(b) => b \in heap
                        /\ Writing(b) /\ ~MallocMayFail => b \in heap
      BY DEF NoUseAfterFree
    <2>1. Lent(b) => b \in heap
      BY DEF Inv, Memory
    <2>2. Writing(b) => PoolAlive
      BY DEF Inv, Protocol, Writing, PoolAlive
    <2> QED  BY <2>1, <2>2 DEF Inv, Memory
  <1> QED  BY <1>1, Invariance, PTL

\* A closed encoder whose packets are gone has freed every buffer.
THEOREM AllFreed == Spec => []NoLeak
  <1>1. Inv => NoLeak
    BY DEF Inv, Memory, NoLeak, PoolAlive
  <1> QED  BY <1>1, Invariance, PTL

\* encode() is never asleep beside a free buffer.
THEOREM WakeupKept == Spec => []NoLostWakeup
  <1>1. Inv => NoLostWakeup
    BY DEF Inv
  <1> QED  BY <1>1, Invariance, PTL

\* Nobody sees the bytes of a packet change.
THEOREM PacketStable == Spec => LentStable
  <1>1. Inv /\ [Next]_vars =>
          [\A b \in Buffers : refs[b] # {} /\ refs'[b] # {}
                                => content'[b] = content[b]]_vars
    <2> SUFFICES ASSUME Inv, Next, NEW b \in Buffers, refs[b] # {}
                 PROVE  content'[b] = content[b]
      OBVIOUS
    <2>1. CASE GetStream
      <3>1. cur # b /\ content \in [Buffers -> 0..MaxFrames]
        BY <2>1 DEF GetStream, Inv, TypeOK, ExclusiveCustody, Writing, Lent
      <3> QED  BY <2>1, <3>1 DEF GetStream
    <2>2. CASE ~GetStream
      <3>1. content' = content
        BY <2>2 DEF Next, EncodeStep, Open, Close, SetFrame, TakeBuffer, Sleep,
                    Expire, Starve, NoStream, WriteNull, GiveBack, Share, Drop,
                    DropShared, DropLast, DropFinal, Unref
      <3> QED  BY <3>1
    <2> QED  BY <2>1, <2>2
  <1> QED  BY <1>1, Invariance, PTL DEF Spec, LentStable

----------------------------------------------------------------------------
(* encode() comes to an end                                                *)

\* The bound on the steps left, point by point.
LEMMA StepsLeftAt ==
  /\ pc \in {"idle", "crashed"} => StepsLeft = 0
  /\ pc = "giveback" => StepsLeft = 1
  /\ pc = "fetch" => StepsLeft = MaxRetries + 1 - retry
  /\ pc = "expired" => StepsLeft = MaxRetries + 2
  /\ pc = "asleep" => StepsLeft = MaxRetries + 3
  /\ pc = "wait" /\ free = <<>> => StepsLeft = MaxRetries + 4
  /\ pc = "wait" /\ free # <<>> => StepsLeft = MaxRetries + 2
  BY DEF StepsLeft

\* It is a number, and nothing is left exactly where encode() has returned.
LEMMA StepsLeftNat ==
  ASSUME Inv
  PROVE  StepsLeft \in Nat /\ (pc \in {"idle", "crashed"} <=> StepsLeft = 0)
  <1>1. MaxRetries \in Nat \ {0} /\ retry \in 0..MaxRetries /\ pc \in EncodePoints
    BY EncoderAssumption DEF Inv, TypeOK
  <1>2. pc = "fetch" => retry < MaxRetries
    BY DEF Inv, Protocol
  <1> QED  BY <1>1, <1>2, StepsLeftAt DEF EncodePoints

\* A step of the thread inside encode() leaves fewer.
LEMMA EncodeStepShorter ==
  ASSUME Inv, EncodeStep
  PROVE  StepsLeft' < StepsLeft
  <1>1. MaxRetries \in Nat \ {0} /\ retry \in 0..MaxRetries
    BY EncoderAssumption DEF Inv, TypeOK
  <1>2. pc = "fetch" => retry < MaxRetries
    BY DEF Inv, Protocol
  <1>3. /\ pc' = "idle" \/ pc' = "crashed" => StepsLeft' = 0
        /\ pc' = "giveback" => StepsLeft' = 1
        /\ pc' = "fetch" => StepsLeft' = MaxRetries + 1 - retry'
        /\ pc' = "expired" => StepsLeft' = MaxRetries + 2
        /\ pc' = "asleep" => StepsLeft' = MaxRetries + 3
    BY DEF StepsLeft
  <1>4. CASE TakeBuffer
    BY <1>1, <1>3, <1>4, StepsLeftAt DEF TakeBuffer
  <1>5. CASE Sleep \/ Expire \/ Starve
    BY <1>1, <1>3, <1>5, StepsLeftAt DEF Sleep, Expire, Starve
  <1>6. CASE GetStream \/ WriteNull
    BY <1>1, <1>2, <1>3, <1>6, StepsLeftAt DEF GetStream, WriteNull
  <1>7. CASE NoStream
    BY <1>1, <1>2, <1>3, <1>7, StepsLeftAt DEF NoStream
  <1>8. CASE GiveBack
    BY <1>3, <1>8, StepsLeftAt DEF GiveBack
  <1> QED  BY <1>4, <1>5, <1>6, <1>7, <1>8 DEF EncodeStep

\* Nobody else's step leaves more, while encode() runs.
LEMMA OthersNoLonger ==
  ASSUME Inv, [Next]_vars, pc # "idle"
  PROVE  StepsLeft' <= StepsLeft
  <1>1. StepsLeft \in Nat /\ MaxRetries \in Nat /\ pc \in EncodePoints
    BY StepsLeftNat, EncoderAssumption DEF Inv, TypeOK
  <1>2. CASE EncodeStep
    <2>1. StepsLeft' < StepsLeft /\ Inv'
      BY <1>2, EncodeStepShorter, NextInv
    <2>2. StepsLeft' \in Nat
      <3>1. /\ MaxRetries \in Nat /\ retry' \in 0..MaxRetries
            /\ pc' \in EncodePoints
        BY <2>1, EncoderAssumption DEF Inv, TypeOK
      <3> QED  BY <3>1 DEF StepsLeft, EncodePoints
    <2> QED  BY <1>1, <2>1, <2>2
  <1>3. CASE UNCHANGED <<pc, free, retry>>
    BY <1>1, <1>3 DEF StepsLeft
  <1>4. CASE Open \/ Close \/ SetFrame \/ UNCHANGED vars
    BY <1>3, <1>4 DEF Open, Close, SetFrame, Inv, Protocol, vars
  <1>5. ASSUME NEW b \in Buffers, NEW h \in Holders, Share(b, h) \/ Drop(b, h)
        PROVE  StepsLeft' <= StepsLeft
    <2>1. CASE Share(b, h) \/ DropShared(b, h)
      BY <1>3, <2>1 DEF Share, DropShared, Unref
    <2>2. CASE DropLast(b, h)
      <3>1. /\ pc' = (IF pc = "asleep" THEN "wait" ELSE pc)
            /\ retry' = retry /\ free' = Append(free, b)
        BY <2>2 DEF DropLast, Unref, Notify
      <3>2. free' # <<>>
        BY <3>1 DEF Inv, TypeOK
      <3>3. pc' = "wait" => StepsLeft' = MaxRetries + 2
        BY <3>2 DEF StepsLeft
      <3>4. CASE pc \in {"wait", "asleep"}
        BY <1>1, <3>1, <3>3, <3>4, StepsLeftAt
      <3>5. CASE pc \notin {"wait", "asleep"}
        <4>1. pc' = pc /\ StepsLeft' = StepsLeft
          BY <1>1, <3>1, <3>5 DEF StepsLeft, EncodePoints
        <4> QED  BY <1>1, <4>1
      <3> QED  BY <3>4, <3>5
    <2>3. ~DropFinal(b, h)
      BY DEF DropFinal, Unref, LastOwner, Inv, Protocol, TypeOK, EncodePoints
    <2> QED  BY <1>5, <2>1, <2>2, <2>3 DEF Drop
  <1> QED  BY <1>2, <1>4, <1>5 DEF Next

\* Each step of encode() (rdkx5_encoder.cpp:107-180) brings it nearer to its
\* return, and no packet that comes home, no close() and no copy sends it
\* back: it returns after at most max_retries + 4 steps of its own.
THEOREM EncodeNearsReturn == Spec => EncodeAdvances
  <1>1. Inv /\ [Next]_vars =>
          [/\ pc # "idle" => StepsLeft' <= StepsLeft
           /\ EncodeStep => StepsLeft' < StepsLeft]_vars
    BY EncodeStepShorter, OthersNoLonger
  <1> QED  BY <1>1, Invariance, PTL DEF Spec, EncodeAdvances

----------------------------------------------------------------------------
(* Refinement                                                              *)

Phase == [b \in Buffers |-> PhaseOf(b)]

\* One buffer changes phase, the others do not: a step of the lease.
LEMMA OneMoves ==
  ASSUME NEW b \in Buffers, NEW from, NEW to,
         PhaseOf(b) = from, PhaseOf(b)' = to,
         \A c \in Buffers \ {b} : PhaseOf(c)' = PhaseOf(c)
  PROVE  Lease!Move(b, from, to)
  BY DEF Lease!Move

\* Where no buffer changes phase the lease stutters.
LEMMA NoneMoves ==
  ASSUME \A b \in Buffers : PhaseOf(b)' = PhaseOf(b)
  PROVE  UNCHANGED Phase
  BY DEF Phase

\* Steps that change no custodian.
LEMMA StutterSteps ==
  ASSUME Inv,
         \/ SetFrame \/ Sleep \/ Expire \/ Starve \/ NoStream \/ WriteNull
         \/ \E b \in Buffers, h \in Holders : Share(b, h) \/ DropShared(b, h)
         \/ UNCHANGED vars
  PROVE  UNCHANGED Phase
  <1>1. /\ free' = free /\ cur' = cur
        /\ stage' # "new" <=> stage # "new"
        /\ pc' \in {"fetch", "giveback", "crashed"}
             <=> pc \in {"fetch", "giveback", "crashed"}
    BY DEF SetFrame, Sleep, Expire, Starve, NoStream, WriteNull, Share,
           DropShared, Unref, vars, Inv, Protocol
  <1>2. \A c \in Buffers : Lent(c)' <=> Lent(c)
    <2>1. CASE \E b \in Buffers, h \in Holders : Share(b, h) \/ DropShared(b, h)
      <3> PICK b \in Buffers, h \in Holders : Share(b, h) \/ DropShared(b, h)
        BY <2>1
      <3>1. refs \in [Buffers -> SUBSET Holders] /\ refs[b] # {}
        BY DEF Inv, TypeOK, Share, Lent, DropShared, Unref
      <3>2. /\ \A c \in Buffers \ {b} : refs'[c] = refs[c]
            /\ refs'[b] # {}
        BY <3>1 DEF Share, DropShared, Unref, LastOwner
      <3> QED  BY <3>1, <3>2 DEF Lent
    <2>2. CASE \/ SetFrame \/ Sleep \/ Expire \/ Starve \/ NoStream \/ WriteNull
               \/ UNCHANGED vars
      BY <2>2 DEF SetFrame, Sleep, Expire, Starve, NoStream, WriteNull, vars, Lent
    <2> QED  BY <2>1, <2>2
  <1>3. \A c \in Buffers : PhaseOf(c)' = PhaseOf(c)
    BY <1>1, <1>2 DEF PhaseOf, Writing, Idle
  <1> QED  BY <1>3, NoneMoves

\* The pool goes with close(), or with the last packet.
LEMMA DisposeSteps ==
  ASSUME Inv, Inv',
         Close \/ \E b \in Buffers, h \in Holders : DropFinal(b, h)
  PROVE  Lease!Dispose \/ UNCHANGED Phase
  <1>1. CASE Close /\ \E b \in Buffers : Lent(b)
    <2>1. \A b \in Buffers : PhaseOf(b)' = PhaseOf(b)
      BY <1>1 DEF Close, PhaseOf, Writing, Idle, Lent
    <2> QED  BY <2>1, NoneMoves
  <1>2. CASE Close /\ ~\E b \in Buffers : Lent(b)
    <2>1. \A b \in Buffers : PhaseOf(b) = "idle"
      BY <1>2 DEF Close, PhaseOf, Writing, Lent, Inv, ExclusiveCustody, PoolAlive
    <2>2. \A b \in Buffers : PhaseOf(b)' = "gone"
      BY <1>2, QueueEmpty DEF Close, DestroyPool, PhaseOf, Writing, Idle, Lent
    <2> QED  BY <2>1, <2>2 DEF Lease!Dispose
  <1>3. ASSUME NEW b \in Buffers, NEW h \in Holders, DropFinal(b, h)
        PROVE  Lease!Dispose
    <2>1. /\ stage = "closed" /\ stage' = "closed" /\ pc = "idle" /\ pc' = "idle"
          /\ refs[b] = {h} /\ \A c \in Buffers \ {b} : refs[c] = {}
          /\ refs' = [refs EXCEPT ![b] = @ \ {h}]
          /\ refs \in [Buffers -> SUBSET Holders]
          /\ free' = <<>>
      BY <1>3 DEF DropFinal, Unref, LastOwner, DestroyPool, OthersLent, Lent,
                  Inv, TypeOK, Protocol, Stages
    <2>2. \A c \in Buffers : PhaseOf(c) = IF c = b THEN "lent" ELSE "idle"
      BY <2>1 DEF PhaseOf, Writing, Lent, Inv, ExclusiveCustody, PoolAlive
    <2>3. \A c \in Buffers : PhaseOf(c)' = "gone"
      BY <2>1, QueueEmpty DEF PhaseOf, Writing, Idle, Lent
    <2> QED  BY <2>2, <2>3 DEF Lease!Dispose
  <1> QED  BY <1>1, <1>2, <1>3

\* Every step of the encoder is a step of the lease or changes no phase.
LEMMA StepRefines ==
  ASSUME Inv, Inv', [Next]_vars
  PROVE  [Lease!Next]_Phase
  <1>1. CASE Open
    <2>1. \A b \in Buffers : PhaseOf(b) = "unborn" /\ PhaseOf(b)' = "idle"
      BY <1>1, QueueFull
         DEF Open, PhaseOf, Writing, Lent, Idle, Inv, Protocol
    <2> QED  BY <2>1 DEF Lease!Allocate, Lease!Next
  <1>2. CASE TakeBuffer
    <2>1. /\ cur' \in Buffers /\ Idle(cur') /\ Range(free') = Range(free) \ {cur'}
          /\ stage = "open" /\ stage' = "open" /\ refs' = refs
          /\ pc \in {"wait", "expired"} /\ pc' = "fetch"
      BY <1>2, QueuePop
         DEF TakeBuffer, Inv, TypeOK, Protocol, ExclusiveCustody, Idle
    <2>2. PhaseOf(cur') = "idle"
      BY <2>1 DEF PhaseOf, Writing, Inv, ExclusiveCustody
    <2>3. \A c \in Buffers :
            PhaseOf(c)' = IF c = cur' THEN "writing" ELSE PhaseOf(c)
      BY <2>1 DEF PhaseOf, Writing, Lent, Idle
    <2>4. Lease!Claim(cur')
      BY <2>1, <2>2, <2>3 DEF Lease!Claim, Lease!Move
    <2> QED  BY <2>1, <2>4 DEF Lease!Next
  <1>3. CASE GetStream
    <2>1. /\ pc = "fetch" /\ pc' = "idle" /\ stage = "open" /\ stage' = "open"
          /\ cur \in Buffers /\ cur' = cur /\ free' = free
          /\ refs' = [refs EXCEPT ![cur] = {Caller}]
          /\ refs \in [Buffers -> SUBSET Holders]
      BY <1>3 DEF GetStream, Inv, Protocol, TypeOK
    <2>2. PhaseOf(cur) = "writing" /\ PhaseOf(cur)' = "lent"
      BY <2>1 DEF PhaseOf, Writing, Lent
    <2>3. \A c \in Buffers \ {cur} : PhaseOf(c)' = PhaseOf(c)
      BY <2>1 DEF PhaseOf, Writing, Lent, Idle
    <2>4. Lease!Lend(cur)
      BY <2>1, <2>2, <2>3, OneMoves DEF Lease!Lend
    <2> QED  BY <2>1, <2>4 DEF Lease!Next
  <1>4. CASE GiveBack
    <2>1. /\ pc = "giveback" /\ pc' = "idle" /\ stage = "open" /\ stage' = "open"
          /\ cur \in Buffers /\ cur' = cur /\ refs' = refs
          /\ free' = Append(free, cur) /\ Writing(cur) /\ ~Idle(cur)
      BY <1>4 DEF GiveBack, Inv, Protocol, TypeOK, Writing, ExclusiveCustody
    <2>2. Range(free') = Range(free) \cup {cur}
      BY <2>1, QueuePush DEF Inv, TypeOK, ExclusiveCustody, Idle
    <2>3. PhaseOf(cur) = "writing" /\ PhaseOf(cur)' = "idle"
      BY <2>1, <2>2 DEF PhaseOf, Writing, Lent, Idle, Inv, ExclusiveCustody
    <2>4. \A c \in Buffers \ {cur} : PhaseOf(c)' = PhaseOf(c)
      BY <2>1, <2>2 DEF PhaseOf, Writing, Lent, Idle
    <2>5. Lease!Release(cur)
      BY <2>1, <2>3, <2>4, OneMoves DEF Lease!Release
    <2> QED  BY <2>1, <2>5 DEF Lease!Next
  <1>5. ASSUME NEW b \in Buffers, NEW h \in Holders, DropLast(b, h)
        PROVE  Lease!Next
    <2>1. /\ refs[b] = {h} /\ stage' = stage /\ stage # "new"
          /\ refs' = [refs EXCEPT ![b] = @ \ {h}]
          /\ refs \in [Buffers -> SUBSET Holders]
          /\ free' = Append(free, b) /\ cur' = cur
          /\ pc' \in {"fetch", "giveback", "crashed"}
               <=> pc \in {"fetch", "giveback", "crashed"}
      BY <1>5 DEF DropLast, Unref, LastOwner, Notify, Lent, Inv, TypeOK, Protocol
    <2>2. Lent(b) /\ ~Idle(b) /\ ~Writing(b)
      BY <2>1 DEF Lent, Inv, ExclusiveCustody
    <2>3. Range(free') = Range(free) \cup {b}
      BY <2>1, <2>2, QueuePush DEF Inv, TypeOK, ExclusiveCustody, Idle
    <2>4. PhaseOf(b) = "lent" /\ PhaseOf(b)' = "idle"
      BY <2>1, <2>2, <2>3 DEF PhaseOf, Writing, Lent, Idle
    <2>5. \A c \in Buffers \ {b} : PhaseOf(c)' = PhaseOf(c)
      BY <2>1, <2>3 DEF PhaseOf, Writing, Lent, Idle
    <2>6. Lease!GiveBack(b)
      BY <2>4, <2>5, OneMoves DEF Lease!GiveBack
    <2> QED  BY <2>6 DEF Lease!Next
  <1>6. CASE Close \/ \E b \in Buffers, h \in Holders : DropFinal(b, h)
    BY <1>6, DisposeSteps DEF Lease!Next
  <1>7. CASE \/ SetFrame \/ Sleep \/ Expire \/ Starve \/ NoStream \/ WriteNull
             \/ \E b \in Buffers, h \in Holders : Share(b, h) \/ DropShared(b, h)
             \/ UNCHANGED vars
    BY <1>7, StutterSteps
  <1> QED
    BY <1>1, <1>2, <1>3, <1>4, <1>5, <1>6, <1>7 DEF Next, EncodeStep, Drop

\* The encoder with its queue, condition variable, reference counts and
\* shared pool implements the lease of each buffer.
THEOREM Refinement == Spec => ImplementsLease
  <1>1. Init => Lease!Init
    BY DEF Init, PhaseOf, Lease!Init
  <1>2. Inv /\ Inv' /\ [Next]_vars => [Lease!Next]_Phase
    BY StepRefines
  <1> QED
    BY <1>1, <1>2, Invariance, PTL DEF Spec, ImplementsLease, Lease!Spec, Phase
=============================================================================
