------------------------------ MODULE Encoder ------------------------------
(***************************************************************************)
(* hal::RDKX5Encoder: the hardware codec behind it, the pool of bitstream  *)
(* buffers, encode() with its wait, its retries and its two failure paths, *)
(* and the custom deleter that brings a buffer home when the last          *)
(* shared_ptr to its packet goes.                                          *)
(*                                                                         *)
(* One thread calls open(), encode() and close(), as Vision_thread does.   *)
(* Packets may be held and dropped by any of Holders, on any thread and at *)
(* any time, close() included. A critical section of BufferPool::mtx is    *)
(* one action. The codec is external: a FIFO of at most HwDepth pictures   *)
(* that have been set and whose stream has not been fetched.               *)
(***************************************************************************)
EXTENDS Naturals, Sequences, Functions

CONSTANTS
  PoolCapacity,    \* POOL_CAPACITY (5 in the code)
  MaxRetries,      \* max_retries (3 in the code)
  HwDepth,         \* pictures the codec can hold (external)
  MaxFrames,       \* bound: pictures submitted in one behaviour
  Holders,         \* owners of shared_ptr copies of a packet's data
  Caller,          \* the owner that receives encode()'s result
  MallocMayFail    \* whether malloc in open() may return null

ASSUME EncoderAssumption ==
  /\ PoolCapacity \in Nat \ {0}
  /\ MaxRetries \in Nat \ {0}
  /\ HwDepth \in Nat \ {0}
  /\ MaxFrames \in Nat
  /\ Caller \in Holders
  /\ MallocMayFail \in BOOLEAN

VARIABLES
  stage,       \* m_is_opened, m_enc_obj and m_pool: "new", "open", "closed";
               \* "crashed" once the codec was handed a null pointer
  heap,        \* the buffers malloc returned that are not freed
  free,        \* BufferPool::free_buffers
  refs,        \* refs[b]: the owners of a shared_ptr to buffer b
  pc,          \* where the thread inside encode() is
  cur,         \* stream_buffer; NoBuffer is nullptr
  retry,       \* retry_count
  content,     \* content[b]: the picture whose stream buffer b holds
  hw,          \* pictures inside the codec, oldest first
  submitted    \* pictures sp_encoder_set_frame has accepted

vars == <<stage, heap, free, refs, pc, cur, retry, content, hw, submitted>>

Buffers == 1..PoolCapacity
NoBuffer == 0

Idle(b) == b \in Range(free)
Writing(b) == pc \in {"fetch", "giveback", "crashed"} /\ cur = b
Lent(b) == refs[b] # {}

Init ==
  /\ stage = "new"
  /\ heap = {}
  /\ free = <<>>
  /\ refs = [b \in Buffers |-> {}]
  /\ pc = "idle"
  /\ cur = NoBuffer
  /\ retry = 0
  /\ content = [b \in Buffers |-> 0]
  /\ hw = <<>>
  /\ submitted = 0

----------------------------------------------------------------------------
(* open() and close()                                                      *)

\* Every slot of the pool is pushed, also one whose malloc returned null.
\* A failed sp_init or sp_start returns false and changes nothing; a second
\* call returns true and changes nothing. The one encoder of the program is
\* opened once: a second pool, after close(), is not modelled.
Open ==
  /\ stage = "new"
  /\ stage' = "open"
  /\ heap' \in IF MallocMayFail THEN SUBSET Buffers ELSE {Buffers}
  /\ free' = [i \in Buffers |-> i]
  /\ UNCHANGED <<refs, pc, cur, retry, content, hw, submitted>>

\* ~BufferPool: every queued pointer that is not null is freed.
DestroyPool(queued) ==
  /\ heap' = heap \ queued
  /\ free' = <<>>

\* Mutant: close() frees the pool although packets are still out.
CloseEager ==
  /\ stage = "open" /\ pc = "idle"
  /\ stage' = "closed"
  /\ hw' = <<>>
  /\ DestroyPool(Buffers)
  /\ UNCHANGED <<refs, pc, cur, retry, content, submitted>>

\* Mutant: close() forgets m_pool.reset().
CloseKeepsPool ==
  /\ stage = "open" /\ pc = "idle"
  /\ stage' = "closed"
  /\ hw' = <<>>
  /\ UNCHANGED <<heap, free, refs, pc, cur, retry, content, submitted>>

\* The codec is stopped and m_pool reset. The deleters of packets still out
\* own the pool too, so it dies here only when there is none.
Close ==
  /\ stage = "open" /\ pc = "idle"
  /\ stage' = "closed"
  /\ hw' = <<>>
  /\ IF \E b \in Buffers : Lent(b)
       THEN UNCHANGED <<heap, free>>
       ELSE DestroyPool(Range(free))
  /\ UNCHANGED <<refs, pc, cur, retry, content, submitted>>

----------------------------------------------------------------------------
(* encode(), step by step                                                  *)

\* sp_encoder_set_frame accepts the picture. (When it fails encode() returns
\* an empty packet with nothing changed.)
SetFrame ==
  /\ stage = "open" /\ pc = "idle"
  /\ Len(hw) < HwDepth /\ submitted < MaxFrames
  /\ submitted' = submitted + 1
  /\ hw' = Append(hw, submitted + 1)
  /\ pc' = "wait"
  /\ UNCHANGED <<stage, heap, free, refs, cur, retry, content>>

\* The predicate of cv.wait_for holds, at once, after a notification or when
\* it is evaluated a last time at the deadline.
TakeBuffer ==
  /\ pc \in {"wait", "expired"} /\ free # <<>>
  /\ cur' = Head(free)
  /\ free' = Tail(free)
  /\ retry' = 0
  /\ pc' = "fetch"
  /\ UNCHANGED <<stage, heap, refs, content, hw, submitted>>

\* The pool is empty: the thread blocks on the condition variable.
Sleep ==
  /\ pc = "wait" /\ free = <<>>
  /\ pc' = "asleep"
  /\ UNCHANGED <<stage, heap, free, refs, cur, retry, content, hw, submitted>>

\* Mutant: a wait without a deadline.
ExpireNever ==
  /\ pc = "asleep"
  /\ UNCHANGED vars

\* Mutant: a loop around a plain wait_for, which waits the whole time again.
ExpireWaitsAgain ==
  /\ pc = "asleep"
  /\ pc' = IF free = <<>> THEN "wait" ELSE "expired"
  /\ UNCHANGED <<stage, heap, free, refs, cur, retry, content, hw, submitted>>

\* timeout_ms elapse before a notification; the mutex is not yet reacquired.
Expire ==
  /\ pc = "asleep"
  /\ pc' = "expired"
  /\ UNCHANGED <<stage, heap, free, refs, cur, retry, content, hw, submitted>>

\* encode() returns an empty packet. The picture it set stays in the codec.
Starve ==
  /\ pc = "expired" /\ free = <<>>
  /\ pc' = "idle"
  /\ UNCHANGED <<stage, heap, free, refs, cur, retry, content, hw, submitted>>

\* sp_encoder_get_stream yields the oldest stream; the packet is assembled.
GetStream ==
  /\ pc = "fetch" /\ cur \in heap /\ hw # <<>>
  /\ content' = [content EXCEPT ![cur] = Head(hw)]
  /\ hw' = Tail(hw)
  /\ refs' = [refs EXCEPT ![cur] = {Caller}]
  /\ pc' = "idle"
  /\ UNCHANGED <<stage, heap, free, cur, retry, submitted>>

\* Mutant: the buffer is pushed on each failed attempt, not after the last.
NoStreamPushes ==
  /\ pc = "fetch"
  /\ retry' = retry + 1
  /\ pc' = IF retry + 1 < MaxRetries THEN "fetch" ELSE "giveback"
  /\ free' = Append(free, cur)
  /\ UNCHANGED <<stage, heap, refs, cur, content, hw, submitted>>

\* Mutant: the retries are counted but not limited.
NoStreamForever ==
  /\ pc = "fetch"
  /\ retry' = retry + 1
  /\ UNCHANGED <<stage, heap, free, refs, pc, cur, content, hw, submitted>>

\* sp_encoder_get_stream has no stream yet: retry, or give up.
NoStream ==
  /\ pc = "fetch"
  /\ retry' = retry + 1
  /\ pc' = IF retry + 1 < MaxRetries THEN "fetch" ELSE "giveback"
  /\ UNCHANGED <<stage, heap, free, refs, cur, content, hw, submitted>>

\* sp_encoder_get_stream writes through the null pointer it was given.
WriteNull ==
  /\ pc = "fetch" /\ cur \notin heap /\ hw # <<>>
  /\ stage' = "crashed"
  /\ pc' = "crashed"
  /\ UNCHANGED <<heap, free, refs, cur, retry, content, hw, submitted>>

\* Mutant: the error path returns without pushing the buffer back.
GiveBackLeak ==
  /\ pc = "giveback"
  /\ pc' = "idle"
  /\ UNCHANGED <<stage, heap, free, refs, cur, retry, content, hw, submitted>>

\* After the last retry the buffer goes back to the pool.
GiveBack ==
  /\ pc = "giveback"
  /\ free' = Append(free, cur)
  /\ pc' = "idle"
  /\ UNCHANGED <<stage, heap, refs, cur, retry, content, hw, submitted>>

----------------------------------------------------------------------------
(* The packet's shared_ptr<uint8_t>                                        *)

\* Some owner of b hands a copy to h.
Share(b, h) ==
  /\ stage # "crashed"
  /\ Lent(b)
  /\ refs' = [refs EXCEPT ![b] = @ \cup {h}]
  /\ UNCHANGED <<stage, heap, free, pc, cur, retry, content, hw, submitted>>

\* h drops its copy of b.
Unref(b, h) ==
  /\ stage # "crashed"
  /\ h \in refs[b]
  /\ refs' = [refs EXCEPT ![b] = @ \ {h}]
  /\ UNCHANGED <<stage, cur, retry, content, hw, submitted>>

LastOwner(b, h) == refs[b] = {h}
OthersLent(b) == \E c \in Buffers \ {b} : Lent(c)

\* notify_one(): encode(), if it sleeps, evaluates its predicate again.
Notify == pc' = IF pc = "asleep" THEN "wait" ELSE pc

DropShared(b, h) ==
  /\ ~LastOwner(b, h)
  /\ Unref(b, h)
  /\ UNCHANGED <<heap, free, pc>>

\* Mutant: the deleter pushes the buffer but does not notify.
DropLastSilent(b, h) ==
  /\ LastOwner(b, h)
  /\ stage = "open" \/ OthersLent(b)
  /\ Unref(b, h)
  /\ free' = Append(free, b)
  /\ UNCHANGED <<heap, pc>>

\* The deleter runs and others keep the pool alive.
DropLast(b, h) ==
  /\ LastOwner(b, h)
  /\ stage = "open" \/ OthersLent(b)
  /\ Unref(b, h)
  /\ free' = Append(free, b)
  /\ Notify
  /\ UNCHANGED heap

\* The deleter held the last reference to the pool: ~BufferPool follows.
DropFinal(b, h) ==
  /\ LastOwner(b, h)
  /\ stage # "open" /\ ~OthersLent(b)
  /\ Unref(b, h)
  /\ DestroyPool(Range(free) \cup {b})
  /\ UNCHANGED pc

\* Mutant: any owner's drop runs the deleter, as a raw pointer would.
DropUncounted(b, h) ==
  /\ Unref(b, h)
  /\ free' = Append(free, b)
  /\ Notify
  /\ UNCHANGED heap

Drop(b, h) == DropShared(b, h) \/ DropLast(b, h) \/ DropFinal(b, h)

----------------------------------------------------------------------------
EncodeStep ==
  \/ TakeBuffer \/ Sleep \/ Expire \/ Starve
  \/ GetStream \/ NoStream \/ WriteNull \/ GiveBack

Next ==
  \/ Open \/ Close \/ SetFrame \/ EncodeStep
  \/ \E b \in Buffers, h \in Holders : Share(b, h) \/ Drop(b, h)

Spec == Init /\ [][Next]_vars

\* Inside encode() the thread is runnable or in a timed wait or sleep, so it
\* takes its next step. Nothing makes a holder drop its packet.
FairSpec == Spec /\ WF_vars(EncodeStep)

----------------------------------------------------------------------------
(* Properties                                                              *)

Stages == {"new", "open", "closed", "crashed"}
EncodePoints ==
  {"idle", "wait", "asleep", "expired", "fetch", "giveback", "crashed"}

\* The type invariant.
TypeOK ==
  /\ stage \in Stages
  /\ heap \in SUBSET Buffers
  /\ free \in Seq(Buffers)
  /\ refs \in [Buffers -> SUBSET Holders]
  /\ pc \in EncodePoints
  /\ cur \in Buffers \cup {NoBuffer}
  /\ retry \in 0..MaxRetries
  /\ content \in [Buffers -> 0..MaxFrames]
  /\ hw \in Seq(1..MaxFrames)
  /\ submitted \in 0..MaxFrames

\* The encoder or some packet's deleter owns the pool.
PoolAlive == stage \in {"open", "crashed"} \/ \E b \in Buffers : Lent(b)

\* Every buffer is queued once, or in encode()'s hands, or lent to readers,
\* and never two of these: none is lost on an error path of encode(), none
\* is pushed twice, none is handed out while a reader has it.
ExclusiveCustody ==
  /\ IsInjective(free)
  /\ \A b \in Buffers :
       /\ ~(Idle(b) /\ (Writing(b) \/ Lent(b)))
       /\ ~(Writing(b) /\ Lent(b))
       /\ PoolAlive => Idle(b) \/ Writing(b) \/ Lent(b)

\* Memory that a reader or the codec can still touch has not been freed,
\* although close() may come while packets are out. (A buffer the codec is
\* about to write may only be missing because malloc failed in open(), of which
\* nothing is claimed.)
NoUseAfterFree ==
  \A b \in Buffers :
    /\ Lent(b) => b \in heap
    /\ Writing(b) /\ ~MallocMayFail => b \in heap

\* Once the encoder is closed and the last packet is gone, by whichever of
\* the two came last, nothing is left on the heap.
NoLeak ==
  stage = "closed" /\ (\A b \in Buffers : ~Lent(b)) => heap = {}

\* encode() never sleeps beside a buffer it could take: whoever returns one
\* also wakes it. (That no push falls between the predicate and the wait is
\* the mutex's doing, under which Sleep is one action.)
NoLostWakeup == pc = "asleep" => free = <<>>

\* The bytes of a packet do not change while anyone can read them.
LentStable ==
  [][\A b \in Buffers : refs[b] # {} /\ refs'[b] # {}
                          => content'[b] = content[b]]_vars

\* A call of encode() returns whatever the codec and the packets' holders
\* do: the wait has a deadline and the retries a limit. (Or the process has
\* crashed on a null pointer from a failed malloc.)
EncodeReturns == pc # "idle" ~> pc \in {"idle", "crashed"}

\* The steps encode() may still make: it sleeps at most once, a buffer that
\* comes home wakes it for good, and then only the attempts at a stream are
\* left.
StepsLeft ==
  [idle |-> 0, crashed |-> 0, giveback |-> 1,
   fetch |-> MaxRetries + 1 - retry,
   expired |-> MaxRetries + 2,
   asleep |-> MaxRetries + 3,
   wait |-> IF free = <<>> THEN MaxRetries + 4 ELSE MaxRetries + 2][pc]

\* Each step of the thread inside encode() brings it nearer to its return,
\* and nothing the packets' holders do in between sends it back.
EncodeAdvances ==
  [][/\ pc # "idle" => StepsLeft' <= StepsLeft
     /\ EncodeStep => StepsLeft' < StepsLeft]_vars

\* The abstract view of a buffer.
PhaseOf(b) ==
  IF stage = "new" THEN "unborn"
  ELSE IF Writing(b) THEN "writing"
  ELSE IF Lent(b) THEN "lent"
  ELSE IF Idle(b) THEN "idle"
  ELSE "gone"

Lease == INSTANCE BufferLease WITH phase <- [b \in Buffers |-> PhaseOf(b)]

\* Queue, condition variable, reference counts and the shared ownership of
\* the pool together implement the lease of BufferLease.
ImplementsLease == Lease!Spec
=============================================================================
