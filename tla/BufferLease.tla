---------------------------- MODULE BufferLease ----------------------------
(***************************************************************************)
(* What the zero-copy bitstream pool of the encoder promises for each of   *)
(* its buffers, with no queue, mutex or reference count: a buffer is       *)
(* allocated once, is written by the codec only while nobody reads it, is  *)
(* lent to the readers of one packet at a time, and is released to the     *)
(* heap exactly once, when no reader can still hold it.                    *)
(* Encoder.tla is shown to implement this specification.                   *)
(***************************************************************************)

CONSTANT Buffers

VARIABLE phase

Phases == {"unborn", "idle", "writing", "lent", "gone"}

Init == phase = [b \in Buffers |-> "unborn"]

\* Buffer b moves from one phase to another; the other buffers stay put.
Move(b, from, to) ==
  /\ phase[b] = from
  /\ phase' = [phase EXCEPT ![b] = to]

\* The whole pool comes into being.
Allocate ==
  /\ \A b \in Buffers : phase[b] = "unborn"
  /\ phase' = [b \in Buffers |-> "idle"]

Claim(b) == Move(b, "idle", "writing")     \* encode() takes a free buffer
Release(b) == Move(b, "writing", "idle")   \* ... and got no stream for it
Lend(b) == Move(b, "writing", "lent")      \* ... or returns it in a packet
GiveBack(b) == Move(b, "lent", "idle")     \* the packet's last reader is done

\* The whole pool goes at once. At most one buffer is still out, the one
\* whose return is the last event in the pool's life.
Dispose ==
  /\ \A b \in Buffers : phase[b] \in {"idle", "lent"}
  /\ \A b, c \in Buffers : phase[b] = "lent" /\ phase[c] = "lent" => b = c
  /\ phase' = [b \in Buffers |-> "gone"]

Next ==
  \/ Allocate
  \/ \E b \in Buffers : Claim(b) \/ Release(b) \/ Lend(b) \/ GiveBack(b)
  \/ Dispose

Spec == Init /\ [][Next]_phase
=============================================================================
