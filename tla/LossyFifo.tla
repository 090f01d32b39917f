----------------------------- MODULE LossyFifo -----------------------------
(***************************************************************************)
(* What both ends of the video link promise about pictures: they come out  *)
(* in the order they went in, at most once, and some may be lost. Pictures *)
(* are numbered as they go in. Nothing is said of queues, buffers, threads *)
(* or of how many pictures may wait.                                       *)
(***************************************************************************)
EXTENDS Naturals

VARIABLES
  given,     \* the last picture that went in
  pending,   \* the pictures that may still come out
  taken      \* the last picture that came out

fifo == <<given, pending, taken>>

Init == given = 0 /\ pending = {} /\ taken = 0

Give ==
  /\ given' = given + 1
  /\ pending' = pending \cup {given + 1}
  /\ UNCHANGED taken

Lose ==
  /\ pending' \in SUBSET pending
  /\ UNCHANGED <<given, taken>>

\* What an older picture leaves behind has to be newer.
Take ==
  /\ taken' \in pending
  /\ pending' = pending \ {taken'}
  /\ \A f \in pending' : f > taken'
  /\ UNCHANGED given

Next == Give \/ Lose \/ Take

Spec == Init /\ [][Next]_fifo

----------------------------------------------------------------------------
\* Each picture that may still come out is newer than the last that did, and
\* has gone in.
Ordered ==
  /\ given \in Nat /\ taken \in 0..given
  /\ pending \subseteq (taken + 1)..given
=============================================================================
