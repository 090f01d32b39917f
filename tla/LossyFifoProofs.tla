--------------------------- MODULE LossyFifoProofs ---------------------------
(***************************************************************************)
(* What the implementations of LossyFifo have from it.                     *)
(***************************************************************************)
EXTENDS LossyFifo, TLAPS

LEMMA OrderedStep == Ordered /\ [Next]_fifo => Ordered'
  <1> SUFFICES ASSUME Ordered, [Next]_fifo PROVE Ordered'
    OBVIOUS
  <1>1. \A f \in pending : f \in Nat /\ taken < f /\ f <= given
    BY DEF Ordered
  <1>2. CASE Give
    BY <1>2 DEF Give, Ordered
  <1>3. CASE Lose
    BY <1>3 DEF Lose, Ordered
  <1>4. CASE Take
    <2>1. taken' \in 0..given' /\ given' \in Nat
      BY <1>1, <1>4 DEF Take, Ordered
    <2>2. \A f \in pending' : f \in Nat /\ taken' < f /\ f <= given'
      BY <1>1, <1>4 DEF Take
    <2> QED BY <2>1, <2>2 DEF Ordered
  <1>5. CASE UNCHANGED fifo
    BY <1>5 DEF fifo, Ordered
  <1> QED BY <1>2, <1>3, <1>4, <1>5 DEF Next

\* Both ends of the link (the bitstream queue of hal_Encoder.hpp and the frame
\* queue of gstvideoreceiver.cpp): what may still come out is newer than what
\* did.
THEOREM AlwaysOrdered == Spec => []Ordered
  <1>1. Init => Ordered
    BY DEF Init, Ordered
  <1> QED BY <1>1, OrderedStep, PTL DEF Spec

\* A picture that comes out is newer than every one that came out before.
THEOREM NeverBack == Spec => [][taken' = taken \/ taken' > taken]_fifo
  <1>1. Ordered /\ [Next]_fifo => [taken' = taken \/ taken' > taken]_fifo
    <2> SUFFICES ASSUME Ordered, Next
                 PROVE  taken' = taken \/ taken' > taken
      BY DEF fifo
    <2>1. CASE Take
      BY <2>1 DEF Take, Ordered
    <2>2. CASE Give \/ Lose
      BY <2>2 DEF Give, Lose
    <2> QED BY <2>1, <2>2 DEF Next
  <1> QED BY <1>1, AlwaysOrdered, PTL DEF Spec
=============================================================================
