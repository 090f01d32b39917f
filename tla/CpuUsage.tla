------------------------------ MODULE CpuUsage ------------------------------
(***************************************************************************)
(* SystemMonitor::getCpuUsage() of the edge board: the share of the time   *)
(* between two reads of /proc/stat in which the CPU was busy, computed in  *)
(* unsigned arithmetic modulo Word (2^64 in the code). A SystemMonitor is  *)
(* made for each accepted client, so last is the sample of its creation or *)
(* of the report before.                                                   *)
(***************************************************************************)
EXTENDS Integers, TLAPS

CONSTANT Word

Counter == 0..(Word - 1)
Sample == [user : Counter, low : Counter, sys : Counter, idle : Counter]

Diff(now, last) == (now - last) % Word

Active(now, last) ==
  (Diff(now.user, last.user) + Diff(now.low, last.low) + Diff(now.sys, last.sys))
    % Word

All(now, last) == (Active(now, last) + Diff(now.idle, last.idle)) % Word

\* total_all and total_active as reported: 0 when no time has passed.
Usage(now, last) ==
  IF All(now, last) = 0 THEN [part |-> 0, whole |-> 1]
                        ELSE [part |-> Active(now, last), whole |-> All(now, last)]

----------------------------------------------------------------------------
Elapsed(now, last) ==
  (now.user - last.user) + (now.low - last.low) + (now.sys - last.sys)
    + (now.idle - last.idle)

\* The kernel's counters have grown, and by less than a word in all.
Grown(now, last) ==
  /\ now.user >= last.user /\ now.low >= last.low
  /\ now.sys >= last.sys /\ now.idle >= last.idle
  /\ Elapsed(now, last) < Word

\* Arithmetic modulo the word is exact below the word.
LEMMA Exact ==
  ASSUME Word \in Nat \ {0}, NEW x \in Nat, x < Word
  PROVE  x % Word = x
BY SMT

\* Of a counter that has grown the difference is the growth.
LEMMA DiffGrown ==
  ASSUME Word \in Nat \ {0}, NEW a \in Counter, NEW b \in Counter, a >= b
  PROVE  Diff(a, b) = a - b
<1>1. a - b \in Nat /\ a - b < Word
  BY SMT DEF Counter
<1> QED BY <1>1, Exact DEF Diff

\* Of a counter that went back the difference is almost a whole word.
LEMMA DiffBack ==
  ASSUME Word \in Nat \ {0}, NEW a \in Counter, NEW b \in Counter, a < b
  PROVE  Diff(a, b) = (a - b) + Word
BY SMT DEF Diff, Counter

\* Busy time is the growth of its three counters, whatever idle does.
LEMMA ActiveGrown ==
  ASSUME Word \in Nat \ {0}, NEW now \in Sample, NEW last \in Sample,
         now.user >= last.user, now.low >= last.low, now.sys >= last.sys,
         (now.user - last.user) + (now.low - last.low) + (now.sys - last.sys) < Word
  PROVE  /\ Active(now, last) = (now.user - last.user) + (now.low - last.low)
                                  + (now.sys - last.sys)
         /\ Active(now, last) \in Nat
<1>1. /\ now.user \in Counter /\ now.low \in Counter /\ now.sys \in Counter
      /\ last.user \in Counter /\ last.low \in Counter /\ last.sys \in Counter
  BY DEF Sample
<1>2. /\ Diff(now.user, last.user) = now.user - last.user
      /\ Diff(now.low, last.low) = now.low - last.low
      /\ Diff(now.sys, last.sys) = now.sys - last.sys
  BY <1>1, DiffGrown
<1> DEFINE s == (now.user - last.user) + (now.low - last.low) + (now.sys - last.sys)
<1>3. s \in Nat /\ s < Word
  BY <1>1, SMT DEF Counter
<1>4. s % Word = s
  BY <1>3, Exact
<1> QED BY <1>2, <1>3, <1>4 DEF Active

\* The reported share (SystemMonitor.cpp:66) is one between nothing and the
\* whole, and is never a division by zero, as long as the counters of
\* /proc/stat grow; how long the two reads are apart does not matter.
THEOREM UsageInRange ==
  ASSUME Word \in Nat \ {0}, NEW now \in Sample, NEW last \in Sample,
         Grown(now, last)
  PROVE  /\ Usage(now, last).whole \in Nat \ {0}
         /\ Usage(now, last).part \in 0..Usage(now, last).whole
<1>1. /\ now.user \in Counter /\ now.low \in Counter /\ now.sys \in Counter
      /\ last.user \in Counter /\ last.low \in Counter /\ last.sys \in Counter
      /\ now.idle \in Counter /\ last.idle \in Counter
  BY DEF Sample
<1>2. (now.user - last.user) + (now.low - last.low) + (now.sys - last.sys) < Word
  BY <1>1, SMT DEF Grown, Elapsed, Counter
<1>3. /\ Active(now, last) = (now.user - last.user) + (now.low - last.low)
                               + (now.sys - last.sys)
      /\ Active(now, last) \in Nat
  BY <1>2, ActiveGrown DEF Grown
<1>4. Diff(now.idle, last.idle) = now.idle - last.idle
  BY <1>1, DiffGrown DEF Grown
<1> DEFINE s == Active(now, last) + (now.idle - last.idle)
<1>5. s \in Nat /\ s < Word /\ Active(now, last) <= s
  BY <1>1, <1>3, SMT DEF Grown, Elapsed, Counter
<1>6. All(now, last) = s
  BY <1>4, <1>5, Exact DEF All
<1> QED BY <1>3, <1>5, <1>6 DEF Usage

\* The growth is needed: when idle goes back by one tick, as that counter of
\* /proc/stat may, and the CPU was busy for two ticks or more, the part is
\* larger than the whole and the report is above 100 percent.
THEOREM UsageAboveWhole ==
  ASSUME Word \in Nat \ {0}, NEW now \in Sample, NEW last \in Sample,
         now.user >= last.user, now.low >= last.low, now.sys >= last.sys,
         (now.user - last.user) + (now.low - last.low) + (now.sys - last.sys)
           \in 2..(Word - 1),
         now.idle = last.idle - 1
  PROVE  Usage(now, last).part > Usage(now, last).whole
<1>1. /\ now.user \in Counter /\ now.low \in Counter /\ now.sys \in Counter
      /\ last.user \in Counter /\ last.low \in Counter /\ last.sys \in Counter
      /\ now.idle \in Counter /\ last.idle \in Counter
  BY DEF Sample
<1>2. (now.user - last.user) + (now.low - last.low) + (now.sys - last.sys) < Word
  BY <1>1, SMT DEF Counter
<1> DEFINE a == Active(now, last)
<1>3. a \in 2..(Word - 1)
  BY <1>2, ActiveGrown
<1>4. Diff(now.idle, last.idle) = Word - 1
  <2>1. now.idle < last.idle
    BY <1>1, SMT DEF Counter
  <2>2. Diff(now.idle, last.idle) = (now.idle - last.idle) + Word
    BY <1>1, <2>1, DiffBack
  <2> QED BY <1>1, <2>2, SMT DEF Counter
<1>5. All(now, last) = a - 1
  <2>1. (a + (Word - 1)) % Word = a - 1
    BY <1>3, SMT
  <2> QED BY <1>4, <2>1 DEF All
<1> QED BY <1>3, <1>5, SMT DEF Usage
=============================================================================
