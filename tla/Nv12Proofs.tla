----------------------------- MODULE Nv12Proofs -----------------------------
(***************************************************************************)
(* The layout of Nv12Layout is right for every word size and every size of *)
(* picture: alignment lemmas, and the bounds of both buffers.              *)
(***************************************************************************)
EXTENDS Nv12Layout, TLAPS

\* Arithmetic modulo the word is exact below the word.
LEMMA Exact ==
  ASSUME NEW x \in Nat, x < Word
  PROVE  x % Word = x
BY Nv12Assumption, SMT

\* A sum or product reduced modulo the word is a natural number.
LEMMA Reduced ==
  ASSUME NEW x \in Nat
  PROVE  x % Word \in Nat
BY Nv12Assumption, SMT

\* get_16byte_aligned_stride() returns the next multiple of 16.
LEMMA StrideAligns ==
  ASSUME NEW w \in 1 .. Word - 16
  PROVE  /\ Stride(w) \in Nat
         /\ Stride(w) % 16 = 0
         /\ w <= Stride(w) /\ Stride(w) <= w + 15
<1>1. w \in Nat /\ w + 15 \in Nat /\ w + 15 < Word
  BY Nv12Assumption, SMT
<1>2. Add(w, 15) = w + 15
  BY <1>1, Exact DEF Add
<1>3. Stride(w) = (w + 15) - ((w + 15) % 16)
  BY <1>2 DEF Stride
<1> QED BY <1>1, <1>3, SMT

\* get_2byte_aligned_height() returns the next even number.
LEMMA HeightAligns ==
  ASSUME NEW h \in 1 .. Word - 16
  PROVE  /\ EvenHeight(h) \in Nat
         /\ EvenHeight(h) % 2 = 0
         /\ h <= EvenHeight(h) /\ EvenHeight(h) <= h + 1
<1>1. h \in Nat /\ h + 1 \in Nat /\ h + 1 < Word
  BY Nv12Assumption, SMT
<1>2. Add(h, 1) = h + 1
  BY <1>1, Exact DEF Add
<1>3. EvenHeight(h) = (h + 1) - ((h + 1) % 2)
  BY <1>2 DEF EvenHeight
<1> QED BY <1>1, <1>3, SMT

\* Multiplication is monotone.
LEMMA TimesMonotone ==
  ASSUME NEW a \in Nat, NEW b \in Nat, NEW c \in Nat, a <= b
  PROVE  a * c \in Nat /\ a * c <= b * c
<1>1. PICK d \in Nat : b = a + d
  BY SMT
<1>2. b * c = a * c + d * c
  BY <1>1, SMT
<1>3. a * c \in Nat /\ d * c \in Nat
  BY <1>1, SMT
<1> QED BY <1>2, <1>3, SMT

\* n rows of len bytes fit where m rows of stride bytes do.
LEMMA RowsFit ==
  ASSUME NEW begin \in Nat, NEW n \in Nat, NEW m \in Nat, NEW len \in Nat, NEW stride \in Nat,
         1 <= n, n <= m, len <= stride
  PROVE  PlaneEnd(begin, n, len, stride) <= begin + m * stride
<1>1. (n - 1) * stride + stride = n * stride
  BY SMT
<1>2. n * stride <= m * stride /\ n * stride \in Nat
  BY TimesMonotone
<1>3. m * stride \in Nat /\ (n - 1) * stride \in Int
  BY SMT
<1> QED BY <1>1, <1>2, <1>3, SMT DEF PlaneEnd

\* The last write to a plane of at least one row ends at a natural number.
LEMMA PlaneEndNat ==
  ASSUME NEW begin \in Nat, NEW n \in Nat, NEW len \in Nat, NEW stride \in Nat, 1 <= n
  PROVE  PlaneEnd(begin, n, len, stride) \in Nat
<1>1. n - 1 \in Nat
  BY SMT
<1>2. (n - 1) * stride \in Nat
  BY <1>1, SMT
<1> QED BY <1>2, SMT DEF PlaneEnd

----------------------------------------------------------------------------
\* The aligned size, and what the arithmetic gives for it.
LEMMA AlignedSize ==
  ASSUME width \in Widths, height \in Heights
  PROVE  /\ width \in Nat /\ height \in Nat /\ AlignedW \in Nat /\ AlignedH \in Nat
         /\ AlignedW % 16 = 0 /\ AlignedH % 2 = 0
         /\ 1 <= width /\ width <= AlignedW /\ AlignedW <= width + 15
         /\ 1 <= height /\ height <= AlignedH /\ AlignedH <= height + 1
         /\ YSize \in Nat /\ USize \in Nat
<1>1. width \in 1 .. Word - 16 /\ height \in 1 .. Word - 16
  BY Nv12Assumption
<1>2. /\ AlignedW \in Nat /\ AlignedW % 16 = 0
      /\ width <= AlignedW /\ AlignedW <= width + 15
  BY <1>1, StrideAligns DEF AlignedW
<1>3. /\ AlignedH \in Nat /\ AlignedH % 2 = 0
      /\ height <= AlignedH /\ AlignedH <= height + 1
  BY <1>1, HeightAligns DEF AlignedH
<1>4. width \in Nat /\ height \in Nat /\ 1 <= width /\ 1 <= height
  BY <1>1, Nv12Assumption, SMT
<1>5. AlignedW * AlignedH \in Nat /\ (AlignedW \div 2) * (AlignedH \div 2) \in Nat
  <2>1. AlignedW \div 2 \in Nat /\ AlignedH \div 2 \in Nat
    BY <1>2, <1>3, SMT
  <2> QED BY <1>2, <1>3, <2>1, SMT
<1>6. YSize \in Nat /\ USize \in Nat
  BY <1>5, Reduced DEF YSize, USize, Mul
<1> QED BY <1>2, <1>3, <1>4, <1>6

\* Without wraparound the planes have the sizes NV12 and I420 ask for.
LEMMA ExactSizes ==
  ASSUME width \in Widths, height \in Heights, NoWrap
  PROVE  /\ AlignedW \div 2 \in Nat /\ AlignedH \div 2 \in Nat
         /\ YSize = AlignedW * AlignedH
         /\ USize = (AlignedW \div 2) * (AlignedH \div 2)
         /\ I420Size = YSize + 2 * USize
         /\ Nv12Size(AlignedW, AlignedH) = AlignedH * AlignedW + (AlignedH \div 2) * AlignedW
<1> DEFINE W == AlignedW
           H == AlignedH
           k == H \div 2
           j == W \div 2
<1>1. /\ width \in Nat /\ height \in Nat /\ W \in Nat /\ H \in Nat
      /\ W % 16 = 0 /\ H % 2 = 0 /\ W <= width + 15 /\ H <= height + 1
  BY AlignedSize
<1>2. k \in Nat /\ j \in Nat /\ H = 2 * k /\ W = 2 * j
  BY <1>1, SMT
<1> HIDE DEF W, H, k, j
<1>3. W * H \in Nat /\ j * k \in Nat /\ W * k \in Nat
  BY <1>1, <1>2, SMT
<1>4. W * H <= (width + 15) * (height + 1) /\ (width + 15) * (height + 1) \in Nat
  <2>1. W * H <= (width + 15) * H
    BY <1>1, TimesMonotone
  <2>2. H * (width + 15) <= (height + 1) * (width + 15)
    BY <1>1, TimesMonotone
  <2>3. (width + 15) * H \in Nat /\ (width + 15) * (height + 1) \in Nat
    BY <1>1, SMT
  <2>4. /\ (width + 15) * H = H * (width + 15)
        /\ (height + 1) * (width + 15) = (width + 15) * (height + 1)
    BY <1>1, SMT
  <2> QED BY <1>3, <2>1, <2>2, <2>3, <2>4, SMT
<1>5. 3 * (W * H) < Word
  BY <1>3, <1>4, Nv12Assumption, SMT DEF NoWrap
<1>6. W * H = 2 * (W * k) /\ W * k = 2 * (j * k)
  BY <1>1, <1>2, SMT
<1>7. W * H < Word /\ j * k < Word /\ (j * k) * 2 < Word /\ W * H + (j * k) * 2 < Word
  BY <1>3, <1>5, <1>6, Nv12Assumption, SMT
<1>8. YSize = W * H
  BY <1>3, <1>7, Exact DEF YSize, Mul, W, H
<1>9. USize = j * k
  BY <1>3, <1>7, Exact DEF USize, Mul, j, k, W, H
<1>10. I420Size = YSize + 2 * USize
  <2>1. (j * k) * 2 \in Nat /\ W * H + (j * k) * 2 \in Nat /\ 2 * (j * k) = (j * k) * 2
    BY <1>3, SMT
  <2>2. Mul(j * k, 2) = (j * k) * 2
    BY <1>7, <2>1, Exact DEF Mul
  <2>3. Add(W * H, (j * k) * 2) = W * H + (j * k) * 2
    BY <1>7, <2>1, Exact DEF Add
  <2> QED BY <1>8, <1>9, <2>1, <2>2, <2>3 DEF I420Size
<1>11. Nv12Size(W, H) = H * W + k * W
  <2>1. (W * H) * 3 = 2 * (3 * (W * k)) /\ (W * H) * 3 \in Nat /\ (W * H) * 3 < Word
    BY <1>3, <1>5, <1>6, Nv12Assumption, SMT
  <2>2. Mul(W, H) = W * H
    BY <1>3, <1>7, Exact DEF Mul
  <2>3. Mul(W * H, 3) = 2 * (3 * (W * k))
    BY <2>1, Exact DEF Mul
  <2>4. Nv12Size(W, H) = 3 * (W * k)
    BY <1>3, <2>2, <2>3, SMT DEF Nv12Size
  <2>5. H * W = 2 * (W * k) /\ k * W = W * k
    BY <1>1, <1>2, <1>6, SMT
  <2> QED BY <1>3, <2>4, <2>5, SMT
<1> QED BY <1>2, <1>8, <1>9, <1>10, <1>11 DEF W, H, k, j

----------------------------------------------------------------------------
\* Where the writes end, once a conversion has been done.
Blank420 == [y |-> 0, u |-> 0, v |-> 0]
BlankNv12 == [y |-> 0, uv |-> 0]

Written420 ==
  [y |-> PlaneEnd(0, rows, cols, AlignedW),
   u |-> PlaneEnd(YSize, HalfUp(rows), HalfUp(cols), AlignedW \div 2),
   v |-> PlaneEnd(YSize + USize, HalfUp(rows), HalfUp(cols), AlignedW \div 2)]

WrittenNv12 ==
  [y  |-> PlaneEnd(0, AlignedH, AlignedW, AlignedW),
   uv |-> PlaneEnd(YSize, HalfUp(AlignedH), 2 * HalfUp(AlignedW), AlignedW)]

\* The inductive invariant: each buffer is untouched or holds one picture.
Inv ==
  /\ width \in Widths /\ height \in Heights
  /\ step \in {"configured", "captured", "i420", "nv12"}
  /\ IF step = "configured" THEN cols = 0 /\ rows = 0 ELSE cols \in Widths /\ rows \in Heights
  /\ i420 = IF step \in {"configured", "captured"} THEN Blank420 ELSE Written420
  /\ nv12 = IF step = "nv12" THEN WrittenNv12 ELSE BlankNv12

LEMMA InvInitially == Init => Inv
BY DEF Init, Inv, Blank420, BlankNv12

LEMMA InvKept == Inv /\ [Next]_vars => Inv'
<1> SUFFICES ASSUME Inv, [Next]_vars PROVE Inv'
  OBVIOUS
<1>1. CASE Capture
  BY <1>1 DEF Inv, Capture, Blank420, BlankNv12
<1>2. CASE ToI420
  BY <1>2 DEF Inv, ToI420, Written420, BlankNv12, AlignedW, AlignedH, YSize, USize
<1>3. CASE ToNV12
  BY <1>3 DEF Inv, ToNV12, Written420, WrittenNv12, AlignedW, AlignedH, YSize, USize
<1>4. CASE UNCHANGED vars
  BY <1>4 DEF Inv, vars, Written420, WrittenNv12, AlignedW, AlignedH, YSize, USize
<1> QED BY <1>1, <1>2, <1>3, <1>4 DEF Next

\* Halving up.
LEMMA HalfUpBounds ==
  ASSUME NEW n \in Nat, NEW m \in Nat, n <= m, m % 2 = 0
  PROVE  /\ HalfUp(n) \in Nat /\ HalfUp(n) <= m \div 2 /\ m \div 2 \in Nat
         /\ HalfUp(m) = m \div 2
         /\ 1 <= n => 1 <= HalfUp(n)
BY SMT DEF HalfUp

\* The halves of sizes that were never checked against each other.
LEMMA HalfUpNat ==
  ASSUME NEW n \in Nat
  PROVE  HalfUp(n) \in Nat /\ (1 <= n => 1 <= HalfUp(n))
BY SMT DEF HalfUp

LEMMA InvTypes == Inv => TypeOK
<1> SUFFICES ASSUME Inv PROVE TypeOK
  OBVIOUS
<1> USE DEF Inv
<1>1. /\ AlignedW \in Nat /\ AlignedH \in Nat /\ YSize \in Nat /\ USize \in Nat
      /\ 1 <= AlignedH
  BY AlignedSize, SMT
<1>2. /\ AlignedW \div 2 \in Nat /\ YSize + USize \in Nat
      /\ HalfUp(AlignedH) \in Nat /\ 1 <= HalfUp(AlignedH)
      /\ 2 * HalfUp(AlignedW) \in Nat
  BY <1>1, HalfUpNat, SMT
<1>3. WrittenNv12 \in [y : Nat, uv : Nat]
  <2>1. PlaneEnd(0, AlignedH, AlignedW, AlignedW) \in Nat
    BY <1>1, PlaneEndNat
  <2>2. PlaneEnd(YSize, HalfUp(AlignedH), 2 * HalfUp(AlignedW), AlignedW) \in Nat
    BY <1>1, <1>2, PlaneEndNat
  <2> QED BY <2>1, <2>2 DEF WrittenNv12
<1>4. ASSUME step # "configured" PROVE Written420 \in Ends
  <2>1. cols \in Nat /\ rows \in Nat /\ 1 <= rows
    <3>1. step # "configured"
      BY <1>4
    <3>2. cols \in 1 .. Word - 16 /\ rows \in 1 .. Word - 16
      BY <3>1, Nv12Assumption
    <3> QED BY <3>2, Nv12Assumption, SMT
  <2>2. HalfUp(rows) \in Nat /\ 1 <= HalfUp(rows) /\ HalfUp(cols) \in Nat
    BY <2>1, HalfUpNat
  <2>3. PlaneEnd(0, rows, cols, AlignedW) \in Nat
    BY <1>1, <2>1, PlaneEndNat
  <2>4. PlaneEnd(YSize, HalfUp(rows), HalfUp(cols), AlignedW \div 2) \in Nat
    BY <1>1, <1>2, <2>2, PlaneEndNat
  <2>5. PlaneEnd(YSize + USize, HalfUp(rows), HalfUp(cols), AlignedW \div 2) \in Nat
    BY <1>2, <2>2, PlaneEndNat
  <2> QED BY <2>3, <2>4, <2>5 DEF Written420, Ends
<1>5. Blank420 \in Ends /\ BlankNv12 \in [y : Nat, uv : Nat]
  BY DEF Blank420, BlankNv12, Ends
<1> QED BY <1>3, <1>4, <1>5 DEF TypeOK

LEMMA InvBounds420 == Inv => I420InBounds
<1> SUFFICES ASSUME Inv, NoWrap, Fits PROVE
      i420.y <= YSize /\ i420.u <= YSize + USize /\ i420.v <= I420Size
  BY DEF I420InBounds
<1> USE DEF Inv
<1>1. /\ width \in Nat /\ height \in Nat /\ AlignedW \in Nat /\ AlignedH \in Nat
      /\ width <= AlignedW /\ height <= AlignedH
      /\ AlignedW % 2 = 0 /\ AlignedH % 2 = 0
      /\ YSize \in Nat /\ USize \in Nat
  BY AlignedSize, SMT
<1>2. /\ YSize = AlignedH * AlignedW
      /\ USize = (AlignedH \div 2) * (AlignedW \div 2)
      /\ I420Size = YSize + 2 * USize
      /\ AlignedW \div 2 \in Nat /\ AlignedH \div 2 \in Nat
  BY <1>1, ExactSizes, SMT
<1>3. CASE step \in {"configured", "captured"}
  BY <1>1, <1>2, <1>3, SMT DEF Blank420
<1>4. CASE step \in {"i420", "nv12"}
  <2>1. cols \in Nat /\ rows \in Nat /\ 1 <= rows
    <3>1. step # "configured"
      BY <1>4
    <3>2. cols \in 1 .. Word - 16 /\ rows \in 1 .. Word - 16
      BY <3>1, Nv12Assumption
    <3> QED BY <3>2, Nv12Assumption, SMT
  <2>2. cols <= AlignedW /\ rows <= AlignedH
    BY <1>1, <2>1, SMT DEF Fits
  <2>3. /\ HalfUp(rows) \in Nat /\ 1 <= HalfUp(rows) /\ HalfUp(rows) <= AlignedH \div 2
        /\ HalfUp(cols) \in Nat /\ HalfUp(cols) <= AlignedW \div 2
    BY <1>1, <2>1, <2>2, HalfUpBounds
  <2>4. PlaneEnd(0, rows, cols, AlignedW) <= 0 + AlignedH * AlignedW
    BY <1>1, <2>1, <2>2, RowsFit
  <2>5. PlaneEnd(YSize, HalfUp(rows), HalfUp(cols), AlignedW \div 2) <= YSize + USize
    BY <1>1, <1>2, <2>3, RowsFit
  <2>6. PlaneEnd(YSize + USize, HalfUp(rows), HalfUp(cols), AlignedW \div 2)
          <= (YSize + USize) + USize
    <3>1. YSize + USize \in Nat
      BY <1>1, SMT
    <3> QED BY <1>1, <1>2, <2>3, <3>1, RowsFit
  <2>7. 0 + AlignedH * AlignedW = YSize /\ (YSize + USize) + USize = I420Size
    BY <1>1, <1>2, SMT
  <2>8. i420 = Written420
    BY <1>4
  <2> QED BY <2>4, <2>5, <2>6, <2>7, <2>8 DEF Written420
<1> QED BY <1>3, <1>4

LEMMA InvBoundsNv12 == Inv => Nv12InBounds
<1> SUFFICES ASSUME Inv, NoWrap PROVE
      /\ nv12.y <= YSize
      /\ nv12.uv <= Nv12Size(AlignedW, AlignedH)
      /\ step = "nv12" => nv12.y = YSize /\ nv12.uv = Nv12Size(AlignedW, AlignedH)
  BY DEF Nv12InBounds
<1> USE DEF Inv
<1> DEFINE W == AlignedW
           H == AlignedH
           k == H \div 2
<1>1. /\ W \in Nat /\ H \in Nat /\ W % 2 = 0 /\ H % 2 = 0 /\ YSize \in Nat
  BY AlignedSize, SMT
<1>2. /\ YSize = W * H /\ Nv12Size(W, H) = H * W + k * W /\ k \in Nat
  BY ExactSizes
<1>3. W * H = H * W /\ k * W \in Nat /\ H * W \in Nat
  BY <1>1, <1>2, SMT
<1>4. CASE step # "nv12"
  BY <1>1, <1>2, <1>3, <1>4, SMT DEF BlankNv12
<1>5. CASE step = "nv12"
  <2>1. HalfUp(H) = k /\ 2 * HalfUp(W) = W
    BY <1>1, SMT DEF HalfUp
  <2>2. (H - 1) * W + W = H * W /\ (k - 1) * W + W = k * W
    BY <1>1, <1>2, SMT
  <2>3. PlaneEnd(0, H, W, W) = YSize
    BY <1>1, <1>2, <1>3, <2>2, SMT DEF PlaneEnd
  <2>4. PlaneEnd(YSize, HalfUp(H), 2 * HalfUp(W), W) = YSize + k * W
    <3>1. PlaneEnd(YSize, k, W, W) = YSize + k * W
      <4>1. (k - 1) * W \in Int
        BY <1>1, <1>2, SMT
      <4> HIDE DEF W, k
      <4> QED BY <1>1, <1>2, <1>3, <2>2, <4>1, SMT DEF PlaneEnd
    <3> QED BY <2>1, <3>1
  <2>5. nv12.y = YSize /\ nv12.uv = YSize + k * W
    BY <1>5, <2>3, <2>4 DEF WrittenNv12
  <2>6. YSize + k * W = Nv12Size(W, H)
    BY <1>2, <1>3
  <2> HIDE DEF W, H, k
  <2>7. YSize <= YSize /\ Nv12Size(W, H) <= Nv12Size(W, H)
    BY <1>1, <1>2, <1>3, <2>6, SMT
  <2> QED BY <2>5, <2>6, <2>7 DEF W, H
<1> QED BY <1>4, <1>5

\* Type correctness of the layout: the ends of the writes are addresses.
THEOREM LayoutTyped == Spec => []TypeOK
<1>1. Spec => []Inv
  BY InvInitially, InvKept, PTL DEF Spec
<1> QED BY <1>1, InvTypes, PTL

\* For every configured size and every frame no larger than it, the planes of
\* the intermediate picture stay apart and inside i420_buf.
THEOREM PlanesFit == Spec => []I420InBounds
<1>1. Spec => []Inv
  BY InvInitially, InvKept, PTL DEF Spec
<1> QED BY <1>1, InvBounds420, PTL

\* For every configured size the picture handed to encode() fills exactly the
\* aligned_w * aligned_h * 3 / 2 bytes that Vision_thread allocates.
THEOREM PictureFits == Spec => []Nv12InBounds
<1>1. Spec => []Inv
  BY InvInitially, InvKept, PTL DEF Spec
<1> QED BY <1>1, InvBoundsNv12, PTL
=============================================================================
