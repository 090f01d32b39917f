----------------------------- MODULE Nv12Layout -----------------------------
(***************************************************************************)
(* Memory layout of one picture on its way to the codec: the alignment of  *)
(* the configured size, the NV12 buffer Vision_thread allocates, and what  *)
(* convert_bgr_to_nv12_libyuv() writes into its I420 buffer and into that  *)
(* one. Sizes are uint32_t: arithmetic is modulo Word (2^32 in the code).  *)
(* A plane is known by where it begins and where the last write to it ends.*)
(***************************************************************************)
EXTENDS Integers

CONSTANTS
  Word,         \* 2^32
  Widths, Heights    \* configured sizes, and sizes a camera may deliver

ASSUME Nv12Assumption ==
  /\ Word \in Nat /\ Word % 16 = 0 /\ Word > 0
  /\ Widths \subseteq 1 .. Word - 16 /\ Heights \subseteq 1 .. Word - 16

VARIABLES
  width, height,    \* config.yaml
  cols, rows,       \* the frame cv::VideoCapture delivers
  step,             \* what has been done to the picture
  i420,             \* end of the last write to each plane of i420_buf
  nv12              \* end of the last write to each plane of the NV12 buffer

vars == <<width, height, cols, rows, step, i420, nv12>>

----------------------------------------------------------------------------
(* Sizes                                                                   *)

Mul(a, b) == (a * b) % Word
Add(a, b) == (a + b) % Word

\* Mutant: rounding down.
StrideDown(w) == w - (w % 16)

\* get_16byte_aligned_stride(): (w + 15) & ~15.
Stride(w) == Add(w, 15) - (Add(w, 15) % 16)

\* get_2byte_aligned_height(): (h + 1) & ~1.
EvenHeight(h) == Add(h, 1) - (Add(h, 1) % 2)

AlignedW == Stride(width)
AlignedH == EvenHeight(height)

YSize == Mul(AlignedW, AlignedH)
USize == Mul(AlignedW \div 2, AlignedH \div 2)
I420Size == Add(YSize, Mul(USize, 2))

\* Mutant: only the luminance is allocated.
Nv12SizeY(w, h) == Mul(w, h)

\* aligned_w * aligned_h * 3 / 2
Nv12Size(w, h) == Mul(Mul(w, h), 3) \div 2

\* Where the writes to a plane end: n rows of len bytes, stride bytes apart.
PlaneEnd(begin, n, len, stride) == begin + (n - 1) * stride + len

HalfUp(n) == (n + 1) \div 2

----------------------------------------------------------------------------
Init ==
  /\ width \in Widths /\ height \in Heights
  /\ cols = 0 /\ rows = 0
  /\ step = "configured"
  /\ i420 = [y |-> 0, u |-> 0, v |-> 0]
  /\ nv12 = [y |-> 0, uv |-> 0]

\* Mutant: an empty frame goes on to the conversion.
CaptureEmpty ==
  /\ step = "configured"
  /\ cols' \in Widths \cup {0} /\ rows' \in Heights \cup {0}
  /\ step' = "captured"
  /\ UNCHANGED <<width, height, i420, nv12>>

\* The camera delivers a frame, not an empty one. Nobody checks that the driver took the size
\* that m_cap.set() asked for.
Capture ==
  /\ step = "configured"
  /\ cols' \in Widths /\ rows' \in Heights
  /\ step' = "captured"
  /\ UNCHANGED <<width, height, i420, nv12>>

\* RGB24ToI420 converts the frame's own size, at the aligned stride.
ToI420 ==
  /\ step = "captured"
  /\ i420' =
       [y |-> PlaneEnd(0, rows, cols, AlignedW),
        u |-> PlaneEnd(YSize, HalfUp(rows), HalfUp(cols), AlignedW \div 2),
        v |-> PlaneEnd(YSize + USize, HalfUp(rows), HalfUp(cols), AlignedW \div 2)]
  /\ step' = "i420"
  /\ UNCHANGED <<width, height, cols, rows, nv12>>

\* I420ToNV12 interleaves the aligned size.
ToNV12 ==
  /\ step = "i420"
  /\ nv12' =
       [y  |-> PlaneEnd(0, AlignedH, AlignedW, AlignedW),
        uv |-> PlaneEnd(YSize, HalfUp(AlignedH), 2 * HalfUp(AlignedW), AlignedW)]
  /\ step' = "nv12"
  /\ UNCHANGED <<width, height, cols, rows, i420>>

Next == Capture \/ ToI420 \/ ToNV12

Spec == Init /\ [][Next]_vars

----------------------------------------------------------------------------
(* Properties                                                              *)

Ends == [y : Nat, u : Nat, v : Nat]

\* The type invariant.
TypeOK ==
  /\ width \in Widths /\ height \in Heights
  /\ cols \in Widths \cup {0} /\ rows \in Heights \cup {0}
  /\ step \in {"configured", "captured", "i420", "nv12"}
  /\ i420 \in Ends
  /\ nv12 \in [y : Nat, uv : Nat]

\* No size computation wraps around.
NoWrap == (width + 15) * (height + 1) * 3 < Word

\* The camera delivers no more than the configured size.
Fits == cols <= width /\ rows <= height

\* A frame of at most the configured size, converted at the aligned stride:
\* the planes of the intermediate picture neither overlap nor leave the
\* buffer, for odd sizes and sizes off the alignment too.
I420InBounds ==
  NoWrap /\ Fits =>
    /\ i420.y <= YSize
    /\ i420.u <= YSize + USize
    /\ i420.v <= I420Size

\* The planes handed to the codec stay within the buffer that was allocated
\* for them, and fill it: the codec reads buffer_size bytes.
Nv12InBounds ==
  NoWrap =>
    /\ nv12.y <= YSize
    /\ nv12.uv <= Nv12Size(AlignedW, AlignedH)
    /\ step = "nv12" =>
         nv12.y = YSize /\ nv12.uv = Nv12Size(AlignedW, AlignedH)
=============================================================================
