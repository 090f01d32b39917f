\* Widths around two multiples of 16, odd and even heights, and a word small
\* enough that the largest sizes wrap around.
CONSTANTS
  Word = 768
  Widths = {1, 2, 15, 16, 17, 31, 32, 33}
  Heights = {1, 2, 3, 4, 7}
SPECIFICATION Spec
INVARIANTS TypeOK I420InBounds Nv12InBounds
CHECK_DEADLOCK FALSE
