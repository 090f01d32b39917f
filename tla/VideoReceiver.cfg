\* Three starts: a failed one and a restart after it, with frames of the first
\* pipeline still queued; four pictures.
CONSTANTS
  MaxFrames = 4
  MaxStarts = 3
SPECIFICATION FairSpec
INVARIANTS TypeOK ReferencesBalanced CallbackSafe
PROPERTIES RenderedSafely ImplementsFifo StopAdvances StopReturns PictureShown
CHECK_DEADLOCK FALSE
