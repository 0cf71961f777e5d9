SPECIFICATION MCSpec
CONSTANTS
  Streams = {s1, s2}
  BufSize = 2
  Sizes = {1, 2, 3, 5}
  MaxBytes = 5
  MayFail = TRUE
  MayBeShort = TRUE
  Subjects = {"write", "sound", "pipe", "pipes", "formats", "json", "dtd", "graph", "arrays", "alias", "options"}
INVARIANT BufferInBounds
INVARIANT InOrder
INVARIANT RightStream
INVARIANT SoundLosesNothing
INVARIANT CopyIsExact
INVARIANT FormatsExact
 
INVARIANT DtdSound
INVARIANT SerialRoundTrip
INVARIANT OptionsExact
CHECK_DEADLOCK FALSE
