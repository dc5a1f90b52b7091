SPECIFICATION UriSpec
CONSTANTS
  Char = {"a", "/", "?", "&"}
  Uris <- Strings
  MaxLen = 8
  DstLen = 7
\* a message is built and read once
CHECK_DEADLOCK FALSE
INVARIANTS RoundTrip CutNotGarbled StaysInBuffer
