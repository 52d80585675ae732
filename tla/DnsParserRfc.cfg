SPECIFICATION Spec
CONSTANTS
  RawEvents <- MCLongEvents
  Messages <- MCMessages
INVARIANT QnameWithinRfc1035
