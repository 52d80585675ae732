SPECIFICATION Spec
CONSTANTS
  RawEvents <- MCRawEvents
  Messages <- MCMessages
INVARIANT EveryAnswerDecoded
