SPECIFICATION FairSpec
CONSTANTS
  RawEvents <- MCRawEvents
  Messages <- MCMessages
INVARIANTS TypeOK IndexSafe FamilyBacked DomainBounded QuestionExact SingleAnswerExact
PROPERTY ParseEnds
