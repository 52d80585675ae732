SPECIFICATION TaskSpec
CONSTANTS
  RawEvents <- MCRawEvents
  Messages <- MCMessages
  AllowedDomains <- MCAllowedDomains
  MapCapacity = 2
INVARIANT FamilyAlreadyParsed
