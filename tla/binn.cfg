SPECIFICATION Spec
CONSTANTS
  IntBits <- MCIntBits
  Float32 <- MCFloat32
  ShortMax = 5
  CHUNK_SIZE = 20
  MaxKeyLen = 2
  KeyText <- MCKeyText
  Lower <- MCLower
  StrLen <- MCStrLen
  MaxItems = 6
  Entries <- MCEntries
  Offers <- MCOffers
INVARIANTS
  TypeOK
  WritesFit
  HeaderTruthful
  ReadsBack
  GettersConvert
  KeysDistinct
  IteratorInOrder
PROPERTIES
  RefusedSetHarmless
  StaleOnlyByRefusal
