CONSTANTS
  Classes <- LedgerClasses
  DatumClasses <- MCDatumClasses
  Digests <- MCDigests
  TxIds <- MCTxIds
  Indexes <- MCIndexes
  Numbers <- MCNumbers
  OtherBytes <- MCOtherBytes
SPECIFICATION Spec
INVARIANTS
  RoundTrip
  RewriteStable
  OneMember
  DatumKept
  IdentifierKept
  NotMistaken
