\* Four modules of three models; names, numbers and paths kept while they
\* come and go.
SPECIFICATION Spec
CONSTANTS
  Texts <- MCTexts
  NoText = ""
  Lower <- MCLower
  Within <- MCWithin
  Models <- MCModels
  Ids = {1, 2, 3, 4}
  Kind <- MCKind
  None = None
  Refs <- MCRefs
  IntSpan = 16
INVARIANTS TypeOK LeafReachesParam DumpedNamesReach KeptNamesKeep
PROPERTIES UndoRestoresNames AddedNameAddresses
