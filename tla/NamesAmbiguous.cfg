\* The instance of Names.cfg: a name the client read from a dump, and a
\* module that comes later and answers to it too.
SPECIFICATION Spec
CONSTANTS
  Texts <- MCTexts
  NoText = ""
  Lower <- MCLower
  Within <- MCWithin
  Models <- MCModels
  Ids = {1, 2, 3, 4}
  Kind <- MCKind
  None = None
  Refs <- MCRefs
  IntSpan = 16
INVARIANTS DumpedNameForever
