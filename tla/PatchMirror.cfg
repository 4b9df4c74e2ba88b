\* A client that follows the patch, requests naming any module; no id
\* above 7 survives an OSC integer of four bits, and no two read the same.
SPECIFICATION WatchSpec
CONSTANTS
  ModuleIds = {0, 1, 18}
  CableIds = {10, 27}
  Self = 0
  Initial = {0, 1}
  InitialCables <- MCInitialCables
  Named = {0, 1, 18}
  OutPorts = {0}
  InPorts = {0}
  WordBits = 4
INVARIANTS WatchTypeOK PatchWellFormed UndoRedoApply UndoAllRestores
PROPERTIES MirrorExact
