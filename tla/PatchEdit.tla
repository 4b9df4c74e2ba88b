----------------------------- MODULE PatchEdit -----------------------------
(***************************************************************************)
(* Structural edits of the Rack patch: the cable and module handlers of    *)
(* OscController, the undo history they push on, the user who edits the    *)
(* same patch between frames.  StructWatch.tla adds the watch that reports *)
(* the changes.                                                            *)
(*                                                                         *)
(* Everything here runs on Rack's UI thread, so a handler is one action.   *)
(* Rack itself (engine, scene, history) is external: it is modelled from   *)
(* the calls the handlers make.                                            *)
(***************************************************************************)
EXTENDS Integers, Sequences, FiniteSets

CONSTANTS
  ModuleIds, CableIds,  \* ids Rack may assign; it never assigns one twice
  Self,                 \* id of the OSC Controller itself, a module too
  Initial,              \* modules of the patch when the controller starts
  InitialCables,        \* and its cables
  Named,                \* modules a client's requests may name
  OutPorts, InPorts,    \* ports of every other module; the controller has none
  WordBits              \* width of an OSC integer

ASSUME PatchEditAssumption ==
  /\ Self \in Initial
  /\ Initial \subseteq ModuleIds
  /\ Named \subseteq ModuleIds
  /\ WordBits \in Nat \ {0}

Cables == [id : CableIds, out : ModuleIds, outPort : OutPorts,
           in : ModuleIds, inPort : InPorts]

(* The patch Rack loads has at most one cable on an input.                 *)
ASSUME InitialPatchAssumption ==
  /\ InitialCables \subseteq Cables /\ IsFiniteSet(InitialCables)
  /\ \A c, k \in InitialCables :
       /\ {c.out, c.in} \subseteq Initial \ {Self}
       /\ c.id = k.id \/ (c.in = k.in /\ c.inPort = k.inPort) => c = k

VARIABLES
  modules, cables,              \* the patch
  usedModules, usedCables,      \* ids assigned so far
  history, done,                \* undo history; its first "done" entries hold
  stage                         \* "ui": between frames; "dispatch"; "freed"

patchVars == <<modules, cables>>
idVars    == <<usedModules, usedCables>>
undoVars  == <<history, done>>
editVars  == <<patchVars, idVars, undoVars, stage>>

(* A history action adds or removes modules together with cables.          *)
Entries == [op : {"add", "remove"}, mods : SUBSET ModuleIds,
            cabs : SUBSET Cables]

Ids(cs) == {c.id : c \in cs}
On(ms, cs) == {c \in cs : c.out \in ms \/ c.in \in ms}
FeedsInput(i, p, cs) == {c \in cs : c.in = i /\ c.inPort = p}

(* OSC integers are WordBits wide: (int32_t) id in every reply.            *)
Wire(id) ==
  LET r == id % 2 ^ WordBits
  IN  IF r >= 2 ^ (WordBits - 1) THEN r - 2 ^ WordBits ELSE r

Init ==
  /\ modules = Initial /\ cables = InitialCables
  /\ usedModules = Initial /\ usedCables = Ids(InitialCables)
  /\ history = <<>> /\ done = 0
  /\ stage = "ui"
-----------------------------------------------------------------------------
(* Rack: applying an entry, and history::State::push, undo and redo. *)

Add(e) ==
  /\ modules' = modules \cup e.mods
  /\ cables' = cables \cup e.cabs

Remove(e) ==
  /\ modules' = modules \ e.mods
  /\ cables' = cables \ e.cabs

Do(e) == IF e.op = "add" THEN Add(e) ELSE Remove(e)
Undone(e) == IF e.op = "add" THEN Remove(e) ELSE Add(e)

(* Variant: a push that counts the entries it has just forgotten.          *)
PushMiscounts(es) ==
  /\ history' = SubSeq(history, 1, done) \o es
  /\ done' = Len(history) + Len(es)

(* A push forgets what could still be redone.                              *)
Push(es) ==
  /\ history' = SubSeq(history, 1, done) \o es
  /\ done' = done + Len(es)

Undo ==
  /\ stage = "ui"
  /\ done > 0
  /\ Undone(history[done])
  /\ done' = done - 1
  /\ UNCHANGED <<idVars, history, stage>>

Redo ==
  /\ stage = "ui"
  /\ done < Len(history)
  /\ Do(history[done + 1])
  /\ done' = done + 1
  /\ UNCHANGED <<idVars, history, stage>>

Entry(op, ms, cs) == [op |-> op, mods |-> ms, cabs |-> cs]

(* The user edits in Rack's window: one history entry per gesture.         *)
UserAddModule(m) ==
  /\ stage = "ui"
  /\ m \notin usedModules
  /\ usedModules' = usedModules \cup {m}
  /\ Add(Entry("add", {m}, {}))
  /\ Push(<<Entry("add", {m}, {})>>)
  /\ UNCHANGED <<usedCables, stage>>

UserRemoveModule(m) ==
  LET e == Entry("remove", {m}, On({m}, cables)) IN
  /\ stage = "ui"
  /\ m \in modules \ {Self}
  /\ Remove(e)
  /\ Push(<<e>>)
  /\ UNCHANGED <<idVars, stage>>

(* Variant: a cable to an input that is taken.                             *)
NewCableSteals(c) ==
  /\ c.id \notin usedCables
  /\ {c.out, c.in} \subseteq modules \ {Self}

(* A complete cable between existing ports, to an input that has none.     *)
NewCable(c) ==
  /\ c.id \notin usedCables
  /\ {c.out, c.in} \subseteq modules \ {Self}
  /\ FeedsInput(c.in, c.inPort, cables) = {}

UserAddCable(c) ==
  /\ stage = "ui"
  /\ NewCable(c)
  /\ usedCables' = usedCables \cup {c.id}
  /\ Add(Entry("add", {}, {c}))
  /\ Push(<<Entry("add", {}, {c})>>)
  /\ UNCHANGED <<usedModules, stage>>

UserRemoveCable(c) ==
  /\ stage = "ui"
  /\ c \in cables
  /\ Remove(Entry("remove", {}, {c}))
  /\ Push(<<Entry("remove", {}, {c})>>)
  /\ UNCHANGED <<idVars, stage>>
-----------------------------------------------------------------------------
(* processPending: dispatch the drained requests, one handler each. *)

BeginFrame ==
  /\ stage = "ui"
  /\ stage' = "dispatch"
  /\ UNCHANGED <<patchVars, idVars, undoVars>>

(* applyCableAdd; any guard that fails is an /error reply and no change.   *)
CableAdd(c) ==
  /\ stage = "dispatch"
  /\ {c.out, c.in} \subseteq Named
  /\ NewCable(c)
  /\ usedCables' = usedCables \cup {c.id}
  /\ Add(Entry("add", {}, {c}))
  /\ Push(<<Entry("add", {}, {c})>>)
  /\ UNCHANGED <<usedModules, stage>>

(* Variant: a removal without its history entry.                           *)
CableRemoveUnrecorded(c) ==
  /\ stage = "dispatch"
  /\ c \in cables
  /\ Remove(Entry("remove", {}, {c}))
  /\ UNCHANGED <<idVars, undoVars, stage>>

(* applyCableRemove and applyCableRemoveId through removeCableWidget.      *)
CableRemove(c) ==
  /\ stage = "dispatch"
  /\ c \in cables
  /\ Push(<<Entry("remove", {}, {c})>>)
  /\ Remove(Entry("remove", {}, {c}))
  /\ UNCHANGED <<idVars, stage>>

ModuleAdd(m) ==
  /\ stage = "dispatch"
  /\ m \notin usedModules
  /\ usedModules' = usedModules \cup {m}
  /\ Add(Entry("add", {m}, {}))
  /\ Push(<<Entry("add", {m}, {})>>)
  /\ UNCHANGED <<usedCables, stage>>

(* The order in which getCableIds lists a set of cables is Rack's.         *)
Orders(cs) == {o \in [1 .. Cardinality(cs) -> cs] : \A c \in cs : \E i \in DOMAIN o : o[i] = c}

(* Variant: the module's entry is pushed before those of its cables.       *)
ModuleRemoveFirst(m) ==
  /\ stage = "dispatch"
  /\ m \in modules \cap Named
  /\ \E o \in Orders(On({m}, cables)) :
       Push(<<Entry("remove", {m}, {})>>
            \o [i \in DOMAIN o |-> Entry("remove", {}, {o[i]})])
  /\ Remove(Entry("remove", {m}, On({m}, cables)))
  /\ stage' = IF m = Self THEN "freed" ELSE stage
  /\ UNCHANGED idVars

(* applyModuleRemove strips the cables, one history entry each, before it  *)
(* records and removes the module.  Removing the controller itself deletes *)
(* the object whose handler is still running.                              *)
ModuleRemove(m) ==
  /\ stage = "dispatch"
  /\ m \in modules \cap Named
  /\ \E o \in Orders(On({m}, cables)) :
       Push(Append([i \in DOMAIN o |-> Entry("remove", {}, {o[i]})],
                   Entry("remove", {m}, {})))
  /\ Remove(Entry("remove", {m}, On({m}, cables)))
  /\ stage' = IF m = Self THEN "freed" ELSE stage
  /\ UNCHANGED idVars

EndFrame ==
  /\ stage = "dispatch"
  /\ stage' = "ui"
  /\ UNCHANGED <<patchVars, idVars, undoVars>>

(* The controller is gone: what follows in its handler is undefined.       *)
Freed ==
  /\ stage = "freed"
  /\ UNCHANGED editVars
-----------------------------------------------------------------------------
User ==
  \/ Undo \/ Redo
  \/ \E m \in ModuleIds : UserAddModule(m) \/ UserRemoveModule(m)
  \/ \E c \in Cables : UserAddCable(c) \/ UserRemoveCable(c)

Request ==
  \/ \E c \in Cables : CableAdd(c) \/ CableRemove(c)
  \/ \E m \in ModuleIds : ModuleAdd(m) \/ ModuleRemove(m)

Next == User \/ BeginFrame \/ Request \/ EndFrame \/ Freed

Spec == Init /\ [][Next]_editVars
-----------------------------------------------------------------------------
(* Properties *)

(* Patch and history hold what their C++ members hold.                     *)
TypeOK ==
  /\ modules \subseteq ModuleIds /\ cables \subseteq Cables
  /\ usedModules \subseteq ModuleIds /\ usedCables \subseteq CableIds
  /\ history \in Seq(Entries) /\ done \in 0 .. Len(history)
  /\ stage \in {"ui", "dispatch", "freed"}

(* Whatever is added, removed, undone and redone, every cable joins two    *)
(* modules of the patch, no input is fed twice and no id names two cables  *)
(* (applyCableAdd's refusal, applyModuleRemove's stripping).               *)
PatchWellFormed ==
  \A c \in cables :
    /\ {c.out, c.in} \subseteq modules
    /\ \A k \in cables : k.id = c.id \/ (k.in = c.in /\ k.inPort = c.inPort)
                         => k = c

CanAdd(e) ==
  /\ e.mods \cap modules = {}
  /\ Ids(e.cabs) \cap Ids(cables) = {}
  /\ \A c \in e.cabs : /\ {c.out, c.in} \subseteq modules \cup e.mods
                       /\ FeedsInput(c.in, c.inPort, cables) = {}

(* Engine::removeModule asserts that the module has no cable left.         *)
CanRemove(e) ==
  /\ e.mods \subseteq modules
  /\ e.cabs \subseteq cables
  /\ On(e.mods, cables) \subseteq e.cabs

(* Undo and redo never ask Rack for the impossible: a cable to a module    *)
(* that is not back yet, a module removed with cables on it.  Each handler *)
(* must push its entries in the order it makes the changes.                *)
UndoRedoApply ==
  /\ done > 0 => IF history[done].op = "add"
                 THEN CanRemove(history[done]) ELSE CanAdd(history[done])
  /\ done < Len(history) => IF history[done + 1].op = "add"
                            THEN CanAdd(history[done + 1])
                            ELSE CanRemove(history[done + 1])

(* Undoing everything restores the patch the controller started with: no   *)
(* handler changes the patch behind the history's back.                    *)
UndoAllRestores ==
  done = 0 => modules = Initial /\ cables = InitialCables

(* README.md:159: "Module and port ids come from /state/dump": an id read  *)
(* there and sent back in a request names the same module.                 *)
DumpedIdResolves ==
  stage = "dispatch" =>
    \A m \in modules : {n \in modules : n = Wire(m)} = {m}
=============================================================================
