---------------------------- MODULE StructWatch ----------------------------
(***************************************************************************)
(* The structural watch composed with the edits of PatchEdit: the handlers *)
(* of /state/watch and /state/dump, pollStructure at the end of a frame,   *)
(* and a client that applies what the module sends.                        *)
(*                                                                         *)
(* viewModules and viewCables are the patch as that client knows it from   *)
(* dumps, replies and events, none of them lost or reordered on the        *)
(* loopback: ids are those of the messages, OSC integers, and not Rack's.  *)
(* The client drops the cables of a module it hears removed.               *)
(***************************************************************************)
EXTENDS PatchEdit

VARIABLES
  structWatch, lastModules, lastCables,   \* members of OscController
  viewModules, viewCables,                \* the client's picture
  dumped,   \* the client has dumped in the frame that is being dispatched
  follow    \* it has dumped since it last subscribed, or in the same frame

watchVars == <<structWatch, lastModules, lastCables>>
viewVars  == <<viewModules, viewCables>>
vars == <<editVars, watchVars, viewVars, dumped, follow>>

(* What a message says of modules and of cables: every id truncated.       *)
Wires(ids) == {Wire(i) : i \in ids}
Sent(c) == [c EXCEPT !.id = Wire(@), !.out = Wire(@), !.in = Wire(@)]
Images(cs) == {Sent(c) : c \in cs}

WatchInit ==
  /\ Init
  /\ structWatch = FALSE /\ lastModules = {} /\ lastCables = {}
  /\ viewModules = {} /\ viewCables = {}
  /\ dumped = FALSE /\ follow = FALSE
-----------------------------------------------------------------------------
(* Edits seen by nobody, and edits acknowledged by a reply. *)

Unseen ==
  /\ User \/ BeginFrame \/ Freed
  /\ UNCHANGED <<watchVars, viewVars, dumped, follow>>

Replied(ms, cs) ==
  /\ viewModules' = ms
  /\ viewCables' = cs
  /\ UNCHANGED <<watchVars, dumped, follow>>

CableAdded(c) ==
  CableAdd(c) /\ Replied(viewModules, viewCables \cup {Sent(c)})

CableRemoved(c) ==
  CableRemove(c) /\ Replied(viewModules, {k \in viewCables : k.id # Wire(c.id)})

ModuleAdded(m) ==
  ModuleAdd(m) /\ Replied(viewModules \cup {Wire(m)}, viewCables)

(* /module/removed is the only reply: none for the cables stripped first.  *)
ModuleRemoved(m) ==
  /\ ModuleRemove(m)
  /\ Replied(viewModules \ {Wire(m)}, viewCables \ On({Wire(m)}, viewCables))

(* applyStructWatch: every "on" takes a new snapshot, silently.            *)
WatchStructure(on) ==
  /\ stage = "dispatch"
  /\ structWatch' = on
  /\ lastModules' = IF on THEN modules ELSE lastModules
  /\ lastCables' = IF on THEN Ids(cables) ELSE lastCables
  /\ follow' = (on /\ dumped)
  /\ UNCHANGED <<editVars, viewVars, dumped>>

StateDump ==
  /\ stage = "dispatch"
  /\ viewModules' = Wires(modules)
  /\ viewCables' = Images(cables)
  /\ dumped' = TRUE
  /\ follow' = structWatch
  /\ UNCHANGED <<editVars, watchVars>>

(* diffIds walks both lists in the order of the ids: an addition outlives  *)
(* the removal of an id that reads the same only when it comes after it.   *)
Outlives(i, gone) == \A g \in gone : Wire(g) = Wire(i) => g < i

(* The client applies a frame's events in the order they are sent: modules *)
(* before cables.                                                          *)
Told(goneModules, newModules, goneCables, newCables) ==
  /\ viewModules' = (viewModules \ Wires(goneModules))
                    \cup Wires({m \in newModules : Outlives(m, goneModules)})
  /\ viewCables' = {c \in viewCables \ On(Wires(goneModules), viewCables) :
                      c.id \notin Wires(goneCables)}
                   \cup Images({c \in newCables : Outlives(c.id, goneCables)})

(* Variants: the cables' snapshot is not refreshed; the two are swapped.   *)
PollStructureStale ==
  /\ Told(lastModules \ modules, modules \ lastModules,
          lastCables \ Ids(cables), {c \in cables : c.id \notin lastCables})
  /\ lastModules' = modules
  /\ UNCHANGED lastCables

PollStructureSwaps ==
  /\ lastModules' = Ids(cables)
  /\ lastCables' = modules
  /\ UNCHANGED viewVars

(* pollStructure: the differences with the last lists.                     *)
PollStructure ==
  /\ Told(lastModules \ modules, modules \ lastModules,
          lastCables \ Ids(cables), {c \in cables : c.id \notin lastCables})
  /\ lastModules' = modules
  /\ lastCables' = Ids(cables)

Poll ==
  /\ EndFrame
  /\ IF structWatch THEN PollStructure
     ELSE UNCHANGED <<lastModules, lastCables, viewVars>>
  /\ dumped' = FALSE
  /\ UNCHANGED <<structWatch, follow>>
-----------------------------------------------------------------------------
WatchNext ==
  \/ Unseen
  \/ \E c \in Cables : CableAdded(c) \/ CableRemoved(c)
  \/ \E m \in ModuleIds : ModuleAdded(m) \/ ModuleRemoved(m)
  \/ \E on \in BOOLEAN : WatchStructure(on)
  \/ StateDump
  \/ Poll

WatchSpec == WatchInit /\ [][WatchNext]_vars
-----------------------------------------------------------------------------
(* Properties *)

(* Snapshots hold ids and the view what messages say of them, as their C++ *)
(* members and the OSC arguments do.                                       *)
WatchTypeOK ==
  /\ TypeOK
  /\ structWatch \in BOOLEAN
  /\ lastModules \subseteq ModuleIds /\ lastCables \subseteq CableIds
  /\ viewModules \subseteq Wires(ModuleIds) /\ viewCables \subseteq Images(Cables)
  /\ dumped \in BOOLEAN /\ follow \in BOOLEAN

(* No two ids Rack has assigned read the same once truncated; PatchIds is  *)
(* the run for what happens otherwise.                                     *)
Distinct ==
  /\ \A m, n \in usedModules : Wire(m) = Wire(n) => m = n
  /\ \A c, k \in usedCables : Wire(c) = Wire(k) => c = k

(* A client that subscribed and then dumped, or dumped and subscribed in   *)
(* one frame, has the patch after each frame, every id as OSC carries it,  *)
(* whatever requests and user edits the frame and the pause before it held *)
(* (applyStructWatch, applyStateDump, pollStructure), as long as truncated *)
(* ids stay apart.  Subscribing again it has to dump again: the new        *)
(* snapshot is silent.                                                     *)
MirrorExact ==
  [][Poll /\ follow /\ Distinct =>
       viewModules' = Wires(modules') /\ viewCables' = Images(cables')]_vars
=============================================================================
