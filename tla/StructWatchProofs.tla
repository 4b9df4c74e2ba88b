------------------------- MODULE StructWatchProofs -------------------------
(***************************************************************************)
(* Proofs about the structural watch, for any ids, ports and initial       *)
(* patch, and any width of an OSC integer: the composition implements      *)
(* PatchEdit, so its theorems hold of it, and a client that subscribed and *)
(* dumped has the patch, every id as OSC carries it, after every frame, as *)
(* long as truncation keeps the assigned ids apart.                        *)
(*                                                                         *)
(* The argument for the mirror: between frames the view is what messages   *)
(* say of the snapshot (InStep), however the user edits the patch; within  *)
(* a frame the view may leave the snapshot only where it follows the patch *)
(* (Ahead); a dump makes it the patch for the rest of the frame (Exact);   *)
(* and since an id names one cable for good (Known), an id that is back    *)
(* after an undo is the cable the client knows under it.                   *)
(***************************************************************************)
EXTENDS StructWatch, PatchEditProofs

(* What is compared with the view has an id that Rack assigned.            *)
SnapshotUsed == lastModules \subseteq usedModules /\ lastCables \subseteq usedCables

(* The client's cables are named as in the patches behind the history.     *)
Known(P) ==
  Distinct =>
    /\ \A v \in viewCables : v.id \in Wires(usedCables)
    /\ \A i \in DOMAIN P : \A v \in viewCables, k \in P[i].cabs :
         v.id = Wire(k.id) => v = Sent(k)

InStep ==
  /\ viewModules = Wires(lastModules)
  /\ {v.id : v \in viewCables} = Wires(lastCables)

Ahead ==
  /\ \A m \in modules \cap lastModules : Wire(m) \in viewModules
  /\ \A v \in viewModules : v \in Wires(modules) \/ v \in Wires(lastModules)
  /\ \A c \in cables : c.id \in lastCables => Sent(c) \in viewCables
  /\ \A v \in viewCables : v \in Images(cables) \/ v.id \in Wires(lastCables)

Exact == viewModules = Wires(modules) /\ viewCables = Images(cables)

Following ==
  follow => /\ structWatch
            /\ stage = "ui" => InStep
            /\ stage # "ui" => Ahead

Mirrored ==
  Distinct => /\ Following
              /\ dumped => stage # "ui" /\ Exact

WatchInv ==
  /\ WatchTypeOK
  /\ SnapshotUsed
  /\ \E P : Recorded(P) /\ Known(P)
  /\ Mirrored
-----------------------------------------------------------------------------
(* Refinement *)

LEMMA StepImplements ==
  ASSUME [WatchNext]_vars
  PROVE  [Next]_editVars
<1>1. CASE Unseen
  BY <1>1 DEF Unseen, Next
<1>2. ASSUME NEW c \in Cables, CableAdded(c) \/ CableRemoved(c)
      PROVE  Next
  BY <1>2 DEF CableAdded, CableRemoved, Next, Request
<1>3. ASSUME NEW m \in ModuleIds, ModuleAdded(m) \/ ModuleRemoved(m)
      PROVE  Next
  BY <1>3 DEF ModuleAdded, ModuleRemoved, Next, Request
<1>4. ASSUME (\E on \in BOOLEAN : WatchStructure(on)) \/ StateDump
      PROVE  UNCHANGED editVars
  BY <1>4 DEF WatchStructure, StateDump
<1>5. CASE Poll
  BY <1>5 DEF Poll, Next
<1>6. CASE UNCHANGED vars
  BY <1>6 DEF vars
<1> QED
  BY <1>1, <1>2, <1>3, <1>4, <1>5, <1>6 DEF WatchNext

(* The watch, its dump and its polls leave the patch and its history as    *)
(* the edits alone make them.                                              *)
THEOREM WatchImplementsEdit == WatchSpec => Spec
<1>1. WatchInit => Init
  BY DEF WatchInit
<1> QED
  BY <1>1, StepImplements, PTL DEF WatchSpec, Spec
-----------------------------------------------------------------------------
(* Ids and what messages say of them *)

LEMMA SentFields ==
  ASSUME NEW c \in Cables
  PROVE  /\ Sent(c).id = Wire(c.id)
         /\ Sent(c).out = Wire(c.out) /\ Sent(c).in = Wire(c.in)
BY DEF Sent, Cables

LEMMA UsedGrows ==
  ASSUME [Next]_editVars
  PROVE  usedCables \subseteq usedCables' /\ usedModules \subseteq usedModules'
BY DEF Next, User, Request, Undo, Redo, UserAddModule, UserRemoveModule,
       UserAddCable, UserRemoveCable, CableAdd, CableRemove, ModuleAdd,
       ModuleRemove, BeginFrame, EndFrame, Freed, editVars, idVars

(* Ids that read the same once do so for good.                             *)
LEMMA DistinctShrinks ==
  ASSUME [Next]_editVars, Distinct'
  PROVE  Distinct
<1>1. usedCables \subseteq usedCables' /\ usedModules \subseteq usedModules'
  BY UsedGrows
<1> QED
  BY <1>1 DEF Distinct
-----------------------------------------------------------------------------
(* The names of the cables the client knows *)

LEMMA ViewGrows ==
  ASSUME WatchTypeOK, [WatchNext]_vars
  PROVE  viewCables' \subseteq viewCables \cup Images(cables')
<1> DEFINE Goal == viewCables' \subseteq viewCables \cup Images(cables')
<1>1. ASSUME NEW c \in Cables, CableAdded(c) \/ CableRemoved(c)
      PROVE  Goal
  BY <1>1 DEF CableAdded, CableAdd, Add, Entry, CableRemoved, Replied, Images
<1>2. ASSUME NEW m \in ModuleIds, ModuleAdded(m) \/ ModuleRemoved(m)
      PROVE  Goal
  BY <1>2 DEF ModuleAdded, ModuleRemoved, Replied
<1>3. CASE StateDump
  BY <1>3 DEF StateDump, editVars, patchVars
<1>4. CASE Poll
  BY <1>4 DEF Poll, EndFrame, PollStructure, Told, patchVars, viewVars, Images
<1>5. CASE Unseen \/ UNCHANGED vars \/ \E on \in BOOLEAN : WatchStructure(on)
  BY <1>5 DEF Unseen, WatchStructure, vars, viewVars
<1> QED
  BY <1>1, <1>2, <1>3, <1>4, <1>5 DEF WatchNext

LEMMA StepKnown ==
  ASSUME WatchTypeOK, NEW P, Recorded(P), Known(P), [WatchNext]_vars
  PROVE  \E R : (Recorded(R) /\ Known(R))'
<1>1. PICK R : Recorded(R)' /\ Continues(P, R)
  BY StepImplements, StepRecorded DEF WatchTypeOK
<1>2. TypeOK'
  BY StepImplements, StepType DEF WatchTypeOK
<1>3. usedCables \subseteq usedCables'
  BY StepImplements, UsedGrows
<1>4. /\ done' \in DOMAIN R /\ R[done'].cabs = cables'
      /\ \A c \in cables' : c.id \in usedCables' /\ c \in Cables
      /\ \A i \in DOMAIN R : \A c \in R[i].cabs : c.id \in usedCables'
      /\ \A i, j \in DOMAIN R : \A c \in R[i].cabs, k \in R[j].cabs :
           c.id = k.id => c = k
  BY <1>1, <1>2 DEF TypeOK, Recorded, Trace, Within, OneName, Now
<1> SUFFICES ASSUME Distinct'
             PROVE  /\ \A v \in viewCables' : v.id \in Wires(usedCables)'
                    /\ \A i \in DOMAIN R : \A v \in viewCables', k \in R[i].cabs :
                         v.id = Wire(k.id) => v = Sent(k)
  BY <1>1 DEF Known
<1>5. /\ \A v \in viewCables : v.id \in Wires(usedCables)
      /\ \A i \in DOMAIN P : \A v \in viewCables, k \in P[i].cabs :
           v.id = Wire(k.id) => v = Sent(k)
  BY StepImplements, DistinctShrinks DEF Known
<1>6. \A c, k \in usedCables' : Wire(c) = Wire(k) => c = k
  BY DEF Distinct
<1>7. \A v \in viewCables' : v.id \in Wires(usedCables)'
  BY <1>3, <1>4, <1>5, ViewGrows, SentFields DEF Wires, Images
<1>8. ASSUME NEW i \in DOMAIN R, NEW v \in viewCables', NEW k \in R[i].cabs,
             v.id = Wire(k.id)
      PROVE  v = Sent(k)
  <2>1. CASE v \in Images(cables')
    <3>1. PICK c \in cables' : v = Sent(c)
      BY <2>1 DEF Images
    <3>2. Wire(c.id) = Wire(k.id)
      BY <1>4, <1>8, <3>1, SentFields
    <3>3. c.id = k.id
      BY <1>4, <1>6, <3>2
    <3> QED
      BY <1>4, <3>1, <3>3
  <2>2. CASE v \in viewCables
    <3>1. PICK u \in usedCables : v.id = Wire(u)
      BY <1>5, <2>2 DEF Wires
    <3>2. u = k.id
      BY <1>3, <1>4, <1>6, <1>8, <3>1
    <3>3. PICK j \in DOMAIN P : k \in P[j].cabs
      BY <1>1, <3>2 DEF Continues
    <3> QED
      BY <1>5, <1>8, <2>2, <3>3
  <2> QED
    BY <2>1, <2>2, ViewGrows
<1> QED
  BY <1>7, <1>8
-----------------------------------------------------------------------------
(* The facts about the present patch that the steps below use.             *)
LEMMA PresentPatch ==
  ASSUME WatchInv
  PROVE  /\ \A c, k \in cables : c.id = k.id => c = k
         /\ \A c \in cables : c.out \in modules /\ c.in \in modules
         /\ \A c \in cables : c \in Cables /\ c.id \in usedCables
         /\ modules \subseteq usedModules
<1>1. PICK P : Recorded(P)
  BY DEF WatchInv
<1>2. /\ WellFormed(Now) /\ modules \subseteq usedModules
      /\ \A c \in cables : c.id \in usedCables
  BY <1>1, NowType DEF WatchInv, WatchTypeOK
<1> QED
  BY <1>2 DEF WellFormed, Now, WatchInv, WatchTypeOK, TypeOK

LEMMA ViewNamesPatch ==
  ASSUME WatchInv, Distinct
  PROVE  \A v \in viewCables, k \in cables : v.id = Wire(k.id) => v = Sent(k)
<1>1. PICK P : Recorded(P) /\ Known(P)
  BY DEF WatchInv
<1>2. done \in DOMAIN P /\ P[done].cabs = cables
  BY <1>1 DEF WatchInv, WatchTypeOK, TypeOK, Recorded, Trace, Now
<1> QED
  BY <1>1, <1>2 DEF Known

LEMMA StepSnapshot ==
  ASSUME WatchInv, [WatchNext]_vars
  PROVE  SnapshotUsed'
<1>1. usedCables \subseteq usedCables' /\ usedModules \subseteq usedModules'
  BY StepImplements, UsedGrows
<1>2. \/ UNCHANGED <<lastModules, lastCables>>
      \/ lastModules' = modules /\ lastCables' = Ids(cables)
  BY DEF WatchNext, Unseen, CableAdded, CableRemoved, ModuleAdded,
         ModuleRemoved, Replied, WatchStructure, StateDump, Poll,
         PollStructure, vars, watchVars
<1>3. modules \subseteq usedModules /\ Ids(cables) \subseteq usedCables
  BY PresentPatch DEF Ids
<1> QED
  BY <1>1, <1>2, <1>3 DEF SnapshotUsed, WatchInv

LEMMA StepWatchType ==
  ASSUME WatchInv, [WatchNext]_vars
  PROVE  WatchTypeOK'
<1>1. TypeOK'
  BY StepImplements, StepType DEF WatchInv, WatchTypeOK
<1>2. viewCables' \subseteq Images(Cables)
  <2>1. Images(cables') \subseteq Images(Cables)
    BY <1>1 DEF TypeOK, Images
  <2> QED
    BY <2>1, ViewGrows DEF WatchInv, WatchTypeOK
<1>3. Ids(cables) \subseteq CableIds
  BY DEF WatchInv, WatchTypeOK, TypeOK, Ids, Cables
<1>4. \A ms \in SUBSET ModuleIds : Wires(ms) \subseteq Wires(ModuleIds)
  BY DEF Wires
<1> USE DEF WatchInv, WatchTypeOK
<1>5. ASSUME NEW c \in Cables, CableAdded(c) \/ CableRemoved(c)
      PROVE  WatchTypeOK'
  BY <1>1, <1>2, <1>5 DEF CableAdded, CableRemoved, Replied, watchVars
<1>6. ASSUME NEW m \in ModuleIds, ModuleAdded(m) \/ ModuleRemoved(m)
      PROVE  WatchTypeOK'
  <2>1. Wire(m) \in Wires(ModuleIds)
    BY DEF Wires
  <2> QED
    BY <1>1, <1>2, <1>6, <2>1 DEF ModuleAdded, ModuleRemoved, Replied, watchVars
<1>7. ASSUME NEW on \in BOOLEAN, WatchStructure(on)
      PROVE  WatchTypeOK'
  BY <1>1, <1>2, <1>3, <1>7 DEF WatchStructure, viewVars, TypeOK
<1>8. CASE StateDump
  BY <1>1, <1>2, <1>4, <1>8 DEF StateDump, watchVars, TypeOK
<1>9. CASE Poll
  <2>1. \A ms : Wires({m \in modules \ lastModules : Outlives(m, ms)})
                 \subseteq Wires(ModuleIds)
    BY DEF Wires, TypeOK
  <2>2. viewModules' \subseteq Wires(ModuleIds)
    BY <1>9, <2>1 DEF Poll, PollStructure, Told, viewVars
  <2> QED
    BY <1>1, <1>2, <1>3, <1>9, <2>2 DEF Poll, PollStructure, TypeOK
<1>10. CASE Unseen \/ UNCHANGED vars
  BY <1>1, <1>10 DEF Unseen, vars, watchVars, viewVars
<1> QED
  BY <1>5, <1>6, <1>7, <1>8, <1>9, <1>10 DEF WatchNext
-----------------------------------------------------------------------------
(* The mirror *)

(* A client that was not told of the user's edits is in step with the      *)
(* snapshot, and so ahead of it in nothing.                                *)
LEMMA InStepIsAhead ==
  ASSUME WatchInv, Distinct, InStep
  PROVE  Ahead
<1>1. ASSUME NEW c \in cables, c.id \in lastCables
      PROVE  Sent(c) \in viewCables
  <2>1. Wire(c.id) \in {v.id : v \in viewCables}
    BY <1>1 DEF InStep, Wires
  <2>2. PICK v \in viewCables : v.id = Wire(c.id)
    BY <2>1
  <2> QED
    BY <2>2, ViewNamesPatch
<1>2. \A v \in viewCables : v.id \in Wires(lastCables)
  BY DEF InStep
<1> QED
  BY <1>1, <1>2 DEF InStep, Ahead, Wires

LEMMA PollMirrors ==
  ASSUME WatchInv, Distinct, Ahead, PollStructure, UNCHANGED patchVars
  PROVE  Exact'
<1> DEFINE goneM == lastModules \ modules
           newM  == modules \ lastModules
           goneC == lastCables \ Ids(cables)
           newC  == {c \in cables : c.id \notin lastCables}
<1>1. /\ \A m, n \in usedModules : Wire(m) = Wire(n) => m = n
      /\ \A c, k \in usedCables : Wire(c) = Wire(k) => c = k
      /\ lastModules \subseteq usedModules /\ lastCables \subseteq usedCables
      /\ modules \subseteq usedModules
      /\ \A c \in cables : c.id \in usedCables /\ c \in Cables
  BY PresentPatch DEF Distinct, WatchInv, SnapshotUsed
<1>2. \A m \in modules, g \in goneM : Wire(g) # Wire(m)
  BY <1>1
<1>3. \A c \in cables, g \in goneC : Wire(g) # Wire(c.id)
  BY <1>1 DEF Ids
<1>4. {m \in newM : Outlives(m, goneM)} = newM
  BY <1>2 DEF Outlives
<1>5. {c \in newC : Outlives(c.id, goneC)} = newC
  BY <1>3 DEF Outlives
<1>6. viewModules' = (viewModules \ Wires(goneM)) \cup Wires(newM)
  BY <1>4 DEF PollStructure, Told
<1>7. viewCables' = {c \in viewCables \ On(Wires(goneM), viewCables) :
                       c.id \notin Wires(goneC)} \cup Images(newC)
  BY <1>5 DEF PollStructure, Told
<1>8. viewModules' = Wires(modules)
  <2>1. ASSUME NEW m \in modules
        PROVE  Wire(m) \in viewModules'
    BY <1>2, <1>6 DEF Ahead, Wires
  <2>2. ASSUME NEW v \in viewModules'
        PROVE  v \in Wires(modules)
    BY <1>6 DEF Ahead, Wires
  <2> QED
    BY <2>1, <2>2 DEF Wires
<1>9. ASSUME NEW c \in cables
      PROVE  Sent(c) \in viewCables'
  <2>1. Sent(c).out \notin Wires(goneM) /\ Sent(c).in \notin Wires(goneM)
    BY <1>1, <1>2, PresentPatch, SentFields DEF Wires
  <2>2. Sent(c).id \notin Wires(goneC)
    BY <1>1, <1>3, SentFields DEF Wires
  <2> QED
    BY <1>7, <2>1, <2>2 DEF On, Ahead, Images
<1>10. ASSUME NEW v \in viewCables'
       PROVE  v \in Images(cables)
  <2>1. v \in Images(cables) \/ (v \in viewCables /\ v.id \notin Wires(goneC))
    BY <1>7 DEF Images
  <2>2. ASSUME v \in viewCables, v.id \notin Wires(goneC),
               v.id \in Wires(lastCables)
        PROVE  v \in Images(cables)
    <3>1. PICK i \in Ids(cables) : v.id = Wire(i)
      BY <2>2 DEF Wires
    <3>2. PICK k \in cables : k.id = i
      BY DEF Ids
    <3> QED
      BY <2>2, <3>1, <3>2, ViewNamesPatch DEF Images
  <2> QED
    BY <2>1, <2>2 DEF Ahead
<1>11. viewCables' = Images(cables)
  BY <1>9, <1>10 DEF Images
<1> QED
  BY <1>8, <1>11 DEF Exact, patchVars, Images, Wires

LEMMA PollStep ==
  ASSUME WatchInv, Distinct, Poll, follow
  PROVE  /\ structWatch /\ stage' = "ui" /\ UNCHANGED <<structWatch, follow>>
         /\ Exact' /\ InStep'
<1>1. /\ structWatch /\ Ahead /\ PollStructure /\ UNCHANGED patchVars
      /\ stage' = "ui" /\ UNCHANGED <<structWatch, follow>>
  BY DEF WatchInv, Mirrored, Following, Poll, EndFrame
<1>2. Exact'
  BY <1>1, PollMirrors
<1>3. lastModules' = modules' /\ lastCables' = Ids(cables')
  BY <1>1 DEF PollStructure, patchVars
<1>4. {v.id : v \in Images(cables')} = Wires(Ids(cables'))
  <2>1. cables' = cables /\ \A c \in cables : c \in Cables
    BY <1>1, PresentPatch DEF patchVars
  <2>2. \A c \in cables : Sent(c).id = Wire(c.id)
    BY <2>1, SentFields
  <2> QED
    BY <2>1, <2>2 DEF Images, Wires, Ids
<1> QED
  BY <1>1, <1>2, <1>3, <1>4 DEF InStep, Exact

(* A request and its reply change the patch and the view alike.            *)
LEMMA RequestMirrors ==
  ASSUME WatchInv, Distinct, UNCHANGED watchVars,
         \/ \E c \in Cables : CableAdded(c) \/ CableRemoved(c)
         \/ \E m \in ModuleIds : ModuleAdded(m) \/ ModuleRemoved(m)
  PROVE  (Ahead => Ahead') /\ (Exact => Exact')
<1>1. lastModules' = lastModules /\ lastCables' = lastCables
  BY DEF watchVars
<1>2. ASSUME NEW c \in Cables, CableAdded(c)
      PROVE  (Ahead => Ahead') /\ (Exact => Exact')
  <2>1. /\ modules' = modules /\ cables' = cables \cup {c}
        /\ viewModules' = viewModules /\ viewCables' = viewCables \cup {Sent(c)}
    BY <1>2 DEF CableAdded, CableAdd, Add, Entry, Replied
  <2>2. Images(cables') = Images(cables) \cup {Sent(c)}
    BY <2>1 DEF Images
  <2> QED
    BY <1>1, <2>1, <2>2 DEF Ahead, Exact
<1>3. ASSUME NEW c \in Cables, CableRemoved(c)
      PROVE  (Ahead => Ahead') /\ (Exact => Exact')
  <2>1. /\ c \in cables /\ modules' = modules /\ cables' = cables \ {c}
        /\ viewModules' = viewModules
        /\ viewCables' = {v \in viewCables : v.id # Wire(c.id)}
    BY <1>3 DEF CableRemoved, CableRemove, Remove, Entry, Replied
  <2>2. \A k \in cables : Sent(k).id = Wire(c.id) <=> k = c
    BY <2>1, PresentPatch, SentFields DEF Distinct
  <2>3. \A v : v \in Images(cables') <=> v \in Images(cables) /\ v.id # Wire(c.id)
    BY <2>1, <2>2 DEF Images
  <2>4. \A k \in cables' : k \in cables /\ Sent(k) \in Images(cables')
    BY <2>1 DEF Images
  <2>5. Ahead => Ahead'
    BY <1>1, <2>1, <2>3, <2>4 DEF Ahead
  <2>6. Exact => Exact'
    BY <2>1, <2>3 DEF Exact
  <2> QED
    BY <2>5, <2>6
<1>4. ASSUME NEW m \in ModuleIds, ModuleAdded(m)
      PROVE  (Ahead => Ahead') /\ (Exact => Exact')
  <2>1. /\ modules' = modules \cup {m} /\ cables' = cables
        /\ viewModules' = viewModules \cup {Wire(m)} /\ viewCables' = viewCables
    BY <1>4 DEF ModuleAdded, ModuleAdd, Add, Entry, Replied
  <2>2. Wires(modules') = Wires(modules) \cup {Wire(m)}
    BY <2>1 DEF Wires
  <2> QED
    BY <1>1, <2>1, <2>2 DEF Ahead, Exact
<1>5. ASSUME NEW m \in ModuleIds, ModuleRemoved(m)
      PROVE  (Ahead => Ahead') /\ (Exact => Exact')
  <2>1. /\ m \in modules
        /\ modules' = modules \ {m} /\ cables' = cables \ On({m}, cables)
        /\ viewModules' = viewModules \ {Wire(m)}
        /\ viewCables' = viewCables \ On({Wire(m)}, viewCables)
    BY <1>5 DEF ModuleRemoved, ModuleRemove, Remove, Entry, Replied
  <2>2. \A n \in modules : Wire(n) = Wire(m) <=> n = m
    BY <2>1, PresentPatch DEF Distinct
  <2>3. \A v : v \in Wires(modules') <=> v \in Wires(modules) /\ v # Wire(m)
    BY <2>1, <2>2 DEF Wires
  <2>4. \A c \in cables : /\ Sent(c).out = Wire(m) <=> c.out = m
                          /\ Sent(c).in = Wire(m) <=> c.in = m
    BY <2>2, PresentPatch, SentFields
  <2>5. \A c \in cables : c \in cables' <=> c.out # m /\ c.in # m
    BY <2>1 DEF On
  <2>6. \A v : v \in Images(cables')
               <=> v \in Images(cables) /\ v.out # Wire(m) /\ v.in # Wire(m)
    BY <2>1, <2>4, <2>5 DEF Images
  <2>7. \A v : v \in viewCables'
               <=> v \in viewCables /\ v.out # Wire(m) /\ v.in # Wire(m)
    BY <2>1 DEF On
  <2>8. \A n \in modules' : n \in modules /\ Wire(n) # Wire(m)
    BY <2>1, <2>2
  <2>9. \A c \in cables' : /\ c \in cables
                           /\ Sent(c).out # Wire(m) /\ Sent(c).in # Wire(m)
    BY <2>1, <2>4, <2>5
  <2>10. Ahead => Ahead'
    BY <1>1, <2>1, <2>3, <2>6, <2>7, <2>8, <2>9 DEF Ahead
  <2>11. Exact => Exact'
    BY <2>1, <2>3, <2>6, <2>7 DEF Exact
  <2> QED
    BY <2>10, <2>11
<1> QED
  BY <1>2, <1>3, <1>4, <1>5

LEMMA UserStays ==
  ASSUME User
  PROVE  stage = "ui" /\ stage' = "ui"
BY DEF User, Undo, Redo, UserAddModule, UserRemoveModule, UserAddCable,
       UserRemoveCable

LEMMA StepMirrored ==
  ASSUME WatchInv, [WatchNext]_vars
  PROVE  Mirrored'
<1> SUFFICES ASSUME Distinct'
             PROVE  Following' /\ (dumped' => stage' # "ui" /\ Exact')
  BY DEF Mirrored
<1>0. Distinct
  BY StepImplements, DistinctShrinks
<1>1. Following /\ (dumped => stage # "ui" /\ Exact)
  BY <1>0 DEF WatchInv, Mirrored
<1>2. CASE UNCHANGED vars
  BY <1>1, <1>2 DEF vars, editVars, patchVars, watchVars, viewVars,
                    Following, InStep, Ahead, Exact, Wires, Images
<1>3. CASE Unseen
  <2>1. UNCHANGED <<watchVars, viewVars, dumped, follow>>
    BY <1>3 DEF Unseen
  <2>2. CASE User
    BY <1>1, <2>1, <2>2, UserStays
       DEF watchVars, viewVars, Following, InStep, Wires
  <2>3. CASE BeginFrame
    <3>1. follow => Ahead
      BY <1>0, <1>1, <2>3, InStepIsAhead DEF BeginFrame, Following
    <3> QED
      BY <1>1, <2>1, <2>3, <3>1
         DEF BeginFrame, patchVars, watchVars, viewVars, Following, Ahead,
             Wires, Images
  <2>4. CASE Freed
    BY <1>1, <2>1, <2>4
       DEF Freed, editVars, patchVars, watchVars, viewVars, Following, Ahead,
           Exact, Wires, Images
  <2> QED
    BY <1>3, <2>2, <2>3, <2>4 DEF Unseen
<1>4. CASE \/ \E c \in Cables : CableAdded(c) \/ CableRemoved(c)
           \/ \E m \in ModuleIds : ModuleAdded(m) \/ ModuleRemoved(m)
  <2>1. /\ UNCHANGED <<watchVars, dumped, follow>>
        /\ stage = "dispatch" /\ stage' # "ui"
    BY <1>4 DEF CableAdded, CableRemoved, ModuleAdded, ModuleRemoved, Replied,
                CableAdd, CableRemove, ModuleAdd, ModuleRemove
  <2>2. (Ahead => Ahead') /\ (Exact => Exact')
    BY <1>0, <1>4, <2>1, RequestMirrors
  <2> QED
    BY <1>1, <2>1, <2>2 DEF watchVars, Following
<1>5. ASSUME NEW on \in BOOLEAN, WatchStructure(on)
      PROVE  Following' /\ (dumped' => stage' # "ui" /\ Exact')
  <2>1. /\ stage' = "dispatch" /\ structWatch' = on /\ follow' = (on /\ dumped)
        /\ dumped' = dumped
        /\ UNCHANGED <<modules, cables, viewModules, viewCables>>
    BY <1>5 DEF WatchStructure, editVars, patchVars, viewVars
  <2>2. Exact => Exact'
    BY <2>1 DEF Exact, Wires, Images
  <2>3. Exact' => Ahead'
    BY DEF Exact, Ahead, Wires, Images
  <2> QED
    BY <1>1, <2>1, <2>2, <2>3 DEF Following
<1>6. CASE StateDump
  <2>1. /\ stage' = "dispatch" /\ follow' = structWatch
        /\ UNCHANGED <<modules, cables, structWatch>>
        /\ viewModules' = Wires(modules) /\ viewCables' = Images(cables)
    BY <1>6 DEF StateDump, editVars, patchVars, watchVars
  <2>2. Exact'
    BY <2>1 DEF Exact, Wires, Images
  <2>3. Exact' => Ahead'
    BY DEF Exact, Ahead, Wires, Images
  <2> QED
    BY <2>1, <2>2, <2>3 DEF Following
<1>7. CASE Poll
  <2>1. ~dumped' /\ stage' = "ui" /\ follow' = follow
    BY <1>7 DEF Poll, EndFrame
  <2> QED
    BY <1>0, <1>7, <2>1, PollStep DEF Following
<1> QED
  BY <1>2, <1>3, <1>4, <1>5, <1>6, <1>7 DEF WatchNext
-----------------------------------------------------------------------------
(* The client's picture, the snapshot and the patch belong together.       *)
THEOREM WatchInvariance == WatchSpec => []WatchInv
<1>1. WatchInit => WatchInv
  <2> SUFFICES ASSUME WatchInit
               PROVE  WatchInv
    OBVIOUS
  <2>1. PICK P : TypeOK /\ Recorded(P)
    BY InitRecorded DEF WatchInit
  <2>2. Known(P)
    BY DEF WatchInit, Known
  <2> QED
    BY <2>1, <2>2
       DEF WatchInit, WatchInv, WatchTypeOK, SnapshotUsed, Mirrored, Following
<1>2. WatchInv /\ [WatchNext]_vars => WatchInv'
  BY StepWatchType, StepSnapshot, StepKnown, StepMirrored DEF WatchInv
<1> QED
  BY <1>1, <1>2, PTL DEF WatchSpec

(* Patch, history, snapshots and view hold values of their types.          *)
THEOREM WatchTypeCorrect == WatchSpec => []WatchTypeOK
<1>1. WatchInv => WatchTypeOK
  BY DEF WatchInv
<1> QED
  BY <1>1, WatchInvariance, PTL

(* A client that subscribed and dumped has the patch after each frame,     *)
(* every id as OSC carries it, whatever was requested, edited and undone   *)
(* since, as long as truncation keeps the assigned ids apart.              *)
THEOREM ClientMirrors == WatchSpec => MirrorExact
<1>1. ASSUME WatchInv, [WatchNext]_vars
      PROVE  [Poll /\ follow /\ Distinct =>
                viewModules' = Wires(modules') /\ viewCables' = Images(cables')]_vars
  BY <1>1, PollStep DEF Exact, Wires, Images
<1> QED
  BY <1>1, WatchInvariance, PTL DEF WatchSpec, MirrorExact
=============================================================================
