------------------------- MODULE ParamAccessProofs -------------------------
(***************************************************************************)
(* Proofs about parameter access, for any modules, parameters, ranges and  *)
(* requests: values stay in range and the watch is exact.                  *)
(***************************************************************************)
EXTENDS ParamAccess, TLAPS

USE ParamAccessAssumption DEF Values

(* Until something else told the client, it heard what the watch compares  *)
(* with; nothing writes a parameter behind a single read of it.            *)
LastIsHeard ==
  \A k \in Keys \ Driven :
    last[k] # Unwatched /\ k \notin asked => heard[k] = last[k]

Inv == TypeOK /\ LastIsHeard

LEMMA ClampType ==
  ASSUME NEW v \in Int
  PROVE  Clamp(v) \in Values
BY DEF Clamp

LEMMA RereadType ==
  ASSUME NEW k \in Keys, NEW v \in Values
  PROVE  /\ Reread(k, v) \subseteq Values
         /\ k \notin Driven => Reread(k, v) = {v}
BY DEF Reread

LEMMA NotAValue == Unwatched \notin Values /\ Unheard \notin Values
OBVIOUS

LEMMA InitInv == Init => Inv
<1> SUFFICES ASSUME Init PROVE Inv
  OBVIOUS
<1>1. TypeOK
  BY DEF Init, TypeOK
<1>2. LastIsHeard
  BY DEF Init, LastIsHeard
<1> QED
  BY <1>1, <1>2 DEF Inv

(* A /param/value outside the watch leaves the invariant standing.         *)
LEMMA TellInv ==
  ASSUME Inv, NEW k \in Keys, NEW v \in Values, Tell(k, v),
         UNCHANGED <<present, notifyOnSet, last, stage>>
  PROVE  Inv'
<1>1. PICK r \in Values : /\ val' = [val EXCEPT ![k] = r]
                          /\ heard' = [heard EXCEPT ![k] = r]
                          /\ asked' = asked \cup {k}
  BY RereadType DEF Tell
<1>2. TypeOK'
  BY <1>1 DEF Inv, TypeOK
<1>3. LastIsHeard'
  BY <1>1 DEF Inv, TypeOK, LastIsHeard
<1> QED
  BY <1>2, <1>3 DEF Inv

LEMMA NextInv ==
  ASSUME Inv, [Next]_vars
  PROVE  Inv'
<1> USE DEF Inv, LastIsHeard, TypeOK
<1>1. ASSUME NEW k \in Keys, NEW v \in Values, UserTurn(k, v) \/ EngineWrite(k, v)
      PROVE  Inv'
  BY <1>1 DEF UserTurn, EngineWrite
<1>2. ASSUME NEW m \in Modules, ModuleRemove(m) \/ ModuleUndo(m)
      PROVE  Inv'
  BY <1>2 DEF ModuleRemove, ModuleUndo
<1>3. CASE ToggleNotify \/ BeginFrame
  BY <1>3 DEF ToggleNotify, BeginFrame
<1>4. ASSUME NEW k \in Keys, NEW v \in Requests, ParamSet(k, v)
      PROVE  Inv'
  <2>1. Clamp(v) \in Values
    BY ClampType
  <2>2. CASE notifyOnSet
    BY <1>4, <2>1, <2>2, TellInv DEF ParamSet
  <2>3. CASE ~notifyOnSet
    BY <1>4, <2>1, <2>3 DEF ParamSet
  <2> QED
    BY <2>2, <2>3
<1>5. ASSUME NEW k \in Keys, ParamGet(k)
      PROVE  Inv'
  <2>1. val[k] \in Values
    OBVIOUS
  <2> QED
    BY <1>5, <2>1, TellInv DEF ParamGet
<1>6. ASSUME NEW k \in Keys, ParamWatch(k)
      PROVE  Inv'
  <2>1. PICK r \in Reread(k, val[k]) :
          /\ val' = [val EXCEPT ![k] = r] /\ heard' = [heard EXCEPT ![k] = r]
    BY <1>6 DEF ParamWatch
  <2>2. r \in Values /\ (k \notin Driven => r = val[k])
    BY <2>1, RereadType
  <2>3. TypeOK'
    BY <1>6, <2>1, <2>2 DEF ParamWatch
  <2>4. LastIsHeard'
    BY <1>6, <2>1, <2>2 DEF ParamWatch
  <2> QED
    BY <2>3, <2>4
<1>7. ASSUME NEW k \in Keys, ParamUnwatch(k)
      PROVE  Inv'
  BY <1>7 DEF ParamUnwatch
<1>8. ASSUME NEW m \in Modules, NEW f \in [Params -> Values], PresetLoad(m, f)
      PROVE  Inv'
  <2>1. \A k \in Keys : k[2] \in Params
    BY DEF Keys
  <2> QED
    BY <1>8, <2>1 DEF PresetLoad
<1>9. CASE EndFrame
  <2>1. PICK r \in [Changed \cap Driven -> Values] :
          /\ val' = [k \in Keys |-> IF k \in Changed \cap Driven THEN r[k] ELSE val[k]]
          /\ heard' = [k \in Keys |-> IF k \in Changed THEN val'[k] ELSE heard[k]]
    BY <1>9 DEF EndFrame
  <2>2. val' \in [Keys -> Values]
    BY <2>1
  <2>3. TypeOK'
    BY <1>9, <2>1, <2>2 DEF EndFrame
  <2>4. LastIsHeard'
    BY <1>9, <2>1, <2>2 DEF EndFrame
  <2> QED
    BY <2>3, <2>4
<1>10. CASE UNCHANGED vars
  BY <1>10 DEF vars
<1> QED
  BY <1>1, <1>2, <1>3, <1>4, <1>5, <1>6, <1>7, <1>8, <1>9, <1>10 DEF Next

(* The invariant of parameter access.                                      *)
THEOREM Invariance == Spec => []Inv
<1>1. Inv /\ [Next]_vars => Inv'
  BY NextInv
<1> QED
  BY InitInv, <1>1, PTL DEF Spec

(* Every parameter stays in its range, whatever a client asks for.         *)
THEOREM TypeCorrect == Spec => []TypeOK
BY Invariance, PTL DEF Inv

(* After every frame a client that only listens to its watch knows the     *)
(* value of each watched parameter that no module drives.                  *)
THEOREM WatchIsExact == Spec => WatchExact
<1>1. ASSUME Inv, [Next]_vars
      PROVE  [EndFrame => \A k \in (Watched \ asked)' \ Driven :
                            heard'[k] = val'[k]]_vars
  <2> SUFFICES ASSUME EndFrame,
                      NEW k \in Keys \ Driven,
                      k \in Watched', k \notin asked'
               PROVE  heard'[k] = val'[k]
    BY DEF Watched
  <2>1. /\ heard'[k] = IF k \in Changed THEN val'[k] ELSE heard[k]
        /\ val'[k] = val[k]
        /\ last'[k] = IF k \in Changed THEN val[k] ELSE last[k]
        /\ asked' = asked \ Changed
        /\ present' = present
    BY DEF EndFrame
  <2>2. CASE k \notin Changed
    <3>1. last[k] # Unwatched /\ Here(k) /\ k \notin asked
      BY <2>1, <2>2 DEF Watched, Here
    <3>2. val[k] = last[k]
      BY <2>2, <3>1 DEF Changed
    <3> QED
      BY <2>1, <2>2, <3>1, <3>2, <1>1 DEF Inv, LastIsHeard
  <2> QED
    BY <2>1, <2>2
<1> QED
  BY <1>1, Invariance, PTL DEF Spec, WatchExact
=============================================================================
