---------------------------- MODULE ParamAccess ----------------------------
(***************************************************************************)
(* Parameter access over OSC: set, get and watch, presets, and pollWatches *)
(* at the end of every frame, against the others who change parameters:    *)
(* the user's mouse between frames and a module's own process() on the     *)
(* engine thread at any moment.                                            *)
(*                                                                         *)
(* heard is what the client was last told of each parameter.  A handler    *)
(* that reads a parameter twice gives the engine thread a chance between   *)
(* the reads: Reread below.                                                *)
(***************************************************************************)
EXTENDS Integers

CONSTANTS
  Modules, Params,  \* the modules and their parameter indices
  Low, High,        \* the range of every ParamQuantity
  Requests,         \* values a client may ask for
  Driven,           \* parameters their module writes from process()
  Unwatched,        \* "last" of a parameter that has no Watch
  Unheard           \* "heard" of a parameter the client was told nothing of

Keys == Modules \X Params
Values == Low .. High

ASSUME ParamAccessAssumption ==
  /\ Low \in Int /\ High \in Int /\ Low <= High
  /\ Requests \subseteq Int
  /\ Driven \subseteq Keys
  /\ Unwatched \notin Int
  /\ Unheard \notin Int

VARIABLES
  present,       \* modules in the engine
  val,           \* parameter values; an absent module's wait for an undo
  notifyOnSet,
  last,          \* last[k]: Watch.last of the entry of watches for k
  stage,         \* "ui": between frames; "dispatch": in processPending
  heard,         \* last value sent to the client
  asked          \* watched parameters told of by other than the watch since

vars == <<present, val, notifyOnSet, last, stage, heard, asked>>

Init ==
  /\ present = Modules
  /\ val \in [Keys -> {Low}]
  /\ notifyOnSet = TRUE
  /\ last = [k \in Keys |-> Unwatched]
  /\ stage = "ui"
  /\ heard = [k \in Keys |-> Unheard]
  /\ asked = {}

Of(m) == {m} \X Params
Here(k) == k[1] \in present

(* What a second read of k may find when the first one found v.            *)
Reread(k, v) == IF k \in Driven THEN Values ELSE {v}
-----------------------------------------------------------------------------
(* Rack and its user *)

(* A knob turned, an undo or an automation: between frames.                *)
UserTurn(k, v) ==
  /\ stage = "ui"
  /\ Here(k)
  /\ val' = [val EXCEPT ![k] = v]
  /\ UNCHANGED <<present, notifyOnSet, last, stage, heard, asked>>

EngineWrite(k, v) ==
  /\ Here(k) /\ k \in Driven
  /\ val' = [val EXCEPT ![k] = v]
  /\ UNCHANGED <<present, notifyOnSet, last, stage, heard, asked>>

(* /module/remove or the user; watches keeps the entries of the module.    *)
ModuleRemove(m) ==
  /\ m \in present
  /\ present' = present \ {m}
  /\ UNCHANGED <<val, notifyOnSet, last, stage, heard, asked>>

(* An undo brings the module back under its id, as it was.                 *)
ModuleUndo(m) ==
  /\ stage = "ui"
  /\ m \notin present
  /\ present' = present \cup {m}
  /\ UNCHANGED <<val, notifyOnSet, last, stage, heard, asked>>

(* The menu's "Echo /param/value on set", and dataFromJson, which a preset *)
(* loaded on the controller itself runs in the middle of a dispatch.       *)
ToggleNotify ==
  /\ notifyOnSet' = ~notifyOnSet
  /\ UNCHANGED <<present, val, last, stage, heard, asked>>
-----------------------------------------------------------------------------
(* processPending *)

BeginFrame ==
  /\ stage = "ui"
  /\ stage' = "dispatch"
  /\ UNCHANGED <<present, val, notifyOnSet, last, heard, asked>>

(* Variant: only the upper bound is enforced.                              *)
ClampAbove(v) == IF v > High THEN High ELSE v

Clamp(v) == IF v < Low THEN Low ELSE IF v > High THEN High ELSE v

(* emitParamValue outside the watch: /param/value with what it reads now.  *)
Tell(k, v) ==
  \E r \in Reread(k, v) :
    /\ val' = [val EXCEPT ![k] = r]
    /\ heard' = [heard EXCEPT ![k] = r]
    /\ asked' = asked \cup {k}

(* applyParamSet, and tryParamAddress with an argument.                    *)
ParamSet(k, v) ==
  /\ stage = "dispatch"
  /\ Here(k)
  /\ IF notifyOnSet THEN Tell(k, Clamp(v))
     ELSE val' = [val EXCEPT ![k] = Clamp(v)] /\ UNCHANGED <<heard, asked>>
  /\ UNCHANGED <<present, notifyOnSet, last, stage>>

(* applyParamGet, and tryParamAddress without an argument.                 *)
ParamGet(k) ==
  /\ stage = "dispatch"
  /\ Here(k)
  /\ Tell(k, val[k])
  /\ UNCHANGED <<present, notifyOnSet, last, stage>>

(* applyParamWatch on: a second subscription changes and sends nothing.    *)
ParamWatch(k) ==
  /\ stage = "dispatch"
  /\ Here(k)
  /\ last[k] = Unwatched
  /\ last' = [last EXCEPT ![k] = val[k]]
  /\ \E r \in Reread(k, val[k]) :
       /\ val' = [val EXCEPT ![k] = r]
       /\ heard' = [heard EXCEPT ![k] = r]
  /\ asked' = asked \ {k}
  /\ UNCHANGED <<present, notifyOnSet, stage>>

(* applyParamWatch off, refused while the module is away.                  *)
ParamUnwatch(k) ==
  /\ stage = "dispatch"
  /\ Here(k)
  /\ last' = [last EXCEPT ![k] = Unwatched]
  /\ UNCHANGED <<present, val, notifyOnSet, stage, heard, asked>>

(* applyPresetLoad: every parameter of the module, and no /param/value.    *)
PresetLoad(m, f) ==
  /\ stage = "dispatch"
  /\ m \in present
  /\ val' = [k \in Keys |-> IF k \in Of(m) THEN f[k[2]] ELSE val[k]]
  /\ UNCHANGED <<present, notifyOnSet, last, stage, heard, asked>>

(* pollWatches: each watched parameter that differs from "last" is sent.   *)
Changed == {k \in Keys : Here(k) /\ last[k] # Unwatched /\ val[k] # last[k]}

(* Variant: what was sent is not remembered.                               *)
EndFrameForgets ==
  /\ stage = "dispatch"
  /\ stage' = "ui"
  /\ \E r \in [Changed \cap Driven -> Values] :
       /\ val' = [k \in Keys |-> IF k \in Changed \cap Driven THEN r[k] ELSE val[k]]
       /\ heard' = [k \in Keys |-> IF k \in Changed THEN val'[k] ELSE heard[k]]
  /\ asked' = asked \ Changed
  /\ UNCHANGED <<present, notifyOnSet, last>>

EndFrame ==
  /\ stage = "dispatch"
  /\ stage' = "ui"
  /\ last' = [k \in Keys |-> IF k \in Changed THEN val[k] ELSE last[k]]
  /\ \E r \in [Changed \cap Driven -> Values] :
       /\ val' = [k \in Keys |-> IF k \in Changed \cap Driven THEN r[k] ELSE val[k]]
       /\ heard' = [k \in Keys |-> IF k \in Changed THEN val'[k] ELSE heard[k]]
  /\ asked' = asked \ Changed
  /\ UNCHANGED <<present, notifyOnSet>>
-----------------------------------------------------------------------------
Next ==
  \/ \E k \in Keys, v \in Values : UserTurn(k, v) \/ EngineWrite(k, v)
  \/ \E m \in Modules : ModuleRemove(m) \/ ModuleUndo(m)
  \/ ToggleNotify
  \/ BeginFrame
  \/ \E k \in Keys, v \in Requests : ParamSet(k, v)
  \/ \E k \in Keys : ParamGet(k) \/ ParamWatch(k) \/ ParamUnwatch(k)
  \/ \E m \in Modules, f \in [Params -> Values] : PresetLoad(m, f)
  \/ EndFrame

Spec == Init /\ [][Next]_vars
-----------------------------------------------------------------------------
(* Properties *)

(* Every parameter stays in its range whatever a client asks for, and the  *)
(* watch remembers values a parameter can have (applyParamSet's clamp).    *)
TypeOK ==
  /\ present \subseteq Modules
  /\ val \in [Keys -> Values]
  /\ notifyOnSet \in BOOLEAN
  /\ last \in [Keys -> Values \cup {Unwatched}]
  /\ stage \in {"ui", "dispatch"}
  /\ heard \in [Keys -> Values \cup {Unheard}]
  /\ asked \subseteq Keys

Watched == {k \in Keys : last[k] # Unwatched /\ Here(k)}

(* After every frame, a client that only listens to its watch knows the    *)
(* value of a watched parameter, though its module was removed and brought *)
(* back, presets were loaded, or others set it unannounced (pollWatches).  *)
WatchExact ==
  [][EndFrame => \A k \in (Watched \ asked)' \ Driven : heard'[k] = val'[k]]_vars

(* OscController.cpp:413 streams a parameter's changes to a subscriber: in *)
(* a frame whose end the engine thread does not write into, the client     *)
(* knows the value.  A subscription remembers one read of the parameter    *)
(* and sends another (applyParamWatch, :430 and :432), as a poll does      *)
(* (pollWatches, :446 and :448).                                           *)
EngineChangesHeard ==
  [][EndFrame /\ val' = val =>
       \A k \in (Watched \ asked)' : heard'[k] = val'[k]]_vars
=============================================================================
