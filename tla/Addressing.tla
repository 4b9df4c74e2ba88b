----------------------------- MODULE Addressing -----------------------------
(***************************************************************************)
(* How a client says which module, parameter or port it means: by id and   *)
(* number, by name, or by the path of a leaf of the OSCQuery tree, while   *)
(* the patch changes under the names and paths it has kept.                *)
(*                                                                         *)
(* A reference "brand/name:N" is the record [brand, name, index] that      *)
(* resolveModule splits it into; an address is the sequence of its numbers.*)
(***************************************************************************)
EXTENDS Integers, SequencesExt, FiniteSetsExt

CONSTANTS
  Texts,          \* names, slugs and labels
  NoText,         \* the empty one
  Lower,          \* toLower
  Within,         \* <<a, b>>: lower-case text a is a part of b
  Models,         \* the installed models, with what names them
  Ids, Kind,      \* ids the engine may assign, and the model each would be of
  None,           \* no module, no parameter: an /error reply
  Refs,           \* references a client may use
  IntSpan         \* number of values of an int: 2 ^ 32

ASSUME AddressingAssumption ==
  /\ NoText \in Texts
  /\ Lower \in [Texts -> Texts]
  /\ Models \subseteq [slug : Texts, name : Texts, brandSlug : Texts,
                       brandName : Texts, hidden : BOOLEAN, labels : Seq(Texts)]
  /\ Ids \subseteq Nat /\ None \notin Ids
  /\ Kind \in [Ids -> Models]
  /\ Refs \subseteq [brand : Texts, name : Texts, index : Int]
  /\ IntSpan \in Nat \ {0}
  /\ \A m \in Models : 2 * Len(m.labels) <= IntSpan    \* getNumParams is an int

VARIABLES
  order,     \* Engine::getModuleIds, in the engine's order
  undone,    \* the removal that an undo would take back, and what every
             \* reference meant before it
  doc,       \* oscQueryDoc
  known      \* modules in the client's last /state/dump

vars == <<order, undone, doc, known>>

Present == ToSet(order)
Same(a, b) == Lower[a] = Lower[b]        \* ciEq
-----------------------------------------------------------------------------
(* resolveModule *)

(* Variant: human names are compared with their case.                      *)
MatchesCase(m, r) ==
  /\ r.name \in {m.slug, m.name}
  /\ r.brand # NoText => r.brand \in {m.brandSlug, m.brandName}

(* A slug exactly, or a human name in any case.                            *)
Matches(m, r) ==
  /\ m.slug = r.name \/ Same(m.name, r.name)
  /\ r.brand # NoText => m.brandSlug = r.brand \/ Same(m.brandName, r.brand)

(* The instances a reference may mean.                                     *)
Hits(r) == {id \in Present : Matches(Kind[id], r)}

(* Variants: instances in the engine's order; the index counts all modules.*)
BelowInEngine(r, id) ==
  {k \in Hits(r) : \E i, j \in DOMAIN order : i < j /\ order[i] = k /\ order[j] = id}
BelowUnfiltered(r, id) == {k \in Present : k < id}

(* Those that std::sort puts before id.                                    *)
Below(r, id) == {k \in Hits(r) : k < id}

(* Variant: the index is returned in place of the id found there.          *)
ResolveModuleIndex(r) ==
  IF r.index \in 0 .. Cardinality(Hits(r)) - 1 THEN r.index ELSE None

(* hits[index]: the instance with as many before it.                       *)
ResolveModule(r) ==
  LET found == {id \in Hits(r) : Cardinality(Below(r, id)) = r.index}
  IN  IF found = {} THEN None ELSE CHOOSE id \in found : TRUE

-----------------------------------------------------------------------------
(* resolveParam, resolvePort *)

(* Variant: the first label that contains the text.                        *)
FindLabelSubstring(labels, want) ==
  LET parts == {p \in DOMAIN labels : <<Lower[want], Lower[labels[p]]>> \in Within}
  IN  IF parts # {} /\ want # NoText THEN Min(parts) - 1 ELSE None

(* An exact label wins, then the first that contains the text.             *)
FindLabel(labels, want) ==
  LET exact == {p \in DOMAIN labels : Same(labels[p], want)}
      parts == {p \in DOMAIN labels : <<Lower[want], Lower[labels[p]]>> \in Within}
  IN  CASE exact # {}                    -> Min(exact) - 1
        [] exact = {} /\ parts # {} /\ want # NoText -> Min(parts) - 1
        [] OTHER                         -> None

(* A number is itself, if there is such a parameter or port.               *)
FindNumber(labels, p) == IF p \in 0 .. Len(labels) - 1 THEN p ELSE None
-----------------------------------------------------------------------------
(* tryParamAddress *)

(* atoi: what does not fit an int wraps.                                   *)
Atoi(n) ==
  LET r == n % IntSpan IN IF 2 * r >= IntSpan THEN r - IntSpan ELSE r

(* "/param/<id>/<p>", if both are numbers.                                 *)
ParamAt(a, b) ==
  IF a \in Present
  THEN <<a, FindNumber(Kind[a].labels, Atoi(b))>>
  ELSE <<None, None>>
-----------------------------------------------------------------------------
(* rebuildOscQuery and handleOscQuery.  A node is its FULL_PATH and its    *)
(* CONTENTS; the key "param" is Param, the other keys are numbers.         *)

Param == -1
Missing == [full |-> <<Param, Param>>, contents |-> <<>>]

Leaf(id, p) == [full |-> <<Param, id, p>>, contents |-> <<>>]

WithParams == {id \in Present : Kind[id].labels # <<>>}

(* Variant: parameters numbered from one.                                  *)
TreeFromOne ==
  [full |-> <<>>, contents |-> [k \in {Param} |->
    [full |-> <<Param>>, contents |-> [id \in WithParams |->
      [full |-> <<Param, id>>,
       contents |-> [p \in 1 .. Len(Kind[id].labels) |-> Leaf(id, p)]]]]]]

Tree ==
  [full |-> <<>>, contents |-> [k \in {Param} |->
    [full |-> <<Param>>, contents |-> [id \in WithParams |->
      [full |-> <<Param, id>>,
       contents |-> [p \in 0 .. Len(Kind[id].labels) - 1 |-> Leaf(id, p)]]]]]]

Step(node, seg) ==
  IF seg \in DOMAIN node.contents THEN node.contents[seg] ELSE Missing

(* The node a request path leads to, hop by hop.                           *)
Navigate(path) == FoldLeft(Step, doc, path)
-----------------------------------------------------------------------------
(* resolveModel, for /module/add: exact slugs, or the only candidate.      *)

Exact(b, n) == {m \in Models : m.brandSlug = b /\ m.slug = n}

Candidates(b, n) ==
  {m \in Models : /\ ~m.hidden
                  /\ m.brandSlug = b \/ Same(m.brandName, b)
                  /\ m.slug = n \/ Same(m.name, n)}

ResolveModel(b, n) ==
  IF Exact(b, n) # {} THEN Exact(b, n)
  ELSE IF Cardinality(Candidates(b, n)) = 1 THEN Candidates(b, n) ELSE {}
-----------------------------------------------------------------------------
NoUndo == [id |-> None, meant |-> <<>>]

Init ==
  /\ order \in {<<>>} \cup {<<id>> : id \in Ids}
  /\ undone = NoUndo
  /\ doc = Tree
  /\ known = {}

Appear(id) ==
  /\ id \in Ids \ Present
  /\ order' = Append(order, id)
  /\ undone' = NoUndo
  /\ UNCHANGED <<doc, known>>

(* Modules come, go and come back with their ids, at the end of the        *)
(* engine's list: by the user, by requests, by undo.                       *)
UserAdd(id) == Appear(id)

AddByName(b, n) ==
  \E id \in Ids : Kind[id] \in ResolveModel(b, n) /\ Appear(id)

Disappear(id) ==
  /\ \E i \in DOMAIN order : order[i] = id /\ order' = RemoveAt(order, i)
  /\ undone' = [id |-> id, meant |-> [r \in Refs |-> ResolveModule(r)]]
  /\ UNCHANGED <<doc, known>>

Undo ==
  /\ undone.id # None
  /\ order' = Append(order, undone.id)
  /\ undone' = NoUndo
  /\ UNCHANGED <<doc, known>>

Rebuild ==
  /\ doc' = Tree
  /\ UNCHANGED <<order, undone, known>>

Dump ==
  /\ known' = Present
  /\ UNCHANGED <<order, undone, doc>>

Next ==
  \/ \E id \in Ids : UserAdd(id) \/ Disappear(id)
  \/ \E r \in Refs : AddByName(r.brand, r.name)
  \/ Undo \/ Rebuild \/ Dump

Spec == Init /\ [][Next]_vars
-----------------------------------------------------------------------------
(* Properties *)

(* The engine lists a module once; the other variables hold modules.       *)
TypeOK ==
  /\ Present \subseteq Ids /\ Cardinality(Present) = Len(order)
  /\ undone.id \in Ids \cup {None}
  /\ undone.id # None => undone.meant \in [Refs -> Ids \cup {None}]
  /\ known \subseteq Ids

(* Every leaf of the cached tree, however old, is found at its FULL_PATH;  *)
(* and sent as an OSC address that path reaches this parameter of this     *)
(* module, or is an error once the module is gone: never another one       *)
(* (rebuildOscQuery, handleOscQuery and tryParamAddress agree).            *)
LeafReachesParam ==
  \A id \in DOMAIN doc.contents[Param].contents :
    /\ DOMAIN Navigate(<<Param, id>>).contents = 0 .. Len(Kind[id].labels) - 1
    /\ \A p \in DOMAIN Navigate(<<Param, id>>).contents :
         LET leaf == Navigate(<<Param, id, p>>) IN
         /\ leaf = Navigate(leaf.full)
         /\ ParamAt(leaf.full[2], leaf.full[3]) =
              IF id \in Present THEN <<id, p>> ELSE <<None, None>>

(* With the slugs and labels of a dump a client reaches every module and   *)
(* every parameter, the first of those that share a label (README.md:181). *)
DumpedNamesReach ==
  \A id \in Present :
    LET m == Kind[id] IN
    /\ \E k \in 0 .. Len(order) - 1 :
         ResolveModule([brand |-> m.brandSlug, name |-> m.slug, index |-> k]) = id
    /\ \A p \in DOMAIN m.labels :
         FindLabel(m.labels, m.labels[p]) =
           Min({q \in DOMAIN m.labels : Same(m.labels[q], m.labels[p])}) - 1

(* Removing a module and taking that back leaves every reference, by index *)
(* or not, with the meaning it had, although the engine lists the module   *)
(* in another place (the std::sort of resolveModule).                      *)
UndoRestoresNames ==
  [][Undo => \A r \in Refs : ResolveModule(r)' = undone.meant[r]]_vars

(* The references without an index that name one module of the last dump.  *)
NamesOne(r, id) == r.index = 0 /\ {k \in known : Matches(Kind[k], r)} = {id}

(* Whatever goes, comes back or comes new under other names, a name that   *)
(* meant one module in the last dump means it while it is there and is an  *)
(* error while it is gone, as long as no module that came since answers to *)
(* the name as well (resolveModule filters before it counts).              *)
KeptNamesKeep ==
  \A r \in Refs, id \in known :
    /\ NamesOne(r, id)
    /\ \A k \in Present \ known : ~Matches(Kind[k], r)
    => ResolveModule(r) = IF id \in Present THEN id ELSE None

(* README.md:178 and :181: "A name that matches nothing, or an ambiguous   *)
(* one, returns an /error", "so a client can discover them once and then   *)
(* address by name forever".  So a name that meant one module in the last  *)
(* dump means it or is an error while that module is there, also when one  *)
(* that came since answers to it (resolveModule returns the first hit).    *)
DumpedNameForever ==
  \A r \in Refs, id \in known \cap Present :
    NamesOne(r, id) => ResolveModule(r) \in {id, None}

(* The names a module was added by address it afterwards, if no instance   *)
(* answered to them before: resolveModule matches like resolveModel.       *)
AddedNameAddresses ==
  [][\A r \in Refs :
       /\ r.brand # NoText /\ r.index = 0 /\ ResolveModule(r) = None
       /\ AddByName(r.brand, r.name)
       => ResolveModule(r)' = Last(order')]_vars
=============================================================================
