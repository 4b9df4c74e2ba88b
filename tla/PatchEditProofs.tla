-------------------------- MODULE PatchEditProofs --------------------------
(***************************************************************************)
(* Proofs about the patch and its undo history, for any ids, ports,        *)
(* initial patch and requests: the patch stays well-formed, each entry of  *)
(* the history applies when its turn comes, and undoing all of it restores *)
(* the first patch.                                                        *)
(*                                                                         *)
(* The argument: behind a history of n entries there are n + 1 patches     *)
(* (Recorded), the first is the one Rack loaded, entry i leads from patch  *)
(* i - 1 to patch i and back, and the present patch is the one at "done".  *)
(* Undo and redo move along these patches; a push cuts them off and goes   *)
(* on in another direction (Extend).                                       *)
(***************************************************************************)
EXTENDS PatchEdit, SequenceTheorems, FiniteSetTheorems, TLAPS

Patches == [mods : SUBSET ModuleIds, cabs : SUBSET Cables]

Start == [mods |-> Initial, cabs |-> InitialCables]
Now   == [mods |-> modules, cabs |-> cables]

WellFormed(p) ==
  /\ IsFiniteSet(p.cabs)
  /\ \A c \in p.cabs : c.out \in p.mods /\ c.in \in p.mods
  /\ \A c, k \in p.cabs :
       c.id = k.id \/ (c.in = k.in /\ c.inPort = k.inPort) => c = k

AddsTo(e, p) ==
  /\ e.mods \cap p.mods = {}
  /\ \A c \in e.cabs :
       /\ c.out \in p.mods \cup e.mods /\ c.in \in p.mods \cup e.mods
       /\ \A k \in p.cabs : c.id # k.id /\ ~(k.in = c.in /\ k.inPort = c.inPort)

TakesFrom(e, p) ==
  /\ e.mods \subseteq p.mods
  /\ e.cabs \subseteq p.cabs
  /\ \A c \in p.cabs : c.out \in e.mods \/ c.in \in e.mods => c \in e.cabs

Applies(e, p) == IF e.op = "add" THEN AddsTo(e, p) ELSE TakesFrom(e, p)

After(e, p) ==
  IF e.op = "add"
  THEN [mods |-> p.mods \cup e.mods, cabs |-> p.cabs \cup e.cabs]
  ELSE [mods |-> p.mods \ e.mods, cabs |-> p.cabs \ e.cabs]

(* P holds the patches between the entries of h.                           *)
Trace(P, h) ==
  /\ P \in [0 .. Len(h) -> Patches]
  /\ P[0] = Start
  /\ \A i \in 0 .. Len(h) : WellFormed(P[i])
  /\ \A i \in 1 .. Len(h) : /\ Applies(h[i], P[i - 1])
                            /\ P[i] = After(h[i], P[i - 1])

(* Ids are assigned once, so one id names the same cable in all of them.   *)
Within(P) ==
  \A i \in DOMAIN P : /\ P[i].mods \subseteq usedModules
                      /\ \A c \in P[i].cabs : c.id \in usedCables

OneName(P) ==
  \A i, j \in DOMAIN P : \A c \in P[i].cabs, k \in P[j].cabs :
    c.id = k.id => c = k

Recorded(P) ==
  /\ Trace(P, history)
  /\ P[done] = Now
  /\ Within(P) /\ OneName(P)

Inv == TypeOK /\ \E P : Recorded(P)

(* The patches of a new history R are those of P or hold a new cable.      *)
Continues(P, R) ==
  \A i \in DOMAIN R : \A c \in R[i].cabs :
    c.id \notin usedCables \/ \E j \in DOMAIN P : c \in P[j].cabs
-----------------------------------------------------------------------------
(* One entry *)

LEMMA AfterType ==
  ASSUME NEW e \in Entries, NEW p \in Patches
  PROVE  After(e, p) \in Patches
BY DEF Entries, Patches, After

(* An entry that was applied can be taken back, which gives the patch      *)
(* before it.                                                              *)
LEMMA Reverses ==
  ASSUME NEW e \in Entries, NEW p \in Patches, WellFormed(p), Applies(e, p)
  PROVE  LET q == After(e, p) IN
         /\ e.op = "add" => /\ TakesFrom(e, q)
                            /\ q.mods \ e.mods = p.mods
                            /\ q.cabs \ e.cabs = p.cabs
         /\ e.op # "add" => /\ AddsTo(e, q)
                            /\ q.mods \cup e.mods = p.mods
                            /\ q.cabs \cup e.cabs = p.cabs
<1>1. CASE e.op = "add"
  <2>1. After(e, p) = [mods |-> p.mods \cup e.mods, cabs |-> p.cabs \cup e.cabs]
    BY <1>1 DEF After
  <2>2. TakesFrom(e, After(e, p))
    BY <1>1, <2>1 DEF Applies, AddsTo, TakesFrom, WellFormed
  <2>3. (p.mods \cup e.mods) \ e.mods = p.mods
    BY <1>1 DEF Applies, AddsTo
  <2>4. (p.cabs \cup e.cabs) \ e.cabs = p.cabs
    BY <1>1 DEF Applies, AddsTo
  <2> QED
    BY <1>1, <2>1, <2>2, <2>3, <2>4
<1>2. CASE e.op # "add"
  <2>1. After(e, p) = [mods |-> p.mods \ e.mods, cabs |-> p.cabs \ e.cabs]
    BY <1>2 DEF After
  <2>2. AddsTo(e, After(e, p))
    BY <1>2, <2>1 DEF Applies, AddsTo, TakesFrom, WellFormed
  <2>3. /\ (p.mods \ e.mods) \cup e.mods = p.mods
        /\ (p.cabs \ e.cabs) \cup e.cabs = p.cabs
    BY <1>2 DEF Applies, TakesFrom
  <2> QED
    BY <1>2, <2>1, <2>2, <2>3
<1> QED
  BY <1>1, <1>2
-----------------------------------------------------------------------------
(* Histories *)

LEMMA Spliced ==
  ASSUME NEW h \in Seq(Entries), NEW d \in 0 .. Len(h), NEW es \in Seq(Entries)
  PROVE  LET s == SubSeq(h, 1, d) \o es IN
         /\ s \in Seq(Entries) /\ Len(s) = d + Len(es)
         /\ \A i \in 1 .. d : s[i] = h[i]
         /\ \A i \in 1 .. Len(es) : s[d + i] = es[i]
<1> DEFINE b == SubSeq(h, 1, d)
<1>1. /\ Len(h) \in Nat /\ Len(es) \in Nat
      /\ \A i \in 1 .. d : h[i] \in Entries
  BY LenProperties
<1>2. /\ b \in Seq(Entries)
      /\ Len(b) = d
      /\ \A i \in 1 .. d : b[i] = h[i]
  <2>1. /\ SubSeq(h, 1, d) \in Seq(Entries)
        /\ Len(SubSeq(h, 1, d)) = IF 1 <= d THEN d - 1 + 1 ELSE 0
        /\ \A i \in 1 .. d - 1 + 1 : SubSeq(h, 1, d)[i] = h[1 + i - 1]
    BY <1>1, SubSeqProperties
  <2> QED
    BY <1>1, <2>1
<1> HIDE DEF b
<1>3. /\ b \o es \in Seq(Entries)
      /\ Len(b \o es) = d + Len(es)
      /\ \A i \in 1 .. d + Len(es) :
           (b \o es)[i] = IF i <= d THEN b[i] ELSE es[i - d]
  BY <1>2, ConcatProperties
<1>4. \A i \in 1 .. Len(es) : (b \o es)[d + i] = es[i]
  BY <1>1, <1>3
<1>5. \A i \in 1 .. d : (b \o es)[i] = h[i]
  BY <1>1, <1>2, <1>3
<1> QED
  BY <1>3, <1>4, <1>5 DEF b

(* The patches along P up to d and then along Q.                           *)
Joined(P, d, Q, n) == [i \in 0 .. d + n |-> IF i <= d THEN P[i] ELSE Q[i - d]]

LEMMA Extend ==
  ASSUME NEW h \in Seq(Entries), NEW d \in 0 .. Len(h), NEW es \in Seq(Entries),
         NEW P, Trace(P, h),
         NEW Q \in [0 .. Len(es) -> Patches], Q[0] = P[d],
         \A i \in 0 .. Len(es) : WellFormed(Q[i]),
         \A i \in 1 .. Len(es) : /\ Applies(es[i], Q[i - 1])
                                 /\ Q[i] = After(es[i], Q[i - 1])
  PROVE  Trace(Joined(P, d, Q, Len(es)), SubSeq(h, 1, d) \o es)
<1> DEFINE s == SubSeq(h, 1, d) \o es
           R == Joined(P, d, Q, Len(es))
<1>1. /\ Len(s) = d + Len(es)
      /\ \A i \in 1 .. d : s[i] = h[i]
      /\ \A i \in 1 .. Len(es) : s[d + i] = es[i]
  BY Spliced
<1>2. Len(h) \in Nat /\ Len(es) \in Nat
  BY LenProperties
<1>3. /\ \A i \in 0 .. d : R[i] = P[i]
      /\ \A i \in 0 .. Len(es) : R[d + i] = Q[i]
  BY <1>2 DEF Joined
<1>4. R \in [0 .. Len(s) -> Patches]
  BY <1>1, <1>2 DEF Joined, Trace
<1>5. R[0] = Start
  BY <1>2, <1>3 DEF Trace
<1> HIDE DEF s, R
<1>6. ASSUME NEW i \in 0 .. Len(s)
      PROVE  WellFormed(R[i])
  <2>1. CASE i <= d
    BY <1>2, <1>3, <2>1 DEF Trace
  <2>2. CASE ~(i <= d)
    <3>1. i - d \in 0 .. Len(es) /\ i = d + (i - d)
      BY <1>1, <1>2, <2>2
    <3> QED
      BY <1>3, <3>1
  <2> QED
    BY <2>1, <2>2
<1>7. ASSUME NEW i \in 1 .. Len(s)
      PROVE  Applies(s[i], R[i - 1]) /\ R[i] = After(s[i], R[i - 1])
  <2>1. CASE i <= d
    <3>1. i \in 1 .. d /\ i \in 0 .. d /\ i - 1 \in 0 .. d /\ i \in 1 .. Len(h)
      BY <1>2, <2>1
    <3> QED
      BY <1>1, <1>3, <3>1 DEF Trace
  <2>2. CASE ~(i <= d)
    <3>1. PICK j \in 1 .. Len(es) : i = d + j
      <4>1. i - d \in 1 .. Len(es) /\ i = d + (i - d)
        BY <1>1, <1>2, <2>2
      <4> QED
        BY <4>1
    <3>2. i - 1 = d + (j - 1) /\ j - 1 \in 0 .. Len(es) /\ j \in 0 .. Len(es)
      BY <1>2, <3>1
    <3>3. s[i] = es[j] /\ R[i] = Q[j] /\ R[i - 1] = Q[j - 1]
      BY <1>1, <1>3, <3>1, <3>2
    <3> QED
      BY <3>3
  <2> QED
    BY <2>1, <2>2
<1> QED
  BY <1>4, <1>5, <1>6, <1>7 DEF Trace, s, R
-----------------------------------------------------------------------------
(* Pushes *)

LEMMA PushType ==
  ASSUME TypeOK, NEW es \in Seq(Entries), Push(es)
  PROVE  /\ history' \in Seq(Entries)
         /\ Len(history') = done + Len(es)
         /\ done' = Len(history')
BY Spliced DEF TypeOK, Push

(* A handler that pushes the entries es, by way of the patches Q.          *)
LEMMA PushRecorded ==
  ASSUME TypeOK, NEW P, Recorded(P),
         NEW es \in Seq(Entries), Push(es),
         NEW Q \in [0 .. Len(es) -> Patches],
         Q[0] = Now, Q[Len(es)] = Now',
         \A i \in 0 .. Len(es) : WellFormed(Q[i]),
         \A i \in 1 .. Len(es) : /\ Applies(es[i], Q[i - 1])
                                 /\ Q[i] = After(es[i], Q[i - 1]),
         usedModules \subseteq usedModules', usedCables \subseteq usedCables',
         \A i \in 0 .. Len(es) :
           /\ Q[i].mods \subseteq usedModules'
           /\ \A c \in Q[i].cabs : /\ c.id \in usedCables'
                                   /\ c \in cables \/ c.id \notin usedCables,
         \A i, j \in 0 .. Len(es) : \A c \in Q[i].cabs, k \in Q[j].cabs :
           c.id = k.id => c = k
  PROVE  \E R : Recorded(R)' /\ Continues(P, R)
<1> DEFINE n == Len(es)
<1> PICK R : R = Joined(P, done, Q, n)
  OBVIOUS
<1>0. /\ history \in Seq(Entries) /\ done \in 0 .. Len(history)
      /\ Len(history) \in Nat /\ n \in Nat
  BY LenProperties DEF TypeOK
<1>1. Trace(P, history) /\ P[done] = Now /\ Within(P) /\ OneName(P)
  BY DEF Recorded
<1>2. Trace(R, history')
  BY <1>0, <1>1, Extend DEF Push
<1>3. DOMAIN R = 0 .. done + n /\ DOMAIN P = 0 .. Len(history)
  BY <1>1 DEF Trace, Joined
<1>4. done' = done + n /\ R[done'] = Now'
  <2>1. done' = done + n
    BY DEF Push
  <2>2. R[done + n] = Q[n]
    <3>1. CASE n = 0
      BY <1>0, <1>1, <3>1 DEF Joined
    <3>2. CASE n # 0
      BY <1>0, <3>2 DEF Joined
    <3> QED
      BY <3>1, <3>2
  <2> QED
    BY <2>1, <2>2
<1>5. ASSUME NEW i \in DOMAIN R
      PROVE  \/ i \in DOMAIN P /\ R[i] = P[i]
             \/ \E j \in 0 .. n : R[i] = Q[j]
  <2>1. CASE i <= done
    BY <1>0, <1>3, <2>1 DEF Joined
  <2>2. CASE ~(i <= done)
    <3>1. i - done \in 0 .. n /\ R[i] = Q[i - done]
      BY <1>0, <1>3, <2>2 DEF Joined
    <3> QED
      BY <3>1
  <2> QED
    BY <2>1, <2>2
<1>6. ASSUME NEW i \in DOMAIN R, NEW c \in R[i].cabs
      PROVE  \/ \E j \in DOMAIN P : c \in P[j].cabs
             \/ c.id \notin usedCables /\ \E j \in 0 .. n : c \in Q[j].cabs
  <2>1. CASE i \in DOMAIN P /\ R[i] = P[i]
    BY <2>1
  <2>2. ASSUME NEW j \in 0 .. n, R[i] = Q[j]
        PROVE  \/ \E l \in DOMAIN P : c \in P[l].cabs
               \/ c.id \notin usedCables /\ \E l \in 0 .. n : c \in Q[l].cabs
    <3>1. c \in Q[j].cabs
      BY <2>2
    <3>2. c \in cables \/ c.id \notin usedCables
      BY <3>1
    <3>3. CASE c \in cables
      <4>1. c \in P[done].cabs /\ done \in DOMAIN P
        BY <1>0, <1>1, <1>3, <3>3 DEF Now
      <4> QED
        BY <4>1
    <3> QED
      BY <3>1, <3>2, <3>3
  <2> QED
    BY <1>5, <2>1, <2>2
<1>7. OneName(R)
  <2> SUFFICES ASSUME NEW i \in DOMAIN R, NEW j \in DOMAIN R,
                      NEW c \in R[i].cabs, NEW k \in R[j].cabs, c.id = k.id
               PROVE  c = k
    BY DEF OneName
  <2>1. CASE /\ \E l \in DOMAIN P : c \in P[l].cabs
             /\ \E l \in DOMAIN P : k \in P[l].cabs
    BY <1>1, <2>1 DEF OneName
  <2>2. CASE /\ \E l \in 0 .. n : c \in Q[l].cabs
             /\ \E l \in 0 .. n : k \in Q[l].cabs
    BY <2>2
  <2>3. \A x : (\E l \in DOMAIN P : x \in P[l].cabs) => x.id \in usedCables
    BY <1>1 DEF Within
  <2> QED
    BY <1>6, <2>1, <2>2, <2>3
<1>8. Within(R)'
  <2> SUFFICES ASSUME NEW i \in DOMAIN R
               PROVE  /\ R[i].mods \subseteq usedModules'
                      /\ \A c \in R[i].cabs : c.id \in usedCables'
    BY DEF Within
  <2>1. CASE i \in DOMAIN P /\ R[i] = P[i]
    BY <1>1, <2>1 DEF Within
  <2>2. CASE \E j \in 0 .. n : R[i] = Q[j]
    BY <2>2
  <2> QED
    BY <1>5, <2>1, <2>2
<1>9. Continues(P, R)
  BY <1>6 DEF Continues
<1>10. Recorded(R)'
  BY <1>2, <1>4, <1>7, <1>8 DEF Recorded, Trace, OneName, Start, WellFormed
<1> QED
  BY <1>9, <1>10
-----------------------------------------------------------------------------
(* Handlers and gestures that push one entry *)

LEMMA NowType ==
  ASSUME TypeOK, NEW P, Recorded(P)
  PROVE  /\ Now \in Patches /\ WellFormed(Now)
         /\ modules \subseteq usedModules
         /\ \A c \in cables : c.id \in usedCables
<1>1. done \in 0 .. Len(history) /\ done \in DOMAIN P
  BY DEF TypeOK, Recorded, Trace
<1> QED
  BY <1>1 DEF TypeOK, Recorded, Trace, Within, Now, Patches

LEMMA SubWellFormed ==
  ASSUME NEW p, WellFormed(p), NEW q, q.cabs \subseteq p.cabs,
         \A c \in q.cabs : c.out \in q.mods /\ c.in \in q.mods
  PROVE  WellFormed(q)
<1>1. IsFiniteSet(q.cabs)
  BY FS_Subset DEF WellFormed
<1> QED
  BY <1>1 DEF WellFormed

LEMMA OneEntry ==
  ASSUME TypeOK, NEW P, Recorded(P), NEW e \in Entries, Push(<<e>>),
         Applies(e, Now), Now' = After(e, Now), WellFormed(After(e, Now)),
         usedModules \subseteq usedModules', usedCables \subseteq usedCables',
         e.mods \subseteq usedModules',
         \A c \in e.cabs : /\ c.id \in usedCables'
                           /\ c \in cables \/ c.id \notin usedCables
  PROVE  \E R : Recorded(R)' /\ Continues(P, R)
<1>1. <<e>> \in Seq(Entries) /\ Len(<<e>>) = 1 /\ <<e>>[1] = e
  OBVIOUS
<1> PICK p : p = Now
  OBVIOUS
<1> PICK q : q = After(e, p)
  OBVIOUS
<1> PICK Q : Q = [i \in 0 .. 1 |-> IF i = 0 THEN p ELSE q]
  OBVIOUS
<1>2. /\ p \in Patches /\ q \in Patches /\ WellFormed(p) /\ WellFormed(q)
      /\ p.mods \subseteq usedModules
      /\ \A c \in p.cabs : c.id \in usedCables
      /\ p.cabs = cables
  BY NowType, AfterType DEF Now
<1>3. /\ q.mods \subseteq p.mods \cup e.mods
      /\ q.cabs \subseteq p.cabs \cup e.cabs
  BY DEF After
<1>4. Q \in [0 .. 1 -> Patches] /\ Q[0] = p /\ Q[1] = q
  BY <1>2
<1>5. \A c \in p.cabs \cup q.cabs, k \in p.cabs \cup q.cabs :
        c.id = k.id => c = k
  <2>1. p.cabs \subseteq q.cabs \/ q.cabs \subseteq p.cabs
    BY DEF After
  <2> QED
    BY <1>2, <2>1 DEF WellFormed
<1>6. \A i \in 0 .. 1 : i = 0 \/ i = 1
  OBVIOUS
<1>7. /\ \A i \in 0 .. 1 : WellFormed(Q[i])
      /\ \A i \in 1 .. 1 : Applies(e, Q[i - 1]) /\ Q[i] = After(e, Q[i - 1])
  BY <1>2, <1>4, <1>6
<1>8. \A i \in 0 .. 1 :
        /\ Q[i].mods \subseteq usedModules'
        /\ \A c \in Q[i].cabs : /\ c.id \in usedCables'
                                /\ c \in cables \/ c.id \notin usedCables
  BY <1>2, <1>3, <1>4, <1>6
<1>9. \A i, j \in 0 .. 1 : \A c \in Q[i].cabs, k \in Q[j].cabs :
        c.id = k.id => c = k
  BY <1>4, <1>5, <1>6
<1>10. Q[1] = Now' /\ \A i \in 1 .. 1 : <<e>>[i] = e
  BY <1>4
<1> HIDE DEF Now
<1> QED
  BY <1>1, <1>4, <1>7, <1>8, <1>9, <1>10, PushRecorded

LEMMA AddOne ==
  ASSUME TypeOK, NEW P, Recorded(P), NEW e \in Entries, e.op = "add",
         Push(<<e>>), Add(e), AddsTo(e, Now), WellFormed(After(e, Now)),
         usedModules' = usedModules \cup e.mods,
         usedCables' = usedCables \cup Ids(e.cabs),
         \A c \in e.cabs : c.id \notin usedCables
  PROVE  \E R : Recorded(R)' /\ Continues(P, R)
<1>1. Now' = After(e, Now) /\ Applies(e, Now)
  BY DEF Now, After, Applies, Add
<1>2. \A c \in e.cabs : c.id \in usedCables'
  BY DEF Ids
<1> QED
  BY <1>1, <1>2, OneEntry

LEMMA ModulePushed ==
  ASSUME TypeOK, NEW P, Recorded(P), NEW m \in ModuleIds, m \notin usedModules,
         usedModules' = usedModules \cup {m}, usedCables' = usedCables,
         Add(Entry("add", {m}, {})), Push(<<Entry("add", {m}, {})>>)
  PROVE  \E R : Recorded(R)' /\ Continues(P, R)
<1> DEFINE e == Entry("add", {m}, {})
<1>1. e \in Entries /\ e.op = "add" /\ e.mods = {m} /\ e.cabs = {}
  BY DEF Entry, Entries
<1>2. AddsTo(e, Now)
  BY <1>1, NowType DEF AddsTo, Now
<1>3. WellFormed(After(e, Now))
  <2>1. /\ After(e, Now).cabs = Now.cabs
        /\ Now.mods \subseteq After(e, Now).mods
    BY <1>1 DEF After
  <2> QED
    BY <2>1, NowType, SubWellFormed DEF WellFormed
<1>4. Ids(e.cabs) = {}
  BY <1>1 DEF Ids
<1> QED
  BY <1>1, <1>2, <1>3, <1>4, AddOne

LEMMA CablePushed ==
  ASSUME TypeOK, NEW P, Recorded(P), NEW c \in Cables, NewCable(c),
         usedModules' = usedModules, usedCables' = usedCables \cup {c.id},
         Add(Entry("add", {}, {c})), Push(<<Entry("add", {}, {c})>>)
  PROVE  \E R : Recorded(R)' /\ Continues(P, R)
<1> DEFINE e == Entry("add", {}, {c})
<1>1. e \in Entries /\ e.op = "add" /\ e.mods = {} /\ e.cabs = {c}
  BY DEF Entry, Entries
<1>2. /\ c.out \in modules /\ c.in \in modules
      /\ \A k \in cables : c.id # k.id /\ ~(k.in = c.in /\ k.inPort = c.inPort)
  BY NowType DEF NewCable, FeedsInput
<1>3. AddsTo(e, Now)
  BY <1>1, <1>2 DEF AddsTo, Now
<1>4. WellFormed(After(e, Now))
  <2> PICK q : q = After(e, Now)
    OBVIOUS
  <2>1. q.mods = modules /\ q.cabs = cables \cup {c}
    BY <1>1 DEF After, Now
  <2>2. IsFiniteSet(cables \cup {c})
    BY NowType, FS_AddElement DEF WellFormed, Now
  <2>3. /\ \A k \in cables : k.out \in modules /\ k.in \in modules
        /\ \A x, k \in cables :
             x.id = k.id \/ (x.in = k.in /\ x.inPort = k.inPort) => x = k
    BY NowType DEF WellFormed, Now
  <2>4. \A x, k \in cables \cup {c} :
          x.id = k.id \/ (x.in = k.in /\ x.inPort = k.inPort) => x = k
    BY <1>2, <2>3
  <2>5. \A k \in cables \cup {c} : k.out \in modules /\ k.in \in modules
    BY <1>2, <2>3
  <2>6. WellFormed(q)
    BY <2>1, <2>2, <2>4, <2>5 DEF WellFormed
  <2> QED
    BY <2>6
<1>5. Ids(e.cabs) = {c.id} /\ c.id \notin usedCables
  BY <1>1 DEF Ids, NewCable
<1> QED
  BY <1>1, <1>3, <1>4, <1>5, AddOne

LEMMA TakeOne ==
  ASSUME TypeOK, NEW P, Recorded(P), NEW e \in Entries, e.op = "remove",
         Push(<<e>>), Remove(e), TakesFrom(e, Now), UNCHANGED idVars
  PROVE  \E R : Recorded(R)' /\ Continues(P, R)
<1>1. Now' = After(e, Now) /\ Applies(e, Now)
  BY DEF Now, After, Applies, Remove
<1>2. /\ After(e, Now).cabs = cables \ e.cabs
      /\ After(e, Now).mods = modules \ e.mods
  BY DEF After, Now
<1>3. WellFormed(After(e, Now))
  <2>1. \A c \in cables : c.out \in modules /\ c.in \in modules
    BY NowType DEF Now, WellFormed
  <2>2. \A c \in cables : c.out \in e.mods \/ c.in \in e.mods => c \in e.cabs
    BY DEF TakesFrom, Now
  <2> QED
    BY <1>2, <2>1, <2>2, NowType, SubWellFormed DEF Now
<1>4. e.mods \subseteq usedModules /\ \A c \in e.cabs : c \in cables
  BY NowType DEF TakesFrom, Now
<1> QED
  BY <1>1, <1>3, <1>4, NowType, OneEntry DEF idVars
-----------------------------------------------------------------------------
(* applyModuleRemove: one entry a cable, then the module's *)

LEMMA OrderIsOneToOne ==
  ASSUME NEW cs, IsFiniteSet(cs), NEW o \in Orders(cs)
  PROVE  /\ Cardinality(cs) \in Nat
         /\ o \in [1 .. Cardinality(cs) -> cs]
         /\ \A c \in cs : \E i \in 1 .. Cardinality(cs) : o[i] = c
         /\ \A i, j \in 1 .. Cardinality(cs) : o[i] = o[j] => i = j
<1> DEFINE n == Cardinality(cs)
<1>1. n \in Nat
  BY FS_CardinalityType
<1>2. /\ o \in [1 .. n -> cs]
      /\ \A c \in cs : \E i \in 1 .. n : o[i] = c
  BY DEF Orders
<1>3. IsFiniteSet(1 .. n) /\ Cardinality(1 .. n) = n
  BY <1>1, FS_Interval
<1>4. o \in Surjection(1 .. n, cs)
  BY <1>2 DEF Surjection
<1>5. o \in Injection(1 .. n, cs)
  BY <1>3, <1>4, FS_SurjSameCardinalityImpliesInj
<1>6. \A i, j \in 1 .. n : o[i] = o[j] => i = j
  BY <1>5 DEF Injection, IsInjective
<1> QED
  BY <1>1, <1>2, <1>6

(* Removing the cables of m in any order, one by one, and m in the end.    *)
LEMMA ModuleStripped ==
  ASSUME TypeOK, NEW P, Recorded(P), NEW m \in modules,
         NEW o \in Orders(On({m}, cables)),
         Push(Append([i \in DOMAIN o |-> Entry("remove", {}, {o[i]})],
                     Entry("remove", {m}, {}))),
         Remove(Entry("remove", {m}, On({m}, cables))), UNCHANGED idVars
  PROVE  \E R : Recorded(R)' /\ Continues(P, R)
<1>0a. PICK cs : cs = On({m}, cables)
  OBVIOUS
<1>0b. PICK n : n = Cardinality(cs)
  OBVIOUS
<1>0c. PICK strip : strip = [i \in 1 .. n |-> Entry("remove", {}, {o[i]})]
  OBVIOUS
<1>0d. PICK last : last = Entry("remove", {m}, {})
  OBVIOUS
<1>0e. PICK es : es = Append(strip, last)
  OBVIOUS
<1>0f. PICK Q : Q = [i \in 0 .. n + 1 |->
                    IF i <= n
                    THEN [mods |-> modules,
                          cabs |-> {c \in cables : \A j \in 1 .. i : o[j] # c}]
                    ELSE [mods |-> modules \ {m}, cabs |-> cables \ cs]]
  OBVIOUS
<1>1. /\ Now \in Patches /\ WellFormed(Now)
      /\ modules \subseteq usedModules /\ \A c \in cables : c.id \in usedCables
      /\ modules \subseteq ModuleIds /\ cables \subseteq Cables
  BY NowType DEF TypeOK
<1>2. cs \subseteq cables /\ \A c \in cables : c.out = m \/ c.in = m <=> c \in cs
  BY <1>0a DEF On
<1>3. /\ n \in Nat /\ o \in [1 .. n -> cs]
      /\ \A c \in cs : \E i \in 1 .. n : o[i] = c
      /\ \A i, j \in 1 .. n : o[i] = o[j] => i = j
  <2>1. IsFiniteSet(cs)
    BY <1>1, <1>2, FS_Subset DEF WellFormed, Now
  <2>2. o \in Orders(cs)
    BY <1>0a
  <2> QED
    BY <1>0b, <2>1, <2>2, OrderIsOneToOne
<1>4. /\ strip \in Seq(Entries) /\ Len(strip) = n
      /\ \A i \in 1 .. n : strip[i] = Entry("remove", {}, {o[i]})
  <2>1. \A i \in 1 .. n : Entry("remove", {}, {o[i]}) \in Entries
    BY <1>1, <1>2, <1>3 DEF Entry, Entries
  <2>2. strip \in [1 .. n -> Entries]
    BY <1>0c, <2>1
  <2> QED
    BY <1>0c, <1>3, <2>2
<1>5. /\ es \in Seq(Entries) /\ Len(es) = n + 1 /\ es[n + 1] = last
      /\ \A i \in 1 .. n : es[i] = Entry("remove", {}, {o[i]})
  <2>1. last \in Entries
    BY <1>0d, <1>1 DEF Entry, Entries
  <2> QED
    BY <1>0e, <1>3, <1>4, <2>1, AppendProperties
<1>6. Push(es)
  <2>1. DOMAIN o = 1 .. n
    BY <1>3
  <2> QED
    BY <1>0c, <1>0d, <1>0e, <2>1
<1>7. /\ \A i \in 0 .. n :
           /\ Q[i].mods = modules
           /\ Q[i].cabs = {c \in cables : \A j \in 1 .. i : o[j] # c}
      /\ Q[n + 1].mods = modules \ {m} /\ Q[n + 1].cabs = cables \ cs
      /\ \A i \in 0 .. n + 1 :
           Q[i] = [mods |-> Q[i].mods, cabs |-> Q[i].cabs]
  <2>1. ASSUME NEW i \in 0 .. n
        PROVE  Q[i] = [mods |-> modules,
                       cabs |-> {c \in cables : \A j \in 1 .. i : o[j] # c}]
    <3>1. i \in 0 .. n + 1 /\ i <= n
      BY <1>3
    <3> QED
      BY <1>0f, <3>1
  <2>2. Q[n + 1] = [mods |-> modules \ {m}, cabs |-> cables \ cs]
    <3>1. n + 1 \in 0 .. n + 1 /\ ~(n + 1 <= n)
      BY <1>3
    <3> QED
      BY <1>0f, <3>1
  <2>3. ASSUME NEW i \in 0 .. n
        PROVE  /\ Q[i].mods = modules
               /\ Q[i].cabs = {c \in cables : \A j \in 1 .. i : o[j] # c}
               /\ Q[i] = [mods |-> Q[i].mods, cabs |-> Q[i].cabs]
    <3>1. PICK x : x = {c \in cables : \A j \in 1 .. i : o[j] # c}
      OBVIOUS
    <3>2. Q[i] = [mods |-> modules, cabs |-> x]
      BY <2>1, <3>1
    <3>3. /\ Q[i].mods = modules /\ Q[i].cabs = x
          /\ Q[i] = [mods |-> Q[i].mods, cabs |-> Q[i].cabs]
      BY <3>2
    <3> QED
      BY <3>1, <3>3
  <2>4. /\ Q[n + 1].mods = modules \ {m} /\ Q[n + 1].cabs = cables \ cs
        /\ Q[n + 1] = [mods |-> Q[n + 1].mods, cabs |-> Q[n + 1].cabs]
    BY <2>2
  <2>5. ASSUME NEW i \in 0 .. n + 1
        PROVE  Q[i] = [mods |-> Q[i].mods, cabs |-> Q[i].cabs]
    <3>1. CASE i = n + 1
      BY <2>4, <3>1
    <3>2. CASE i # n + 1
      <4>1. i \in 0 .. n
        BY <1>3, <3>2
      <4> QED
        BY <2>3, <4>1
    <3> QED
      BY <3>1, <3>2
  <2> QED
    BY <2>3, <2>4, <2>5
<1>8. /\ \A i \in 0 .. n + 1 : /\ Q[i].mods \subseteq modules
                               /\ Q[i].cabs \subseteq cables
      /\ Q \in [0 .. n + 1 -> Patches]
  <2>1. \A i \in 0 .. n + 1 : i \in 0 .. n \/ i = n + 1
    BY <1>3
  <2>2. ASSUME NEW i \in 0 .. n + 1
        PROVE  Q[i].mods \subseteq modules /\ Q[i].cabs \subseteq cables
    <3>1. CASE i \in 0 .. n
      BY <1>7, <3>1
    <3>2. CASE i = n + 1
      BY <1>7, <3>2
    <3> QED
      BY <2>1, <3>1, <3>2
  <2>3. ASSUME NEW i \in 0 .. n + 1
        PROVE  Q[i] \in Patches
    <3>1. /\ Q[i].mods \in SUBSET ModuleIds /\ Q[i].cabs \in SUBSET Cables
          /\ Q[i] = [mods |-> Q[i].mods, cabs |-> Q[i].cabs]
      BY <1>1, <1>7, <2>2
    <3> QED
      BY <3>1 DEF Patches
  <2> QED
    BY <1>0f, <2>2, <2>3
<1>9. Q[0] = Now
  <2>1. Q[0].mods = modules /\ Q[0].cabs = cables
    <3>1. 0 \in 0 .. n /\ 1 .. 0 = {}
      BY <1>3
    <3>2. Q[0].cabs = {c \in cables : \A j \in 1 .. 0 : o[j] # c}
      BY <1>7, <3>1
    <3>3. {c \in cables : \A j \in 1 .. 0 : o[j] # c} = cables
      BY <3>1
    <3> QED
      BY <1>7, <3>1, <3>2, <3>3
  <2> QED
    BY <1>3, <1>7, <2>1 DEF Now
<1>10. Q[n + 1] = Now'
  BY <1>0a, <1>0f, <1>3 DEF Now, Remove, Entry
<1>11. \A i \in 0 .. n + 1 : WellFormed(Q[i])
  <2>1. \A c \in cables : c.out \in modules /\ c.in \in modules
    BY <1>1 DEF WellFormed, Now
  <2>2. \A c \in cables \ cs : c.out \in modules \ {m} /\ c.in \in modules \ {m}
    BY <1>2, <2>1
  <2>3. ASSUME NEW i \in 0 .. n + 1
        PROVE  \A c \in Q[i].cabs : c.out \in Q[i].mods /\ c.in \in Q[i].mods
    <3>1. CASE i = n + 1
      BY <1>7, <2>2, <3>1
    <3>2. CASE i \in 0 .. n
      BY <1>7, <2>1, <3>2
    <3> QED
      BY <1>3, <3>1, <3>2
  <2>4. ASSUME NEW i \in 0 .. n + 1
        PROVE  Q[i].cabs \subseteq Now.cabs
    BY <1>8 DEF Now
  <2> QED
    BY <1>1, <2>3, <2>4, SubWellFormed
<1>12. ASSUME NEW i \in 1 .. n
       PROVE  Applies(es[i], Q[i - 1]) /\ Q[i] = After(es[i], Q[i - 1])
  <2>1. i - 1 \in 0 .. n /\ i \in 0 .. n /\ i \in 0 .. n + 1
    BY <1>3
  <2>2. /\ es[i].op = "remove" /\ es[i].mods = {} /\ es[i].cabs = {o[i]}
    <3>1. es[i] = Entry("remove", {}, {o[i]})
      BY <1>5
    <3> QED
      BY <3>1 DEF Entry
  <2>3. o[i] \in cables
    BY <1>2, <1>3
  <2>4. \A j \in 1 .. i - 1 : o[j] # o[i]
    BY <1>3
  <2>5. o[i] \in Q[i - 1].cabs
    BY <1>7, <2>1, <2>3, <2>4
  <2>6. Q[i].cabs = Q[i - 1].cabs \ {o[i]}
    <3>1. \A j : j \in 1 .. i <=> j \in 1 .. i - 1 \/ j = i
      BY <1>3
    <3> QED
      BY <1>7, <2>1, <3>1
  <2>7. Q[i].mods = Q[i - 1].mods \ {}
    BY <1>7, <2>1
  <2>8. Q[i] = After(es[i], Q[i - 1])
    <3>1. Q[i] = [mods |-> Q[i].mods, cabs |-> Q[i].cabs]
      BY <1>7, <2>1
    <3>2. After(es[i], Q[i - 1])
            = [mods |-> Q[i - 1].mods \ {}, cabs |-> Q[i - 1].cabs \ {o[i]}]
      BY <2>2 DEF After
    <3> QED
      BY <2>6, <2>7, <3>1, <3>2
  <2> QED
    BY <2>2, <2>5, <2>8 DEF Applies, TakesFrom
<1>13. Applies(es[n + 1], Q[n]) /\ Q[n + 1] = After(es[n + 1], Q[n])
  <2>1. /\ es[n + 1].op = "remove"
        /\ es[n + 1].mods = {m} /\ es[n + 1].cabs = {}
    BY <1>0d, <1>5 DEF Entry
  <2>2. Q[n].mods = modules /\ Q[n].cabs = cables \ cs
    <3>1. n \in 0 .. n
      BY <1>3
    <3>2. \A c \in cables : (\A j \in 1 .. n : o[j] # c) <=> c \notin cs
      BY <1>3
    <3> QED
      BY <1>7, <3>1, <3>2
  <2>3. Q[n + 1] = After(es[n + 1], Q[n])
    <3>1. After(es[n + 1], Q[n])
            = [mods |-> modules \ {m}, cabs |-> (cables \ cs) \ {}]
      BY <2>1, <2>2 DEF After
    <3>2. Q[n + 1] = [mods |-> modules \ {m}, cabs |-> cables \ cs]
      BY <1>0f, <1>3
    <3>3. (cables \ cs) \ {} = cables \ cs
      OBVIOUS
    <3> QED
      BY <3>1, <3>2, <3>3
  <2> QED
    BY <1>2, <2>1, <2>2, <2>3 DEF Applies, TakesFrom
<1>14. \A i \in 1 .. n + 1 : Applies(es[i], Q[i - 1])
                             /\ Q[i] = After(es[i], Q[i - 1])
  <2>1. \A i \in 1 .. n + 1 : i \in 1 .. n \/ (i = n + 1 /\ i - 1 = n)
    BY <1>3
  <2> QED
    BY <1>12, <1>13, <2>1
<1>15. \A c, k \in cables : c.id = k.id => c = k
  BY <1>1 DEF WellFormed, Now
<1>16. /\ \A i \in 0 .. n + 1 :
            /\ Q[i].mods \subseteq usedModules'
            /\ \A c \in Q[i].cabs : /\ c.id \in usedCables'
                                    /\ c \in cables \/ c.id \notin usedCables
       /\ \A i, j \in 0 .. n + 1 : \A c \in Q[i].cabs, k \in Q[j].cabs :
            c.id = k.id => c = k
  BY <1>1, <1>8, <1>15 DEF idVars
<1>17. usedModules \subseteq usedModules' /\ usedCables \subseteq usedCables'
  BY DEF idVars
<1> QED
  BY <1>5, <1>6, <1>8, <1>9, <1>10, <1>11, <1>14, <1>16, <1>17, PushRecorded
-----------------------------------------------------------------------------
(* Undo and redo move along the recorded patches *)

(* What the entries around the present patch lead to, and that they apply. *)
LEMMA Neighbours ==
  ASSUME TypeOK, NEW P, Recorded(P)
  PROVE  /\ done > 0 =>
              LET e == history[done] IN
              /\ e \in Entries /\ done - 1 \in DOMAIN P
              /\ e.op = "add" => /\ TakesFrom(e, Now)
                                 /\ P[done - 1] = [mods |-> modules \ e.mods,
                                                   cabs |-> cables \ e.cabs]
              /\ e.op # "add" => /\ AddsTo(e, Now)
                                 /\ P[done - 1] = [mods |-> modules \cup e.mods,
                                                   cabs |-> cables \cup e.cabs]
         /\ done < Len(history) =>
              LET e == history[done + 1] IN
              /\ e \in Entries /\ done + 1 \in DOMAIN P
              /\ Applies(e, Now) /\ P[done + 1] = After(e, Now)
<1>1. /\ Trace(P, history) /\ P[done] = Now
      /\ history \in Seq(Entries) /\ done \in 0 .. Len(history)
      /\ Len(history) \in Nat /\ DOMAIN P = 0 .. Len(history)
  BY LenProperties DEF TypeOK, Recorded, Trace
<1>2. ASSUME done > 0
      PROVE  LET e == history[done] IN
             /\ e \in Entries /\ done - 1 \in DOMAIN P
             /\ e.op = "add" => /\ TakesFrom(e, Now)
                                /\ P[done - 1] = [mods |-> modules \ e.mods,
                                                  cabs |-> cables \ e.cabs]
             /\ e.op # "add" => /\ AddsTo(e, Now)
                                /\ P[done - 1] = [mods |-> modules \cup e.mods,
                                                  cabs |-> cables \cup e.cabs]
  <2>1. PICK e : e = history[done]
    OBVIOUS
  <2>2. PICK p : p = P[done - 1]
    OBVIOUS
  <2>3. done \in 1 .. Len(history) /\ done - 1 \in 0 .. Len(history)
    BY <1>1, <1>2
  <2>4. /\ e \in Entries /\ p \in Patches /\ WellFormed(p) /\ Applies(e, p)
        /\ Now = After(e, p)
    BY <1>1, <2>1, <2>2, <2>3 DEF Trace
  <2>5. p = [mods |-> p.mods, cabs |-> p.cabs]
    BY <2>4 DEF Patches
  <2>6. Now.mods = modules /\ Now.cabs = cables
    BY DEF Now
  <2>7. e.op = "add" => /\ TakesFrom(e, Now)
                        /\ p.mods = modules \ e.mods /\ p.cabs = cables \ e.cabs
    BY <2>4, <2>6, Reverses
  <2>8. e.op # "add" => /\ AddsTo(e, Now)
                        /\ p.mods = modules \cup e.mods
                        /\ p.cabs = cables \cup e.cabs
    BY <2>4, <2>6, Reverses
  <2> QED
    BY <1>1, <2>1, <2>2, <2>3, <2>4, <2>5, <2>7, <2>8
<1>3. ASSUME done < Len(history)
      PROVE  LET e == history[done + 1] IN
             /\ e \in Entries /\ done + 1 \in DOMAIN P
             /\ Applies(e, Now) /\ P[done + 1] = After(e, Now)
  <2>1. done + 1 \in 1 .. Len(history) /\ (done + 1) - 1 = done
    BY <1>1, <1>3
  <2> QED
    BY <1>1, <2>1 DEF Trace
<1> QED
  BY <1>2, <1>3

LEMMA SameTrace ==
  ASSUME NEW P, Recorded(P), UNCHANGED <<history, idVars>>, P[done'] = Now'
  PROVE  Recorded(P)' /\ Continues(P, P)
BY DEF Recorded, Trace, Within, OneName, Continues, idVars, Start, WellFormed

LEMMA UndoRecorded ==
  ASSUME TypeOK, NEW P, Recorded(P), Undo
  PROVE  Recorded(P)' /\ Continues(P, P)
<1>1. PICK e : e = history[done]
  OBVIOUS
<1>2. /\ done > 0 /\ done' = done - 1
      /\ UNCHANGED <<history, idVars>> /\ Undone(e)
  BY <1>1 DEF Undo
<1>3. /\ e.op = "add" => P[done - 1] = [mods |-> modules \ e.mods,
                                        cabs |-> cables \ e.cabs]
      /\ e.op # "add" => P[done - 1] = [mods |-> modules \cup e.mods,
                                        cabs |-> cables \cup e.cabs]
  BY <1>1, <1>2, Neighbours
<1>4. P[done - 1] = Now'
  <2>1. CASE e.op = "add"
    BY <1>2, <1>3, <2>1 DEF Now, Undone, Remove
  <2>2. CASE e.op # "add"
    BY <1>2, <1>3, <2>2 DEF Now, Undone, Add
  <2> QED
    BY <2>1, <2>2
<1> QED
  BY <1>2, <1>4, SameTrace

LEMMA RedoRecorded ==
  ASSUME TypeOK, NEW P, Recorded(P), Redo
  PROVE  Recorded(P)' /\ Continues(P, P)
<1>1. PICK e : e = history[done + 1]
  OBVIOUS
<1>2. /\ done < Len(history) /\ done' = done + 1
      /\ UNCHANGED <<history, idVars>> /\ Do(e)
  BY <1>1 DEF Redo
<1>3. P[done + 1] = After(e, Now)
  BY <1>1, <1>2, Neighbours
<1>4. After(e, Now) = Now'
  <2>1. CASE e.op = "add"
    BY <1>2, <2>1 DEF Now, After, Do, Add
  <2>2. CASE e.op # "add"
    BY <1>2, <2>2 DEF Now, After, Do, Remove
  <2> QED
    BY <2>1, <2>2
<1> QED
  BY <1>2, <1>3, <1>4, SameTrace
-----------------------------------------------------------------------------
(* The invariant *)

LEMMA UserRecorded ==
  ASSUME TypeOK, NEW P, Recorded(P), User
  PROVE  \E R : Recorded(R)' /\ Continues(P, R)
<1>1. CASE Undo \/ Redo
  BY <1>1, UndoRecorded, RedoRecorded
<1>2. ASSUME NEW m \in ModuleIds, UserAddModule(m)
      PROVE  \E R : Recorded(R)' /\ Continues(P, R)
  BY <1>2, ModulePushed DEF UserAddModule
<1>3. ASSUME NEW m \in ModuleIds, UserRemoveModule(m)
      PROVE  \E R : Recorded(R)' /\ Continues(P, R)
  <2>1. PICK e : e = Entry("remove", {m}, On({m}, cables))
    OBVIOUS
  <2>2. Remove(e) /\ Push(<<e>>) /\ UNCHANGED idVars /\ m \in modules
    BY <1>3, <2>1 DEF UserRemoveModule
  <2>3. e \in Entries /\ e.op = "remove" /\ TakesFrom(e, Now)
    BY <2>1, <2>2 DEF Entry, Entries, On, TakesFrom, Now, TypeOK
  <2> QED
    BY <2>2, <2>3, TakeOne
<1>4. ASSUME NEW c \in Cables, UserAddCable(c)
      PROVE  \E R : Recorded(R)' /\ Continues(P, R)
  BY <1>4, CablePushed DEF UserAddCable
<1>5. ASSUME NEW c \in Cables, UserRemoveCable(c)
      PROVE  \E R : Recorded(R)' /\ Continues(P, R)
  <2>1. PICK e : e = Entry("remove", {}, {c})
    OBVIOUS
  <2>2. Remove(e) /\ Push(<<e>>) /\ UNCHANGED idVars /\ c \in cables
    BY <1>5, <2>1 DEF UserRemoveCable
  <2>3. e \in Entries /\ e.op = "remove" /\ TakesFrom(e, Now)
    BY <2>1, <2>2 DEF Entry, Entries, TakesFrom, Now
  <2> QED
    BY <2>2, <2>3, TakeOne
<1> QED
  BY <1>1, <1>2, <1>3, <1>4, <1>5 DEF User

LEMMA CableRemoveRecorded ==
  ASSUME TypeOK, NEW P, Recorded(P), NEW c \in Cables, CableRemove(c)
  PROVE  \E R : Recorded(R)' /\ Continues(P, R)
<1>1. PICK e : e = Entry("remove", {}, {c})
  OBVIOUS
<1>2. Remove(e) /\ Push(<<e>>) /\ UNCHANGED idVars /\ c \in cables
  BY <1>1 DEF CableRemove
<1>3. e \in Entries /\ e.op = "remove" /\ TakesFrom(e, Now)
  BY <1>1, <1>2 DEF Entry, Entries, TakesFrom, Now
<1> QED
  BY <1>2, <1>3, TakeOne

LEMMA ModuleRemoveRecorded ==
  ASSUME TypeOK, NEW P, Recorded(P), NEW m \in ModuleIds, ModuleRemove(m)
  PROVE  \E R : Recorded(R)' /\ Continues(P, R)
<1>1. PICK o \in Orders(On({m}, cables)) :
        Push(Append([i \in DOMAIN o |-> Entry("remove", {}, {o[i]})],
                    Entry("remove", {m}, {})))
  BY DEF ModuleRemove
<1>2. /\ m \in modules /\ UNCHANGED idVars
      /\ Remove(Entry("remove", {m}, On({m}, cables)))
  BY DEF ModuleRemove
<1> QED
  BY <1>1, <1>2, ModuleStripped

LEMMA RequestRecorded ==
  ASSUME TypeOK, NEW P, Recorded(P), Request
  PROVE  \E R : Recorded(R)' /\ Continues(P, R)
<1>1. ASSUME NEW c \in Cables, CableAdd(c)
      PROVE  \E R : Recorded(R)' /\ Continues(P, R)
  BY <1>1, CablePushed DEF CableAdd
<1>2. ASSUME NEW m \in ModuleIds, ModuleAdd(m)
      PROVE  \E R : Recorded(R)' /\ Continues(P, R)
  BY <1>2, ModulePushed DEF ModuleAdd
<1> QED
  BY <1>1, <1>2, CableRemoveRecorded, ModuleRemoveRecorded DEF Request

(* Every step continues the recorded patches.                              *)
LEMMA StepRecorded ==
  ASSUME TypeOK, NEW P, Recorded(P), [Next]_editVars
  PROVE  \E R : Recorded(R)' /\ Continues(P, R)
<1>1. CASE UNCHANGED <<patchVars, idVars, undoVars>>
  <2>1. UNCHANGED <<history, idVars>> /\ P[done'] = Now'
    BY <1>1 DEF Recorded, Now, patchVars, undoVars
  <2> QED
    BY <2>1, SameTrace
<1>2. CASE User \/ Request
  BY <1>2, UserRecorded, RequestRecorded
<1> QED
  BY <1>1, <1>2 DEF Next, BeginFrame, EndFrame, Freed, editVars
-----------------------------------------------------------------------------
LEMMA PushedType ==
  ASSUME TypeOK, NEW es \in Seq(Entries), Push(es)
  PROVE  history' \in Seq(Entries) /\ done' \in 0 .. Len(history')
<1>1. Len(history') \in Nat
  BY PushType, LenProperties
<1> QED
  BY <1>1, PushType

LEMMA UserType ==
  ASSUME TypeOK, User
  PROVE  /\ history' \in Seq(Entries) /\ done' \in 0 .. Len(history')
         /\ usedModules' \subseteq ModuleIds /\ usedCables' \subseteq CableIds
         /\ stage' = stage
<1>1. CASE Undo \/ Redo
  BY <1>1, LenProperties DEF TypeOK, Undo, Redo, idVars
<1>2. ASSUME NEW e \in Entries, Push(<<e>>)
      PROVE  history' \in Seq(Entries) /\ done' \in 0 .. Len(history')
  <2>1. <<e>> \in Seq(Entries)
    OBVIOUS
  <2> QED
    BY <1>2, <2>1, PushedType
<1>3. /\ \A m \in ModuleIds : Entry("add", {m}, {}) \in Entries
      /\ \A m \in ModuleIds : Entry("remove", {m}, On({m}, cables)) \in Entries
      /\ \A c \in Cables : Entry("add", {}, {c}) \in Entries
      /\ \A c \in Cables : Entry("remove", {}, {c}) \in Entries
      /\ \A c \in Cables : c.id \in CableIds
  BY DEF TypeOK, Entry, Entries, On, Cables
<1>4. ASSUME NEW m \in ModuleIds, UserAddModule(m) \/ UserRemoveModule(m)
      PROVE  /\ history' \in Seq(Entries) /\ done' \in 0 .. Len(history')
             /\ usedModules' \subseteq ModuleIds /\ usedCables' \subseteq CableIds
             /\ stage' = stage
  BY <1>2, <1>3, <1>4 DEF TypeOK, UserAddModule, UserRemoveModule, idVars
<1>5. ASSUME NEW c \in Cables, UserAddCable(c) \/ UserRemoveCable(c)
      PROVE  /\ history' \in Seq(Entries) /\ done' \in 0 .. Len(history')
             /\ usedModules' \subseteq ModuleIds /\ usedCables' \subseteq CableIds
             /\ stage' = stage
  BY <1>2, <1>3, <1>5 DEF TypeOK, UserAddCable, UserRemoveCable, idVars
<1> QED
  BY <1>1, <1>4, <1>5 DEF User

LEMMA RequestType ==
  ASSUME TypeOK, NEW P, Recorded(P), Request
  PROVE  /\ history' \in Seq(Entries) /\ done' \in 0 .. Len(history')
         /\ usedModules' \subseteq ModuleIds /\ usedCables' \subseteq CableIds
         /\ stage' \in {"dispatch", "freed"}
<1>1. ASSUME NEW c \in Cables, CableAdd(c) \/ CableRemove(c)
      PROVE  /\ history' \in Seq(Entries) /\ done' \in 0 .. Len(history')
             /\ usedModules' \subseteq ModuleIds /\ usedCables' \subseteq CableIds
             /\ stage' \in {"dispatch", "freed"}
  <2>1. \A op \in {"add", "remove"} : <<Entry(op, {}, {c})>> \in Seq(Entries)
    BY DEF Entry, Entries
  <2>2. c.id \in CableIds
    BY DEF Cables
  <2> QED
    BY <1>1, <2>1, <2>2, PushedType DEF TypeOK, CableAdd, CableRemove, idVars
<1>2. ASSUME NEW m \in ModuleIds, ModuleAdd(m)
      PROVE  /\ history' \in Seq(Entries) /\ done' \in 0 .. Len(history')
             /\ usedModules' \subseteq ModuleIds /\ usedCables' \subseteq CableIds
             /\ stage' \in {"dispatch", "freed"}
  <2>1. <<Entry("add", {m}, {})>> \in Seq(Entries)
    BY DEF Entry, Entries
  <2> QED
    BY <1>2, <2>1, PushedType DEF TypeOK, ModuleAdd
<1>3. ASSUME NEW m \in ModuleIds, ModuleRemove(m)
      PROVE  /\ history' \in Seq(Entries) /\ done' \in 0 .. Len(history')
             /\ usedModules' \subseteq ModuleIds /\ usedCables' \subseteq CableIds
             /\ stage' \in {"dispatch", "freed"}
  <2>1. PICK o \in Orders(On({m}, cables)) :
          Push(Append([i \in DOMAIN o |-> Entry("remove", {}, {o[i]})],
                      Entry("remove", {m}, {})))
    BY <1>3 DEF ModuleRemove
  <2>2. PICK strip : strip = [i \in DOMAIN o |-> Entry("remove", {}, {o[i]})]
    OBVIOUS
  <2>3. On({m}, cables) \subseteq cables /\ IsFiniteSet(On({m}, cables))
    BY NowType, FS_Subset DEF On, WellFormed, Now
  <2>4. PICK n \in Nat : o \in [1 .. n -> On({m}, cables)]
    BY <2>3, OrderIsOneToOne
  <2>5. strip \in [1 .. n -> Entries]
    BY <2>2, <2>3, <2>4 DEF TypeOK, Entry, Entries
  <2>6. Entry("remove", {m}, {}) \in Entries
    BY DEF Entry, Entries
  <2>7. Append(strip, Entry("remove", {m}, {})) \in Seq(Entries)
    BY <2>5, <2>6, AppendProperties
  <2> QED
    BY <1>3, <2>1, <2>2, <2>7, PushedType DEF TypeOK, ModuleRemove, idVars
<1> QED
  BY <1>1, <1>2, <1>3 DEF Request

LEMMA StepType ==
  ASSUME TypeOK, NEW P, Recorded(P), [Next]_editVars
  PROVE  TypeOK'
<1>1. PICK R : Recorded(R)'
  BY StepRecorded
<1>2. /\ history' \in Seq(Entries) /\ done' \in 0 .. Len(history')
      /\ usedModules' \subseteq ModuleIds /\ usedCables' \subseteq CableIds
      /\ stage' \in {"ui", "dispatch", "freed"}
  <2>1. CASE User
    BY <2>1, UserType DEF TypeOK
  <2>2. CASE Request
    BY <2>2, RequestType
  <2>3. CASE UNCHANGED editVars \/ BeginFrame \/ EndFrame \/ Freed
    BY <2>3 DEF TypeOK, BeginFrame, EndFrame, Freed, editVars, undoVars, idVars
  <2> QED
    BY <2>1, <2>2, <2>3 DEF Next
<1>3. modules' \subseteq ModuleIds /\ cables' \subseteq Cables
  <2>1. Now' \in Patches
    BY <1>1, <1>2 DEF Recorded, Trace
  <2> QED
    BY <2>1 DEF Patches, Now
<1> QED
  BY <1>2, <1>3 DEF TypeOK

LEMMA InitRecorded ==
  ASSUME Init
  PROVE  TypeOK /\ Recorded([i \in 0 .. 0 |-> Start])
<1> PICK P : P = [i \in 0 .. 0 |-> Start]
  OBVIOUS
<1>1. /\ Initial \subseteq ModuleIds /\ InitialCables \subseteq Cables
      /\ IsFiniteSet(InitialCables)
      /\ \A c, k \in InitialCables :
           /\ c.out \in Initial /\ c.in \in Initial
           /\ c.id = k.id \/ (c.in = k.in /\ c.inPort = k.inPort) => c = k
  BY PatchEditAssumption, InitialPatchAssumption
<1>2. history = <<>> /\ Len(history) = 0 /\ done = 0 /\ history \in Seq(Entries)
  BY DEF Init
<1>3. TypeOK
  <2>1. Ids(InitialCables) \subseteq CableIds
    BY <1>1 DEF Ids, Cables
  <2> QED
    BY <1>1, <1>2, <2>1 DEF Init, TypeOK
<1>4. Now = Start /\ Start \in Patches /\ WellFormed(Start)
  BY <1>1 DEF Init, Now, Start, Patches, WellFormed
<1>5. DOMAIN P = 0 .. 0 /\ P[0] = Start /\ \A i \in 0 .. 0 : P[i] = Start
  OBVIOUS
<1>6. Trace(P, history)
  BY <1>2, <1>4, <1>5 DEF Trace
<1>7. Within(P)
  BY <1>5 DEF Within, Start, Init, Ids
<1>8. OneName(P)
  BY <1>1, <1>5 DEF OneName, Start
<1> QED
  BY <1>2, <1>3, <1>4, <1>5, <1>6, <1>7, <1>8 DEF Recorded

(* Behind the patch and its history are always patches as Recorded says.   *)
THEOREM Invariance == Spec => []Inv
<1>1. Init => Inv
  BY InitRecorded DEF Inv
<1>2. Inv /\ [Next]_editVars => Inv'
  BY StepRecorded, StepType DEF Inv
<1> QED
  BY <1>1, <1>2, PTL DEF Spec
-----------------------------------------------------------------------------
(* What the invariant says of the present patch *)

LEMMA NowIsWellFormed ==
  ASSUME Inv
  PROVE  PatchWellFormed
<1>1. WellFormed(Now)
  BY NowType DEF Inv
<1> QED
  BY <1>1 DEF WellFormed, Now, PatchWellFormed

LEMMA EntriesApply ==
  ASSUME Inv
  PROVE  UndoRedoApply
<1>1. PICK P : Recorded(P)
  BY DEF Inv
<1>2. ASSUME NEW e, AddsTo(e, Now)
      PROVE  CanAdd(e)
  BY <1>2 DEF AddsTo, CanAdd, Now, Ids, FeedsInput
<1>3. ASSUME NEW e, TakesFrom(e, Now)
      PROVE  CanRemove(e)
  BY <1>3 DEF TakesFrom, CanRemove, Now, On
<1>4. ASSUME done > 0
      PROVE  IF history[done].op = "add"
             THEN CanRemove(history[done]) ELSE CanAdd(history[done])
  BY <1>1, <1>2, <1>3, <1>4, Neighbours DEF Inv
<1>5. ASSUME done < Len(history)
      PROVE  IF history[done + 1].op = "add"
             THEN CanAdd(history[done + 1]) ELSE CanRemove(history[done + 1])
  BY <1>1, <1>2, <1>3, <1>5, Neighbours DEF Inv, Applies
<1> QED
  BY <1>4, <1>5 DEF UndoRedoApply

LEMMA AllUndone ==
  ASSUME Inv
  PROVE  UndoAllRestores
<1> SUFFICES ASSUME done = 0
             PROVE  modules = Initial /\ cables = InitialCables
  BY DEF UndoAllRestores
<1>1. Now = Start
  BY DEF Inv, Recorded, Trace
<1> QED
  BY <1>1 DEF Now, Start

(* The patch, its ids and its history hold values of their types: every    *)
(* entry a handler pushes is one, the strip of a module included.          *)
THEOREM TypeCorrect == Spec => []TypeOK
<1>1. Inv => TypeOK
  BY DEF Inv
<1> QED
  BY <1>1, Invariance, PTL

(* Whatever requests and the user add, remove, undo and redo, every cable  *)
(* joins two modules of the patch and no input is fed twice.               *)
THEOREM PatchIsWellFormed == Spec => []PatchWellFormed
BY Invariance, NowIsWellFormed, PTL

(* The entry to undo next and the one to redo next always apply.           *)
THEOREM EveryEntryApplies == Spec => []UndoRedoApply
BY Invariance, EntriesApply, PTL

(* With nothing left to undo the patch is the one Rack loaded.             *)
THEOREM UndoneIsStart == Spec => []UndoAllRestores
BY Invariance, AllUndone, PTL
=============================================================================
