-------------------------- MODULE AddressingProofs --------------------------
(***************************************************************************)
(* Proofs about names, numbers and paths, for any installed models, texts, *)
(* ids and references: what a client kept reaches what it was read from,   *)
(* fails, or falls to something new.                                       *)
(***************************************************************************)
EXTENDS Addressing, SequenceTheorems, FiniteSetTheorems,
        WellFoundedInduction, TLAPS

-----------------------------------------------------------------------------
(* The engine's list *)

LEMMA RemoveAtProperties ==
  ASSUME NEW S, NEW s \in Seq(S), NEW i \in DOMAIN s
  PROVE  /\ RemoveAt(s, i) \in Seq(S)
         /\ Len(RemoveAt(s, i)) = Len(s) - 1
         /\ \A j \in 1 .. Len(s) - 1 :
              RemoveAt(s, i)[j] = IF j < i THEN s[j] ELSE s[j + 1]
<1> DEFINE n == Len(s)
           a == SubSeq(s, 1, i - 1)
           b == SubSeq(s, i + 1, n)
<1>1. n \in Nat /\ i \in 1 .. n /\ \A j \in 1 .. n : s[j] \in S
  BY LenProperties, ElementOfSeq
<1>2. /\ a \in Seq(S) /\ Len(a) = i - 1
      /\ \A j \in 1 .. i - 1 : a[j] = s[j]
  <2>1. \A j \in 1 .. i - 1 : s[j] \in S
    BY <1>1
  <2>2. i - 1 \in Int /\ 1 \in Int
    BY <1>1
  <2>3. /\ a \in Seq(S)
        /\ Len(a) = IF 1 <= i - 1 THEN i - 1 - 1 + 1 ELSE 0
        /\ \A j \in 1 .. i - 1 - 1 + 1 : a[j] = s[1 + j - 1]
    BY <2>1, <2>2, SubSeqProperties
  <2> QED
    BY <1>1, <2>3
<1>3. /\ b \in Seq(S) /\ Len(b) = n - i
      /\ \A j \in 1 .. n - i : b[j] = s[i + j]
  <2>1. \A j \in i + 1 .. n : s[j] \in S
    BY <1>1
  <2>2. i + 1 \in Int /\ n \in Int
    BY <1>1
  <2>3. /\ b \in Seq(S)
        /\ Len(b) = IF i + 1 <= n THEN n - (i + 1) + 1 ELSE 0
        /\ \A j \in 1 .. n - (i + 1) + 1 : b[j] = s[i + 1 + j - 1]
    BY <2>1, <2>2, SubSeqProperties
  <2> QED
    BY <1>1, <2>3
<1>4. /\ a \o b \in Seq(S)
      /\ Len(a \o b) = n - 1
      /\ \A j \in 1 .. n - 1 : (a \o b)[j] = IF j <= i - 1 THEN a[j] ELSE b[j - (i - 1)]
  <2>1. i - 1 + (n - i) = n - 1
    BY <1>1
  <2> HIDE DEF a, b
  <2>2. /\ a \o b \in Seq(S)
        /\ Len(a \o b) = Len(a) + Len(b)
        /\ \A j \in 1 .. Len(a) + Len(b) :
             (a \o b)[j] = IF j <= Len(a) THEN a[j] ELSE b[j - Len(a)]
    BY <1>2, <1>3, ConcatProperties
  <2> QED
    BY <1>2, <1>3, <2>1, <2>2
<1>5. \A j \in 1 .. n - 1 : (a \o b)[j] = IF j < i THEN s[j] ELSE s[j + 1]
  <2> SUFFICES ASSUME NEW j \in 1 .. n - 1
               PROVE  (a \o b)[j] = IF j < i THEN s[j] ELSE s[j + 1]
    OBVIOUS
  <2>1. CASE j < i
    BY <1>1, <1>2, <1>4, <2>1
  <2>2. CASE ~(j < i)
    <3>1. j - (i - 1) \in 1 .. n - i /\ i + (j - (i - 1)) = j + 1 /\ ~(j <= i - 1)
      BY <1>1, <2>2
    <3> QED
      BY <1>3, <1>4, <2>2, <3>1
  <2> QED
    BY <2>1, <2>2
<1> QED
  BY <1>4, <1>5 DEF RemoveAt

(* A list of ids without repetition.                                       *)
Listed(s) ==
  /\ s \in Seq(Ids)
  /\ \A i, j \in DOMAIN s : s[i] = s[j] => i = j
  /\ IsFiniteSet(ToSet(s))
  /\ Cardinality(ToSet(s)) = Len(s)

LEMMA ListedEmpty == Listed(<<>>) /\ ToSet(<<>>) = {}
<1>1. DOMAIN <<>> = {} /\ Len(<<>>) = 0
  OBVIOUS
<1>2. ToSet(<<>>) = {}
  BY <1>1 DEF ToSet
<1> QED
  BY <1>1, <1>2, EmptySeq, FS_EmptySet DEF Listed

LEMMA ListedAppend ==
  ASSUME NEW s, Listed(s), NEW id \in Ids \ ToSet(s)
  PROVE  Listed(Append(s, id)) /\ ToSet(Append(s, id)) = ToSet(s) \cup {id}
<1> DEFINE u == Append(s, id)
           n == Len(s)
<1>1. /\ n \in Nat /\ DOMAIN s = 1 .. n
      /\ u \in Seq(Ids) /\ Len(u) = n + 1 /\ DOMAIN u = 1 .. n + 1
      /\ \A i \in 1 .. n : u[i] = s[i]
      /\ u[n + 1] = id
  BY AppendProperties, LenProperties DEF Listed
<1>2. 1 .. n + 1 = (1 .. n) \cup {n + 1}
  BY <1>1
<1>3. ToSet(u) = ToSet(s) \cup {id}
  BY <1>1, <1>2 DEF ToSet
<1>4. \A i, j \in DOMAIN u : u[i] = u[j] => i = j
  <2>1. \A i \in 1 .. n : u[i] \in ToSet(s) /\ u[i] # id
    BY <1>1 DEF ToSet
  <2> QED
    BY <1>1, <1>2, <2>1 DEF Listed
<1>5. IsFiniteSet(ToSet(u)) /\ Cardinality(ToSet(u)) = n + 1
  BY <1>3, FS_AddElement DEF Listed
<1> QED
  BY <1>1, <1>3, <1>4, <1>5 DEF Listed

LEMMA ListedRemove ==
  ASSUME NEW s, Listed(s), NEW i \in DOMAIN s
  PROVE  Listed(RemoveAt(s, i)) /\ ToSet(RemoveAt(s, i)) = ToSet(s) \ {s[i]}
<1> DEFINE u == RemoveAt(s, i)
           n == Len(s)
<1>1. /\ n \in Nat /\ DOMAIN s = 1 .. n /\ i \in 1 .. n
      /\ u \in Seq(Ids) /\ Len(u) = n - 1 /\ DOMAIN u = 1 .. n - 1
      /\ \A j \in 1 .. n - 1 : u[j] = IF j < i THEN s[j] ELSE s[j + 1]
  <2>1. n \in Nat /\ DOMAIN s = 1 .. n
    BY LenProperties DEF Listed
  <2>2. /\ u \in Seq(Ids) /\ Len(u) = n - 1
        /\ \A j \in 1 .. n - 1 : u[j] = IF j < i THEN s[j] ELSE s[j + 1]
    BY RemoveAtProperties DEF Listed
  <2> QED
    BY <2>1, <2>2, LenProperties
<1>2. \A j \in 1 .. n - 1 : /\ j < i => j \in 1 .. n /\ j # i
                            /\ ~(j < i) => j + 1 \in 1 .. n /\ j + 1 # i
  BY <1>1
<1>3. \A j \in 1 .. n : j # i => \/ j < i /\ j \in 1 .. n - 1
                                 \/ ~(j - 1 < i) /\ j - 1 \in 1 .. n - 1 /\ j - 1 + 1 = j
  BY <1>1
<1>4. ToSet(u) = ToSet(s) \ {s[i]}
  <2>1. ASSUME NEW j \in 1 .. n - 1 PROVE u[j] \in ToSet(s) \ {s[i]}
    BY <1>1, <1>2 DEF ToSet, Listed
  <2>2. ASSUME NEW j \in 1 .. n, s[j] # s[i] PROVE \E k \in 1 .. n - 1 : u[k] = s[j]
    BY <1>1, <1>3, <2>2
  <2>3. ToSet(u) = {u[j] : j \in 1 .. n - 1} /\ ToSet(s) = {s[j] : j \in 1 .. n}
    BY <1>1 DEF ToSet
  <2> HIDE DEF u
  <2> QED
    BY <2>1, <2>2, <2>3
<1>5. \A j, k \in DOMAIN u : u[j] = u[k] => j = k
  <2> SUFFICES ASSUME NEW j \in 1 .. n - 1, NEW k \in 1 .. n - 1, u[j] = u[k]
               PROVE  j = k
    BY <1>1
  <2>1. \A a, b \in 1 .. n : s[a] = s[b] => a = b
    BY <1>1 DEF Listed
  <2> QED
    BY <1>1, <1>2, <2>1
<1>6. IsFiniteSet(ToSet(u)) /\ Cardinality(ToSet(u)) = n - 1
  <2>1. s[i] \in ToSet(s)
    BY DEF ToSet
  <2> QED
    BY <1>4, <2>1, FS_RemoveElement DEF Listed
<1> QED
  BY <1>1, <1>4, <1>5, <1>6 DEF Listed
-----------------------------------------------------------------------------
(* What a reference means in a set of modules *)

HitsIn(S, r) == {id \in S : Matches(Kind[id], r)}

Found(S, r) ==
  {id \in HitsIn(S, r) : Cardinality({k \in HitsIn(S, r) : k < id}) = r.index}

Means(S, r) == IF Found(S, r) = {} THEN None ELSE CHOOSE id \in Found(S, r) : TRUE

LEMMA ResolveIsMeans ==
  ASSUME NEW r
  PROVE  /\ ResolveModule(r) = Means(Present, r)
         /\ ResolveModule(r)' = Means(Present', r)
BY DEF ResolveModule, Hits, Below, Means, Found, HitsIn

LEMMA MeansType ==
  ASSUME NEW S, NEW r
  PROVE  Means(S, r) \in HitsIn(S, r) \cup {None}
BY DEF Means, Found

(* Every set of naturals has a least element.                              *)
LEMMA LeastOf ==
  ASSUME NEW S \in SUBSET Nat, S # {}
  PROVE  \E n \in S : \A k \in S : n <= k
<1>1. IsWellFoundedOn({ss \in Nat \X Nat : ss[1] < ss[2]}, Nat)
  BY NatLessThanWellFounded DEF OpToRel
<1>2. PICK n \in S : \A k \in S : <<k, n>> \notin {ss \in Nat \X Nat : ss[1] < ss[2]}
  BY <1>1, WFMin
<1>3. \A k \in S : ~(k < n)
  BY <1>2
<1> QED
  BY <1>3

(* No two instances have as many before them.                              *)
LEMMA RankUnique ==
  ASSUME NEW S \in SUBSET Nat, IsFiniteSet(S), NEW a \in S, NEW b \in S,
         Cardinality({k \in S : k < a}) = Cardinality({k \in S : k < b})
  PROVE  a = b
<1>1. ASSUME NEW x \in S, NEW y \in S, x < y,
             Cardinality({k \in S : k < x}) = Cardinality({k \in S : k < y})
      PROVE  FALSE
  <2>1. IsFiniteSet({k \in S : k < y})
    BY FS_Subset
  <2>2. {k \in S : k < x} \in SUBSET {k \in S : k < y}
    <3>1. \A k \in S : k \in Nat
      OBVIOUS
    <3>2. \A k \in S : k < x => k < y
      BY <1>1, <3>1
    <3> QED
      BY <3>2
  <2>3. {k \in S : k < y} = {k \in S : k < x}
    BY <1>1, <2>1, <2>2, FS_Subset
  <2> QED
    BY <1>1, <2>3
<1>2. a < b \/ b < a \/ a = b
  OBVIOUS
<1> QED
  BY <1>1, <1>2

(* An index that counts the instances before one of them means that one.   *)
LEMMA MeansRank ==
  ASSUME NEW S \in SUBSET Ids, IsFiniteSet(S), NEW r, NEW id \in HitsIn(S, r),
         Cardinality({k \in HitsIn(S, r) : k < id}) = r.index
  PROVE  Means(S, r) = id
<1>1. HitsIn(S, r) \in SUBSET Nat /\ IsFiniteSet(HitsIn(S, r))
  BY AddressingAssumption, FS_Subset DEF HitsIn
<1>2. id \in Found(S, r)
  BY DEF Found
<1>3. \A k \in Found(S, r) : k = id
  BY <1>1, RankUnique DEF Found
<1> QED
  BY <1>2, <1>3 DEF Means

(* Without an index the only instance is meant.                            *)
LEMMA MeansOnly ==
  ASSUME NEW S \in SUBSET Ids, IsFiniteSet(S), NEW r, r.index = 0,
         NEW id, HitsIn(S, r) = {id}
  PROVE  Means(S, r) = id
<1>1. {k \in HitsIn(S, r) : k < id} = {}
  <2>1. id \in S /\ id \in Nat
    BY AddressingAssumption DEF HitsIn
  <2> QED
    BY <2>1
<1> QED
  BY <1>1, MeansRank, FS_EmptySet

(* Without an index something is meant if there is an instance.            *)
LEMMA MeansSome ==
  ASSUME NEW S \in SUBSET Ids, IsFiniteSet(S), NEW r, r.index = 0, Means(S, r) = None
  PROVE  HitsIn(S, r) = {}
<1> SUFFICES ASSUME HitsIn(S, r) # {} PROVE FALSE
  OBVIOUS
<1>1. HitsIn(S, r) \in SUBSET Nat
  BY AddressingAssumption DEF HitsIn
<1>2. PICK id \in HitsIn(S, r) : \A k \in HitsIn(S, r) : id <= k
  BY <1>1, LeastOf
<1>3. {k \in HitsIn(S, r) : k < id} = {}
  BY <1>1, <1>2
<1>4. Means(S, r) = id
  BY <1>3, MeansRank, FS_EmptySet
<1> QED
  BY <1>4, AddressingAssumption DEF HitsIn
-----------------------------------------------------------------------------
(* The cached tree *)

TreeOf(W) ==
  [full |-> <<>>, contents |-> [k \in {Param} |->
    [full |-> <<Param>>, contents |-> [id \in W |->
      [full |-> <<Param, id>>,
       contents |-> [p \in 0 .. Len(Kind[id].labels) - 1 |-> Leaf(id, p)]]]]]]

LEMMA TreeIsTreeOf ==
  /\ Tree = TreeOf(WithParams)
  /\ Tree' = TreeOf(WithParams')
BY DEF Tree, TreeOf

(* The equation that the fold over a path satisfies.                       *)
Hops(path, f) ==
  f = [s \in SUBSET DOMAIN path |->
         IF s = {} THEN doc ELSE Step(f[s \ {Max(s)}], path[Max(s)])]

LEMMA NavigateIsFold ==
  ASSUME NEW path
  PROVE  Navigate(path) = (CHOOSE f : Hops(path, f))[DOMAIN path]
BY DEF Navigate, FoldLeft, MapThenFoldSet, Hops

LEMMA MaxOf ==
  ASSUME NEW n \in 1 .. 3, NEW s \in SUBSET (1 .. n), s # {}
  PROVE  /\ Max(s) \in s
         /\ \A k \in s : k <= Max(s)
<1>1. \E m \in s : \A k \in s : m >= k
  <2>1. CASE 3 \in s
    BY <2>1
  <2>2. CASE 3 \notin s /\ 2 \in s
    BY <2>2
  <2>3. CASE 3 \notin s /\ 2 \notin s
    <3>1. \A k \in s : k \in 1 .. n /\ k # 2 /\ k # 3
      BY <2>3
    <3>2. \A k \in s : k = 1
      BY <3>1
    <3>3. PICK m \in s : m = 1
      BY <3>2
    <3> QED
      BY <3>2, <3>3
  <2> QED
    BY <2>1, <2>2, <2>3
<1> QED
  BY <1>1 DEF Max

LEMMA HopsExist ==
  ASSUME NEW path, NEW n \in 1 .. 3, DOMAIN path = 1 .. n
  PROVE  \E f : Hops(path, f)
<1> DEFINE G(s, i, v) == IF i \in s THEN Step(v, path[i]) ELSE v
           f == [s \in SUBSET (1 .. n) |-> G(s, 3, G(s, 2, G(s, 1, doc)))]
<1>1. ASSUME NEW s \in SUBSET (1 .. n)
      PROVE  f[s] = IF s = {} THEN doc ELSE Step(f[s \ {Max(s)}], path[Max(s)])
  <2>1. CASE s = {}
    BY <2>1
  <2>2. CASE s # {}
    <3> DEFINE m == Max(s)
               u == s \ {m}
    <3>1. m \in s /\ \A k \in s : k <= m
      BY <2>2, MaxOf
    <3>2. u \in SUBSET (1 .. n) /\ \A k : k \in u <=> k \in s /\ k # m
      OBVIOUS
    <3>3. m = 1 \/ m = 2 \/ m = 3
      <4>1. m \in 1 .. n
        BY <3>1
      <4> QED
        BY <4>1
    <3>4. /\ f[s] = G(s, 3, G(s, 2, G(s, 1, doc)))
          /\ f[u] = G(u, 3, G(u, 2, G(u, 1, doc)))
      BY <3>2
    <3> HIDE DEF m, u, f
    <3>5. CASE m = 1
      <4>1. 2 \notin s /\ 3 \notin s /\ 1 \in s /\ 1 \notin u /\ 2 \notin u /\ 3 \notin u
        BY <3>1, <3>2, <3>5
      <4> QED
        BY <2>2, <3>4, <3>5, <4>1 DEF m, u
    <3>6. CASE m = 2
      <4>1. /\ 3 \notin s /\ 2 \in s /\ 2 \notin u /\ 3 \notin u
            /\ 1 \in s <=> 1 \in u
        BY <3>1, <3>2, <3>6
      <4> QED
        BY <2>2, <3>4, <3>6, <4>1 DEF m, u
    <3>7. CASE m = 3
      <4>1. /\ 3 \in s /\ 3 \notin u
            /\ 1 \in s <=> 1 \in u
            /\ 2 \in s <=> 2 \in u
        BY <3>1, <3>2, <3>7
      <4> QED
        BY <2>2, <3>4, <3>7, <4>1 DEF m, u
    <3> QED
      BY <3>3, <3>5, <3>6, <3>7
  <2> QED
    BY <2>1, <2>2
<1>2. f = [s \in SUBSET DOMAIN path |-> f[s]]
  OBVIOUS
<1> HIDE DEF f
<1>3. Hops(path, f)
  BY <1>1, <1>2 DEF Hops
<1> QED
  BY <1>3

LEMMA MaxInterval ==
  ASSUME NEW n \in 1 .. 3
  PROVE  Max(1 .. n) = n /\ (1 .. n) \ {n} = 1 .. n - 1
<1>1. 1 .. n # {} /\ 1 .. n \in SUBSET (1 .. n)
  OBVIOUS
<1>2. Max(1 .. n) \in 1 .. n /\ \A k \in 1 .. n : k <= Max(1 .. n)
  BY <1>1, MaxOf
<1> HIDE DEF Max
<1> QED
  BY <1>2

(* A request path is followed hop by hop.                                  *)
LEMMA NavigateHops ==
  ASSUME NEW path, NEW n \in 2 .. 3, DOMAIN path = 1 .. n
  PROVE  Navigate(path) = IF n = 2 THEN Step(Step(doc, path[1]), path[2])
                          ELSE Step(Step(Step(doc, path[1]), path[2]), path[3])
<1> DEFINE f == CHOOSE g : Hops(path, g)
<1>1. n \in 1 .. 3
  OBVIOUS
<1>2. Hops(path, f)
  BY <1>1, HopsExist
<1>3. \A s \in SUBSET (1 .. n) :
        f[s] = IF s = {} THEN doc ELSE Step(f[s \ {Max(s)}], path[Max(s)])
  BY <1>2 DEF Hops
<1>4. Navigate(path) = f[1 .. n]
  BY NavigateIsFold
<1> HIDE DEF f
<1>5. ASSUME NEW i \in 1 .. n PROVE f[1 .. i] = Step(f[1 .. i - 1], path[i])
  <2>1. i \in 1 .. 3 /\ 1 .. i \in SUBSET (1 .. n) /\ 1 .. i # {}
    OBVIOUS
  <2>2. Max(1 .. i) = i /\ (1 .. i) \ {i} = 1 .. i - 1
    BY <2>1, MaxInterval
  <2> QED
    BY <1>3, <2>1, <2>2
<1>6. f[1 .. 0] = doc
  <2>1. 1 .. 0 = {}
    OBVIOUS
  <2> QED
    BY <1>3, <2>1
<1>7. f[1 .. 1] = Step(doc, path[1])
  <2>1. 1 \in 1 .. n /\ 1 - 1 = 0
    OBVIOUS
  <2> QED
    BY <1>5, <1>6, <2>1
<1>8. f[1 .. 2] = Step(Step(doc, path[1]), path[2])
  <2>1. 2 \in 1 .. n /\ 2 - 1 = 1
    OBVIOUS
  <2> QED
    BY <1>5, <1>7, <2>1
<1>9. n = 3 => f[1 .. 3] = Step(Step(Step(doc, path[1]), path[2]), path[3])
  <2>1. n = 3 => 3 \in 1 .. n /\ 3 - 1 = 2
    OBVIOUS
  <2> QED
    BY <1>5, <1>8, <2>1
<1>10. n = 2 \/ n = 3
  OBVIOUS
<1> QED
  BY <1>4, <1>8, <1>9, <1>10

(* The nodes of a tree and the paths that lead to them.                    *)
LEMMA TreePaths ==
  ASSUME NEW W, doc = TreeOf(W), NEW id \in W
  PROVE  /\ DOMAIN Navigate(<<Param, id>>).contents = 0 .. Len(Kind[id].labels) - 1
         /\ \A p \in 0 .. Len(Kind[id].labels) - 1 :
              Navigate(<<Param, id, p>>) = Leaf(id, p)
<1> DEFINE ps     == 0 .. Len(Kind[id].labels) - 1
           module == [full |-> <<Param, id>>, contents |-> [p \in ps |-> Leaf(id, p)]]
<1>1. /\ Param \in DOMAIN doc.contents
      /\ doc.contents[Param] =
           [full |-> <<Param>>, contents |-> [k \in W |->
             [full |-> <<Param, k>>,
              contents |-> [p \in 0 .. Len(Kind[k].labels) - 1 |-> Leaf(k, p)]]]]
  BY DEF TreeOf
<1>2. Step(Step(doc, Param), id) = module
  BY <1>1 DEF Step
<1>3. Navigate(<<Param, id>>) = module
  <2>1. /\ DOMAIN <<Param, id>> = 1 .. 2 /\ 2 \in 2 .. 3
        /\ <<Param, id>>[1] = Param /\ <<Param, id>>[2] = id
    OBVIOUS
  <2> QED
    BY <1>2, <2>1, NavigateHops
<1>4. ASSUME NEW p \in ps PROVE Navigate(<<Param, id, p>>) = Leaf(id, p)
  <2>1. /\ DOMAIN <<Param, id, p>> = 1 .. 3 /\ 3 \in 2 .. 3
        /\ <<Param, id, p>>[1] = Param /\ <<Param, id, p>>[2] = id
        /\ <<Param, id, p>>[3] = p
    OBVIOUS
  <2>2. Step(module, p) = Leaf(id, p)
    BY DEF Step
  <2> HIDE DEF module
  <2> QED
    BY <1>2, <2>1, <2>2, NavigateHops
<1> QED
  BY <1>3, <1>4

LEMMA AtoiSmall ==
  ASSUME NEW m \in Models, NEW p \in 0 .. Len(m.labels) - 1
  PROVE  Atoi(p) = p
<1>1. IntSpan \in Nat \ {0} /\ Len(m.labels) \in Nat /\ 2 * Len(m.labels) <= IntSpan
  BY AddressingAssumption, LenProperties
<1>2. p \in 0 .. IntSpan - 1 /\ ~(2 * p >= IntSpan)
  BY <1>1
<1>3. p % IntSpan = p
  BY <1>1, <1>2
<1> QED
  BY <1>2, <1>3 DEF Atoi
-----------------------------------------------------------------------------
(* The inductive invariant *)

(* What an undo would take back is absent, and its record says what every  *)
(* reference means once it is there.                                       *)
Recorded ==
  undone.id # None =>
    /\ undone.id \notin Present
    /\ undone.meant = [r \in Refs |-> Means(Present \cup {undone.id}, r)]

(* The cached tree is that of some modules, present or gone.               *)
DocIsTree == \E W \in SUBSET {id \in Ids : Kind[id].labels # <<>>} : doc = TreeOf(W)

Inv ==
  /\ Listed(order)
  /\ undone.id \in Ids \cup {None}
  /\ known \subseteq Ids
  /\ Recorded
  /\ DocIsTree

LEMMA PresentType ==
  ASSUME Listed(order)
  PROVE  Present \in SUBSET Ids /\ IsFiniteSet(Present) /\ Cardinality(Present) = Len(order)
<1>1. \A i \in DOMAIN order : order[i] \in Ids
  BY LenProperties, ElementOfSeq DEF Listed
<1> QED
  BY <1>1 DEF Listed, Present, ToSet

LEMMA TreeNow ==
  ASSUME Listed(order), doc = Tree
  PROVE  DocIsTree
BY PresentType, TreeIsTreeOf DEF DocIsTree, WithParams

LEMMA InitInv == Init => Inv
<1> SUFFICES ASSUME Init PROVE Inv
  OBVIOUS
<1>1. Listed(order)
  <2>1. CASE order = <<>>
    BY <2>1, ListedEmpty
  <2>2. ASSUME NEW id \in Ids, order = <<id>> PROVE Listed(order)
    <3>1. <<id>> = Append(<<>>, id)
      OBVIOUS
    <3>2. Listed(<<>>) /\ id \in Ids \ ToSet(<<>>)
      BY ListedEmpty
    <3>3. Listed(Append(<<>>, id))
      BY <3>2, ListedAppend
    <3> QED
      BY <2>2, <3>1, <3>3
  <2> QED
    BY <2>1, <2>2 DEF Init
<1>2. DocIsTree
  BY <1>1, TreeNow DEF Init
<1> QED
  BY <1>1, <1>2 DEF Init, Inv, Recorded, NoUndo

LEMMA AppearInv ==
  ASSUME Inv, NEW id, Appear(id)
  PROVE  /\ Inv'
         /\ Present' = Present \cup {id} /\ id \in Ids \ Present
         /\ order' = Append(order, id)
<1>1. id \in Ids \ ToSet(order) /\ order' = Append(order, id)
  BY DEF Appear, Present
<1>2. Listed(order') /\ Present' = Present \cup {id}
  BY <1>1, ListedAppend DEF Inv, Present
<1> QED
  BY <1>1, <1>2 DEF Appear, NoUndo, Inv, Recorded, DocIsTree, Present

LEMMA DisappearInv ==
  ASSUME Inv, NEW id, Disappear(id)
  PROVE  Inv'
<1>1. PICK i \in DOMAIN order : order[i] = id /\ order' = RemoveAt(order, i)
  BY DEF Disappear
<1>2. Listed(order') /\ Present' = Present \ {id}
  BY <1>1, ListedRemove DEF Inv, Present
<1>3. id \in Ids /\ id \in Present
  <2>1. Present \in SUBSET Ids
    BY PresentType DEF Inv
  <2>2. id \in Present
    BY <1>1 DEF Present, ToSet
  <2> QED
    BY <2>1, <2>2
<1>4. Present' \cup {id} = Present
  BY <1>2, <1>3
<1>5. undone'.id = id /\ undone'.meant = [r \in Refs |-> Means(Present, r)]
  BY ResolveIsMeans DEF Disappear
<1>6. Recorded'
  BY <1>2, <1>4, <1>5 DEF Recorded
<1> QED
  BY <1>2, <1>3, <1>5, <1>6 DEF Disappear, Inv, DocIsTree

LEMMA UndoInv ==
  ASSUME Inv, Undo
  PROVE  Inv' /\ Present' = Present \cup {undone.id}
<1>1. undone.id \in Ids \ ToSet(order) /\ order' = Append(order, undone.id)
  BY DEF Undo, Inv, Recorded, Present
<1>2. Listed(order') /\ Present' = Present \cup {undone.id}
  BY <1>1, ListedAppend DEF Inv, Present
<1> QED
  BY <1>2 DEF Undo, NoUndo, Inv, Recorded, DocIsTree

LEMMA NextInv ==
  ASSUME Inv, [Next]_vars
  PROVE  Inv'
<1>1. ASSUME NEW id \in Ids, UserAdd(id) PROVE Inv'
  BY <1>1, AppearInv DEF UserAdd
<1>2. ASSUME NEW id \in Ids, Disappear(id) PROVE Inv'
  BY <1>2, DisappearInv
<1>3. ASSUME NEW r \in Refs, AddByName(r.brand, r.name) PROVE Inv'
  BY <1>3, AppearInv DEF AddByName
<1>4. CASE Undo
  BY <1>4, UndoInv
<1>5. CASE Rebuild
  <2>1. DocIsTree'
    <3>1. doc' = TreeOf(WithParams) /\ WithParams \in SUBSET {id \in Ids : Kind[id].labels # <<>>}
      BY <1>5, PresentType, TreeIsTreeOf DEF Rebuild, Inv, WithParams
    <3> QED
      BY <3>1 DEF DocIsTree
  <2> QED
    BY <1>5, <2>1 DEF Rebuild, Inv, Recorded, Present
<1>6. CASE Dump
  BY <1>6, PresentType DEF Dump, Inv, Recorded, DocIsTree, Present
<1>7. CASE UNCHANGED vars
  BY <1>7 DEF vars, Inv, Recorded, DocIsTree, Present
<1> QED
  BY <1>1, <1>2, <1>3, <1>4, <1>5, <1>6, <1>7 DEF Next

LEMMA SpecInv == Spec => []Inv
BY InitInv, NextInv, PTL DEF Spec
-----------------------------------------------------------------------------
(* Theorems *)

(* The engine lists each module once, and resolveModule never answers with *)
(* anything but the id of an installed module or an error.                 *)
THEOREM TypeCorrect == Spec => []TypeOK
<1>1. Inv => TypeOK
  <2> SUFFICES ASSUME Inv PROVE TypeOK
    OBVIOUS
  <2>1. Present \subseteq Ids /\ Cardinality(Present) = Len(order)
    BY PresentType DEF Inv
  <2>2. undone.id # None => undone.meant \in [Refs -> Ids \cup {None}]
    <3> SUFFICES ASSUME undone.id # None PROVE undone.meant \in [Refs -> Ids \cup {None}]
      OBVIOUS
    <3>1. Present \cup {undone.id} \subseteq Ids
      BY <2>1 DEF Inv
    <3>2. \A r \in Refs : Means(Present \cup {undone.id}, r) \in Ids \cup {None}
      BY <3>1, MeansType DEF HitsIn
    <3> QED
      BY <3>2 DEF Inv, Recorded
  <2> QED
    BY <2>1, <2>2 DEF TypeOK, Inv
<1> QED
  BY <1>1, SpecInv, PTL

(* rebuildOscQuery, handleOscQuery and tryParamAddress agree on every path *)
(* of the cached tree, whatever happened to the patch since it was built.  *)
THEOREM PathsReachTheirParam == Spec => []LeafReachesParam
<1>1. Inv => LeafReachesParam
  <2> SUFFICES ASSUME Inv PROVE LeafReachesParam
    OBVIOUS
  <2>1. PICK W \in SUBSET {id \in Ids : Kind[id].labels # <<>>} : doc = TreeOf(W)
    BY DEF Inv, DocIsTree
  <2>2. DOMAIN doc.contents[Param].contents = W
    BY <2>1 DEF TreeOf
  <2> SUFFICES ASSUME NEW id \in W
               PROVE  /\ DOMAIN Navigate(<<Param, id>>).contents = 0 .. Len(Kind[id].labels) - 1
                      /\ \A p \in DOMAIN Navigate(<<Param, id>>).contents :
                           LET leaf == Navigate(<<Param, id, p>>) IN
                           /\ leaf = Navigate(leaf.full)
                           /\ ParamAt(leaf.full[2], leaf.full[3]) =
                                IF id \in Present THEN <<id, p>> ELSE <<None, None>>
    BY <2>2 DEF LeafReachesParam
  <2>3. /\ DOMAIN Navigate(<<Param, id>>).contents = 0 .. Len(Kind[id].labels) - 1
        /\ \A p \in 0 .. Len(Kind[id].labels) - 1 :
             Navigate(<<Param, id, p>>) = Leaf(id, p)
    BY <2>1, TreePaths
  <2>4. ASSUME NEW p \in 0 .. Len(Kind[id].labels) - 1
        PROVE  /\ Leaf(id, p).full = <<Param, id, p>>
               /\ ParamAt(id, p) = IF id \in Present THEN <<id, p>> ELSE <<None, None>>
    <3>1. id \in Ids /\ Kind[id] \in Models
      BY AddressingAssumption
    <3>2. Atoi(p) = p
      BY <3>1, AtoiSmall
    <3> QED
      BY <3>2 DEF Leaf, ParamAt, FindNumber
  <2>5. ASSUME NEW p \in 0 .. Len(Kind[id].labels) - 1
        PROVE  LET leaf == Navigate(<<Param, id, p>>) IN
               /\ leaf = Navigate(leaf.full)
               /\ ParamAt(leaf.full[2], leaf.full[3]) =
                    IF id \in Present THEN <<id, p>> ELSE <<None, None>>
    <3>1. <<Param, id, p>>[2] = id /\ <<Param, id, p>>[3] = p
      OBVIOUS
    <3>2. Navigate(<<Param, id, p>>) = Leaf(id, p) /\ Leaf(id, p).full = <<Param, id, p>>
      BY <2>3, <2>4
    <3>3. ParamAt(id, p) = IF id \in Present THEN <<id, p>> ELSE <<None, None>>
      BY <2>4
    <3> QED
      BY <3>1, <3>2, <3>3
  <2> QED
    BY <2>3, <2>5
<1> QED
  BY <1>1, SpecInv, PTL

(* With the slugs and labels of a dump every module and every parameter is *)
(* reached by resolveModule and resolveParam.                              *)
THEOREM DumpReachesAll == Spec => []DumpedNamesReach
<1>1. Inv => DumpedNamesReach
  <2> SUFFICES ASSUME Inv, NEW id \in Present
               PROVE  LET m == Kind[id] IN
                      /\ \E k \in 0 .. Len(order) - 1 :
                           ResolveModule([brand |-> m.brandSlug, name |-> m.slug, index |-> k]) = id
                      /\ \A p \in DOMAIN m.labels :
                           FindLabel(m.labels, m.labels[p]) =
                             Min({q \in DOMAIN m.labels : Same(m.labels[q], m.labels[p])}) - 1
    BY DEF DumpedNamesReach
  <2> DEFINE m    == Kind[id]
             H    == {k \in Present : Matches(Kind[k], [brand |-> m.brandSlug, name |-> m.slug, index |-> 0])}
             n    == Cardinality({k \in H : k < id})
             r    == [brand |-> m.brandSlug, name |-> m.slug, index |-> n]
  <2>1. Present \in SUBSET Ids /\ IsFiniteSet(Present) /\ Cardinality(Present) = Len(order)
    BY PresentType DEF Inv
  <2>2. HitsIn(Present, r) = H
    BY DEF HitsIn, Matches
  <2>3. id \in H
    BY DEF Matches
  <2>4. ResolveModule(r) = id
    <3>1. id \in HitsIn(Present, r)
      BY <2>2, <2>3
    <3>2. Cardinality({k \in HitsIn(Present, r) : k < id}) = r.index
      BY <2>2
    <3> HIDE DEF r
    <3> QED
      BY <2>1, <3>1, <3>2, MeansRank, ResolveIsMeans
  <2>5. n \in 0 .. Len(order) - 1
    <3>1. id \in Nat
      BY <2>1, AddressingAssumption
    <3>2. {k \in H : k < id} \in SUBSET (Present \ {id})
      BY <3>1
    <3>3. IsFiniteSet(Present \ {id}) /\ Cardinality(Present \ {id}) = Len(order) - 1
      BY <2>1, FS_RemoveElement
    <3>4. IsFiniteSet({k \in H : k < id}) /\ n <= Len(order) - 1
      BY <3>2, <3>3, FS_Subset
    <3>5. n \in Nat
      BY <3>4, FS_CardinalityType
    <3>6. Len(order) \in Nat
      BY LenProperties DEF Inv, Listed
    <3> HIDE DEF n
    <3> QED
      BY <3>4, <3>5, <3>6
  <2>6. \A p \in DOMAIN m.labels :
          FindLabel(m.labels, m.labels[p]) =
            Min({q \in DOMAIN m.labels : Same(m.labels[q], m.labels[p])}) - 1
    <3> SUFFICES ASSUME NEW p \in DOMAIN m.labels
                 PROVE  FindLabel(m.labels, m.labels[p]) =
                          Min({q \in DOMAIN m.labels : Same(m.labels[q], m.labels[p])}) - 1
      OBVIOUS
    <3>1. p \in {q \in DOMAIN m.labels : Same(m.labels[q], m.labels[p])}
      BY DEF Same
    <3> HIDE DEF m
    <3> QED
      BY <3>1 DEF FindLabel
  <2> QED
    BY <2>4, <2>5, <2>6
<1> QED
  BY <1>1, SpecInv, PTL

(* A name that meant one module when the client last dumped the patch      *)
(* means it, or nothing once it is gone, unless a newcomer answers to it.  *)
THEOREM KeptNamesAreKept == Spec => []KeptNamesKeep
<1>1. Inv => KeptNamesKeep
  <2> SUFFICES ASSUME Inv, NEW r \in Refs, NEW id \in known, NamesOne(r, id),
                      \A k \in Present \ known : ~Matches(Kind[k], r)
               PROVE  ResolveModule(r) = IF id \in Present THEN id ELSE None
    BY DEF KeptNamesKeep
  <2>1. Present \in SUBSET Ids /\ IsFiniteSet(Present)
    BY PresentType DEF Inv
  <2>2. r.index = 0 /\ HitsIn(Present, r) = {id} \cap Present
    BY DEF NamesOne, HitsIn
  <2>3. CASE id \in Present
    <3>1. HitsIn(Present, r) = {id}
      BY <2>2, <2>3
    <3> QED
      BY <2>1, <2>2, <2>3, <3>1, MeansOnly, ResolveIsMeans
  <2>4. CASE id \notin Present
    <3>1. HitsIn(Present, r) = {}
      BY <2>2, <2>4
    <3> QED
      BY <2>4, <3>1, MeansType, ResolveIsMeans
  <2> QED
    BY <2>3, <2>4
<1> QED
  BY <1>1, SpecInv, PTL

(* Removing a module and taking that back changes the meaning of no        *)
(* reference: resolveModule looks at ids, not at places.                   *)
THEOREM UndoKeepsNames == Spec => UndoRestoresNames
<1>1. ASSUME Inv, Undo PROVE \A r \in Refs : ResolveModule(r)' = undone.meant[r]
  <2>1. Present' = Present \cup {undone.id}
    BY <1>1, UndoInv
  <2>2. \A r \in Refs : undone.meant[r] = Means(Present \cup {undone.id}, r)
    BY <1>1 DEF Undo, Inv, Recorded
  <2> QED
    BY <2>1, <2>2, ResolveIsMeans
<1>2. Inv /\ [Next]_vars =>
        [Undo => \A r \in Refs : ResolveModule(r)' = undone.meant[r]]_vars
  BY <1>1
<1> QED
  BY <1>2, SpecInv, PTL DEF Spec, UndoRestoresNames

(* resolveModule and resolveModel match names alike: the names that added  *)
(* a module address it, if they meant nothing before.                      *)
THEOREM AddedAnswersToItsName == Spec => AddedNameAddresses
<1>1. ASSUME Inv, NEW r \in Refs, r.brand # NoText, r.index = 0, ResolveModule(r) = None,
             AddByName(r.brand, r.name)
      PROVE  ResolveModule(r)' = Last(order')
  <2>1. PICK id \in Ids : Kind[id] \in ResolveModel(r.brand, r.name) /\ Appear(id)
    BY <1>1 DEF AddByName
  <2>2. /\ Present' = Present \cup {id} /\ id \in Ids \ Present
        /\ order' = Append(order, id) /\ Inv'
    BY <1>1, <2>1, AppearInv
  <2>3. Last(order') = id
    BY <1>1, <2>2, AppendProperties DEF Last, Inv, Listed
  <2>4. Matches(Kind[id], r)
    BY <2>1 DEF ResolveModel, Exact, Candidates, Matches
  <2>5. HitsIn(Present, r) = {}
    BY <1>1, PresentType, ResolveIsMeans, MeansSome DEF Inv
  <2>6. HitsIn(Present', r) = {id}
    BY <2>2, <2>4, <2>5 DEF HitsIn
  <2>7. Present' \in SUBSET Ids /\ IsFiniteSet(Present')
    <3>1. Present \in SUBSET Ids /\ IsFiniteSet(Present)
      BY <1>1, PresentType DEF Inv
    <3> QED
      BY <2>2, <3>1, FS_AddElement
  <2>8. Means(Present', r) = id
    BY <1>1, <2>6, <2>7, MeansOnly
  <2> QED
    BY <2>3, <2>8, ResolveIsMeans
<1>2. Inv /\ [Next]_vars =>
        [\A r \in Refs :
           /\ r.brand # NoText /\ r.index = 0 /\ ResolveModule(r) = None
           /\ AddByName(r.brand, r.name)
           => ResolveModule(r)' = Last(order')]_vars
  BY <1>1
<1> QED
  BY <1>2, SpecInv, PTL DEF Spec, AddedNameAddresses
=============================================================================
