-------------------------- MODULE OscEncodingProofs --------------------------
(***************************************************************************)
(* Proofs that parse and serialize agree, for every datagram, message and  *)
(* choice of tags: a message that is accepted is the one its bytes encode, *)
(* and a message that was serialized is read back.                         *)
(***************************************************************************)
EXTENDS OscCodecProofs, WellFoundedInduction

USE DEF Word

-----------------------------------------------------------------------------
(* Concatenating the fields of a message *)

(* Every set of naturals has a least element.                              *)
LEMMA LeastOf ==
  ASSUME NEW S \in SUBSET Nat, S # {}
  PROVE  \E n \in S : \A k \in S : n <= k
<1>1. IsWellFoundedOn({ss \in Nat \X Nat : ss[1] < ss[2]}, Nat)
  BY NatLessThanWellFounded DEF OpToRel
<1>2. PICK n \in S : \A k \in S : <<k, n>> \notin {ss \in Nat \X Nat : ss[1] < ss[2]}
  BY <1>1, WFMin
<1>3. \A k \in S : ~(k < n)
  BY <1>2
<1> QED
  BY <1>3

LEMMA ConcatParts ==
  ASSUME NEW S, NEW a \in Seq(S), NEW b \in Seq(S), NEW c, c = a \o b
  PROVE  /\ c \in Seq(S) /\ Len(a) \in Nat /\ Len(b) \in Nat
         /\ Len(c) = Len(a) + Len(b)
         /\ \A i \in 1 .. Len(a) : c[i] = a[i]
         /\ \A i \in 1 .. Len(b) : c[Len(a) + i] = b[i]
<1>1. Len(a) \in Nat /\ Len(b) \in Nat
  BY LenProperties
<1>2. /\ c \in Seq(S)
      /\ Len(c) = Len(a) + Len(b)
      /\ \A i \in 1 .. Len(a) + Len(b) : c[i] = IF i <= Len(a) THEN a[i] ELSE b[i - Len(a)]
  BY ConcatProperties
<1>3. \A i \in 1 .. Len(b) : /\ Len(a) + i \in 1 .. Len(a) + Len(b)
                              /\ ~(Len(a) + i <= Len(a)) /\ Len(a) + i - Len(a) = i
  BY <1>1
<1>4. \A i \in 1 .. Len(b) : c[Len(a) + i] = b[i]
  <2> TAKE i \in 1 .. Len(b)
  <2>1. c[Len(a) + i] = b[Len(a) + i - Len(a)]
    BY <1>2, <1>3
  <2> QED
    BY <1>3, <2>1
<1>5. \A i \in 1 .. Len(a) : c[i] = a[i]
  BY <1>1, <1>2
<1> QED
  BY <1>1, <1>2, <1>4, <1>5

(* f[i] is the concatenation of the first i fields.                        *)
Flat(ss, n, f) ==
  f = [i \in 1 .. n |-> IF i = 1 THEN ss[i] ELSE f[i - 1] \o ss[i]]

LEMMA FlatExists ==
  ASSUME NEW ss, NEW n \in Nat
  PROVE  \E f : Flat(ss, n, f)
<1> DEFINE Bad == {k \in Nat : ~ \E f : Flat(ss, k, f)}
<1> SUFFICES ASSUME Bad # {} PROVE FALSE
  OBVIOUS
<1>1. PICK k \in Bad : \A j \in Bad : k <= j
  <2>1. Bad \in SUBSET Nat
    OBVIOUS
  <2> HIDE DEF Bad
  <2> QED
    BY <2>1, LeastOf
<1>2. CASE k = 0
  <2>1. Flat(ss, 0, [i \in 1 .. 0 |-> ss])
    BY DEF Flat
  <2> QED
    BY <1>2, <2>1
<1>3. CASE k # 0
  <2>1. k - 1 \in Nat /\ k - 1 \notin Bad
    BY <1>1, <1>3
  <2>2. PICK g : Flat(ss, k - 1, g)
    BY <2>1
  <2> DEFINE f == [i \in 1 .. k |-> IF i = k THEN IF k = 1 THEN ss[k] ELSE g[k - 1] \o ss[k]
                                    ELSE g[i]]
  <2>3. ASSUME NEW i \in 1 .. k
        PROVE  f[i] = IF i = 1 THEN ss[i] ELSE f[i - 1] \o ss[i]
    <3>1. CASE i = k
      <4>1. i # 1 => i - 1 \in 1 .. k /\ i - 1 # k
        BY <1>3, <3>1
      <4> QED
        BY <3>1, <4>1
    <3>2. CASE i # k
      <4>1. i \in 1 .. k - 1 /\ (i # 1 => i - 1 \in 1 .. k /\ i - 1 # k)
        BY <3>2
      <4>2. g[i] = IF i = 1 THEN ss[i] ELSE g[i - 1] \o ss[i]
        BY <2>2, <4>1 DEF Flat
      <4> QED
        BY <3>2, <4>1, <4>2
    <3> QED
      BY <3>1, <3>2
  <2>4. f = [i \in 1 .. k |-> f[i]]
    OBVIOUS
  <2> HIDE DEF f
  <2>5. Flat(ss, k, f)
    BY <2>3, <2>4 DEF Flat
  <2> QED
    BY <2>5
<1> QED
  BY <1>2, <1>3

LEMMA FlatUnique ==
  ASSUME NEW ss, NEW uu, NEW n \in Nat, NEW m \in Nat, n <= m,
         \A i \in 1 .. n : ss[i] = uu[i],
         NEW f, Flat(ss, n, f), NEW g, Flat(uu, m, g)
  PROVE  \A i \in 1 .. n : f[i] = g[i]
<1> DEFINE Bad == {i \in 1 .. n : f[i] # g[i]}
<1> SUFFICES ASSUME Bad # {} PROVE FALSE
  OBVIOUS
<1>1. PICK i \in Bad : \A j \in Bad : i <= j
  <2>1. Bad \in SUBSET Nat
    OBVIOUS
  <2> HIDE DEF Bad
  <2> QED
    BY <2>1, LeastOf
<1>2. /\ f[i] = IF i = 1 THEN ss[i] ELSE f[i - 1] \o ss[i]
      /\ g[i] = IF i = 1 THEN uu[i] ELSE g[i - 1] \o uu[i]
  <2>1. i \in 1 .. n /\ i \in 1 .. m
    OBVIOUS
  <2> QED
    BY <2>1 DEF Flat
<1>3. i # 1 => f[i - 1] = g[i - 1]
  <2>1. i # 1 => i - 1 \in 1 .. n /\ ~(i <= i - 1)
    OBVIOUS
  <2> QED
    BY <1>1, <2>1
<1> QED
  BY <1>2, <1>3

LEMMA FlatType ==
  ASSUME NEW S, NEW ss, NEW n \in Nat, \A i \in 1 .. n : ss[i] \in Seq(S),
         NEW f, Flat(ss, n, f)
  PROVE  \A i \in 1 .. n : f[i] \in Seq(S)
<1> DEFINE Bad == {i \in 1 .. n : f[i] \notin Seq(S)}
<1> SUFFICES ASSUME Bad # {} PROVE FALSE
  OBVIOUS
<1>1. PICK i \in Bad : \A j \in Bad : i <= j
  <2>1. Bad \in SUBSET Nat
    OBVIOUS
  <2> HIDE DEF Bad
  <2> QED
    BY <2>1, LeastOf
<1>2. f[i] = IF i = 1 THEN ss[i] ELSE f[i - 1] \o ss[i]
  BY DEF Flat
<1>3. i # 1 => f[i - 1] \in Seq(S)
  <2>1. i # 1 => i - 1 \in 1 .. n /\ ~(i <= i - 1)
    OBVIOUS
  <2> QED
    BY <1>1, <2>1
<1>4. f[i] \in Seq(S)
  BY <1>2, <1>3, ConcatProperties
<1> QED
  BY <1>4

LEMMA FlattenIsFlat ==
  ASSUME NEW T, NEW ss \in Seq(T), ss # <<>>
  PROVE  \E f : Flat(ss, Len(ss), f) /\ FlattenSeq(ss) = f[Len(ss)]
<1> DEFINE f == CHOOSE g : Flat(ss, Len(ss), g)
<1>1. Len(ss) \in Nat /\ Len(ss) # 0
  BY EmptySeq, LenProperties
<1>2. Flat(ss, Len(ss), f)
  BY <1>1, FlatExists
<1>3. FlattenSeq(ss) = f[Len(ss)]
  BY <1>1 DEF FlattenSeq, Flat
<1> HIDE DEF f
<1> QED
  BY <1>2, <1>3

LEMMA FlattenType ==
  ASSUME NEW S, NEW ss \in Seq(Seq(S)), ss # <<>>
  PROVE  FlattenSeq(ss) \in Seq(S)
<1>1. PICK f : Flat(ss, Len(ss), f) /\ FlattenSeq(ss) = f[Len(ss)]
  BY FlattenIsFlat
<1>2. Len(ss) \in Nat \ {0} /\ \A i \in 1 .. Len(ss) : ss[i] \in Seq(S)
  BY EmptySeq, ElementOfSeq, LenProperties
<1>3. Len(ss) \in 1 .. Len(ss)
  BY <1>2
<1> QED
  BY <1>1, <1>2, <1>3, FlatType

LEMMA FlatAppend ==
  ASSUME NEW ss, NEW uu, NEW n \in Nat \ {0}, \A i \in 1 .. n : ss[i] = uu[i],
         NEW f, Flat(ss, n, f), NEW g, Flat(uu, n + 1, g)
  PROVE  g[n + 1] = f[n] \o uu[n + 1]
<1> DEFINE m == n + 1
<1>1. m \in Nat /\ n <= m /\ m \in 1 .. m /\ m # 1 /\ m - 1 = n /\ n \in 1 .. n
  OBVIOUS
<1> HIDE DEF m
<1>2. g[m] = IF m = 1 THEN uu[m] ELSE g[m - 1] \o uu[m]
  BY <1>1 DEF Flat, m
<1>3. g[m] = g[n] \o uu[m]
  BY <1>1, <1>2
<1>4. Flat(uu, m, g)
  BY DEF m
<1>5. f[n] = g[n]
  BY <1>1, <1>4, FlatUnique
<1> QED
  BY <1>3, <1>5 DEF m

LEMMA FlattenAppend ==
  ASSUME NEW S, NEW ss \in Seq(Seq(S)), NEW x \in Seq(S)
  PROVE  FlattenSeq(Append(ss, x)) = FlattenSeq(ss) \o x
<1> DEFINE uu == Append(ss, x)
<1>1. /\ Len(ss) \in Nat /\ Len(ss) + 1 \in Nat
      /\ uu \in Seq(Seq(S)) /\ uu # <<>> /\ Len(uu) = Len(ss) + 1
      /\ \A i \in 1 .. Len(ss) : ss[i] = uu[i]
      /\ uu[Len(ss) + 1] = x
  BY LenProperties, AppendProperties
<1> HIDE DEF uu
<1>2. PICK g : Flat(uu, Len(ss) + 1, g) /\ FlattenSeq(uu) = g[Len(ss) + 1]
  BY <1>1, FlattenIsFlat
<1>3. CASE ss = <<>>
  <2>1. Len(ss) = 0 /\ FlattenSeq(ss) = <<>>
    BY <1>3 DEF FlattenSeq
  <2>2. 1 \in 1 .. 1 /\ g = [i \in 1 .. 1 |-> IF i = 1 THEN uu[i] ELSE g[i - 1] \o uu[i]]
    BY <1>2, <2>1 DEF Flat
  <2>3. g[1] = uu[1]
    BY <2>2
  <2>4. <<>> \o x = x
    BY ConcatEmptySeq
  <2> QED
    BY <1>1, <1>2, <2>1, <2>3, <2>4 DEF uu
<1>4. CASE ss # <<>>
  <2>1. PICK n \in Nat \ {0} : n = Len(ss)
    BY <1>1, <1>4, EmptySeq
  <2>2. PICK f : Flat(ss, n, f) /\ FlattenSeq(ss) = f[n]
    BY <1>4, <2>1, FlattenIsFlat
  <2>3. /\ n \in Nat \ {0} /\ \A i \in 1 .. n : ss[i] = uu[i]
        /\ Flat(ss, n, f) /\ Flat(uu, n + 1, g)
    BY <1>1, <1>2, <2>1, <2>2
  <2>4. g[n + 1] = f[n] \o uu[n + 1]
    BY <2>3, FlatAppend
  <2> QED
    BY <1>1, <1>2, <2>1, <2>2, <2>4 DEF uu
<1> QED
  BY <1>3, <1>4

LEMMA FlattenSeqType ==
  ASSUME NEW S, NEW ss \in Seq(Seq(S))
  PROVE  FlattenSeq(ss) \in Seq(S)
<1>1. ss = <<>> => FlattenSeq(ss) = <<>>
  BY DEF FlattenSeq
<1> QED
  BY <1>1, EmptySeq, FlattenType

LEMMA FlattenPair ==
  ASSUME NEW S, NEW a \in Seq(S), NEW b \in Seq(S)
  PROVE  FlattenSeq(<<a, b>>) = a \o b
<1>1. <<a, b>> \in Seq(Seq(S)) /\ <<a, b>> # <<>> /\ Len(<<a, b>>) = 2
  OBVIOUS
<1>2. PICK f : Flat(<<a, b>>, 2, f) /\ FlattenSeq(<<a, b>>) = f[2]
  BY <1>1, FlattenIsFlat
<1>3. \A i \in 1 .. 2 : f[i] = IF i = 1 THEN <<a, b>>[i] ELSE f[i - 1] \o <<a, b>>[i]
  BY <1>2 DEF Flat
<1>4. f[1] = a
  BY <1>3
<1>5. f[2] = f[1] \o b
  <2>1. 2 \in 1 .. 2 /\ 2 # 1 /\ 2 - 1 = 1 /\ <<a, b>>[2] = b
    OBVIOUS
  <2>2. f[2] = IF 2 = 1 THEN <<a, b>>[2] ELSE f[2 - 1] \o <<a, b>>[2]
    BY <1>3, <2>1
  <2> QED
    BY <2>1, <2>2
<1> QED
  BY <1>2, <1>4, <1>5, Zenon

(* The first k fields of ss, one behind the other.                         *)
Written(ss, k) == FlattenSeq(SubSeq(ss, 1, k))

LEMMA WrittenStep ==
  ASSUME NEW S, NEW ss \in Seq(Seq(S)), NEW k \in Nat, k < Len(ss)
  PROVE  /\ ss[k + 1] \in Seq(S)
         /\ Written(ss, k) \in Seq(S)
         /\ Written(ss, k + 1) = Written(ss, k) \o ss[k + 1]
<1>0. Len(ss) \in Nat
  BY LenProperties
<1>1. k + 1 \in 1 .. Len(ss) /\ 1 \in 1 .. Len(ss) /\ k + 1 \in 1 .. Len(ss) /\ k + 1 - 1 = k
  BY <1>0
<1>2. ss[k + 1] \in Seq(S)
  BY <1>1, ElementOfSeq
<1>3. SubSeq(ss, 1, k) \in Seq(Seq(S))
  <2>1. \A i \in 1 .. k : ss[i] \in Seq(S)
    BY <1>0, ElementOfSeq
  <2> QED
    BY <2>1, SubSeqProperties
<1>4. SubSeq(ss, 1, k + 1) = SubSeq(ss, 1, k) \o <<ss[k + 1]>>
  <2>1. k + 1 \in 1 .. Len(ss) /\ 1 \in 1 .. Len(ss)
    BY <1>1
  <2>2. SubSeq(ss, 1, k + 1) = SubSeq(ss, 1, k + 1 - 1) \o <<ss[k + 1]>>
    BY <2>1, SubSeqRecursiveSecond
  <2> QED
    BY <1>1, <2>2
<1>5. SubSeq(ss, 1, k + 1) = Append(SubSeq(ss, 1, k), ss[k + 1])
  BY <1>2, <1>3, <1>4, AppendIsConcat
<1> QED
  BY <1>2, <1>3, <1>5, FlattenAppend, FlattenSeqType DEF Written

(* What was written stays where it is.                                     *)
LEMMA WrittenPrefix ==
  ASSUME NEW S, NEW ss \in Seq(Seq(S)), NEW k \in 0 .. Len(ss)
  PROVE  \A j \in k .. Len(ss) : \E r \in Seq(S) : Written(ss, j) = Written(ss, k) \o r
<1> DEFINE Ok(j) == \E r \in Seq(S) : Written(ss, j) = Written(ss, k) \o r
           Bad == {j \in k .. Len(ss) : ~ Ok(j)}
<1>0. Len(ss) \in Nat
  BY LenProperties
<1>1. Written(ss, k) \in Seq(S)
  <2>1. \A i \in 1 .. k : ss[i] \in Seq(S)
    BY <1>0, ElementOfSeq
  <2>2. SubSeq(ss, 1, k) \in Seq(Seq(S))
    BY <2>1, SubSeqProperties
  <2> QED
    BY <2>2, FlattenSeqType DEF Written
<1> SUFFICES ASSUME Bad # {} PROVE FALSE
  OBVIOUS
<1>2. PICK j \in Bad : \A i \in Bad : j <= i
  <2>1. Bad \in SUBSET Nat
    OBVIOUS
  <2> HIDE DEF Bad
  <2> QED
    BY <2>1, LeastOf
<1>3. j \in k .. Len(ss) /\ ~ Ok(j)
  OBVIOUS
<1>4. j # k
  BY <1>1, <1>3, EmptySeq, ConcatEmptySeq
<1>5. PICK i \in Nat : j = i + 1 /\ i \in k .. Len(ss) /\ i < Len(ss) /\ ~(j <= i)
  <2>1. j - 1 \in Nat /\ j = j - 1 + 1 /\ j - 1 \in k .. Len(ss) /\ j - 1 < Len(ss) /\ ~(j <= j - 1)
    BY <1>0, <1>3, <1>4
  <2> QED
    BY <2>1
<1>6. PICK r \in Seq(S) : Written(ss, i) = Written(ss, k) \o r
  BY <1>2, <1>5
<1>7. ss[i + 1] \in Seq(S) /\ Written(ss, i + 1) = (Written(ss, k) \o r) \o ss[i + 1]
  BY <1>5, <1>6, WrittenStep
<1>8. PICK w, x, d : /\ w \in Seq(S) /\ x \in Seq(S)
                     /\ w = Written(ss, k) /\ x = ss[i + 1] /\ d = Written(ss, j)
  BY <1>1, <1>7
<1>9. w \in Seq(S) /\ x \in Seq(S) /\ d = (w \o r) \o x
  BY <1>5, <1>7, <1>8
<1>10. d = w \o (r \o x) /\ r \o x \in Seq(S)
  BY <1>9, ConcatAssociative, ConcatProperties
<1> HIDE DEF Bad
<1> QED
  BY <1>3, <1>8, <1>10

(* Behind the first k fields lies the next one.                            *)
LEMMA FieldLies ==
  ASSUME NEW S, NEW ss \in Seq(Seq(S)), NEW k \in Nat, k < Len(ss)
  PROVE  \E r \in Seq(S) : FlattenSeq(ss) = (Written(ss, k) \o ss[k + 1]) \o r
<1>1. Len(ss) \in Nat /\ k + 1 \in 0 .. Len(ss) /\ Len(ss) \in k + 1 .. Len(ss)
  BY LenProperties
<1>2. \E r \in Seq(S) : Written(ss, Len(ss)) = Written(ss, k + 1) \o r
  BY <1>1, WrittenPrefix
<1>3. Written(ss, Len(ss)) = FlattenSeq(ss)
  BY SubSeqFull DEF Written
<1> QED
  BY <1>2, <1>3, WrittenStep
-----------------------------------------------------------------------------
(* The fields of a message *)

TagsOf(args) == <<Comma>> \o [i \in DOMAIN args |-> args[i].tag]

Bytes(a, fill) == IF a.tag = Str THEN PadString(a.val, fill) ELSE a.val

Parts(s, ts, args, fill) ==
  <<PadString(s, fill), PadString(ts, fill)>> \o [i \in DOMAIN args |-> Bytes(args[i], fill)]

LEMMA EncodingOfParts ==
  ASSUME NEW m, NEW fill
  PROVE  Encoding(m, fill) = FlattenSeq(Parts(m.address, TagsOf(m.args), m.args, fill))
BY DEF Encoding, Parts, TagsOf, Bytes

(* v is s with what appendPaddedString appends.                            *)
Padding(v, s, fill, S) ==
  /\ v \in Seq(S)
  /\ Len(v) = Len(s) + 4 - (Len(s) % 4)
  /\ \A i \in 1 .. Len(s) : v[i] = s[i]
  /\ v[Len(s) + 1] = Nul
  /\ \A i \in Len(s) + 2 .. Len(s) + 4 - (Len(s) % 4) : v[i] = fill

LEMMA PadType ==
  ASSUME NEW S, NEW s \in Seq(S), NEW fill \in S, Nul \in S
  PROVE  Padding(PadString(s, fill), s, fill, S)
<1> DEFINE a == Append(s, Nul)
           n == 3 - (Len(s) % 4)
           b == [i \in 1 .. n |-> fill]
<1>1. Len(s) \in Nat /\ n \in Nat
  BY LenProperties
<1>2. /\ a \in Seq(S) /\ Len(a) = Len(s) + 1
      /\ \A i \in 1 .. Len(s) : a[i] = s[i]
      /\ a[Len(s) + 1] = Nul
  BY AppendProperties
<1>3. b \in Seq(S) /\ Len(b) = n /\ \A i \in 1 .. n : b[i] = fill
  BY <1>1
<1>5. PadString(s, fill) = a \o b
  BY DEF PadString
<1> HIDE DEF a, b
<1>4. /\ a \o b \in Seq(S) /\ Len(a \o b) = Len(a) + Len(b)
      /\ \A i \in 1 .. Len(a) : (a \o b)[i] = a[i]
      /\ \A i \in 1 .. Len(b) : (a \o b)[Len(a) + i] = b[i]
  BY <1>2, <1>3, ConcatParts
<1>6. ASSUME NEW i \in Len(s) + 2 .. Len(s) + 4 - (Len(s) % 4)
      PROVE  (a \o b)[i] = fill
  <2>1. i - (Len(s) + 1) \in 1 .. n /\ Len(s) + 1 + (i - (Len(s) + 1)) = i
    BY <1>1
  <2> QED
    BY <1>2, <1>3, <1>4, <2>1
<1> QED
  BY <1>1, <1>2, <1>3, <1>4, <1>5, <1>6 DEF Padding

(* p holds the padded strings s and ts, then the arguments.                *)
PartsAre(p, s, ts, args, fill, S) ==
  /\ p \in Seq(Seq(S)) /\ Len(p) = Len(args) + 2
  /\ p[1] = PadString(s, fill) /\ p[2] = PadString(ts, fill)
  /\ \A i \in 1 .. Len(args) : p[i + 2] = Bytes(args[i], fill)

(* Arguments of A are made of S.                                           *)
MadeOf(A, fill, S) == \A a \in A : Bytes(a, fill) \in Seq(S)

LEMMA PartsType ==
  ASSUME NEW S, Nul \in S, NEW fill \in S, NEW s \in Seq(S), NEW ts \in Seq(S),
         NEW A, MadeOf(A, fill, S), NEW args \in Seq(A)
  PROVE  PartsAre(Parts(s, ts, args, fill), s, ts, args, fill, S)
<1> DEFINE a == <<PadString(s, fill), PadString(ts, fill)>>
           b == [i \in DOMAIN args |-> Bytes(args[i], fill)]
<1>1. PadString(s, fill) \in Seq(S) /\ PadString(ts, fill) \in Seq(S)
  BY PadType DEF Padding
<1>2. /\ a \in Seq(Seq(S)) /\ Len(a) = 2
      /\ a[1] = PadString(s, fill) /\ a[2] = PadString(ts, fill)
  BY <1>1
<1>3. Len(args) \in Nat /\ DOMAIN args = 1 .. Len(args)
  BY LenProperties
<1>4. \A i \in 1 .. Len(args) : Bytes(args[i], fill) \in Seq(S)
  <2> TAKE i \in 1 .. Len(args)
  <2>1. args[i] \in A
    BY ElementOfSeq
  <2> QED
    BY <2>1 DEF MadeOf
<1>5. /\ b \in Seq(Seq(S)) /\ Len(b) = Len(args)
      /\ \A i \in 1 .. Len(args) : b[i] = Bytes(args[i], fill)
  <2>1. b \in [1 .. Len(args) -> Seq(S)]
    BY <1>3, <1>4
  <2> QED
    BY <1>3, <2>1
<1>6. Parts(s, ts, args, fill) = a \o b
  BY DEF Parts
<1> HIDE DEF a, b
<1>7. /\ a \o b \in Seq(Seq(S)) /\ Len(a \o b) = Len(a) + Len(b)
      /\ \A i \in 1 .. Len(a) : (a \o b)[i] = a[i]
      /\ \A i \in 1 .. Len(b) : (a \o b)[Len(a) + i] = b[i]
  <2>1. PICK Q : Q = Seq(S)
    OBVIOUS
  <2>2. a \in Seq(Q) /\ b \in Seq(Q)
    BY <1>2, <1>5, <2>1
  <2>3. /\ a \o b \in Seq(Q) /\ Len(a \o b) = Len(a) + Len(b)
        /\ \A i \in 1 .. Len(a) : (a \o b)[i] = a[i]
        /\ \A i \in 1 .. Len(b) : (a \o b)[Len(a) + i] = b[i]
    BY <2>2, ConcatParts
  <2> QED
    BY <2>1, <2>3
<1>8. /\ Len(a \o b) = Len(args) + 2
      /\ (a \o b)[1] = a[1] /\ (a \o b)[2] = a[2]
      /\ \A i \in 1 .. Len(args) : 2 + i = i + 2 /\ (a \o b)[2 + i] = b[i]
  <2>1. 1 \in 1 .. Len(a) /\ 2 \in 1 .. Len(a) /\ 2 + Len(args) = Len(args) + 2
    BY <1>2, <1>3
  <2>2. \A i \in 1 .. Len(args) : 2 + i = i + 2
    BY <1>3
  <2> QED
    BY <1>2, <1>5, <1>7, <2>1, <2>2
<1> QED
  BY <1>2, <1>5, <1>6, <1>7, <1>8 DEF PartsAre

LEMMA BytesType ==
  ASSUME NEW S, Nul \in S, NEW fill \in S, NEW T
  PROVE  MadeOf([tag : T, val : Seq(S)], fill, S)
BY PadType DEF Bytes, MadeOf, Padding

(* One more argument is one more field.                                    *)
PartsGrow(s, ts, args, a, fill) ==
  Parts(s, ts, Append(args, a), fill) = Append(Parts(s, ts, args, fill), Bytes(a, fill))

LEMMA PartsAppend ==
  ASSUME NEW S, Nul \in S, NEW fill \in S, NEW s \in Seq(S), NEW ts \in Seq(S),
         NEW A, MadeOf(A, fill, S), NEW args \in Seq(A), NEW a \in A
  PROVE  PartsGrow(s, ts, args, a, fill)
<1>0. PICK aa, p, r, v :
        /\ aa = Append(args, a) /\ p = Parts(s, ts, args, fill)
        /\ r = Parts(s, ts, aa, fill) /\ v = Bytes(a, fill)
  OBVIOUS
<1>1. v \in Seq(S)
  BY <1>0 DEF MadeOf
<1>2. /\ aa \in Seq(A) /\ Len(aa) = Len(args) + 1
      /\ \A i \in 1 .. Len(args) : aa[i] = args[i]
      /\ aa[Len(args) + 1] = a
  BY <1>0, AppendProperties
<1>3. Len(args) \in Nat
  BY LenProperties
<1>4. /\ p \in Seq(Seq(S)) /\ Len(p) = Len(args) + 2
      /\ p[1] = PadString(s, fill) /\ p[2] = PadString(ts, fill)
      /\ \A i \in 1 .. Len(args) : p[i + 2] = Bytes(args[i], fill)
  <2>1. PartsAre(p, s, ts, args, fill, S)
    BY <1>0, PartsType
  <2> QED
    BY <2>1 DEF PartsAre
<1>5. /\ r \in Seq(Seq(S)) /\ Len(r) = Len(aa) + 2
      /\ r[1] = PadString(s, fill) /\ r[2] = PadString(ts, fill)
      /\ \A i \in 1 .. Len(aa) : r[i + 2] = Bytes(aa[i], fill)
  <2>1. PartsAre(r, s, ts, aa, fill, S)
    BY <1>0, <1>2, PartsType
  <2> QED
    BY <2>1 DEF PartsAre
<1>6. /\ Append(p, v) \in Seq(Seq(S)) /\ Len(Append(p, v)) = Len(args) + 3
      /\ \A i \in 1 .. Len(args) + 2 : Append(p, v)[i] = p[i]
      /\ Append(p, v)[Len(args) + 3] = v
  <2>1. Len(args) + 2 + 1 = Len(args) + 3
    BY <1>3
  <2> QED
    BY <1>1, <1>4, <2>1, AppendProperties
<1>7. ASSUME NEW i \in 1 .. Len(args) + 3
      PROVE  r[i] = Append(p, v)[i]
  <2>1. CASE i = 1 \/ i = 2
    BY <1>3, <1>4, <1>5, <1>6, <2>1
  <2>2. CASE i = Len(args) + 3
    <3>1. Len(aa) \in 1 .. Len(aa) /\ Len(aa) + 2 = i /\ Len(aa) = Len(args) + 1
      BY <1>2, <1>3, <2>2
    <3>2. r[Len(aa) + 2] = Bytes(aa[Len(aa)], fill)
      BY <1>5, <3>1
    <3> QED
      BY <1>0, <1>2, <1>6, <2>2, <3>1, <3>2
  <2>3. CASE i # 1 /\ i # 2 /\ i # Len(args) + 3
    <3>1. PICK j \in 1 .. Len(args) : i = j + 2
      <4>1. i - 2 \in 1 .. Len(args) /\ i = i - 2 + 2
        BY <1>3, <2>3
      <4> QED
        BY <4>1
    <3>2. j \in 1 .. Len(aa) /\ i \in 1 .. Len(args) + 2
      BY <1>2, <1>3, <3>1
    <3>3. r[i] = Bytes(args[j], fill)
      BY <1>2, <1>5, <3>1, <3>2
    <3>4. p[i] = Bytes(args[j], fill)
      BY <1>4, <3>1
    <3> QED
      BY <1>6, <3>2, <3>3, <3>4
  <2> QED
    BY <2>1, <2>2, <2>3
<1>8. r = Append(p, v)
  <2>1. Len(r) = Len(args) + 3 /\ Len(Append(p, v)) = Len(r)
    BY <1>2, <1>3, <1>5, <1>6
  <2>2. \A i \in 1 .. Len(r) : r[i] = Append(p, v)[i]
    BY <1>7, <2>1
  <2>3. r \in Seq(Seq(S)) /\ Append(p, v) \in Seq(Seq(S))
    BY <1>5, <1>6
  <2> QED
    BY <2>1, <2>2, <2>3, SeqEqual
<1> QED
  BY <1>0, <1>8, Zenon DEF PartsGrow
-----------------------------------------------------------------------------
(* What was read agrees with what was kept of it *)

Code == 0 .. Base

(* The n bytes behind the first p.                                         *)
LEMMA SubSeqAt ==
  ASSUME NEW S, NEW s, NEW p \in Nat, NEW n \in Nat, \A i \in 1 .. n : s[p + i] \in S,
         NEW u, u = SubSeq(s, p + 1, p + n)
  PROVE  u \in Seq(S) /\ Len(u) = n /\ \A i \in 1 .. n : u[i] = s[p + i]
<1>1. PICK a, b \in Int : a = p + 1 /\ b = p + n
  OBVIOUS
<1>2. \A i \in a .. b : s[i] \in S
  <2> TAKE i \in a .. b
  <2>1. i - p \in 1 .. n /\ p + (i - p) = i
    BY <1>1
  <2> QED
    BY <2>1
<1>3. u = SubSeq(s, a, b)
  BY <1>1
<1>4. /\ SubSeq(s, a, b) \in Seq(S)
      /\ Len(SubSeq(s, a, b)) = IF a <= b THEN b - a + 1 ELSE 0
      /\ \A i \in 1 .. b - a + 1 : SubSeq(s, a, b)[i] = s[a + i - 1]
  BY <1>2, SubSeqProperties
<1>5. b - a + 1 = n /\ (IF a <= b THEN b - a + 1 ELSE 0) = n
      /\ \A i \in 1 .. n : a + i - 1 = p + i
  BY <1>1
<1> QED
  BY <1>3, <1>4, <1>5

(* b agrees with the datagram from offset p on, but for its free bytes.    *)
Agrees(b, p) == \A i \in 1 .. Len(b) : b[i] # Free => data[p + i] = b[i]

(* The words from the start of the element up to the cursor are b.         *)
Covers(b) ==
  /\ b \in Seq(Code) /\ Len(b) = pos - start /\ (pos - start) % 4 = 0
  /\ Agrees(b, start)

LEMMA SumOfWords ==
  ASSUME NEW k \in Nat, NEW l \in Nat, k % 4 = 0, l % 4 = 0
  PROVE  (k + l) % 4 = 0
OBVIOUS

LEMMA WordsBehind ==
  ASSUME NEW p \in Nat, NEW s \in Nat, p >= s, (p - s) % 4 = 0, NEW n \in Nat, n % 4 = 0
  PROVE  ((p + n) - s) % 4 = 0
<1>1. p - s \in Nat /\ (p + n) - s = (p - s) + n
  OBVIOUS
<1> QED
  BY <1>1, SumOfWords

LEMMA CodeType ==
  /\ Nul \in Code /\ Free \in Code /\ Nul \in Byte
  /\ \A s \in Seq(Byte) : s \in Seq(Code)
<1>1. Nul \in Code /\ Free \in Code /\ Nul \in Byte
  BY CodecAssumption DEF Nul, Code, Free, Byte
<1>2. Byte \subseteq Code
  BY CodecAssumption DEF Byte, Code
<1>3. Seq(Byte) \subseteq Seq(Code)
  BY <1>2, SeqMonotonic
<1> QED
  BY <1>1, <1>3

LEMMA AgreesConcat ==
  ASSUME NEW a \in Seq(Code), NEW b \in Seq(Code), NEW p \in Nat, NEW c, c = a \o b,
         Agrees(a, p), Agrees(b, p + Len(a))
  PROVE  c \in Seq(Code) /\ Len(c) = Len(a) + Len(b) /\ Agrees(c, p)
<1>1. /\ c \in Seq(Code) /\ Len(a) \in Nat /\ Len(b) \in Nat
      /\ Len(c) = Len(a) + Len(b)
      /\ \A i \in 1 .. Len(a) : c[i] = a[i]
      /\ \A i \in 1 .. Len(b) : c[Len(a) + i] = b[i]
  BY ConcatParts
<1>2. ASSUME NEW i \in 1 .. Len(c), c[i] # Free
      PROVE  data[p + i] = c[i]
  <2>1. CASE i <= Len(a)
    <3>1. i \in 1 .. Len(a)
      BY <1>1, <2>1
    <3> QED
      BY <1>1, <1>2, <3>1 DEF Agrees
  <2>2. CASE ~(i <= Len(a))
    <3>1. PICK j \in 1 .. Len(b) : i = Len(a) + j
      <4>1. i - Len(a) \in 1 .. Len(b) /\ i = Len(a) + (i - Len(a))
        BY <1>1, <2>2
      <4> QED
        BY <4>1
    <3>2. c[i] = b[j]
      BY <1>1, <3>1
    <3>3. p + Len(a) + j = p + i
      BY <1>1, <3>1
    <3>4. data[p + Len(a) + j] = b[j]
      BY <1>2, <3>2 DEF Agrees
    <3> QED
      BY <3>2, <3>3, <3>4
  <2> QED
    BY <2>1, <2>2
<1> QED
  BY <1>1, <1>2 DEF Agrees

LEMMA CoversMore ==
  ASSUME TypeOK, NEW b, Covers(b), NEW v \in Seq(Code), Agrees(v, pos), Len(v) % 4 = 0,
         pos' = pos + Len(v), UNCHANGED <<data, start>>, NEW c, c = b \o v
  PROVE  Covers(c)'
<1>1. /\ pos \in Nat /\ start \in Nat /\ pos >= start
      /\ b \in Seq(Code) /\ Len(b) = pos - start /\ (pos - start) % 4 = 0
      /\ Agrees(b, start)
  BY DEF TypeOK, Covers
<1>2. Len(b) \in Nat /\ Len(v) \in Nat
  BY <1>1, LenProperties
<1>3. start + Len(b) = pos
  BY <1>1
<1>4. c \in Seq(Code) /\ Len(c) = Len(b) + Len(v) /\ Agrees(c, start)
  BY <1>1, <1>3, AgreesConcat
<1>5. Len(c) = pos' - start' /\ (pos' - start') % 4 = 0
  <2>1. \A k, l \in Nat : k % 4 = 0 /\ l % 4 = 0 => (k + l) % 4 = 0
    BY SumOfWords
  <2>2. PICK k, l \in Nat : k = pos - start /\ l = Len(v)
    BY <1>1, <1>2
  <2>3. (k + l) % 4 = 0
    BY <1>1, <2>1, <2>2
  <2>4. pos' - start' = k + l /\ Len(c) = k + l
    BY <1>1, <1>4, <2>2
  <2> QED
    BY <2>3, <2>4
<1>6. Agrees(c, start)'
  BY <1>4 DEF Agrees
<1> QED
  BY <1>4, <1>5, <1>6 DEF Covers, Code

(* A string, its terminator and what was skipped behind it.                *)
LEMMA StringAgrees ==
  ASSUME TypeOK, ReadsInside, (pos - start) % 4 = 0, NEW q \in Strings,
         NEW v, v = PadString(Text(q), Free)
  PROVE  /\ v \in Seq(Code) /\ Len(v) % 4 = 0 /\ Padded(q + 1) = pos + Len(v)
         /\ Agrees(v, pos)
<1>1. /\ q \in Nat /\ pos \in Nat /\ start \in Nat /\ start <= pos /\ pos <= q
      /\ Text(q) \in Seq(Code)
  BY StringType, CodeType DEF TypeOK
<1>2. Len(Text(q)) = q - pos /\ \A i \in 1 .. q - pos : Text(q)[i] = data[pos + i]
  <2>1. PICK n \in Nat : n = q - pos /\ pos + n = q
    BY <1>1
  <2>2. \A i \in 1 .. n : pos + i \in 1 .. Len(data)
    BY <1>1, <2>1, StringType, LenProperties DEF TypeOK, ReadsInside
  <2>3. \A i \in 1 .. n : data[pos + i] \in Byte
    BY <2>2, ElementOfSeq DEF TypeOK
  <2>4. Text(q) = SubSeq(data, pos + 1, pos + n)
    BY <2>1 DEF Text
  <2> QED
    BY <1>1, <2>1, <2>3, <2>4, SubSeqAt
<1>3. /\ v \in Seq(Code) /\ Len(v) = q - pos + 4 - ((q - pos) % 4)
      /\ \A i \in 1 .. q - pos : v[i] = Text(q)[i]
      /\ v[q - pos + 1] = Nul
      /\ \A i \in q - pos + 2 .. q - pos + 4 - ((q - pos) % 4) : v[i] = Free
  <2>1. PICK s \in Seq(Code) : s = Text(q)
    BY <1>1
  <2>2. v = PadString(s, Free) /\ Len(s) = q - pos
    BY <1>2, <2>1
  <2>3. /\ v \in Seq(Code) /\ Len(v) = Len(s) + 4 - (Len(s) % 4)
        /\ \A i \in 1 .. Len(s) : v[i] = s[i]
        /\ v[Len(s) + 1] = Nul
        /\ \A i \in Len(s) + 2 .. Len(s) + 4 - (Len(s) % 4) : v[i] = Free
    <3>1. Padding(v, s, Free, Code)
      BY <2>2, CodeType, PadType
    <3> QED
      BY <3>1 DEF Padding
  <2> QED
    BY <2>1, <2>2, <2>3
<1>4. Len(v) % 4 = 0 /\ Padded(q + 1) = pos + Len(v)
  <2>1. \A k, l \in Nat : k % 4 = 0 =>
          /\ (l + 4 - (l % 4)) % 4 = 0
          /\ k + l + 1 + ((4 - ((k + l + 1) % 4)) % 4) = k + l + 4 - (l % 4)
    OBVIOUS
  <2>2. PICK k, l \in Nat : k = pos - start /\ l = q - pos
    BY <1>1
  <2>3. k % 4 = 0 /\ Len(v) = l + 4 - (l % 4)
    BY <1>3, <2>2
  <2>4. Padded(q + 1) = q + 1 + ((4 - ((k + l + 1) % 4)) % 4)
    <3>1. q + 1 - start = k + l + 1
      BY <1>1, <2>2
    <3> QED
      BY <1>1, <3>1 DEF Padded
  <2>5. k + l + 1 + ((4 - ((k + l + 1) % 4)) % 4) = k + l + 4 - (l % 4)
    BY <2>1, <2>3
  <2>6. (4 - ((k + l + 1) % 4)) % 4 \in Int /\ l % 4 \in Int
    BY <2>2
  <2> QED
    BY <1>1, <2>1, <2>2, <2>3, <2>4, <2>5, <2>6
<1>5. ASSUME NEW i \in 1 .. Len(v), v[i] # Free
      PROVE  data[pos + i] = v[i]
  <2>0. i \in Nat /\ q - pos \in Nat /\ (q - pos) % 4 \in Nat
    <3>1. q - pos \in Nat /\ (q - pos) % 4 \in Nat
      BY <1>1
    <3> QED
      BY <1>3, <3>1
  <2>1. CASE i <= q - pos
    BY <1>2, <1>3, <2>0, <2>1
  <2>2. CASE i = q - pos + 1
    <3>1. data[q + 1] = Nul
      BY DEF Strings, StringTo, At
    <3>2. pos + i = q + 1
      BY <1>1, <2>2
    <3> QED
      BY <1>3, <2>2, <3>1, <3>2
  <2>3. CASE i > q - pos + 1
    <3>1. i \in q - pos + 2 .. q - pos + 4 - ((q - pos) % 4)
      BY <1>1, <1>3, <2>0, <2>3
    <3> QED
      BY <1>3, <1>5, <3>1
  <2> QED
    BY <2>0, <2>1, <2>2, <2>3
<1> QED
  BY <1>3, <1>4, <1>5 DEF Agrees

LEMMA WordAgrees ==
  ASSUME TypeOK, ReadsInside, HasWord
  PROVE  WordAt \in Seq(Code) /\ Len(WordAt) = 4 /\ Agrees(WordAt, pos)
<1>1. \A i \in 1 .. 4 : data[pos + i] \in Byte
  <2>1. \A i \in 1 .. 4 : pos + i \in 1 .. Len(data)
    BY LenProperties DEF TypeOK, ReadsInside, HasWord
  <2> QED
    BY <2>1, ElementOfSeq DEF TypeOK
<1>2. WordAt = SubSeq(data, pos + 1, pos + 4)
  BY DEF WordAt
<1>3. Len(WordAt) = 4 /\ \A i \in 1 .. 4 : WordAt[i] = data[pos + i]
  BY <1>1, <1>2, SubSeqAt DEF TypeOK
<1> QED
  BY <1>3, WordType, CodeType DEF Agrees
-----------------------------------------------------------------------------
(* Accepted messages *)

Arg == [tag : Byte, val : Seq(Byte)]

(* What the machine keeps of the fields it has read, unless it left one    *)
(* out.                                                                    *)
ReadSoFar ==
  Len(msg.args) = t - 2 =>
    /\ Covers(FlattenSeq(Parts(msg.address, tags, msg.args, Free)))
    /\ \A i \in 1 .. Len(msg.args) : msg.args[i].tag = tags[i + 1]

Kept ==
  /\ pc = "address" => pos = start
  /\ pc \in {"tags", "args", "message"} => pos <= end + 1
  /\ pc = "tags" => msg.args = <<>> /\ Covers(PadString(msg.address, Free))
  /\ pc = "args" => tags # <<>>
  /\ pc \in {"args", "message"} /\ tags # <<>> =>
       /\ tags[1] = Comma
       /\ 2 <= t /\ t <= Len(tags) + 1 /\ Len(msg.args) <= t - 2
       /\ pc = "message" => t = Len(tags) + 1
       /\ ReadSoFar

LEMMA ArgType ==
  /\ \A s \in Seq(Byte) : s \in Seq(Code)
  /\ MadeOf(Arg, Free, Code)
<1>1. MadeOf([tag : Byte, val : Seq(Code)], Free, Code)
  BY CodeType, BytesType
<1>2. \A a \in Arg : a \in [tag : Byte, val : Seq(Code)]
  BY CodeType DEF Arg
<1> QED
  BY <1>1, <1>2, CodeType DEF MadeOf

(* The type of a message, and of the fields it is encoded as.              *)
LEMMA MsgType ==
  ASSUME TypeOK
  PROVE  /\ msg.address \in Seq(Byte) /\ msg.args \in Seq(Arg)
         /\ Len(msg.args) \in Nat /\ Len(tags) \in Nat
         /\ FlattenSeq(Parts(msg.address, tags, msg.args, Free)) \in Seq(Code)
<1>1. msg.address \in Seq(Byte) /\ msg.args \in Seq(Arg) /\ tags \in Seq(Byte)
  BY DEF TypeOK, Arg
<1>2. PICK s, ts, args : s = msg.address /\ ts = tags /\ args = msg.args
  OBVIOUS
<1>3. /\ s \in Seq(Code) /\ ts \in Seq(Code) /\ args \in Seq(Arg)
      /\ Nul \in Code /\ Free \in Code /\ MadeOf(Arg, Free, Code)
  BY <1>1, <1>2, ArgType, CodeType
<1>4. PartsAre(Parts(s, ts, args, Free), s, ts, args, Free, Code)
  BY <1>3, PartsType
<1>5. Parts(s, ts, args, Free) \in Seq(Seq(Code))
  BY <1>4 DEF PartsAre
<1>6. FlattenSeq(Parts(s, ts, args, Free)) \in Seq(Code)
  BY <1>5, FlattenSeqType
<1> QED
  BY <1>1, <1>2, <1>6, LenProperties

(* At the first argument.                                                  *)
LEMMA ReadTagsKept ==
  ASSUME Inv, Kept, ReadTags
  PROVE  Kept'
<1>1. PICK q \in Strings :
        /\ q > pos /\ At(pos) = Comma
        /\ tags' = Text(q) /\ t' = 2 /\ pos' = Padded(q + 1)
  BY DEF ReadTags
<1>2. /\ pc' = "args" /\ msg.args = <<>> /\ Covers(PadString(msg.address, Free))
      /\ UNCHANGED <<data, start, end, msg>>
  BY DEF ReadTags, Kept
<1>3. TypeOK /\ ReadsInside /\ TypeOK'
  BY NextInv DEF Inv, Next, Parse
<1>4. PICK b, v, ts, s : /\ b = PadString(msg.address, Free) /\ v = PadString(Text(q), Free)
                         /\ ts = Text(q) /\ s = msg.address
  OBVIOUS
<1>5. /\ v \in Seq(Code) /\ Len(v) % 4 = 0 /\ pos' = pos + Len(v)
      /\ Agrees(v, pos)
  BY <1>1, <1>2, <1>3, <1>4, StringAgrees DEF Covers
<1>6. PICK c : c = b \o v
  OBVIOUS
<1>7. Covers(c)'
  BY <1>2, <1>3, <1>4, <1>5, <1>6, CoversMore
<1>8. FlattenSeq(Parts(s, ts, <<>>, Free)) = c
  <2>1. b \in Seq(Code) /\ v \in Seq(Code)
    BY <1>2, <1>4, <1>5 DEF Covers
  <2>2. Parts(s, ts, <<>>, Free) = <<b, v>>
    <3>1. Parts(s, ts, <<>>, Free) = <<b, v>> \o [i \in DOMAIN <<>> |-> Bytes(<<>>[i], Free)]
      BY <1>4 DEF Parts
    <3>2. [i \in DOMAIN <<>> |-> Bytes(<<>>[i], Free)] = <<>>
      OBVIOUS
    <3>3. <<b, v>> \in Seq(Seq(Code))
      BY <2>1
    <3>4. <<b, v>> \o <<>> = <<b, v>>
      BY <3>3, ConcatEmptySeq
    <3> QED
      BY <3>1, <3>2, <3>4
  <2> QED
    BY <1>6, <2>1, <2>2, FlattenPair
<1>9. ReadSoFar'
  <2>1. /\ tags' = ts /\ msg'.address = s /\ msg'.args = <<>>
    BY <1>1, <1>2, <1>4
  <2>2. FlattenSeq(Parts(msg.address, tags, msg.args, Free))' = c
    BY <1>8, <2>1
  <2> QED
    BY <1>7, <2>1, <2>2 DEF ReadSoFar
<1>10. Len(Text(q)) = q - pos /\ Text(q)[1] = data[pos + 1]
  <2>1. q \in Nat /\ pos \in Nat /\ q < end
    BY <1>3, StringType DEF TypeOK
  <2>2. PICK n \in Nat : n = q - pos /\ q = pos + n /\ n > 0
    BY <1>1, <2>1
  <2>3. Text(q) = SubSeq(data, pos + 1, pos + n)
    BY <2>2 DEF Text
  <2>4. \A i \in 1 .. n : data[pos + i] \in Byte
    <3>0. end \in Nat /\ Len(data) \in Nat /\ end <= Len(data)
      BY <1>3, LenProperties DEF TypeOK, ReadsInside
    <3>1. \A i \in 1 .. n : pos + i \in 1 .. Len(data)
      BY <2>1, <2>2, <3>0
    <3> QED
      BY <1>3, <3>1, ElementOfSeq DEF TypeOK
  <2>5. Len(Text(q)) = n /\ \A i \in 1 .. n : Text(q)[i] = data[pos + i]
    BY <2>1, <2>3, <2>4, SubSeqAt
  <2> QED
    BY <2>2, <2>5
<1>11. /\ tags' # <<>> /\ tags'[1] = Comma /\ Len(tags') = q - pos /\ q - pos >= 1
  <2>0. q \in Nat /\ pos \in Nat
    BY <1>3, StringType DEF TypeOK
  <2>1. Len(Text(q)) >= 1 /\ q - pos >= 1
    BY <1>1, <1>10, <2>0
  <2> QED
    BY <1>1, <1>10, <2>1 DEF At
<1>12. pos' <= end' + 1
  BY <1>1, <1>2, <1>3, StringType
<1>13. Len(msg'.args) = 0 /\ q - pos \in Int
  BY <1>2, <1>3, StringType DEF TypeOK
<1> QED
  BY <1>1, <1>2, <1>9, <1>11, <1>12, <1>13 DEF Kept

(* One turn of the loop that keeps v.                                      *)
LEMMA PushKept ==
  ASSUME Inv, Kept, NextArg, NEW v \in Seq(Byte), Push(v),
         NEW w, w = Bytes([tag |-> tags[t], val |-> v], Free),
         (pos - start) % 4 = 0 =>
           w \in Seq(Code) /\ Agrees(w, pos) /\ Len(w) % 4 = 0 /\ pos' = pos + Len(w)
  PROVE  ReadSoFar' /\ Len(msg'.args) <= t' - 2
<1>1. /\ t <= Len(tags) /\ t' = t + 1 /\ tags # <<>> /\ 2 <= t
      /\ Len(msg.args) <= t - 2 /\ ReadSoFar
      /\ UNCHANGED <<data, start, end, tags>>
  BY DEF NextArg, Kept
<1>2. TypeOK /\ TypeOK'
  BY NextInv DEF Inv, Next, Parse
<1>3. PICK a, s, args : /\ a = [tag |-> tags[t], val |-> v] /\ s = msg.address
                        /\ args = msg.args
  OBVIOUS
<1>4. /\ msg.args \in Seq(Arg) /\ msg.address \in Seq(Byte) /\ tags \in Seq(Byte)
      /\ Len(msg.args) \in Nat /\ t \in Nat /\ Len(tags) \in Nat
      /\ FlattenSeq(Parts(msg.address, tags, msg.args, Free)) \in Seq(Code)
  BY <1>2, MsgType DEF TypeOK
<1>5. a \in Arg
  <2>1. tags[t] \in Byte
    BY <1>1, <1>4, ElementOfSeq
  <2> QED
    BY <1>3, <2>1 DEF Arg
<1>6. PICK bb : bb = Append(args, a)
  OBVIOUS
<1>7. /\ bb \in Seq(Arg) /\ Len(bb) = Len(args) + 1
      /\ \A i \in 1 .. Len(args) : bb[i] = args[i]
      /\ bb[Len(args) + 1] = a
  BY <1>3, <1>4, <1>5, <1>6, AppendProperties
<1>8. msg'.args = bb /\ msg'.address = s
  BY <1>2, <1>3, <1>6 DEF Push, TypeOK
<1>9. Len(msg'.args) <= t' - 2 /\ (Len(msg'.args) = t' - 2 => Len(msg.args) = t - 2)
  BY <1>1, <1>3, <1>4, <1>7, <1>8
<1>10. ASSUME Len(msg'.args) = t' - 2
       PROVE  /\ Covers(FlattenSeq(Parts(msg.address, tags, msg.args, Free)))'
              /\ \A i \in 1 .. Len(msg'.args) : msg'.args[i].tag = tags'[i + 1]
  <2>1. PICK ts, p, r, b, c :
          /\ ts = tags /\ p = Parts(s, ts, args, Free) /\ r = Parts(s, ts, bb, Free)
          /\ b = FlattenSeq(p) /\ c = FlattenSeq(r)
    OBVIOUS
  <2>2. /\ Covers(b) /\ \A i \in 1 .. Len(args) : args[i].tag = ts[i + 1]
    BY <1>1, <1>3, <1>9, <1>10, <2>1 DEF ReadSoFar
  <2>3. w \in Seq(Code) /\ Agrees(w, pos) /\ Len(w) % 4 = 0 /\ pos' = pos + Len(w)
    BY <2>2 DEF Covers
  <2>4. /\ s \in Seq(Code) /\ ts \in Seq(Code) /\ args \in Seq(Arg) /\ a \in Arg
        /\ Nul \in Code /\ Free \in Code /\ MadeOf(Arg, Free, Code)
        /\ w = Bytes(a, Free)
    BY <1>3, <1>4, <1>5, <2>1, ArgType, CodeType
  <2>5. r = Append(p, w)
    <3>1. PartsGrow(s, ts, args, a, Free)
      BY <2>4, PartsAppend
    <3> QED
      BY <1>6, <2>1, <2>4, <3>1, Zenon DEF PartsGrow
  <2>6. p \in Seq(Seq(Code))
    <3>1. PartsAre(p, s, ts, args, Free, Code)
      BY <2>1, <2>4, PartsType
    <3> QED
      BY <3>1 DEF PartsAre
  <2>7. c = b \o w
    BY <2>1, <2>3, <2>5, <2>6, FlattenAppend
  <2>8. Covers(c)'
    BY <1>1, <1>2, <2>2, <2>3, <2>7, CoversMore
  <2>9. FlattenSeq(Parts(msg.address, tags, msg.args, Free))' = c
    BY <1>1, <1>8, <2>1
  <2>10. ASSUME NEW i \in 1 .. Len(bb)
         PROVE  bb[i].tag = ts[i + 1]
    <3>1. CASE i = Len(args) + 1
      <4>1. i + 1 = t
        BY <1>1, <1>3, <1>4, <1>9, <1>10, <3>1
      <4> QED
        BY <1>3, <1>7, <2>1, <3>1, <4>1
    <3>2. CASE i # Len(args) + 1
      <4>1. i \in 1 .. Len(args)
        BY <1>3, <1>4, <1>7, <3>2
      <4> QED
        BY <1>7, <2>2, <4>1
    <3> QED
      BY <3>1, <3>2
  <2> QED
    BY <1>1, <1>8, <2>1, <2>8, <2>9, <2>10
<1> QED
  BY <1>9, <1>10 DEF ReadSoFar

LEMMA NextArgKept ==
  ASSUME Inv, Kept, NextArg
  PROVE  Kept'
<1>0. /\ t <= Len(tags) /\ t' = t + 1 /\ pc' = "args" /\ pc = "args"
      /\ UNCHANGED <<data, start, end, tags>>
      /\ tags # <<>> /\ tags[1] = Comma /\ 2 <= t
      /\ Len(msg.args) <= t - 2 /\ pos <= end + 1
  BY DEF NextArg, Kept
<1>1. /\ TypeOK /\ ReadsInside
      /\ t \in Nat /\ Len(tags) \in Nat /\ pos \in Nat /\ start \in Nat /\ end \in Nat
      /\ Len(msg.args) \in Nat
  BY MsgType DEF Inv, TypeOK
<1>2. /\ ReadSoFar' /\ Len(msg'.args) <= t' - 2
      /\ pos' <= end' + 1
  <2>1. CASE ReadNumber
    <3>1. HasWord /\ Push(WordAt) /\ tags[t] \in Numbers /\ pos' = pos + 4
      BY <2>1 DEF ReadNumber
    <3>2. PICK v, w : v = WordAt /\ w = Bytes([tag |-> tags[t], val |-> v], Free)
      OBVIOUS
    <3>3. v \in Seq(Byte) /\ v \in Seq(Code) /\ Len(v) = 4 /\ Agrees(v, pos)
      BY <1>1, <3>1, <3>2, WordAgrees, WordType
    <3>4. w = v
      BY <3>1, <3>2, MessagesAssumption DEF Bytes
    <3>5. w \in Seq(Code) /\ Agrees(w, pos) /\ Len(w) % 4 = 0 /\ pos' = pos + Len(w)
      <4>1. 4 % 4 = 0
        OBVIOUS
      <4> QED
        BY <3>1, <3>3, <3>4, <4>1, Zenon
    <3>6. Push(v)
      BY <3>1, <3>2
    <3>7. ReadSoFar' /\ Len(msg'.args) <= t' - 2
      BY <3>2, <3>3, <3>5, <3>6, PushKept
    <3> QED
      BY <1>0, <1>1, <3>1, <3>7 DEF HasWord
  <2>2. CASE ReadString
    <3>1. PICK q \in Strings : Push(Text(q)) /\ pos' = Padded(q + 1)
      BY <2>2 DEF ReadString
    <3>2. PICK v, w : v = Text(q) /\ w = Bytes([tag |-> tags[t], val |-> v], Free)
      OBVIOUS
    <3>3. w = PadString(Text(q), Free)
      BY <2>2, <3>2 DEF ReadString, Bytes
    <3>4. (pos - start) % 4 = 0 =>
            w \in Seq(Code) /\ Agrees(w, pos) /\ Len(w) % 4 = 0 /\ pos' = pos + Len(w)
      BY <1>1, <3>1, <3>3, StringAgrees
    <3>5. v \in Seq(Byte) /\ Push(v) /\ pos' <= end + 1
      BY <1>1, <3>1, <3>2, StringType
    <3>6. ReadSoFar' /\ Len(msg'.args) <= t' - 2
      BY <3>2, <3>4, <3>5, PushKept
    <3> QED
      BY <1>0, <3>5, <3>6
  <2>3. ASSUME UNCHANGED msg PROVE ReadSoFar' /\ Len(msg'.args) <= t' - 2
    <3>1. Len(msg'.args) <= t' - 2 /\ Len(msg'.args) # t' - 2
      BY <1>0, <1>1, <2>3
    <3> QED
      BY <3>1 DEF ReadSoFar
  <2>4. CASE SkipBlob
    <3>1. pos' <= end
      BY <2>4 DEF SkipBlob
    <3> QED
      BY <1>0, <1>1, <2>3, <2>4, <3>1, NextArgInv DEF SkipBlob, Inv, TypeOK
  <2>5. CASE SkipBare
    BY <1>0, <2>3, <2>5 DEF SkipBare
  <2> QED
    BY <2>1, <2>2, <2>4, <2>5 DEF NextArg, ReadArg
<1>3. 2 <= t' /\ t' <= Len(tags') + 1
  BY <1>0, <1>1
<1> QED
  BY <1>0, <1>2, <1>3 DEF Kept

LEMMA ReadAddressKept ==
  ASSUME Inv, Kept, ReadAddress
  PROVE  Kept'
<1>1. PICK q \in Strings :
        msg' = [NoMsg EXCEPT !.address = Text(q)] /\ pos' = Padded(q + 1)
  BY DEF ReadAddress
<1>2. /\ pc' \in {"tags", "message"} /\ tags' = <<>> /\ pos = start
      /\ UNCHANGED <<data, start, end>>
  BY DEF ReadAddress, Kept
<1>3. TypeOK /\ ReadsInside /\ start \in Nat
  BY DEF Inv, TypeOK
<1>4. msg'.args = <<>> /\ msg'.address = Text(q)
  BY <1>1 DEF NoMsg
<1>5. pos' <= end' + 1
  BY <1>1, <1>2, <1>3, StringType
<1>6. PICK v : v = PadString(Text(q), Free)
  OBVIOUS
<1>7. v \in Seq(Code) /\ Len(v) % 4 = 0 /\ pos' = pos + Len(v) /\ Agrees(v, pos)
  BY <1>1, <1>2, <1>3, <1>6, StringAgrees
<1>8. Covers(v)'
  <2>1. Len(v) \in Nat
    BY <1>7, LenProperties
  <2>2. Len(v) = pos' - start' /\ (pos' - start') % 4 = 0
    BY <1>2, <1>3, <1>7, <2>1
  <2>3. Agrees(v, start)'
    BY <1>2, <1>7 DEF Agrees
  <2> QED
    BY <1>7, <2>2, <2>3 DEF Covers, Code
<1>9. Covers(PadString(msg.address, Free))'
  <2>1. PadString(msg.address, Free)' = v
    BY <1>4, <1>6
  <2> QED
    BY <1>8, <2>1
<1> QED
  BY <1>2, <1>4, <1>5, <1>9 DEF Kept

LEMMA KeptNext ==
  ASSUME Inv, Kept, [Next]_vars
  PROVE  Kept'
<1>1. CASE ParsePacket
  <2>1. pc' \in {"element", "address"} /\ (pc' = "address" => pos' = start')
    BY <1>1 DEF ParsePacket
  <2> QED
    BY <2>1 DEF Kept
<1>2. CASE OpenElement
  BY <1>2 DEF OpenElement, Kept
<1>3. CASE EndOfBundle \/ PushMessage
  <2>1. pc' \in {"element", "true"}
    BY <1>3 DEF EndOfBundle, PushMessage, ReturnTrue
  <2> QED
    BY <2>1 DEF Kept
<1>4. CASE EndOfArgs
  <2>1. t > Len(tags) /\ pc = "args" /\ pc' = "message"
        /\ UNCHANGED <<data, start, end, pos, tags, t, msg>>
    BY <1>4 DEF EndOfArgs, frame, local
  <2>2. t \in Nat /\ Len(tags) \in Nat
    BY MsgType DEF Inv, TypeOK
  <2>3. ReadSoFar => ReadSoFar'
    BY <2>1 DEF ReadSoFar, Covers, Agrees
  <2>4. t <= Len(tags) + 1 => t = Len(tags) + 1
    BY <2>1, <2>2
  <2> QED
    BY <2>1, <2>3, <2>4 DEF Kept
<1>5. CASE ReturnFalse
  BY <1>5 DEF ReturnFalse, Kept
<1>6. CASE UNCHANGED vars
  BY <1>6 DEF vars, frame, local, Kept, ReadSoFar, Covers, Agrees
<1> QED
  BY <1>1, <1>2, <1>3, <1>4, <1>5, <1>6, ReadAddressKept, ReadTagsKept, NextArgKept
     DEF Next, Parse, Done

LEMMA SpecKept == Spec => [](Inv /\ Kept)
<1>1. Init => Inv /\ Kept
  BY InitInv DEF Init, Kept
<1>2. Inv /\ Kept /\ [Next]_vars => (Inv /\ Kept)'
  BY NextInv, KeptNext
<1> QED
  BY <1>1, <1>2, PTL DEF Spec

(* The tags that were read are those of the arguments that were kept.      *)
LEMMA TagsKept ==
  ASSUME TypeOK, tags # <<>>, tags[1] = Comma, Len(msg.args) = Len(tags) - 1,
         \A i \in 1 .. Len(msg.args) : msg.args[i].tag = tags[i + 1]
  PROVE  TagsOf(msg.args) = tags
<1>1. /\ msg.args \in Seq(Arg) /\ Len(msg.args) \in Nat /\ Len(tags) \in Nat
      /\ tags \in Seq(Byte)
  BY MsgType DEF TypeOK
<1>2. PICK args, n, b, c :
        /\ args = msg.args /\ n = Len(args)
        /\ b = [i \in DOMAIN args |-> args[i].tag] /\ c = <<Comma>> \o b
  OBVIOUS
<1>3. args \in Seq(Arg) /\ n \in Nat /\ Len(tags) = n + 1 /\ DOMAIN args = 1 .. n
  BY <1>1, <1>2, LenProperties
<1>4. b \in Seq(Byte) /\ Len(b) = n /\ \A i \in 1 .. n : b[i] = tags[i + 1]
  <2>0. \A i \in 1 .. n : i + 1 \in 1 .. Len(tags)
    BY <1>3
  <2>1. \A i \in 1 .. n : args[i].tag = tags[i + 1] /\ i + 1 \in 1 .. Len(tags)
    BY <1>2, <2>0, Zenon
  <2>2. \A i \in 1 .. n : args[i].tag \in Byte
    BY <1>1, <2>1, ElementOfSeq
  <2>3. b \in [1 .. n -> Byte]
    BY <1>2, <1>3, <2>2
  <2>4. b \in Seq(Byte) /\ Len(b) = n
    BY <1>3, <2>3
  <2>5. \A i \in 1 .. n : b[i] = args[i].tag
    BY <1>2, <1>3
  <2> QED
    BY <2>1, <2>4, <2>5
<1>5. <<Comma>> \in Seq(Byte) /\ Len(<<Comma>>) = 1 /\ <<Comma>>[1] = Comma
  BY MessagesAssumption
<1>6. /\ c \in Seq(Byte) /\ Len(c) = 1 + n /\ c[1] = Comma
      /\ \A i \in 1 .. n : c[1 + i] = b[i]
  <2>1. PICK h : h = <<Comma>>
    OBVIOUS
  <2>2. /\ c \in Seq(Byte) /\ Len(c) = Len(h) + Len(b)
        /\ \A i \in 1 .. Len(h) : c[i] = h[i]
        /\ \A i \in 1 .. Len(b) : c[Len(h) + i] = b[i]
    BY <1>2, <1>4, <1>5, <2>1, ConcatParts
  <2> QED
    BY <1>4, <1>5, <2>1, <2>2
<1>7. ASSUME NEW i \in 1 .. Len(c)
      PROVE  c[i] = tags[i]
  <2>1. CASE i = 1
    BY <1>6, <2>1
  <2>2. CASE i # 1
    <3>1. PICK j \in 1 .. n : i = 1 + j /\ i = j + 1
      <4>1. i - 1 \in 1 .. n /\ i = 1 + (i - 1) /\ i = i - 1 + 1
        BY <1>3, <1>6, <2>2
      <4> QED
        BY <4>1
    <3> QED
      BY <1>4, <1>6, <3>1
  <2> QED
    BY <2>1, <2>2
<1>8. c = tags
  <2>1. Len(c) = Len(tags)
    BY <1>3, <1>6
  <2> QED
    BY <1>1, <1>6, <1>7, <2>1, SeqEqual
<1> QED
  BY <1>2, <1>8 DEF TagsOf

(* A message that parse accepts, unless it left an argument out, is the    *)
(* one its bytes encode: serialize would write the same bytes, but for the *)
(* padding.                                                                *)
THEOREM AcceptedEncodes == Spec => []AcceptedIsEncoding
<1>1. ASSUME Inv, Kept, pc = "message", Len(msg.args) = Len(tags) - 1
      PROVE  LET bytes == Encoding(msg, Free) IN
             /\ Len(bytes) <= end - start + 1
             /\ \A i \in DOMAIN bytes : bytes[i] # Free => data[start + i] = bytes[i]
  <2>1. TypeOK /\ Len(msg.args) \in Nat /\ Len(tags) \in Nat
    BY <1>1, MsgType DEF Inv
  <2>2. tags # <<>>
    BY <1>1, <2>1
  <2>3. /\ tags[1] = Comma /\ t = Len(tags) + 1 /\ ReadSoFar /\ pos <= end + 1
    BY <1>1, <2>2 DEF Kept
  <2>4. Len(msg.args) = t - 2
    BY <1>1, <2>1, <2>3
  <2>5. PICK b : b = FlattenSeq(Parts(msg.address, tags, msg.args, Free))
    OBVIOUS
  <2>6. Covers(b) /\ TagsOf(msg.args) = tags
    BY <1>1, <2>1, <2>2, <2>3, <2>4, <2>5, TagsKept DEF ReadSoFar
  <2>7. Encoding(msg, Free) = b
    BY <2>5, <2>6, EncodingOfParts
  <2>8. Len(b) <= end - start + 1
    BY <2>1, <2>3, <2>6 DEF TypeOK, Covers
  <2>9. \A i \in DOMAIN b : b[i] # Free => data[start + i] = b[i]
    <3>1. DOMAIN b = 1 .. Len(b)
      BY <2>6, LenProperties DEF Covers
    <3> QED
      BY <2>6, <3>1 DEF Covers, Agrees
  <2> QED
    BY <2>7, <2>8, <2>9
<1>2. Inv /\ Kept => AcceptedIsEncoding
  BY <1>1 DEF AcceptedIsEncoding
<1> QED
  BY <1>2, SpecKept, PTL
-----------------------------------------------------------------------------
(* Bundles and messages *)

(* The element from offset a up to b starts as a bundle does.              *)
Marked(a, b) == b - a >= 8 /\ data[a + 1] = Marker[1]

(* The outermost frame is the datagram, and only bundles have elements.    *)
Framed ==
  /\ \A i \in 1 .. Len(calls) : Marked(calls[i].start, calls[i].end)
  /\ calls # <<>> => calls[1].start = 0 /\ calls[1].end = Len(data)
  /\ calls = <<>> => start = 0 /\ end = Len(data)
  /\ pc = "element" => Marked(start, end)

LEMMA BundleMarked ==
  ASSUME Inv, IsBundle
  PROVE  Marked(start, end)
<1>1. /\ start \in Nat /\ end \in Nat /\ end - start >= 8 /\ end <= Len(data)
      /\ Len(data) \in Nat /\ data \in Seq(Byte)
      /\ SubSeq(data, start + 1, start + 8) = Marker
  BY LenProperties DEF Inv, TypeOK, ReadsInside, IsBundle
<1>2. \A i \in 1 .. 8 : data[start + i] \in Byte
  <2>1. \A i \in 1 .. 8 : start + i \in 1 .. Len(data)
    BY <1>1
  <2> QED
    BY <1>1, <2>1, ElementOfSeq
<1>3. \A i \in 1 .. 8 : Marker[i] = data[start + i]
  BY <1>1, <1>2, SubSeqAt
<1>4. Marker[1] = data[start + 1]
  BY <1>3
<1> QED
  BY <1>1, <1>4 DEF Marked

LEMMA FramedOpen ==
  ASSUME Inv, Framed, OpenElement
  PROVE  Framed'
<1>1. /\ calls' = Append(calls, [start |-> start, end |-> end])
      /\ pc' = "packet" /\ data' = data /\ Marked(start, end)
  BY DEF OpenElement, Framed
<1>2. /\ calls \in Seq([start : Nat, end : Nat]) /\ start \in Nat /\ end \in Nat
      /\ Len(calls) \in Nat
  BY LenProperties DEF Inv, TypeOK
<1>3. PICK c : c = [start |-> start, end |-> end]
  OBVIOUS
<1>4. c \in [start : Nat, end : Nat] /\ c.start = start /\ c.end = end
  BY <1>2, <1>3
<1>5. /\ calls' # <<>> /\ Len(calls') = Len(calls) + 1
      /\ \A i \in 1 .. Len(calls) : calls'[i] = calls[i]
      /\ calls'[Len(calls) + 1] = c
  <2>1. PICK S : S = [start : Nat, end : Nat]
    OBVIOUS
  <2>2. calls' = Append(calls, c) /\ calls \in Seq(S) /\ c \in S
    BY <1>1, <1>2, <1>3, <1>4, <2>1
  <2> QED
    BY <2>2, AppendProperties
<1>6. ASSUME NEW i \in 1 .. Len(calls')
      PROVE  Marked(calls'[i].start, calls'[i].end)
  <2>1. CASE i = Len(calls) + 1
    BY <1>1, <1>4, <1>5, <2>1
  <2>2. CASE i # Len(calls) + 1
    <3>1. i \in 1 .. Len(calls)
      BY <1>2, <1>5, <2>2
    <3> QED
      BY <1>5, <3>1 DEF Framed
  <2> QED
    BY <2>1, <2>2
<1>7. calls'[1].start = 0 /\ calls'[1].end = Len(data)
  <2>1. CASE calls = <<>>
    BY <1>4, <1>5, <2>1 DEF Framed
  <2>2. CASE calls # <<>>
    <3>1. 1 \in 1 .. Len(calls)
      BY <1>2, <2>2, EmptySeq
    <3> QED
      BY <1>5, <2>2, <3>1 DEF Framed
  <2> QED
    BY <2>1, <2>2
<1>8. \A i \in 1 .. Len(calls') : Marked(calls[i].start, calls[i].end)'
  BY <1>1, <1>6 DEF Marked
<1> QED
  BY <1>1, <1>5, <1>7, <1>8 DEF Framed

LEMMA FramedReturn ==
  ASSUME Inv, Framed, ReturnTrue, data' = data
  PROVE  Framed'
<1>1. CASE calls = <<>>
  BY <1>1 DEF ReturnTrue, frame, Framed, Marked
<1>2. CASE calls # <<>>
  <2>1. /\ calls \in Seq([start : Nat, end : Nat]) /\ Len(calls) \in Nat \ {0}
    BY <1>2, EmptySeq, LenProperties DEF Inv, TypeOK
  <2>2. PICK n \in Nat \ {0} : n = Len(calls)
    BY <2>1
  <2>3. /\ calls' = Front(calls) /\ pc' = "element"
        /\ start' = calls[n].start /\ end' = calls[n].end
    BY <1>2, <2>2 DEF ReturnTrue, Last
  <2>4. Len(calls') = n - 1 /\ \A i \in 1 .. n - 1 : calls'[i] = calls[i]
    BY <1>2, <2>1, <2>2, <2>3, FrontType
  <2>5. \A i \in 1 .. n : Marked(calls[i].start, calls[i].end)
    BY <2>2 DEF Framed
  <2>6. \A i \in 1 .. Len(calls') : Marked(calls'[i].start, calls'[i].end)
    BY <2>2, <2>4, <2>5
  <2>7. Marked(start', end')
    BY <2>2, <2>3, <2>5
  <2>8. calls[1].start = 0 /\ calls[1].end = Len(data)
    BY <1>2 DEF Framed
  <2>9. CASE n = 1
    <3>1. Len(calls') = 0
      BY <2>4, <2>9
    <3>2. calls' = <<>>
      BY <1>2, <2>1, <2>3, <3>1, FrontType, EmptySeq
    <3> QED
      BY <2>3, <2>6, <2>7, <2>8, <2>9, <3>2 DEF Framed, Marked
  <2>10. CASE n # 1
    <3>1. 1 \in 1 .. n - 1 /\ Len(calls') # 0
      BY <2>2, <2>4, <2>10
    <3>2. calls' # <<>>
      BY <3>1
    <3>3. calls'[1] = calls[1]
      BY <2>4, <3>1
    <3> QED
      BY <2>3, <2>6, <2>7, <2>8, <3>2, <3>3 DEF Framed, Marked
  <2> QED
    BY <2>9, <2>10
<1> QED
  BY <1>1, <1>2

LEMMA FramedNext ==
  ASSUME Inv, Framed, [Next]_vars
  PROVE  Framed'
<1>1. ASSUME UNCHANGED <<data, start, end, calls>>, pc' # "element"
      PROVE  Framed'
  BY <1>1 DEF Framed, Marked
<1>2. CASE ParsePacket
  <2>1. /\ UNCHANGED <<data, start, end, calls>>
        /\ pc' = "element" => IsBundle
    BY <1>2 DEF ParsePacket
  <2> QED
    BY <2>1, BundleMarked DEF Framed, Marked
<1>3. CASE OpenElement
  BY <1>3, FramedOpen
<1>4. CASE EndOfBundle \/ PushMessage
  BY <1>4, FramedReturn DEF EndOfBundle, PushMessage
<1>5. CASE ReadAddress \/ ReadTags \/ NextArg \/ EndOfArgs \/ ReturnFalse
  <2>1. pc' # "element" /\ UNCHANGED <<data, start, end, calls>>
    BY <1>5 DEF ReadAddress, ReadTags, NextArg, EndOfArgs, ReturnFalse, frame
  <2> QED
    BY <1>1, <2>1
<1>6. CASE UNCHANGED vars
  BY <1>6 DEF vars, frame, Framed, Marked
<1> QED
  BY <1>2, <1>3, <1>4, <1>5, <1>6 DEF Next, Parse, Done
-----------------------------------------------------------------------------
(* The fields of a message that is sent *)

Char == Byte \ {Nul}

SentArg == [tag : Numbers, val : [1 .. 4 -> Byte]] \cup [tag : {Str}, val : Seq(Char)]

Fields(m) == Parts(m.address, TagsOf(m.args), m.args, Nul)

(* Where field k + 1 of m starts.                                          *)
Offset(m, k) == Len(Written(Fields(m), k))

LEMMA SentType ==
  ASSUME NEW m \in Messages
  PROVE  /\ m \in [address : Seq(Char), args : Seq(SentArg)]
         /\ m.address \in Seq(Char) /\ m.address # <<>> /\ m.address[1] # Marker[1]
         /\ m.args \in Seq(SentArg) /\ Len(m.args) \in Nat
<1>1. m \in [address : Seq(Char), args : Seq(SentArg)]
  BY MessagesAssumption DEF Char, SentArg
<1> QED
  BY <1>1, MessagesAssumption, LenProperties

LEMMA CharType == \A s \in Seq(Char) : s \in Seq(Byte)
<1>1. Char \subseteq Byte
  BY DEF Char
<1> QED
  BY <1>1, SeqMonotonic

LEMMA SentArgType ==
  ASSUME NEW a \in SentArg
  PROVE  /\ a.tag \in Char
         /\ a.tag = Str => a.val \in Seq(Char) /\ Bytes(a, Nul) = PadString(a.val, Nul)
         /\ a.tag # Str => /\ a.tag \in Numbers /\ a.val \in Seq(Byte) /\ Len(a.val) = 4
                           /\ Bytes(a, Nul) = a.val
         /\ Bytes(a, Nul) \in Seq(Byte)
<1>1. CASE a \in [tag : Numbers, val : [1 .. 4 -> Byte]]
  <2>1. a.tag \in Numbers /\ a.tag # Str /\ a.tag \in Char /\ a.val \in [1 .. 4 -> Byte]
    BY <1>1, MessagesAssumption DEF Char
  <2>2. PICK n, x : n = 4 /\ x = a.val
    OBVIOUS
  <2>3. n \in Nat /\ x \in [1 .. n -> Byte]
    BY <2>1, <2>2
  <2>4. x \in Seq(Byte) /\ Len(x) = n
    BY <2>3
  <2> QED
    BY <2>1, <2>2, <2>4, Zenon DEF Bytes
<1>2. CASE a \in [tag : {Str}, val : Seq(Char)]
  <2>1. a.tag = Str /\ a.tag \in Char /\ a.val \in Seq(Char)
    BY <1>2, MessagesAssumption DEF Char
  <2>2. Bytes(a, Nul) = PadString(a.val, Nul)
    BY <2>1 DEF Bytes
  <2>3. Padding(PadString(a.val, Nul), a.val, Nul, Byte)
    <3>1. PICK s : s = a.val
      OBVIOUS
    <3>2. s \in Seq(Byte) /\ Nul \in Byte
      BY <2>1, <3>1, CharType, CodeType
    <3> QED
      BY <3>1, <3>2, PadType
  <2> QED
    BY <2>1, <2>2, <2>3 DEF Padding
<1> QED
  BY <1>1, <1>2 DEF SentArg

LEMMA TagsType ==
  ASSUME NEW m \in Messages
  PROVE  /\ TagsOf(m.args) \in Seq(Char) /\ Len(TagsOf(m.args)) = Len(m.args) + 1
         /\ TagsOf(m.args)[1] = Comma
         /\ \A i \in 1 .. Len(m.args) : TagsOf(m.args)[i + 1] = m.args[i].tag
<1>1. PICK args, n, b, c, h :
        /\ args = m.args /\ n = Len(args) /\ h = <<Comma>>
        /\ b = [i \in DOMAIN args |-> args[i].tag] /\ c = h \o b
  OBVIOUS
<1>2. args \in Seq(SentArg) /\ n \in Nat /\ DOMAIN args = 1 .. n
  BY <1>1, SentType, LenProperties
<1>3. b \in Seq(Char) /\ Len(b) = n /\ \A i \in 1 .. n : b[i] = args[i].tag
  <2>1. \A i \in 1 .. n : args[i].tag \in Char
    BY <1>1, <1>2, ElementOfSeq, SentArgType
  <2>2. b \in [1 .. n -> Char]
    BY <1>1, <1>2, <2>1
  <2>3. b \in Seq(Char) /\ Len(b) = n
    BY <1>2, <2>2
  <2> QED
    BY <1>1, <1>2, <2>3
<1>4. h \in Seq(Char) /\ Len(h) = 1 /\ h[1] = Comma
  BY <1>1, MessagesAssumption DEF Char
<1>5. /\ c \in Seq(Char) /\ Len(c) = Len(h) + Len(b)
      /\ \A i \in 1 .. Len(h) : c[i] = h[i]
      /\ \A i \in 1 .. Len(b) : c[Len(h) + i] = b[i]
  BY <1>1, <1>3, <1>4, ConcatParts
<1>6. \A i \in 1 .. n : 1 + i = i + 1
  BY <1>2
<1>7. Len(c) = n + 1 /\ c[1] = Comma /\ \A i \in 1 .. n : c[i + 1] = args[i].tag
  BY <1>2, <1>3, <1>4, <1>5, <1>6
<1>8. TagsOf(m.args) = c
  BY <1>1 DEF TagsOf
<1> QED
  BY <1>1, <1>5, <1>7, <1>8

LEMMA FieldsAre ==
  ASSUME NEW m \in Messages
  PROVE  /\ PartsAre(Fields(m), m.address, TagsOf(m.args), m.args, Nul, Byte)
         /\ Serialize(m) = FlattenSeq(Fields(m))
<1>1. PICK s, ts, args : s = m.address /\ ts = TagsOf(m.args) /\ args = m.args
  OBVIOUS
<1>2. /\ s \in Seq(Byte) /\ ts \in Seq(Byte) /\ args \in Seq(SentArg)
      /\ Nul \in Byte /\ MadeOf(SentArg, Nul, Byte)
  BY <1>1, SentType, TagsType, CharType, CodeType, SentArgType DEF MadeOf
<1>3. PartsAre(Parts(s, ts, args, Nul), s, ts, args, Nul, Byte)
  BY <1>2, PartsType
<1> QED
  BY <1>1, <1>3, EncodingOfParts DEF Fields, Serialize

(* Bytes a to b of the datagram are the message.                           *)
Is(m, a, b) == SubSeq(data, a + 1, b) = Serialize(m)

(* The bytes behind offset p are v.                                        *)
Lies(v, p) == \A i \in 1 .. Len(v) : data[p + i] = v[i]

(* Field k + 1 of a message lies behind the first k.                       *)
LEMMA FieldAt ==
  ASSUME data \in Seq(Byte), NEW m \in Messages, NEW a \in Nat, NEW b \in Nat,
         a <= b, b <= Len(data), Is(m, a, b),
         NEW k \in Nat, k < Len(m.args) + 2, NEW v, v = Fields(m)[k + 1]
  PROVE  /\ v \in Seq(Byte) /\ Len(v) \in Nat /\ Offset(m, k) \in Nat
         /\ a + Offset(m, k) + Len(v) <= b
         /\ Lies(v, a + Offset(m, k))
         /\ Offset(m, k + 1) = Offset(m, k) + Len(v)
<1>1. PICK ss, w, z : ss = Fields(m) /\ w = Written(Fields(m), k) /\ z = Serialize(m)
  OBVIOUS
<1>2. ss \in Seq(Seq(Byte)) /\ k < Len(ss) /\ z = FlattenSeq(ss)
  BY <1>1, FieldsAre DEF PartsAre
<1>3. /\ v \in Seq(Byte) /\ w \in Seq(Byte) /\ Written(ss, k + 1) = w \o v
  BY <1>1, <1>2, WrittenStep
<1>4. PICK r \in Seq(Byte) : z = (w \o v) \o r
  <2>1. \E r \in Seq(Byte) : FlattenSeq(ss) = (Written(ss, k) \o ss[k + 1]) \o r
    BY <1>2, FieldLies
  <2>2. v = ss[k + 1] /\ w = Written(ss, k)
    BY <1>1
  <2> QED
    BY <1>2, <2>1, <2>2, Zenon
<1>5. PICK u : u = w \o v
  OBVIOUS
<1>6. /\ u \in Seq(Byte) /\ Len(w) \in Nat /\ Len(v) \in Nat
      /\ Len(u) = Len(w) + Len(v)
      /\ \A i \in 1 .. Len(v) : u[Len(w) + i] = v[i]
  BY <1>3, <1>5, ConcatParts
<1>7. z = u \o r /\ r \in Seq(Byte)
  BY <1>4, <1>5
<1>8. /\ Len(u) \in Nat /\ Len(r) \in Nat /\ Len(z) = Len(u) + Len(r)
      /\ \A i \in 1 .. Len(u) : z[i] = u[i]
  <2>1. u \in Seq(Byte) /\ r \in Seq(Byte) /\ z = u \o r
    BY <1>6, <1>7
  <2> QED
    BY <2>1, ConcatParts
<1>9. Len(z) = b - a /\ \A i \in 1 .. b - a : z[i] = data[a + i]
  <2>0. Len(data) \in Nat
    BY LenProperties
  <2>1. PICK n \in Nat : n = b - a /\ a + n = b
    BY <2>0
  <2>2. \A i \in 1 .. n : data[a + i] \in Byte
    <3>1. \A i \in 1 .. n : a + i \in 1 .. Len(data)
      BY <2>0, <2>1
    <3> QED
      BY <3>1, ElementOfSeq
  <2>3. z = SubSeq(data, a + 1, a + n)
    BY <1>1, <2>1 DEF Is
  <2>4. Len(z) = n /\ \A i \in 1 .. n : z[i] = data[a + i]
    BY <2>2, <2>3, SubSeqAt
  <2> QED
    BY <2>1, <2>4
<1>10. Offset(m, k) = Len(w) /\ Offset(m, k + 1) = Len(u)
  BY <1>1, <1>3, <1>5 DEF Offset
<1>11. ASSUME NEW i \in 1 .. Len(v)
       PROVE  data[a + Len(w) + i] = v[i]
  <2>1. PICK j : j = Len(w) + i
    OBVIOUS
  <2>2. j \in 1 .. Len(u) /\ j \in 1 .. b - a /\ a + j = a + Len(w) + i
    <3>1. PICK x, y \in Nat : x = Len(w) /\ y = Len(v)
      BY <1>6
    <3>2. j \in 1 .. x + y /\ a + j = a + x + i
      BY <2>1, <3>1
    <3>3. Len(u) = x + y
      BY <1>6, <3>1
    <3>4. Len(u) <= b - a
      BY <1>8, <1>9
    <3> QED
      BY <3>1, <3>2, <3>3, <3>4
  <2>3. u[j] = v[i]
    BY <1>6, <2>1
  <2> QED
    BY <1>8, <1>9, <2>2, <2>3
<1>12. a + Len(w) + Len(v) <= b
  <2>1. PICK x, y \in Nat : x = Len(w) /\ y = Len(v)
    BY <1>6
  <2>2. Len(u) = x + y
    BY <1>6, <2>1
  <2>3. Len(u) <= b - a
    BY <1>8, <1>9
  <2>4. a + x + y <= b
    BY <2>2, <2>3
  <2> QED
    BY <2>1, <2>4
<1> QED
  BY <1>3, <1>6, <1>10, <1>11, <1>12 DEF Lies

(* A string that lies at the cursor is the one that is read.               *)
LEMMA StringIs ==
  ASSUME TypeOK, ReadsInside, (pos - start) % 4 = 0, NEW s \in Seq(Char),
         NEW v, v = PadString(s, Nul), pos + Len(v) <= end, Lies(v, pos)
  PROVE  /\ Strings = {pos + Len(s)}
         /\ Text(pos + Len(s)) = s
         /\ Padded(pos + Len(s) + 1) = pos + Len(v)
         /\ Len(v) % 4 = 0 /\ Len(v) > Len(s)
<1>1. /\ pos \in Nat /\ start \in Nat /\ start <= pos /\ end \in Nat /\ end <= Len(data)
      /\ data \in Seq(Byte) /\ Len(data) \in Nat /\ Len(s) \in Nat /\ s \in Seq(Byte)
  BY CharType, LenProperties DEF TypeOK, ReadsInside
<1>2. Padding(v, s, Nul, Byte)
  BY <1>1, CodeType, PadType
<1>3. /\ Len(v) = Len(s) + 4 - (Len(s) % 4) /\ \A i \in 1 .. Len(s) : v[i] = s[i]
      /\ v[Len(s) + 1] = Nul
  BY <1>2 DEF Padding
<1>4. PICK l, k, q \in Nat : l = Len(s) /\ k = pos - start /\ q = pos + l
  BY <1>1
<1>5. /\ k % 4 = 0 /\ Len(v) = l + 4 - (l % 4) /\ Len(v) \in Nat /\ Len(v) > l
      /\ l % 4 \in 0 .. 3
  BY <1>3, <1>4
<1>6. Len(v) % 4 = 0 /\ Padded(q + 1) = pos + Len(v)
  <2>1. \A x, y \in Nat : x % 4 = 0 =>
          /\ (y + 4 - (y % 4)) % 4 = 0
          /\ x + y + 1 + ((4 - ((x + y + 1) % 4)) % 4) = x + y + 4 - (y % 4)
    OBVIOUS
  <2>2. Padded(q + 1) = q + 1 + ((4 - ((k + l + 1) % 4)) % 4)
    <3>1. q + 1 - start = k + l + 1
      BY <1>1, <1>4
    <3> QED
      BY <1>1, <3>1 DEF Padded
  <2>3. k + l + 1 + ((4 - ((k + l + 1) % 4)) % 4) = k + l + 4 - (l % 4)
    BY <1>5, <2>1
  <2>4. (4 - ((k + l + 1) % 4)) % 4 \in Int
    BY <1>4
  <2>5. Len(v) % 4 = 0
    <3>1. (l + 4 - (l % 4)) % 4 = 0
      BY <1>5, <2>1
    <3> QED
      BY <1>5, <3>1
  <2>6. PICK e \in Int : e = (4 - ((k + l + 1) % 4)) % 4
    BY <2>4
  <2>7. PICK g \in Nat : g = l % 4
    BY <1>5
  <2>8. q + 1 + e = pos + (l + 4 - g)
    BY <1>1, <1>4, <2>3, <2>6, <2>7
  <2> QED
    BY <1>5, <2>2, <2>5, <2>6, <2>7, <2>8
<1>7. ASSUME NEW i \in 1 .. l
      PROVE  data[pos + i] = s[i] /\ data[pos + i] # Nul
  <2>1. i \in 1 .. Len(v) /\ i \in 1 .. Len(s)
    BY <1>4, <1>5
  <2>2. s[i] \in Char
    BY <2>1, ElementOfSeq
  <2> QED
    BY <1>3, <2>1, <2>2 DEF Char, Lies
<1>8. data[q + 1] = Nul
  <2>1. l + 1 \in 1 .. Len(v) /\ pos + (l + 1) = q + 1
    BY <1>1, <1>4, <1>5
  <2>2. data[pos + (l + 1)] = v[l + 1]
    BY <2>1 DEF Lies
  <2> QED
    BY <1>3, <1>4, <2>1, <2>2
<1>9. \A r \in pos .. q - 1 : data[r + 1] # Nul
  <2> TAKE r \in pos .. q - 1
  <2>1. r - pos + 1 \in 1 .. l /\ pos + (r - pos + 1) = r + 1
    BY <1>1, <1>4
  <2>2. data[pos + (r - pos + 1)] # Nul
    BY <1>7, <2>1
  <2> QED
    BY <2>1, <2>2
<1>10. q \in Strings
  <2>1. q \in pos .. end - 1
    BY <1>1, <1>4, <1>5
  <2>2. Padded(q + 1) <= end + 1
    BY <1>1, <1>5, <1>6
  <2> QED
    BY <1>8, <1>9, <2>1, <2>2 DEF Strings, StringTo, At
<1>11. ASSUME NEW p \in Strings PROVE p = q
  <2>1. p \in pos .. end - 1 /\ p \in Nat /\ data[p + 1] = Nul
        /\ \A r \in pos .. p - 1 : data[r + 1] # Nul
    BY <1>1 DEF Strings, StringTo, At
  <2>2. ~(p < q)
    <3>1. p < q => p \in pos .. q - 1
      BY <1>1, <1>4, <2>1
    <3> QED
      BY <1>9, <2>1, <3>1
  <2>3. ~(q < p)
    <3>1. q < p => q \in pos .. p - 1
      BY <1>1, <1>4, <2>1
    <3> QED
      BY <1>8, <2>1, <3>1
  <2> QED
    BY <1>4, <2>1, <2>2, <2>3
<1>12. Text(q) = s
  <2>1. Text(q) = SubSeq(data, pos + 1, pos + l)
    BY <1>4 DEF Text
  <2>2. \A i \in 1 .. l : data[pos + i] \in Byte
    <3>1. \A i \in 1 .. l : pos + i \in 1 .. Len(data)
      BY <1>1, <1>4, <1>5
    <3> QED
      BY <1>1, <3>1, ElementOfSeq
  <2>3. /\ Text(q) \in Seq(Byte) /\ Len(Text(q)) = l
        /\ \A i \in 1 .. l : Text(q)[i] = data[pos + i]
    <3>1. PICK u, p : u = Text(q) /\ p = pos
      OBVIOUS
    <3>2. /\ p \in Nat /\ l \in Nat /\ u = SubSeq(data, p + 1, p + l)
          /\ \A i \in 1 .. l : data[p + i] \in Byte
      BY <1>1, <1>4, <2>1, <2>2, <3>1
    <3>3. u \in Seq(Byte)
      BY <1>10, <3>1, StringType
    <3>4. Len(u) = l /\ \A i \in 1 .. l : u[i] = data[p + i]
      BY <3>2, SubSeqAt
    <3> QED
      BY <3>1, <3>3, <3>4
  <2>4. \A i \in 1 .. Len(Text(q)) : Text(q)[i] = s[i]
    BY <1>7, <2>3
  <2> QED
    BY <1>1, <1>4, <2>3, <2>4, SeqEqual
<1> QED
  BY <1>4, <1>5, <1>6, <1>10, <1>11, <1>12
-----------------------------------------------------------------------------
(* Messages that were sent are read back *)

(* How far into the message m, which lies where the cursor is, the machine *)
(* has got, and what it has of it.                                         *)
Progress(m) ==
  /\ pc # "false"
  /\ pc = "tags" => /\ msg = [address |-> m.address, args |-> <<>>]
                    /\ pos = start + Offset(m, 1) /\ (pos - start) % 4 = 0
  /\ pc = "args" => /\ tags = TagsOf(m.args) /\ 2 <= t /\ t <= Len(m.args) + 2
                    /\ msg = [address |-> m.address, args |-> SubSeq(m.args, 1, t - 2)]
                    /\ pos = start + Offset(m, t) /\ (pos - start) % 4 = 0
  /\ pc = "message" => msg = m

ReadBack == \A m \in Messages : Is(m, start, end) => Progress(m)

(* A message that is not in a bundle is the only one.                      *)
Single ==
  \A m \in Messages : data = Serialize(m) => out = IF pc = "true" THEN <<m>> ELSE <<>>

LEMMA OffsetZero ==
  ASSUME NEW m
  PROVE  Offset(m, 0) = 0
<1>1. PICK ss : ss = Fields(m)
  OBVIOUS
<1>2. SubSeq(ss, 1, 0) = <<>>
  BY SubSeqEmpty
<1>3. FlattenSeq(<<>>) = <<>> /\ Len(<<>>) = 0
  BY DEF FlattenSeq
<1>4. Written(ss, 0) = <<>>
  BY <1>2, <1>3, Zenon DEF Written
<1> QED
  BY <1>1, <1>3, <1>4, Zenon DEF Offset

(* A message does not start as a bundle does.                              *)
LEMMA NotMarked ==
  ASSUME data \in Seq(Byte), NEW m \in Messages, NEW a \in Nat, NEW b \in Nat,
         a <= b, b <= Len(data), Is(m, a, b)
  PROVE  ~ Marked(a, b)
<1>1. PICK v, s : v = Fields(m)[1] /\ s = m.address
  OBVIOUS
<1>2. Offset(m, 0) = 0
  BY OffsetZero
<1>3. /\ s \in Seq(Char) /\ s # <<>> /\ s[1] # Marker[1] /\ s \in Seq(Byte)
      /\ Len(m.args) \in Nat
  BY <1>1, SentType, CharType
<1>4. Len(v) \in Nat /\ \A i \in 1 .. Len(v) : data[a + i] = v[i]
  <2>1. 0 \in Nat /\ 0 < Len(m.args) + 2 /\ v = Fields(m)[0 + 1]
    BY <1>1, <1>3
  <2>2. Len(v) \in Nat /\ Lies(v, a + Offset(m, 0))
    BY <2>1, FieldAt
  <2>3. a + Offset(m, 0) = a
    BY <1>2
  <2> QED
    BY <2>2, <2>3 DEF Lies
<1>5. v = PadString(s, Nul)
  BY <1>1, FieldsAre DEF PartsAre
<1>6. Padding(v, s, Nul, Byte)
  BY <1>3, <1>5, CodeType, PadType
<1>7. Len(s) \in Nat /\ Len(s) # 0
  BY <1>3, EmptySeq, LenProperties
<1>8. 1 \in 1 .. Len(s) /\ 1 \in 1 .. Len(v)
  <2>1. Len(v) = Len(s) + 4 - (Len(s) % 4) /\ Len(s) % 4 \in 0 .. 3
    BY <1>6, <1>7 DEF Padding
  <2> QED
    BY <1>7, <2>1
<1>9. v[1] = s[1]
  BY <1>6, <1>8 DEF Padding
<1>10. data[a + 1] = v[1]
  BY <1>4, <1>8
<1> QED
  BY <1>3, <1>9, <1>10 DEF Marked

(* Field k + 1 of the message is at the cursor.                            *)
LEMMA AtField ==
  ASSUME TypeOK, ReadsInside, NEW m \in Messages, Is(m, start, end),
         NEW k \in Nat, k < Len(m.args) + 2, pos = start + Offset(m, k),
         NEW v, v = Fields(m)[k + 1]
  PROVE  /\ v \in Seq(Byte) /\ Len(v) \in Nat
         /\ pos + Len(v) <= end /\ pos + Len(v) = start + Offset(m, k + 1)
         /\ Lies(v, pos)
<1>1. /\ data \in Seq(Byte) /\ start \in Nat /\ end \in Nat /\ start <= end /\ end <= Len(data)
  BY DEF TypeOK, ReadsInside
<1>2. PICK a, b, o, p : a = start /\ b = end /\ o = Offset(m, k) /\ p = Offset(m, k + 1)
  OBVIOUS
<1>3. /\ v \in Seq(Byte) /\ Len(v) \in Nat /\ o \in Nat
      /\ a + o + Len(v) <= b /\ p = o + Len(v)
      /\ \A i \in 1 .. Len(v) : data[a + o + i] = v[i]
  <2>1. a \in Nat /\ b \in Nat /\ a <= b /\ b <= Len(data) /\ Is(m, a, b)
    BY <1>1, <1>2
  <2>2. /\ v \in Seq(Byte) /\ Len(v) \in Nat /\ Offset(m, k) \in Nat
        /\ a + Offset(m, k) + Len(v) <= b
        /\ Offset(m, k + 1) = Offset(m, k) + Len(v)
    BY <1>1, <2>1, FieldAt
  <2>3. Lies(v, a + Offset(m, k))
    BY <1>1, <2>1, FieldAt
  <2> QED
    BY <1>2, <2>2, <2>3 DEF Lies
<1>4. a \in Nat /\ pos = a + o
  BY <1>1, <1>2
<1> QED
  BY <1>2, <1>3, <1>4 DEF Lies

LEMMA AddressBack ==
  ASSUME Inv, Kept, NEW m \in Messages, Is(m, start, end), pc = "address"
  PROVE  /\ Strings # {}
         /\ ReadAddress => Progress(m)'
<1>1. /\ TypeOK /\ ReadsInside /\ pos = start /\ start \in Nat /\ Len(m.args) \in Nat
      /\ m.address \in Seq(Char)
  BY SentType DEF Inv, TypeOK, Kept
<1>2. Offset(m, 0) = 0
  BY OffsetZero
<1>3. PICK v, s, w : v = Fields(m)[1] /\ s = m.address /\ w = Fields(m)[2]
  OBVIOUS
<1>4. /\ v = PadString(s, Nul) /\ Len(v) \in Nat
      /\ pos + Len(v) <= end /\ pos + Len(v) = start + Offset(m, 1)
      /\ Lies(v, pos)
  <2>1. 0 \in Nat /\ 0 < Len(m.args) + 2 /\ v = Fields(m)[0 + 1] /\ pos = start + Offset(m, 0)
    BY <1>1, <1>2, <1>3
  <2>2. /\ Len(v) \in Nat
        /\ pos + Len(v) <= end /\ pos + Len(v) = start + Offset(m, 0 + 1)
        /\ Lies(v, pos)
    BY <1>1, <2>1, AtField
  <2>3. v = PadString(s, Nul)
    BY <1>3, FieldsAre DEF PartsAre
  <2> QED
    BY <2>2, <2>3
<1>5. /\ Strings = {pos + Len(s)} /\ Text(pos + Len(s)) = s
      /\ Padded(pos + Len(s) + 1) = pos + Len(v) /\ Len(v) % 4 = 0
  <2>1. (pos - start) % 4 = 0 /\ s \in Seq(Char)
    BY <1>1, <1>3
  <2> QED
    BY <1>1, <1>4, <2>1, StringIs
<1>6. start + Offset(m, 1) < end
  <2>1. /\ Len(w) \in Nat /\ Offset(m, 1) \in Nat /\ start + Offset(m, 1) + Len(w) <= end
    <3>1. 1 \in Nat /\ 1 < Len(m.args) + 2 /\ w = Fields(m)[1 + 1]
      BY <1>1, <1>3
    <3>2. /\ data \in Seq(Byte) /\ end \in Nat /\ start <= end /\ end <= Len(data)
      BY <1>1 DEF TypeOK, ReadsInside
    <3>3. PICK a, b : a = start /\ b = end
      OBVIOUS
    <3>4. a \in Nat /\ b \in Nat /\ a <= b /\ b <= Len(data) /\ Is(m, a, b)
      BY <1>1, <3>2, <3>3
    <3>5. /\ Len(w) \in Nat /\ Offset(m, 1) \in Nat /\ a + Offset(m, 1) + Len(w) <= b
      BY <3>1, <3>2, <3>4, FieldAt
    <3> QED
      BY <3>3, <3>5
  <2>2. PICK ts : ts = TagsOf(m.args)
    OBVIOUS
  <2>3. w = PadString(ts, Nul) /\ ts \in Seq(Byte) /\ Len(ts) \in Nat
    BY <1>3, <2>2, FieldsAre, TagsType, CharType, LenProperties DEF PartsAre
  <2>4. Padding(w, ts, Nul, Byte)
    BY <2>3, CodeType, PadType
  <2>5. Len(w) = Len(ts) + 4 - (Len(ts) % 4) /\ Len(ts) % 4 \in 0 .. 3
    BY <2>3, <2>4 DEF Padding
  <2>6. Len(w) > 0
    BY <2>3, <2>5
  <2>7. end \in Nat
    BY <1>1 DEF TypeOK
  <2> QED
    BY <1>1, <2>1, <2>6, <2>7
<1>7. ASSUME ReadAddress
      PROVE  Progress(m)'
  <2>1. PICK q \in Strings :
          /\ msg' = [NoMsg EXCEPT !.address = Text(q)]
          /\ pos' = Padded(q + 1)
          /\ pc' = IF pos' >= end THEN "message" ELSE "tags"
    BY <1>7 DEF ReadAddress
  <2>2. q = pos + Len(s)
    BY <1>5, <2>1
  <2>3. pos' = start + Offset(m, 1) /\ pos' = pos + Len(v)
    BY <1>4, <1>5, <2>1, <2>2
  <2>4. pc' = "tags"
    BY <1>1, <1>6, <2>1, <2>3 DEF TypeOK
  <2>5. msg' = [address |-> m.address, args |-> <<>>]
    BY <1>3, <1>5, <2>1, <2>2 DEF NoMsg
  <2>6. start' = start
    BY <1>7 DEF ReadAddress
  <2>7. (pos' - start') % 4 = 0
    BY <1>1, <1>4, <1>5, <2>3, <2>6
  <2>8. pos' = start' + Offset(m, 1)
    BY <2>3, <2>6
  <2> QED
    BY <2>4, <2>5, <2>7, <2>8 DEF Progress
<1> QED
  BY <1>5, <1>7

LEMMA TagsBack ==
  ASSUME Inv, NEW m \in Messages, Is(m, start, end), pc = "tags", Progress(m)
  PROVE  /\ \E q \in Strings : q # pos /\ At(pos) = Comma
         /\ ReadTags => Progress(m)'
<1>1. /\ TypeOK /\ ReadsInside /\ start \in Nat /\ pos \in Nat /\ Len(m.args) \in Nat
      /\ pos = start + Offset(m, 1) /\ (pos - start) % 4 = 0
      /\ msg = [address |-> m.address, args |-> <<>>]
  BY SentType DEF Inv, TypeOK, Progress
<1>2. PICK v, s : v = Fields(m)[2] /\ s = TagsOf(m.args)
  OBVIOUS
<1>3. /\ v = PadString(s, Nul) /\ Len(v) \in Nat
      /\ pos + Len(v) <= end /\ pos + Len(v) = start + Offset(m, 2) /\ Lies(v, pos)
  <2>1. 1 \in Nat /\ 1 < Len(m.args) + 2 /\ v = Fields(m)[1 + 1]
    BY <1>1, <1>2
  <2>2. /\ Len(v) \in Nat
        /\ pos + Len(v) <= end /\ pos + Len(v) = start + Offset(m, 1 + 1) /\ Lies(v, pos)
    BY <1>1, <2>1, AtField
  <2>3. v = PadString(s, Nul)
    BY <1>2, FieldsAre DEF PartsAre
  <2> QED
    BY <2>2, <2>3
<1>4. s \in Seq(Char) /\ s \in Seq(Byte) /\ Len(s) = Len(m.args) + 1 /\ s[1] = Comma
  BY <1>2, TagsType, CharType
<1>5. /\ Strings = {pos + Len(s)} /\ Text(pos + Len(s)) = s
      /\ Padded(pos + Len(s) + 1) = pos + Len(v) /\ Len(v) % 4 = 0 /\ Len(v) > Len(s)
  BY <1>1, <1>3, <1>4, StringIs
<1>6. At(pos) = Comma /\ pos + Len(s) # pos
  <2>1. 1 \in 1 .. Len(s) /\ 1 \in 1 .. Len(v)
    <3>1. PICK n, l, k \in Nat : n = Len(m.args) /\ l = Len(s) /\ k = Len(v)
      BY <1>1, <1>3, <1>4, LenProperties
    <3>2. l = n + 1 /\ k > l
      BY <1>4, <1>5, <3>1
    <3>3. 1 \in 1 .. l /\ 1 \in 1 .. k
      BY <3>2
    <3> QED
      BY <3>1, <3>3
  <2>2. Padding(v, s, Nul, Byte)
    BY <1>3, <1>4, CodeType, PadType
  <2>3. data[pos + 1] = v[1] /\ v[1] = s[1]
    BY <1>3, <2>1, <2>2 DEF Lies, Padding
  <2> QED
    BY <1>1, <1>4, <2>3 DEF At
<1>7. ASSUME ReadTags
      PROVE  Progress(m)'
  <2>1. PICK q \in Strings : tags' = Text(q) /\ t' = 2 /\ pos' = Padded(q + 1)
    BY <1>7 DEF ReadTags
  <2>2. pc' = "args" /\ start' = start /\ msg' = msg
    BY <1>7 DEF ReadTags
  <2>3. q = pos + Len(s)
    BY <1>5, <2>1
  <2>4. tags' = TagsOf(m.args) /\ pos' = pos + Len(v)
    BY <1>2, <1>5, <2>1, <2>3
  <2>5. pos' = start' + Offset(m, t') /\ (pos' - start') % 4 = 0
    <3>1. \A x, y \in Nat : x % 4 = 0 /\ y % 4 = 0 => (x + y) % 4 = 0
      BY SumOfWords
    <3>2. PICK x, y \in Nat : x = pos - start /\ y = Len(v)
      BY <1>1, <1>3 DEF TypeOK
    <3>3. (x + y) % 4 = 0
      BY <1>1, <1>5, <3>1, <3>2
    <3>4. pos' - start' = x + y
      BY <1>1, <2>2, <2>4, <3>2
    <3>5. pos' = start' + Offset(m, 2)
      BY <1>3, <2>2, <2>4
    <3> QED
      BY <2>1, <3>3, <3>4, <3>5
  <2>6. SubSeq(m.args, 1, t' - 2) = <<>>
    <3>1. t' - 2 = 0
      BY <2>1
    <3> QED
      BY <3>1, SubSeqEmpty
  <2>7. msg' = [address |-> m.address, args |-> SubSeq(m.args, 1, t' - 2)]
    BY <1>1, <2>2, <2>6
  <2>8. 2 <= t' /\ t' <= Len(m.args) + 2
    BY <1>1, <2>1
  <2> QED
    BY <2>2, <2>4, <2>5, <2>7, <2>8 DEF Progress
<1> QED
  BY <1>5, <1>6, <1>7

(* The next argument of the message is at the cursor.                      *)
LEMMA ArgBack ==
  ASSUME Inv, NEW m \in Messages, Is(m, start, end), pc = "args", t <= Len(tags),
         Progress(m), NEW a, a = m.args[t - 1]
  PROVE  /\ a \in SentArg /\ t - 1 \in 1 .. Len(m.args) /\ tags[t] = a.tag
         /\ a.tag = Str => \A q \in Strings : Text(q) = a.val
         /\ a.tag = Str => Strings # {}
         /\ a.tag = Str => \A q \in Strings :
              Padded(q + 1) = start + Offset(m, t + 1) /\ (Padded(q + 1) - start) % 4 = 0
         /\ a.tag # Str => HasWord /\ WordAt = a.val
         /\ a.tag # Str => pos + 4 = start + Offset(m, t + 1) /\ ((pos + 4) - start) % 4 = 0
<1>1. /\ TypeOK /\ ReadsInside /\ start \in Nat /\ pos \in Nat /\ pos >= start /\ t \in Nat
      /\ Len(m.args) \in Nat /\ m.args \in Seq(SentArg)
      /\ tags = TagsOf(m.args) /\ 2 <= t
      /\ pos = start + Offset(m, t) /\ (pos - start) % 4 = 0
  BY SentType DEF Inv, TypeOK, Progress
<1>2. PICK i \in Nat : i = t - 1 /\ t = i + 1 /\ i \in 1 .. Len(m.args)
  <2>1. t <= Len(m.args) + 1
    BY <1>1, TagsType
  <2>2. t - 1 \in 1 .. Len(m.args) /\ t = t - 1 + 1 /\ t - 1 \in Nat
    BY <1>1, <2>1
  <2> QED
    BY <2>2
<1>3. a \in SentArg
  BY <1>1, <1>2, ElementOfSeq
<1>4. tags[t] = a.tag
  BY <1>1, <1>2, TagsType
<1>5. PICK v : v = Fields(m)[i + 2]
  OBVIOUS
<1>6. v = Bytes(a, Nul)
  <2>1. \A j \in 1 .. Len(m.args) : Fields(m)[j + 2] = Bytes(m.args[j], Nul)
    BY FieldsAre DEF PartsAre
  <2> QED
    BY <1>2, <1>5, <2>1
<1>7. /\ Len(v) \in Nat /\ pos + Len(v) <= end /\ pos + Len(v) = start + Offset(m, t + 1)
      /\ Lies(v, pos)
  <2>1. t + 1 = i + 2 /\ t < Len(m.args) + 2
    BY <1>1, <1>2
  <2>2. t \in Nat /\ v = Fields(m)[t + 1]
    BY <1>1, <1>5, <2>1
  <2>3. PICK k \in Nat : k = t
    BY <1>1
  <2>4. k < Len(m.args) + 2 /\ v = Fields(m)[k + 1] /\ pos = start + Offset(m, k)
    BY <1>1, <2>1, <2>2, <2>3
  <2>5. /\ Len(v) \in Nat /\ pos + Len(v) <= end /\ pos + Len(v) = start + Offset(m, k + 1)
        /\ Lies(v, pos)
    BY <1>1, <2>4, AtField
  <2> QED
    BY <2>3, <2>5
<1>8. Len(v) % 4 = 0 => ((pos + Len(v)) - start) % 4 = 0
  <2>1. pos \in Nat /\ start \in Nat /\ pos >= start /\ (pos - start) % 4 = 0 /\ Len(v) \in Nat
    BY <1>1, <1>7
  <2> QED
    BY <2>1, WordsBehind
<1>9. ASSUME a.tag = Str
      PROVE  /\ Strings # {}
             /\ \A q \in Strings : /\ Text(q) = a.val
                                   /\ Padded(q + 1) = start + Offset(m, t + 1)
                                   /\ (Padded(q + 1) - start) % 4 = 0
  <2>1. PICK s : s = a.val
    OBVIOUS
  <2>2. s \in Seq(Char) /\ v = PadString(s, Nul)
    BY <1>3, <1>6, <1>9, <2>1, SentArgType
  <2>3. /\ Strings = {pos + Len(s)} /\ Text(pos + Len(s)) = s
        /\ Padded(pos + Len(s) + 1) = pos + Len(v) /\ Len(v) % 4 = 0
    BY <1>1, <1>7, <2>2, StringIs
  <2>4. PICK p : p = pos + Len(s) /\ p + 1 = pos + Len(s) + 1
    OBVIOUS
  <2>5. Strings = {p} /\ Text(p) = s /\ Padded(p + 1) = pos + Len(v)
    BY <2>3, <2>4
  <2>6. Padded(p + 1) = start + Offset(m, t + 1) /\ (Padded(p + 1) - start) % 4 = 0
    <3>1. ((pos + Len(v)) - start) % 4 = 0
      BY <1>8, <2>3
    <3>2. (Padded(p + 1) - start) % 4 = 0
      <4>1. PICK x, y : x = Padded(p + 1) /\ y = pos + Len(v)
        OBVIOUS
      <4>2. x = y
        BY <2>5, <4>1
      <4>3. (y - start) % 4 = 0
        BY <3>1, <4>1, Zenon
      <4>4. (x - start) % 4 = 0
        BY <4>2, <4>3
      <4> QED
        BY <4>1, <4>4
    <3>3. Padded(p + 1) = start + Offset(m, t + 1)
      BY <1>7, <2>5
    <3> QED
      BY <3>2, <3>3
  <2> QED
    BY <2>1, <2>5, <2>6
<1>10. ASSUME a.tag # Str
       PROVE  /\ HasWord /\ WordAt = a.val
              /\ pos + 4 = start + Offset(m, t + 1) /\ ((pos + 4) - start) % 4 = 0
  <2>1. v = a.val /\ v \in Seq(Byte) /\ Len(v) = 4
    BY <1>3, <1>6, <1>10, SentArgType
  <2>2. HasWord
    BY <1>7, <2>1 DEF HasWord
  <2>3. WordAt \in Seq(Byte) /\ Len(WordAt) = 4 /\ \A j \in 1 .. 4 : WordAt[j] = v[j]
    <3>1. \A j \in 1 .. 4 : data[pos + j] = v[j] /\ data[pos + j] \in Byte
      BY <1>7, <2>1, ElementOfSeq DEF Lies
    <3>2. WordAt = SubSeq(data, pos + 1, pos + 4)
      BY DEF WordAt
    <3>3. Len(WordAt) = 4 /\ \A j \in 1 .. 4 : WordAt[j] = data[pos + j]
      <4>1. pos \in Nat /\ 4 \in Nat /\ \A j \in 1 .. 4 : data[pos + j] \in Byte
        BY <1>1, <3>1
      <4> QED
        BY <3>2, <4>1, SubSeqAt
    <3> QED
      BY <1>1, <2>2, <3>1, <3>3, WordType
  <2>4. WordAt = v
    BY <2>1, <2>3, SeqEqual
  <2>5. 4 % 4 = 0
    OBVIOUS
  <2> QED
    BY <1>7, <1>8, <2>1, <2>2, <2>4, <2>5
<1> QED
  BY <1>2, <1>3, <1>4, <1>9, <1>10

LEMMA NextArgBack ==
  ASSUME Inv, NEW m \in Messages, Is(m, start, end), Progress(m), NextArg
  PROVE  Progress(m)'
<1>0. /\ pc = "args" /\ pc' = "args" /\ t <= Len(tags) /\ t' = t + 1 /\ ReadArg
      /\ UNCHANGED <<data, start, end, tags>>
  BY DEF NextArg
<1>1. /\ t \in Nat /\ 2 <= t /\ tags = TagsOf(m.args)
      /\ msg = [address |-> m.address, args |-> SubSeq(m.args, 1, t - 2)]
      /\ m.args \in Seq(SentArg) /\ Len(m.args) \in Nat
  BY <1>0, SentType DEF Inv, TypeOK, Progress
<1>2. PICK a : a = m.args[t - 1]
  OBVIOUS
<1>3. /\ a \in SentArg /\ t - 1 \in 1 .. Len(m.args) /\ tags[t] = a.tag
      /\ a.tag = Str => \A q \in Strings : Text(q) = a.val
      /\ a.tag = Str => \A q \in Strings :
           Padded(q + 1) = start + Offset(m, t + 1) /\ (Padded(q + 1) - start) % 4 = 0
      /\ a.tag # Str => HasWord /\ WordAt = a.val
      /\ a.tag # Str => pos + 4 = start + Offset(m, t + 1) /\ ((pos + 4) - start) % 4 = 0
  BY <1>0, <1>2, ArgBack
<1>4. /\ Push(a.val)
      /\ pos' = start + Offset(m, t + 1) /\ (pos' - start) % 4 = 0
  <2>1. a.tag \in Numbers \cup {Str} /\ a.tag \notin Bare \cup {Blob}
    BY <1>3, SentArgType, MessagesAssumption
  <2>2. CASE ReadNumber
    <3>1. a.tag # Str /\ Push(WordAt) /\ pos' = pos + 4
      BY <1>3, <2>2, MessagesAssumption DEF ReadNumber
    <3>2. WordAt = a.val
      BY <1>3, <3>1
    <3>3. Push(a.val)
      BY <3>1, <3>2
    <3>4. PICK x : x = pos + 4
      OBVIOUS
    <3>5. x = start + Offset(m, t + 1) /\ (x - start) % 4 = 0
      BY <1>3, <3>1, <3>4, Zenon
    <3>6. pos' = x
      BY <3>1, <3>4
    <3> QED
      BY <3>3, <3>5, <3>6
  <2>3. CASE ReadString
    <3>1. a.tag = Str
      BY <1>3, <2>3 DEF ReadString
    <3>2. PICK q \in Strings : Push(Text(q)) /\ pos' = Padded(q + 1)
      BY <2>3 DEF ReadString
    <3> QED
      BY <1>3, <3>1, <3>2
  <2> QED
    BY <1>0, <1>3, <2>1, <2>2, <2>3 DEF ReadArg, SkipBlob, SkipBare
<1>5. a = [tag |-> tags[t], val |-> a.val]
  BY <1>3 DEF SentArg
<1>6. msg' = [address |-> m.address, args |-> Append(SubSeq(m.args, 1, t - 2), a)]
  BY <1>1, <1>4, <1>5 DEF Push
<1>7. Append(SubSeq(m.args, 1, t - 2), a) = SubSeq(m.args, 1, t' - 2)
  <2>1. PICK args, n : args = m.args /\ n = t - 1 /\ n \in Nat /\ n \in 1 .. Len(args)
    BY <1>1, <1>3
  <2>2. args \in Seq(SentArg) /\ 1 \in 1 .. Len(args) /\ n \in 1 .. Len(args)
    BY <1>1, <2>1
  <2>3. SubSeq(args, 1, n) = SubSeq(args, 1, n - 1) \o <<args[n]>>
    BY <2>2, SubSeqRecursiveSecond
  <2>4. t' - 2 = n /\ t - 2 = n - 1
    BY <1>0, <1>1, <2>1
  <2>5. PICK s, e : s = SubSeq(args, 1, n - 1) /\ e = args[n]
    OBVIOUS
  <2>6. s \in Seq(SentArg)
    <3>1. \A i \in 1 .. n - 1 : args[i] \in SentArg
      BY <1>1, <2>1, <2>2, ElementOfSeq
    <3> QED
      BY <2>1, <2>5, <3>1, SubSeqProperties
  <2>7. e = a /\ e \in SentArg
    BY <1>2, <1>3, <2>1, <2>5
  <2>8. Append(s, e) = s \o <<e>>
    BY <2>6, <2>7, AppendIsConcat
  <2> QED
    BY <2>1, <2>3, <2>4, <2>5, <2>7, <2>8, Zenon
<1>8. 2 <= t' /\ t' <= Len(m.args) + 2 /\ t' = t + 1
  BY <1>0, <1>1, <1>3
<1> QED
  BY <1>0, <1>1, <1>4, <1>6, <1>7, <1>8 DEF Progress

LEMMA EndOfArgsBack ==
  ASSUME Inv, NEW m \in Messages, Is(m, start, end), Progress(m), EndOfArgs
  PROVE  Progress(m)'
<1>1. /\ pc = "args" /\ pc' = "message" /\ t > Len(tags) /\ msg' = msg /\ t \in Nat
  BY DEF EndOfArgs, local, Inv, TypeOK
<1>2. /\ tags = TagsOf(m.args) /\ t <= Len(m.args) + 2
      /\ msg = [address |-> m.address, args |-> SubSeq(m.args, 1, t - 2)]
  BY <1>1 DEF Progress
<1>3. /\ m \in [address : Seq(Char), args : Seq(SentArg)]
      /\ m.args \in Seq(SentArg) /\ Len(m.args) \in Nat
  BY SentType
<1>4. t - 2 = Len(m.args)
  <2>1. Len(tags) = Len(m.args) + 1
    BY <1>2, TagsType
  <2> QED
    BY <1>1, <1>2, <1>3, <2>1
<1>5. SubSeq(m.args, 1, t - 2) = m.args
  BY <1>3, <1>4, SubSeqFull
<1>6. m = [address |-> m.address, args |-> m.args]
  BY <1>3
<1> QED
  BY <1>1, <1>2, <1>5, <1>6 DEF Progress

(* No field of a message that was sent is missing.                         *)
LEMMA NothingMissing ==
  ASSUME Inv, Kept, Framed, NEW m \in Messages, Is(m, start, end), Progress(m)
  PROVE  ~ Missing
<1>1. /\ data \in Seq(Byte) /\ start \in Nat /\ end \in Nat /\ start <= end /\ end <= Len(data)
  BY DEF Inv, TypeOK, ReadsInside
<1>2. pc # "element"
  <2>1. PICK a, b : a = start /\ b = end
    OBVIOUS
  <2>2. a \in Nat /\ b \in Nat /\ a <= b /\ b <= Len(data) /\ Is(m, a, b)
    BY <1>1, <2>1
  <2>3. ~ Marked(a, b)
    BY <1>1, <2>2, NotMarked
  <2> QED
    BY <2>1, <2>3 DEF Framed
<1>3. pc = "address" => Strings # {}
  BY AddressBack
<1>4. pc = "tags" => \E q \in Strings : q # pos /\ At(pos) = Comma
  BY TagsBack
<1>5. ASSUME pc = "args", t <= Len(tags)
      PROVE  /\ ~(tags[t] \in Numbers \cup {Blob} /\ ~HasWord)
             /\ tags[t] # Blob
             /\ ~(tags[t] = Str /\ Strings = {})
             /\ tags[t] \in Numbers \cup {Str}
  <2>1. PICK a : a = m.args[t - 1]
    OBVIOUS
  <2>2. /\ a \in SentArg /\ tags[t] = a.tag
        /\ a.tag = Str => Strings # {}
        /\ a.tag # Str => HasWord
    BY <1>5, <2>1, ArgBack
  <2>3. a.tag \in Numbers \cup {Str} /\ a.tag # Blob /\ (a.tag \in Numbers => a.tag # Str)
    BY <2>2, SentArgType, MessagesAssumption
  <2> QED
    BY <2>2, <2>3
<1> QED
  BY <1>2, <1>3, <1>4, <1>5 DEF Missing

LEMMA ReadBackNext ==
  ASSUME Inv, Kept, Framed, ReadBack, [Next]_vars
  PROVE  ReadBack'
<1> SUFFICES ASSUME NEW m \in Messages, Is(m, start, end)'
             PROVE  Progress(m)'
  BY DEF ReadBack
<1>1. CASE ParsePacket \/ OpenElement
  <2>1. pc' \in {"packet", "element", "address"}
    BY <1>1 DEF ParsePacket, OpenElement
  <2> QED
    BY <2>1 DEF Progress
<1>2. CASE EndOfBundle \/ PushMessage
  <2>1. pc' \in {"element", "true"}
    BY <1>2 DEF EndOfBundle, PushMessage, ReturnTrue
  <2> QED
    BY <2>1 DEF Progress
<1>3. ASSUME UNCHANGED <<data, start, end>>
      PROVE  Is(m, start, end) /\ Progress(m)
  <2>1. Is(m, start, end)
    BY <1>3 DEF Is
  <2> QED
    BY <2>1 DEF ReadBack
<1>4. CASE ReadAddress
  BY <1>3, <1>4, AddressBack DEF ReadAddress
<1>5. CASE ReadTags
  BY <1>3, <1>5, TagsBack DEF ReadTags
<1>6. CASE NextArg
  BY <1>3, <1>6, NextArgBack DEF NextArg
<1>7. CASE EndOfArgs
  BY <1>3, <1>7, EndOfArgsBack DEF EndOfArgs, frame
<1>8. CASE ReturnFalse
  BY <1>3, <1>8, NothingMissing DEF ReturnFalse, frame
<1>9. CASE UNCHANGED vars
  <2>1. Progress(m)
    BY <1>3, <1>9 DEF vars, frame
  <2> QED
    BY <1>9, <2>1 DEF vars, frame, local, Progress
<1> QED
  BY <1>1, <1>2, <1>4, <1>5, <1>6, <1>7, <1>8, <1>9 DEF Next, Parse, Done

(* A datagram that is a message is not a bundle.                           *)
LEMMA SingleFrame ==
  ASSUME Inv, Framed, NEW m \in Messages, data = Serialize(m)
  PROVE  /\ calls = <<>> /\ pc # "element" /\ start = 0 /\ end = Len(data)
         /\ Is(m, start, end)
<1>1. data \in Seq(Byte) /\ Len(data) \in Nat
  BY LenProperties DEF Inv, TypeOK
<1>2. Is(m, 0, Len(data))
  <2>1. SubSeq(data, 1, Len(data)) = data
    BY <1>1, SubSeqFull
  <2>2. 0 + 1 = 1
    OBVIOUS
  <2> QED
    BY <2>1, <2>2 DEF Is
<1>3. ~ Marked(0, Len(data))
  <2>1. PICK a, b \in Nat : a = 0 /\ b = Len(data)
    BY <1>1
  <2>2. a <= b /\ b <= Len(data) /\ Is(m, a, b)
    BY <1>1, <1>2, <2>1
  <2>3. ~ Marked(a, b)
    BY <1>1, <2>1, <2>2, NotMarked
  <2> QED
    BY <2>1, <2>3
<1>4. calls = <<>>
  <2> SUFFICES ASSUME calls # <<>> PROVE FALSE
    OBVIOUS
  <2>1. 1 \in 1 .. Len(calls)
    <3>1. Len(calls) \in Nat /\ Len(calls) # 0
      BY EmptySeq, LenProperties DEF Inv, TypeOK
    <3> QED
      BY <3>1
  <2> QED
    BY <1>3, <2>1 DEF Framed
<1> QED
  BY <1>2, <1>3, <1>4 DEF Framed

LEMMA SingleNext ==
  ASSUME Inv, Framed, ReadBack, Single, [Next]_vars
  PROVE  Single'
<1> SUFFICES ASSUME NEW m \in Messages, data' = Serialize(m)
             PROVE  out' = IF pc' = "true" THEN <<m>> ELSE <<>>
  BY DEF Single
<1>1. data' = data
  BY DEF Next, Parse, Done, vars, ParsePacket, OpenElement, EndOfBundle, PushMessage,
         ReadAddress, ReadTags, NextArg, EndOfArgs, ReturnFalse
<1>2. /\ calls = <<>> /\ pc # "element" /\ Progress(m)
      /\ out = IF pc = "true" THEN <<m>> ELSE <<>>
  BY <1>1, SingleFrame DEF ReadBack, Single
<1>3. CASE PushMessage
  <2>1. msg = m /\ pc = "message" /\ out = <<>> /\ out' = Append(out, msg) /\ pc' = "true"
    BY <1>2, <1>3 DEF PushMessage, ReturnTrue, Progress
  <2> QED
    BY <2>1
<1>4. CASE ParsePacket \/ OpenElement \/ EndOfBundle \/ ReadAddress \/ ReadTags
           \/ NextArg \/ EndOfArgs \/ ReturnFalse
  <2>1. pc # "true" /\ pc' # "true" /\ out' = out
    BY <1>2, <1>4 DEF ParsePacket, OpenElement, EndOfBundle, ReadAddress, ReadTags,
                      NextArg, EndOfArgs, ReturnFalse, Missing
  <2> QED
    BY <1>2, <2>1
<1>5. CASE UNCHANGED vars
  BY <1>2, <1>5 DEF vars
<1> QED
  BY <1>3, <1>4, <1>5 DEF Next, Parse, Done

LEMMA SpecReadBack == Spec => [](Inv /\ Kept /\ Framed /\ ReadBack /\ Single)
<1>1. Init => Inv /\ Kept /\ Framed /\ ReadBack /\ Single
  <2> SUFFICES ASSUME Init PROVE Inv /\ Kept /\ Framed /\ ReadBack /\ Single
    OBVIOUS
  <2>1. pc = "packet" /\ out = <<>> /\ calls = <<>> /\ start = 0 /\ end = Len(data)
    BY DEF Init
  <2>2. Len(calls) = 0
    BY <2>1
  <2>3. Framed
    BY <2>1, <2>2 DEF Framed
  <2> QED
    BY <2>1, <2>3, InitInv DEF Kept, ReadBack, Progress, Single
<1>2. Inv /\ Kept /\ Framed /\ ReadBack /\ Single /\ [Next]_vars
        => (Inv /\ Kept /\ Framed /\ ReadBack /\ Single)'
  BY NextInv, KeptNext, FramedNext, ReadBackNext, SingleNext
<1> QED
  BY <1>1, <1>2, PTL DEF Spec

(* What serialize wrote, parsePacket reads back: the message alone is the  *)
(* only one it appends, and an element of a bundle that is a message is    *)
(* never refused and never changed.                                        *)
THEOREM SentIsReadBack == Spec => []RoundTrip
<1>1. ASSUME Inv, Framed, ReadBack, Single
      PROVE  RoundTrip
  <2>1. ASSUME NEW m \in Messages, pc \in {"message", "false"},
               SubSeq(data, start + 1, end) = Serialize(m)
        PROVE  pc = "message" /\ msg = m
    <3>1. Progress(m)
      BY <1>1, <2>1 DEF ReadBack, Is
    <3> QED
      BY <2>1, <3>1 DEF Progress
  <2>2. ASSUME NEW m \in Messages, pc = "true", data = Serialize(m)
        PROVE  out = <<m>>
    BY <1>1, <2>2 DEF Single
  <2> QED
    BY <2>1, <2>2 DEF RoundTrip
<1> QED
  BY <1>1, SpecReadBack, PTL
=============================================================================
