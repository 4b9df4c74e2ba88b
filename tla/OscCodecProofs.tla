--------------------------- MODULE OscCodecProofs ---------------------------
(***************************************************************************)
(* Proofs about the parser, for every datagram and every choice of tags:   *)
(* its variables keep their types, it reads inside the datagram, and its   *)
(* recursion is bounded.                                                   *)
(***************************************************************************)
EXTENDS OscCodec, SequenceTheorems, TLAPS

USE DEF Word

-----------------------------------------------------------------------------
(* Arithmetic of the fields *)

LEMMA Product ==
  ASSUME NEW m \in Nat, NEW n \in Nat
  PROVE  /\ m * n \in Nat
         /\ m > 0 /\ n > 0 => m * n > 0
OBVIOUS

LEMMA PaddedBounds ==
  ASSUME NEW p \in Nat, start \in Nat, start <= p
  PROVE  Padded(p) \in Nat /\ p <= Padded(p)
BY DEF Padded

(* A word inside the element is made of bytes, its value is a number.      *)
LEMMA WordType ==
  ASSUME TypeOK, ReadsInside, HasWord
  PROVE  WordAt \in Seq(Byte) /\ BE32 \in Nat /\ BlobSize \in Nat
<1> USE CodecAssumption
<1>1. \A i \in 1 .. 4 : pos + i \in 1 .. Len(data)
  BY LenProperties DEF TypeOK, ReadsInside, HasWord
<1>2. \A i \in 1 .. 4 : data[pos + i] \in Byte
  BY <1>1, ElementOfSeq DEF TypeOK
<1>3. WordAt \in Seq(Byte)
  <2>1. \A i \in pos + 1 .. pos + 4 : data[i] \in Byte
    BY <1>1, ElementOfSeq DEF TypeOK, HasWord
  <2> QED
    BY <2>1, SubSeqProperties DEF WordAt, TypeOK
<1>4. /\ At(pos) \in Nat /\ At(pos + 1) \in Nat
      /\ At(pos + 2) \in Nat /\ At(pos + 3) \in Nat
  BY <1>2 DEF At, Byte, TypeOK
<1>5. At(pos) * Base + At(pos + 1) \in Nat
  BY <1>4, Product
<1>6. (At(pos) * Base + At(pos + 1)) * Base + At(pos + 2) \in Nat
  BY <1>4, <1>5, Product
<1>7. BE32 \in Nat
  BY <1>4, <1>6, Product DEF BE32
<1>8. BlobSize \in Nat
  <2>1. Base * Base * Base * Base \in Nat \ {0}
    BY Product
  <2>2. (BE32 + 3) % (Base * Base * Base * Base) \in Nat
    BY <1>7, <2>1
  <2> QED
    BY <2>2 DEF BlobSize
<1> QED
  BY <1>3, <1>7, <1>8

(* A string ends inside the element, and the cursor behind it.             *)
LEMMA StringType ==
  ASSUME TypeOK, ReadsInside, NEW q \in Strings
  PROVE  /\ q \in Nat /\ pos <= q /\ q < end
         /\ Text(q) \in Seq(Byte)
         /\ Padded(q + 1) \in Nat /\ q < Padded(q + 1) /\ Padded(q + 1) <= end + 1
<1>1. q \in Nat /\ pos <= q /\ q < end
  BY DEF Strings, TypeOK
<1>2. \A i \in pos + 1 .. q : data[i] \in Byte
  BY <1>1, ElementOfSeq DEF TypeOK, ReadsInside
<1>3. Text(q) \in Seq(Byte)
  BY <1>1, <1>2, SubSeqProperties DEF Text, TypeOK
<1>4. Padded(q + 1) \in Nat /\ q + 1 <= Padded(q + 1)
  BY <1>1, PaddedBounds DEF TypeOK
<1>5. Padded(q + 1) <= end + 1
  BY <1>1 DEF Strings, StringTo, TypeOK
<1> QED
  BY <1>1, <1>3, <1>4, <1>5
-----------------------------------------------------------------------------
(* The inductive invariant *)

(* Every nested element lies inside its bundle, behind sixteen bytes of    *)
(* header and four of size, and so does every bundle in the one around it. *)
Nested ==
  /\ 20 * Len(calls) <= start
  /\ \A i \in DOMAIN calls :
       /\ 20 * (i - 1) <= calls[i].start /\ calls[i].start + 20 <= start
       /\ calls[i].end <= Len(data)
  /\ \A i, j \in DOMAIN calls : i < j =>
       calls[i].start + 20 <= calls[j].start /\ calls[j].end <= calls[i].end

(* The elements of a bundle follow its header, and nothing behind the      *)
(* cursor of a bundle, or in an element that was just opened, was read.    *)
Unread ==
  /\ pc = "element" => pos >= start + 16 /\ reach <= pos
  /\ pc = "packet" => pos = start /\ reach <= start

Inv == TypeOK /\ ReadsInside /\ Nested /\ Unread

LEMMA InitInv == Init => Inv
<1> SUFFICES ASSUME Init PROVE Inv
  OBVIOUS
<1>1. data \in Seq(Byte) /\ Len(data) \in Nat
  BY CodecAssumption, LenProperties DEF Init
<1>2. DOMAIN calls = {} /\ Len(calls) = 0
  BY DEF Init
<1>3. NoMsg \in [address : Seq(Byte), args : Seq([tag : Byte, val : Seq(Byte)])]
  BY EmptySeq DEF NoMsg
<1>4. TypeOK
  BY <1>1, <1>3, EmptySeq DEF Init, TypeOK
<1> QED
  BY <1>1, <1>2, <1>4 DEF Init, Inv, ReadsInside, Nested, Unread

(* Steps that stay in the element keep where it lies.                      *)
LEMMA SameElement ==
  ASSUME Inv, UNCHANGED <<data, start, end, calls>>, reach' <= end
  PROVE  ReadsInside' /\ Nested'
BY DEF Inv, ReadsInside, Nested

LEMMA LookedType ==
  ASSUME Inv, NEW p \in Nat, Looked(p)
  PROVE  /\ reach' \in Nat
         /\ p <= end => reach' <= end
         /\ reach <= p => reach' <= p
BY DEF Inv, TypeOK, ReadsInside, Looked

LEMMA ParsePacketInv ==
  ASSUME Inv, ParsePacket
  PROVE  Inv'
<1>0. /\ start \in Nat /\ end \in Nat /\ pos = start
      /\ reach \in Nat /\ reach <= start /\ start <= end
  BY DEF Inv, TypeOK, Unread, ParsePacket
<1>1. reach' \in Nat /\ reach' <= end /\ reach' <= start + 16
  <2>1. CASE end - start >= 2 * Word
    BY <1>0, <2>1, LookedType DEF ParsePacket
  <2>2. CASE ~(end - start >= 2 * Word)
    BY <1>0, <2>2 DEF ParsePacket
  <2> QED
    BY <2>1, <2>2
<1>2. TypeOK'
  <2>1. IsBundle => end - start >= 8
    BY DEF IsBundle
  <2>2. /\ pos' \in Nat /\ pos' >= start
        /\ pos' <= end + 1 \/ (pos' = start + 4 * Word /\ end - start >= 2 * Word)
    BY <1>0, <2>1 DEF ParsePacket
  <2>3. pc' \in {"element", "address"}
    BY DEF ParsePacket
  <2> QED
    BY <1>1, <2>2, <2>3 DEF Inv, TypeOK, ParsePacket, local
<1>3. Unread'
  BY <1>0, <1>1 DEF ParsePacket, Unread
<1> QED
  BY <1>1, <1>2, <1>3, SameElement DEF Inv, ParsePacket

LEMMA OpenElementInv ==
  ASSUME Inv, OpenElement
  PROVE  Inv'
<1> DEFINE c == [start |-> start, end |-> end]
<1>0. /\ start \in Nat /\ end \in Nat /\ pos \in Nat /\ start + 16 <= pos
      /\ reach \in Nat /\ reach <= pos /\ Len(data) \in Nat /\ end <= Len(data)
      /\ calls \in Seq([start : Nat, end : Nat]) /\ Len(calls) \in Nat
  BY LenProperties DEF Inv, TypeOK, ReadsInside, Unread, OpenElement
<1>1. BE32 \in Nat /\ pos + 4 + BE32 <= end
  BY WordType DEF Inv, OpenElement
<1>2. reach' \in Nat /\ reach' <= pos + 4
  BY <1>0, LookedType DEF OpenElement
<1>3. /\ calls' = Append(calls, c) /\ start' = pos + 4 /\ pos' = pos + 4
      /\ end' = pos + 4 + BE32 /\ pc' = "packet"
      /\ UNCHANGED <<data, tags, t, msg, out>>
  BY DEF OpenElement, local
<1>4. /\ calls' \in Seq([start : Nat, end : Nat])
      /\ Len(calls') = Len(calls) + 1
      /\ \A i \in 1 .. Len(calls) : calls'[i] = calls[i]
      /\ calls'[Len(calls) + 1] = c
  BY <1>0, <1>3, AppendProperties
<1>5. TypeOK'
  BY <1>0, <1>1, <1>2, <1>3, <1>4 DEF Inv, TypeOK
<1>6. DOMAIN calls = 1 .. Len(calls) /\ DOMAIN calls' = 1 .. Len(calls) + 1
  BY <1>0, <1>4, LenProperties
<1>7. ReadsInside'
  <2>1. \A i \in 1 .. Len(calls) : end' <= calls'[i].end
    <3> SUFFICES ASSUME NEW i \in 1 .. Len(calls) PROVE end' <= calls'[i].end
      OBVIOUS
    <3>1. calls[i] \in [start : Nat, end : Nat]
      BY <1>0, ElementOfSeq
    <3>2. end <= calls[i].end
      BY <1>6 DEF Inv, ReadsInside
    <3> QED
      BY <1>0, <1>1, <1>3, <1>4, <3>1, <3>2
  <2>2. end' <= calls'[Len(calls) + 1].end
    BY <1>0, <1>1, <1>3, <1>4
  <2>3. \A i \in DOMAIN calls' : i \in 1 .. Len(calls) \/ i = Len(calls) + 1
    BY <1>0, <1>6
  <2> QED
    BY <1>0, <1>1, <1>2, <1>3, <2>1, <2>2, <2>3 DEF ReadsInside
<1>8. Nested'
  <2>1. 20 * Len(calls') <= start'
    BY <1>0, <1>3, <1>4 DEF Inv, Nested
  <2>2. \A i \in DOMAIN calls' :
          /\ 20 * (i - 1) <= calls'[i].start /\ calls'[i].start + 20 <= start'
          /\ calls'[i].end <= Len(data)
    <3> SUFFICES ASSUME NEW i \in 1 .. Len(calls) + 1
                 PROVE  /\ 20 * (i - 1) <= calls'[i].start
                        /\ calls'[i].start + 20 <= start'
                        /\ calls'[i].end <= Len(data)
      BY <1>6
    <3>1. CASE i = Len(calls) + 1
      BY <1>0, <1>3, <1>4, <3>1 DEF Inv, Nested
    <3>2. CASE i # Len(calls) + 1
      <4>1. i \in 1 .. Len(calls)
        BY <1>0, <3>2
      <4>2. calls[i] \in [start : Nat, end : Nat]
        BY <1>0, <4>1, ElementOfSeq
      <4>3. /\ 20 * (i - 1) <= calls[i].start /\ calls[i].start + 20 <= start
            /\ calls[i].end <= Len(data)
        BY <1>6, <4>1 DEF Inv, Nested
      <4> QED
        BY <1>0, <1>3, <1>4, <4>1, <4>2, <4>3
    <3> QED
      BY <3>1, <3>2
  <2>3. \A i, j \in DOMAIN calls' : i < j =>
          calls'[i].start + 20 <= calls'[j].start /\ calls'[j].end <= calls'[i].end
    <3> SUFFICES ASSUME NEW i \in 1 .. Len(calls) + 1, NEW j \in 1 .. Len(calls) + 1,
                        i < j
                 PROVE  /\ calls'[i].start + 20 <= calls'[j].start
                        /\ calls'[j].end <= calls'[i].end
      BY <1>6
    <3>0. i \in 1 .. Len(calls)
      BY <1>0
    <3>1. i \in DOMAIN calls /\ calls'[i] = calls[i]
      BY <1>4, <1>6, <3>0
    <3>2. CASE j = Len(calls) + 1
      BY <1>4, <3>1, <3>2 DEF Inv, Nested, ReadsInside
    <3>3. CASE j # Len(calls) + 1
      <4>1. j \in 1 .. Len(calls)
        BY <1>0, <3>3
      <4>2. j \in DOMAIN calls /\ calls'[j] = calls[j]
        BY <1>4, <1>6, <4>1
      <4> QED
        BY <3>1, <4>2 DEF Inv, Nested
    <3> QED
      BY <3>2, <3>3
  <2> QED
    BY <1>3, <2>1, <2>2, <2>3 DEF Nested
<1>9. Unread'
  BY <1>2, <1>3 DEF Unread
<1> QED
  BY <1>5, <1>7, <1>8, <1>9 DEF Inv

(* The types that do not concern the frame.                                *)
LocalType ==
  /\ tags \in Seq(Byte) /\ t \in Nat \ {0}
  /\ msg \in [address : Seq(Byte), args : Seq([tag : Byte, val : Seq(Byte)])]
  /\ out \in Seq([address : Seq(Byte), args : Seq([tag : Byte, val : Seq(Byte)])])

LEMMA FrontType ==
  ASSUME NEW S, NEW s \in Seq(S), s # <<>>
  PROVE  /\ Front(s) \in Seq(S)
         /\ Len(Front(s)) = Len(s) - 1
         /\ \A i \in 1 .. Len(s) - 1 : Front(s)[i] = s[i]
<1>1. Len(s) \in Nat \ {0}
  BY EmptySeq
<1>2. \A i \in 1 .. Len(s) - 1 : s[i] \in S
  BY <1>1, ElementOfSeq
<1>3. /\ SubSeq(s, 1, Len(s) - 1) \in Seq(S)
      /\ Len(SubSeq(s, 1, Len(s) - 1)) = IF 1 <= Len(s) - 1 THEN Len(s) - 1 ELSE 0
      /\ \A i \in 1 .. Len(s) - 1 : SubSeq(s, 1, Len(s) - 1)[i] = s[1 + i - 1]
  <2>1. 1 \in Int /\ Len(s) - 1 \in Int /\ Len(s) - 1 - 1 + 1 = Len(s) - 1
    BY <1>1
  <2> QED
    BY <1>2, <2>1, SubSeqProperties
<1>4. \A i \in 1 .. Len(s) - 1 : 1 + i - 1 = i
  BY <1>1
<1>5. Len(SubSeq(s, 1, Len(s) - 1)) = Len(s) - 1
  <2>1. \A k \in Nat \ {0} : k - 1 = IF 1 <= k - 1 THEN k - 1 ELSE 0
    OBVIOUS
  <2> QED
    BY <1>1, <1>3, <2>1
<1> QED
  BY <1>3, <1>4, <1>5 DEF Front

LEMMA ReturnTrueInv ==
  ASSUME Inv, ReturnTrue, LocalType', UNCHANGED <<data, reach>>
  PROVE  Inv'
<1>1. CASE calls = <<>>
  BY <1>1 DEF Inv, TypeOK, LocalType, ReadsInside, Nested, Unread, ReturnTrue, frame
<1>2. CASE calls # <<>>
  <2> DEFINE n == Len(calls)
  <2>0. /\ start \in Nat /\ end \in Nat /\ start <= end
        /\ reach \in Nat /\ reach <= end
        /\ calls \in Seq([start : Nat, end : Nat])
        /\ n \in Nat \ {0} /\ DOMAIN calls = 1 .. n
    BY <1>2, EmptySeq, LenProperties DEF Inv, TypeOK, ReadsInside
  <2>1. n \in 1 .. n /\ n - 1 \in Int /\ \A i \in 1 .. n - 1 : i \in 1 .. n /\ i < n
    BY <2>0
  <2>2. \A i \in 1 .. n : calls[i] \in [start : Nat, end : Nat]
    BY <2>0, ElementOfSeq
  <2>3. /\ calls[n].start \in Nat /\ calls[n].end \in Nat
        /\ 20 * (n - 1) <= calls[n].start /\ calls[n].start + 20 <= start
        /\ end <= calls[n].end /\ calls[n].end <= Len(data)
    BY <2>0, <2>1, <2>2 DEF Inv, Nested, ReadsInside
  <2>4. /\ pc' = "element" /\ pos' = end
        /\ start' = calls[n].start /\ end' = calls[n].end
        /\ calls' = Front(calls)
    BY <1>2 DEF ReturnTrue, Last
  <2>5. /\ calls' \in Seq([start : Nat, end : Nat])
        /\ Len(calls') = n - 1
        /\ \A i \in 1 .. n - 1 : calls'[i] = calls[i]
    BY <1>2, <2>0, <2>4, FrontType
  <2>6. DOMAIN calls' = 1 .. n - 1
    BY <2>5, LenProperties
  <2>7. TypeOK'
    <3>1. /\ start' \in Nat /\ end' \in Nat
          /\ start' + 20 <= start /\ end <= end' /\ pos' = end
      BY <2>3, <2>4
    <3>2. /\ start \in Nat /\ end \in Nat /\ start <= end
      BY <2>0
    <3>3. /\ start' <= end'
          /\ pos' \in Nat /\ pos' >= start' /\ pos' <= end' + 1
      <4>1. \A a, b, c, d \in Nat :
              a + 20 <= b /\ b <= c /\ c <= d => a <= d /\ c >= a /\ c <= d + 1
        OBVIOUS
      <4> QED
        BY <3>1, <3>2, <4>1
    <3> QED
      BY <2>4, <2>5, <3>1, <3>3 DEF Inv, TypeOK, LocalType
  <2>8. ReadsInside'
    <3>1. \A i \in DOMAIN calls' : end' <= calls'[i].end
      BY <2>0, <2>1, <2>4, <2>5, <2>6 DEF Inv, Nested
    <3> QED
      BY <2>0, <2>3, <2>4, <3>1 DEF ReadsInside
  <2>9. Nested'
    <3>1. 20 * Len(calls') <= start'
      BY <2>3, <2>4, <2>5
    <3>2. \A i \in DOMAIN calls' :
            /\ 20 * (i - 1) <= calls'[i].start /\ calls'[i].start + 20 <= start'
            /\ calls'[i].end <= Len(data)
      BY <2>0, <2>1, <2>4, <2>5, <2>6 DEF Inv, Nested
    <3>3. \A i, j \in DOMAIN calls' : i < j =>
            calls'[i].start + 20 <= calls'[j].start /\ calls'[j].end <= calls'[i].end
      <4> SUFFICES ASSUME NEW i \in 1 .. n - 1, NEW j \in 1 .. n - 1, i < j
                   PROVE  /\ calls'[i].start + 20 <= calls'[j].start
                          /\ calls'[j].end <= calls'[i].end
        BY <2>6
      <4>1. calls'[i] = calls[i] /\ calls'[j] = calls[j]
        BY <2>5
      <4>2. i \in DOMAIN calls /\ j \in DOMAIN calls
        BY <2>0, <2>1
      <4> QED
        BY <4>1, <4>2 DEF Inv, Nested
    <3> QED
      BY <3>1, <3>2, <3>3 DEF Nested
  <2>10. Unread'
    BY <2>0, <2>3, <2>4 DEF Unread
  <2> QED
    BY <2>7, <2>8, <2>9, <2>10 DEF Inv
<1> QED
  BY <1>1, <1>2

(* Steps of parse stay in the element.                                     *)
LEMMA StayInv ==
  ASSUME Inv, UNCHANGED <<data, start, end, calls>>,
         LocalType', reach' \in Nat, reach' <= end,
         pos' \in Nat, pos' >= start, pos' <= end + 1 \/ pos' = pos,
         pc' \in {"tags", "args", "message", "false"}
  PROVE  Inv'
<1>1. TypeOK'
  BY DEF Inv, TypeOK, LocalType
<1>2. Unread'
  BY DEF Unread
<1> QED
  BY <1>1, <1>2, SameElement DEF Inv

LEMMA ReadAddressInv ==
  ASSUME Inv, ReadAddress
  PROVE  Inv'
<1>1. PICK q \in Strings :
        /\ msg' = [NoMsg EXCEPT !.address = Text(q)]
        /\ pos' = Padded(q + 1)
        /\ pc' \in {"message", "tags"}
        /\ Looked(q + 1)
  BY DEF ReadAddress
<1>2. /\ q \in Nat /\ pos <= q /\ q < end /\ Text(q) \in Seq(Byte)
      /\ pos' \in Nat /\ q < pos' /\ pos' <= end + 1
  BY <1>1, StringType DEF Inv
<1>3. msg' \in [address : Seq(Byte), args : Seq([tag : Byte, val : Seq(Byte)])]
  BY <1>1, <1>2, EmptySeq DEF NoMsg
<1>4. reach' \in Nat /\ reach' <= end
  <2>1. q + 1 \in Nat /\ q + 1 <= end
    BY <1>2 DEF Inv, TypeOK
  <2> QED
    BY <1>1, <2>1, LookedType
<1>5. LocalType'
  BY <1>3, EmptySeq DEF Inv, TypeOK, LocalType, ReadAddress
<1> QED
  BY <1>1, <1>2, <1>4, <1>5, StayInv DEF Inv, TypeOK, ReadAddress

LEMMA ReadTagsInv ==
  ASSUME Inv, ReadTags
  PROVE  Inv'
<1>1. PICK q \in Strings :
        /\ tags' = Text(q) /\ t' = 2
        /\ pos' = Padded(q + 1)
        /\ Looked(q + 1)
  BY DEF ReadTags
<1>2. /\ q \in Nat /\ pos <= q /\ q < end /\ Text(q) \in Seq(Byte)
      /\ pos' \in Nat /\ q < pos' /\ pos' <= end + 1
  BY <1>1, StringType DEF Inv
<1>3. reach' \in Nat /\ reach' <= end
  BY <1>1, <1>2, LookedType DEF Inv, TypeOK
<1>4. LocalType'
  BY <1>1, <1>2 DEF Inv, TypeOK, LocalType, ReadTags
<1> QED
  BY <1>1, <1>2, <1>3, <1>4, StayInv DEF Inv, TypeOK, ReadTags

LEMMA PushType ==
  ASSUME Inv, t <= Len(tags), NEW v \in Seq(Byte), Push(v)
  PROVE  msg' \in [address : Seq(Byte), args : Seq([tag : Byte, val : Seq(Byte)])]
<1> DEFINE a == [tag |-> tags[t], val |-> v]
<1>1. tags[t] \in Byte
  BY ElementOfSeq, LenProperties DEF Inv, TypeOK
<1>2. a \in [tag : Byte, val : Seq(Byte)]
  BY <1>1
<1>3. Append(msg.args, a) \in Seq([tag : Byte, val : Seq(Byte)])
  BY <1>2, AppendProperties DEF Inv, TypeOK
<1> QED
  BY <1>3 DEF Push, Inv, TypeOK

LEMMA NextArgInv ==
  ASSUME Inv, NextArg
  PROVE  Inv'
<1> DEFINE Msg == [address : Seq(Byte), args : Seq([tag : Byte, val : Seq(Byte)])]
<1>0. /\ t <= Len(tags) /\ t' = t + 1 /\ pc' = "args"
      /\ UNCHANGED <<data, start, end, calls, tags, out>>
  BY DEF NextArg
<1>1. /\ msg' \in Msg
      /\ reach' \in Nat /\ reach' <= end
      /\ pos' \in Nat /\ pos' >= start /\ (pos' <= end + 1 \/ pos' = pos)
  <2>1. CASE ReadNumber
    <3>1. msg' \in Msg
      BY <1>0, <2>1, WordType, PushType DEF Inv, ReadNumber
    <3>2. /\ pos \in Nat /\ end \in Nat /\ start \in Nat /\ pos >= start
          /\ pos' = pos + 4 /\ pos + 4 <= end
      BY <2>1 DEF Inv, TypeOK, ReadNumber, HasWord
    <3>3. reach' \in Nat /\ reach' <= end
      BY <2>1, <3>2, LookedType DEF ReadNumber
    <3> QED
      BY <3>1, <3>2, <3>3
  <2>2. CASE ReadString
    <3>1. PICK q \in Strings : Push(Text(q)) /\ pos' = Padded(q + 1) /\ Looked(q + 1)
      BY <2>2 DEF ReadString
    <3>2. /\ q \in Nat /\ pos <= q /\ q < end /\ Text(q) \in Seq(Byte)
          /\ pos' \in Nat /\ q < pos' /\ pos' <= end + 1
      BY <3>1, StringType DEF Inv
    <3>3. msg' \in Msg
      BY <1>0, <3>1, <3>2, PushType
    <3>4. reach' \in Nat /\ reach' <= end
      BY <3>1, <3>2, LookedType DEF Inv, TypeOK
    <3> QED
      BY <3>2, <3>3, <3>4 DEF Inv, TypeOK
  <2>3. CASE SkipBlob
    <3>1. /\ pos \in Nat /\ end \in Nat /\ start \in Nat /\ pos >= start
          /\ BlobSize \in Nat
          /\ pos' = pos + 4 + BlobSize /\ pos + 4 + BlobSize <= end
      BY <2>3, WordType DEF Inv, TypeOK, SkipBlob
    <3>2. reach' \in Nat /\ reach' <= end
      BY <2>3, <3>1, LookedType DEF SkipBlob
    <3>3. msg' \in Msg
      BY <2>3 DEF Inv, TypeOK, SkipBlob
    <3>4. pos' \in Nat /\ pos' >= start /\ pos' <= end + 1
      BY <3>1
    <3> QED
      BY <3>2, <3>3, <3>4
  <2>4. CASE SkipBare
    BY <2>4 DEF Inv, TypeOK, ReadsInside, SkipBare
  <2> QED
    BY <2>1, <2>2, <2>3, <2>4 DEF NextArg, ReadArg
<1>2. LocalType'
  BY <1>0, <1>1 DEF Inv, TypeOK, LocalType
<1> QED
  BY <1>0, <1>1, <1>2, StayInv

LEMMA NextInv ==
  ASSUME Inv, [Next]_vars
  PROVE  Inv'
<1>0. LocalType
  BY DEF Inv, TypeOK, LocalType
<1>1. CASE ParsePacket
  BY <1>1, ParsePacketInv
<1>2. CASE OpenElement
  BY <1>2, OpenElementInv
<1>3. CASE EndOfBundle
  BY <1>0, <1>3, ReturnTrueInv DEF EndOfBundle, LocalType, local
<1>4. CASE PushMessage
  <2>1. out' \in Seq([address : Seq(Byte), args : Seq([tag : Byte, val : Seq(Byte)])])
    BY <1>0, <1>4, AppendProperties DEF PushMessage, LocalType
  <2>2. LocalType'
    BY <1>0, <1>4, <2>1 DEF PushMessage, LocalType, local
  <2> QED
    BY <1>4, <2>2, ReturnTrueInv DEF PushMessage
<1>5. CASE ReadAddress
  BY <1>5, ReadAddressInv
<1>6. CASE ReadTags
  BY <1>6, ReadTagsInv
<1>7. CASE NextArg
  BY <1>7, NextArgInv
<1>8. CASE EndOfArgs
  BY <1>0, <1>8, StayInv
     DEF EndOfArgs, Inv, TypeOK, ReadsInside, LocalType, frame, local
<1>9. CASE ReturnFalse
  <2>1. reach' \in Nat /\ reach' <= end
    BY <1>9, LookedType DEF ReturnFalse, Inv, TypeOK, ReadsInside
  <2> QED
    BY <1>0, <1>9, <2>1, StayInv DEF ReturnFalse, Inv, TypeOK, LocalType, frame, local
<1>10. CASE UNCHANGED vars
  BY <1>10 DEF vars, frame, local, Inv, TypeOK, ReadsInside, Nested, Unread
<1> QED
  BY <1>1, <1>2, <1>3, <1>4, <1>5, <1>6, <1>7, <1>8, <1>9, <1>10
     DEF Next, Parse, Done

LEMMA SpecInv == Spec => []Inv
BY InitInv, NextInv, PTL DEF Spec
-----------------------------------------------------------------------------
(* Progress *)

LEMMA PhaseType ==
  ASSUME TypeOK
  PROVE  /\ Phase \in Nat
         /\ pc = "packet" => Phase = 5
         /\ pc = "address" => Phase = 4
         /\ pc = "tags" => Phase = 3
         /\ pc = "args" => Phase = 2
         /\ pc = "message" \/ pc = "element" => Phase = 1
         /\ pc = "true" \/ pc = "false" => Phase = 0
BY DEF TypeOK, Phase

LEMMA RankType ==
  ASSUME Inv
  PROVE  /\ Unparsed \in Nat /\ Len(calls) \in Nat /\ Phase \in Nat /\ TagsLeft \in Nat
         /\ Rank \in Seq(Nat)
<1>1. Unparsed \in Nat
  BY LenProperties DEF Inv, TypeOK, ReadsInside, Unparsed
<1>2. Len(calls) \in Nat
  BY LenProperties DEF Inv, TypeOK
<1>3. Phase \in Nat
  BY PhaseType DEF Inv
<1>4. TagsLeft \in Nat
  BY LenProperties DEF Inv, TypeOK, TagsLeft
<1> QED
  BY <1>1, <1>2, <1>3, <1>4 DEF Rank

LEMMA NextRankType ==
  ASSUME Inv'
  PROVE  Unparsed' \in Nat /\ Len(calls') \in Nat
<1>1. Unparsed' \in Nat
  <2>1. data' \in Seq(Byte) /\ pos' \in Nat /\ end' \in Nat /\ end' <= Len(data')
    BY DEF Inv, TypeOK, ReadsInside
  <2>2. PICK l, p, e : l = Len(data') /\ p = pos' /\ e = end'
    OBVIOUS
  <2>3. l \in Nat /\ p \in Nat /\ e \in Nat /\ e <= l
    BY <2>1, <2>2, LenProperties
  <2>4. Unparsed' = l - (IF p < e THEN p ELSE e)
    BY <2>2 DEF Unparsed
  <2> QED
    BY <2>3, <2>4
<1>2. Len(calls') \in Nat
  BY LenProperties DEF Inv, TypeOK
<1> QED
  BY <1>1, <1>2

(* The order of Precedes on four numbers is the lexicographic one.         *)
LEMMA Lexicographic ==
  ASSUME NEW a, NEW b, NEW c, NEW d, NEW e, NEW f, NEW g, NEW h,
         \/ a < e
         \/ a = e /\ b < f
         \/ a = e /\ b = f /\ c < g
         \/ a = e /\ b = f /\ c = g /\ d < h
  PROVE  Precedes(<<a, b, c, d>>, <<e, f, g, h>>)
<1> DEFINE x == <<a, b, c, d>>
           y == <<e, f, g, h>>
<1>1. /\ x[1] = a /\ x[2] = b /\ x[3] = c /\ x[4] = d
      /\ y[1] = e /\ y[2] = f /\ y[3] = g /\ y[4] = h
      /\ DOMAIN y = 1 .. 4
  OBVIOUS
<1> HIDE DEF x, y
<1>2. CASE a < e
  <2>1. x[1] < y[1] /\ \A j \in 1 .. 1 - 1 : x[j] = y[j]
    BY <1>1, <1>2
  <2> QED
    BY <1>1, <2>1 DEF Precedes, x, y
<1>3. CASE a = e /\ b < f
  <2>1. x[2] < y[2] /\ \A j \in 1 .. 2 - 1 : x[j] = y[j]
    BY <1>1, <1>3
  <2> QED
    BY <1>1, <2>1 DEF Precedes, x, y
<1>4. CASE a = e /\ b = f /\ c < g
  <2>1. x[3] < y[3] /\ \A j \in 1 .. 3 - 1 : x[j] = y[j]
    BY <1>1, <1>4
  <2> QED
    BY <1>1, <2>1 DEF Precedes, x, y
<1>5. CASE a = e /\ b = f /\ c = g /\ d < h
  <2>1. x[4] < y[4] /\ \A j \in 1 .. 4 - 1 : x[j] = y[j]
    BY <1>1, <1>5
  <2> QED
    BY <1>1, <2>1 DEF Precedes, x, y
<1> QED
  BY <1>2, <1>3, <1>4, <1>5

(* The cursor does not step back within an element.                        *)
LEMMA CursorGoesOn ==
  ASSUME Inv, UNCHANGED <<data, end>>, pos' \in Nat, pos <= pos'
  PROVE  Unparsed' <= Unparsed
BY LenProperties DEF Inv, TypeOK, ReadsInside, Unparsed

LEMMA PhaseAdvances ==
  ASSUME Inv, Inv', Unparsed' <= Unparsed, calls' = calls, Phase' < Phase
  PROVE  Precedes(Rank', Rank)
<1>1. /\ Unparsed \in Nat /\ Unparsed' \in Nat
      /\ Len(calls') = Len(calls)
  BY RankType, NextRankType
<1>2. Unparsed' < Unparsed \/ Unparsed' = Unparsed
  BY <1>1
<1> QED
  BY <1>1, <1>2, Lexicographic DEF Rank

(* The caller goes on behind the element, with one call less to return from*)
LEMMA ReturnAdvances ==
  ASSUME Inv, Inv', pc \in {"element", "message"}, ReturnTrue, data' = data
  PROVE  Precedes(Rank', Rank)
<1>1. /\ Unparsed \in Nat /\ Unparsed' \in Nat
      /\ Len(calls) \in Nat /\ Len(calls') \in Nat
  BY RankType, NextRankType
<1>2. CASE calls = <<>>
  <2>1. pc' = "true" /\ UNCHANGED <<pos, end, calls>>
    BY <1>2 DEF ReturnTrue, frame
  <2>2. Unparsed' <= Unparsed
    BY <1>1, <2>1 DEF Unparsed
  <2>3. Phase' = 0 /\ Phase = 1
    BY <2>1, PhaseType DEF Inv, Phase
  <2> QED
    BY <2>1, <2>2, <2>3, PhaseAdvances
<1>3. CASE calls # <<>>
  <2>1. /\ Len(calls) \in DOMAIN calls
        /\ pos' = end /\ end' = calls[Len(calls)].end /\ calls' = Front(calls)
    BY <1>3, LenProperties DEF ReturnTrue, Inv, TypeOK, Last
  <2>2. end <= end' /\ end \in Nat /\ end' \in Nat /\ pos' \in Nat
    BY <2>1 DEF Inv, ReadsInside, TypeOK
  <2>3. Unparsed' = Len(data) - end
    BY <2>1, <2>2 DEF Unparsed
  <2>4. Len(data) - end <= Unparsed
    BY <2>2, LenProperties DEF Unparsed, Inv, TypeOK
  <2>5. Len(calls') = Len(calls) - 1
    BY <1>3, <2>1, FrontType DEF Inv, TypeOK
  <2>6. \/ Unparsed' < Unparsed
        \/ Unparsed' = Unparsed /\ Len(calls') < Len(calls)
    BY <1>1, <2>3, <2>4, <2>5
  <2> QED
    BY <2>6, Lexicographic DEF Rank
<1> QED
  BY <1>2, <1>3

LEMMA OpenAdvances ==
  ASSUME Inv, Inv', OpenElement
  PROVE  Precedes(Rank', Rank)
<1>1. BE32 \in Nat /\ pos \in Nat /\ end \in Nat /\ Len(data) \in Nat
  BY WordType, LenProperties DEF Inv, TypeOK, OpenElement
<1>2. /\ pos + 4 + BE32 <= end /\ data' = data
      /\ pos' = pos + 4 /\ end' = pos + 4 + BE32
  BY DEF OpenElement
<1>3. PICK n \in Nat : n = BE32
  BY <1>1
<1>4. pos < end /\ pos' <= end' /\ end' <= end /\ pos' = pos + 4 /\ end' \in Nat /\ pos' \in Nat
  BY <1>1, <1>2, <1>3
<1>5. Unparsed' = Len(data) - (IF pos' < end' THEN pos' ELSE end')
  BY <1>2 DEF Unparsed
<1>6. Unparsed' = Len(data) - pos'
  BY <1>4, <1>5
<1>7. Unparsed' < Unparsed
  BY <1>1, <1>4, <1>6 DEF Unparsed
<1> QED
  BY <1>7, Lexicographic DEF Rank

LEMMA NextArgAdvances ==
  ASSUME Inv, Inv', NextArg
  PROVE  Precedes(Rank', Rank)
<1>1. /\ pc = "args" /\ pc' = "args" /\ t <= Len(tags) /\ t' = t + 1
      /\ UNCHANGED <<data, end, calls, tags>>
  BY DEF NextArg
<1>2. pos \in Nat /\ end \in Nat /\ t \in Nat /\ Len(tags) \in Nat
  BY LenProperties DEF Inv, TypeOK
<1>3. pos' \in Nat /\ pos <= pos'
  <2>1. CASE ReadNumber
    BY <1>2, <2>1 DEF ReadNumber
  <2>2. CASE ReadString
    <3>1. PICK q \in Strings : pos' = Padded(q + 1)
      BY <2>2 DEF ReadString
    <3>2. q \in Nat /\ pos <= q /\ pos' \in Nat /\ q < pos'
      BY <3>1, StringType DEF Inv
    <3> QED
      BY <1>2, <3>2
  <2>3. CASE SkipBlob
    <3>1. BlobSize \in Nat /\ pos' = pos + 4 + BlobSize
      BY <2>3, WordType DEF Inv, SkipBlob
    <3> QED
      BY <1>2, <3>1
  <2>4. CASE SkipBare
    BY <1>2, <2>4 DEF SkipBare
  <2> QED
    BY <2>1, <2>2, <2>3, <2>4 DEF NextArg, ReadArg
<1>4. /\ Unparsed' <= Unparsed /\ Unparsed \in Nat /\ Unparsed' \in Nat
  BY <1>1, <1>3, CursorGoesOn, RankType, NextRankType
<1>5. Len(calls') = Len(calls) /\ Phase' = Phase
  BY <1>1 DEF Phase
<1>6. TagsLeft' < TagsLeft
  BY <1>1, <1>2 DEF TagsLeft
<1>7. Unparsed' < Unparsed \/ Unparsed' = Unparsed
  BY <1>4
<1> QED
  BY <1>5, <1>6, <1>7, Lexicographic DEF Rank

LEMMA ParseAdvances ==
  ASSUME Inv, Inv', Parse
  PROVE  Precedes(Rank', Rank)
<1>0. TypeOK /\ TypeOK' /\ pos \in Nat /\ pos' \in Nat /\ start \in Nat /\ end \in Nat
  BY DEF Inv, TypeOK
<1>1. CASE ParsePacket
  <2>1. /\ pc = "packet" /\ pc' \in {"element", "address"}
        /\ UNCHANGED <<data, end, calls>> /\ pos' >= start
    BY <1>0, <1>1 DEF ParsePacket
  <2>2. pos <= pos'
    BY <1>0, <2>1 DEF Inv, Unread
  <2>3. Phase' < Phase
    BY <1>0, <2>1, PhaseType DEF Phase
  <2> QED
    BY <1>0, <2>1, <2>2, <2>3, CursorGoesOn, PhaseAdvances
<1>2. CASE OpenElement
  BY <1>2, OpenAdvances
<1>3. CASE EndOfBundle
  BY <1>3, ReturnAdvances DEF EndOfBundle
<1>4. CASE PushMessage
  BY <1>4, ReturnAdvances DEF PushMessage
<1>5. CASE ReadAddress \/ ReadTags
  <2>1. /\ \E q \in Strings : pos' = Padded(q + 1)
        /\ UNCHANGED <<data, end, calls>>
    BY <1>5 DEF ReadAddress, ReadTags
  <2>2. pos <= pos'
    BY <1>0, <2>1, StringType DEF Inv
  <2>3. Phase' < Phase
    BY <1>0, <1>5, PhaseType DEF Phase, ReadAddress, ReadTags
  <2> QED
    BY <1>0, <2>1, <2>2, <2>3, CursorGoesOn, PhaseAdvances
<1>6. CASE NextArg
  BY <1>6, NextArgAdvances
<1>7. CASE EndOfArgs \/ ReturnFalse
  <2>1. UNCHANGED <<data, end, calls, pos>>
    BY <1>7 DEF EndOfArgs, ReturnFalse, frame
  <2>2. Phase' < Phase
    BY <1>0, <1>7, PhaseType DEF Phase, EndOfArgs, ReturnFalse, Missing
  <2>3. pos <= pos'
    BY <1>0, <2>1
  <2> QED
    BY <1>0, <2>1, <2>2, <2>3, CursorGoesOn, PhaseAdvances
<1> QED
  BY <1>1, <1>2, <1>3, <1>4, <1>5, <1>6, <1>7 DEF Parse
-----------------------------------------------------------------------------
(* Theorems *)

(* The variables of parse and parsePacket keep their types, and a cursor   *)
(* passes the end of its element by no more than the padding byte or       *)
(* bundle header that readPaddedString and parsePacket let it.             *)
THEOREM TypeCorrect == Spec => []TypeOK
BY SpecInv, PTL DEF Inv

(* No datagram makes parsePacket, readPaddedString or readBE32 look behind *)
(* its end, nor behind the end of the element they are given.              *)
THEOREM ParserReadsInside == Spec => []ReadsInside
BY SpecInv, PTL DEF Inv

(* The recursion of parsePacket is never deeper than the twentieth part of *)
(* the datagram's length.                                                  *)
THEOREM RecursionBounded == Spec => []NestingBounded
<1>1. Inv => NestingBounded
  BY LenProperties DEF Inv, TypeOK, ReadsInside, Nested, NestingBounded
<1> QED
  BY <1>1, SpecInv, PTL

(* The parser never reads an element or an argument twice: each of its     *)
(* steps takes the lexicographic measure Rank down, for every datagram, so *)
(* parsePacket makes finitely many of them.                                *)
THEOREM EveryStepAdvances == Spec => Advances
<1>1. Inv /\ Inv' /\ [Next]_vars => (Parse => Rank \in Seq(Nat) /\ Precedes(Rank', Rank))
  BY RankType, ParseAdvances
<1> QED
  BY <1>1, SpecInv, NextInv, PTL DEF Spec, Advances
=============================================================================
