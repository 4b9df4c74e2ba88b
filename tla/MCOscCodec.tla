----------------------------- MODULE MCOscCodec -----------------------------
(* Sixteen byte values.  Datagrams are sequences of up to four words, each *)
(* one a field that fits somewhere, cut anywhere in the last word; alone,  *)
(* as the elements of a bundle, or as those of a bundle in a bundle.       *)
EXTENDS OscCodec

MCMarker == <<9, 10, 11, 12, 13, 14, 15, 0>>

Header == MCMarker \o <<0, 0, 0, 0, 0, 0, 0, 0>>

(* "/", "////", ",i", ",b", ",s", ",sT": Comma 2, i 3, s 5, b 6, T 7, / 8. *)
Fields == {<<8, 0, 0, 0>>, <<8, 8, 8, 8>>, <<2, 3, 0, 0>>, <<2, 6, 0, 0>>,
           <<2, 5, 3, 0>>, <<2, 5, 7, 0>>,
           <<0, 0, 0, 0>>, <<0, 0, 0, 4>>, <<0, 0, 0, 8>>, <<15, 15, 15, 13>>}

Cut(s) == {SubSeq(s, 1, Len(s) - n) : n \in 0 .. 3}

Concat(S, T) == {a \o b : a \in S, b \in T}

UpToTwo   == Concat(Fields \cup {<<>>}, Fields)
UpToThree == UpToTwo \cup Concat(UpToTwo, Fields)
Bodies    == UNION {Cut(s) : s \in UpToThree}
Longer    == UNION {Cut(<<8, 0, 0, 0>> \o s) : s \in UpToThree}

Sized(s) == <<0, 0, Len(s) \div 16, Len(s) % 16>> \o s

Number == [tag |-> 3, val |-> <<0, 15, 2, 0>>]
Name(s) == [tag |-> 5, val |-> s]

MCMessages ==
  [address : {<<8>>, <<8, 8, 8>>, <<8, 8, 8, 8>>},
   args : {<<>>, <<Number>>, <<Name(<<>>), Number>>, <<Number, Name(<<8, 2, 8>>)>>,
           <<Name(<<8, 8, 8, 8>>), Name(<<3>>), Number>>}]

MCDatagrams ==
  {<<>>} \cup Bodies \cup Longer
  \cup {Serialize(m) : m \in MCMessages}
  \cup Cut(Header) \cup {Header \o b : b \in Bodies}
  \cup {Header \o Sized(Serialize(m)) \o Sized(Serialize(k)) : m, k \in MCMessages}
  \cup {Header \o Sized(c) \o Sized(Serialize(m)) :
           c \in Cut(<<8, 0, 0, 0>>), m \in MCMessages}
  \cup {Header \o Sized(Header \o b) : b \in Bodies}
=============================================================================
