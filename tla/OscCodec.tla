------------------------------ MODULE OscCodec ------------------------------
(***************************************************************************)
(* The OSC 1.0 codec of OscMessage.hpp.  parsePacket and parse are a       *)
(* machine that reads one field of the datagram a step; the call stack of  *)
(* nested bundles is explicit, and every access to the datagram is         *)
(* recorded in reach.  serialize is the function Encoding.                 *)
(*                                                                         *)
(* Offsets count from 0 at the start of the datagram, as in C++: the byte  *)
(* at offset p is data[p + 1].                                             *)
(***************************************************************************)
EXTENDS Integers, SequencesExt

CONSTANTS
  Base,                  \* number of values of a byte: 256
  Marker,                \* the bytes of "#bundle" with its terminator
  Comma,                 \* first byte of a type tag string
  Numbers, Str, Blob,    \* tags of the arguments: i and f, s, b
  Bare,                  \* tags without data: T, F, N, I
  Datagrams,             \* datagrams that may arrive
  Messages               \* messages this program sends

Byte == 0 .. Base - 1
Nul  == 0
Word == 4
Free == Base             \* stands for a byte whose value does not matter

ASSUME CodecAssumption ==
  /\ Base \in Nat /\ Base > 1
  /\ Len(Marker) = 2 * Word
  /\ Datagrams \subseteq Seq(Byte)

(* The tags are distinct printable characters.  Addresses and strings are  *)
(* C strings, and an address starts with "/", as the marker does not.      *)
ASSUME MessagesAssumption ==
  /\ Comma \in Byte \ {Nul} /\ Numbers \cup {Str} \subseteq Byte \ {Nul}
  /\ Str \notin Numbers /\ (Numbers \cup {Str}) \cap (Bare \cup {Blob}) = {}
  /\ Messages \subseteq
       [address : Seq(Byte \ {Nul}),
        args : Seq([tag : Numbers, val : [1 .. Word -> Byte]]
                   \cup [tag : {Str}, val : Seq(Byte \ {Nul})])]
  /\ \A m \in Messages : m.address # <<>> /\ m.address[1] # Marker[1]

VARIABLES
  data,             \* the datagram
  pc,               \* what is read next; "true", "false": parsePacket's result
  start, end, pos,  \* the element being parsed, and the cursor
  calls,            \* bundles the element is nested in, outermost first
  tags, t, msg,     \* local variables of parse
  out,              \* messages appended so far
  reach             \* one past the last byte that was looked at

frame == <<start, end, pos, calls>>
local == <<tags, t, msg>>
vars  == <<data, pc, frame, local, out, reach>>

NoMsg == [address |-> <<>>, args |-> <<>>]

Init ==
  /\ data \in Datagrams
  /\ pc = "packet"
  /\ start = 0 /\ end = Len(data) /\ pos = 0 /\ calls = <<>>
  /\ tags = <<>> /\ t = 1 /\ msg = NoMsg
  /\ out = <<>>
  /\ reach = 0
-----------------------------------------------------------------------------
(* Reading a field at the cursor *)

At(p) == data[p + 1]

Looked(p) == reach' = IF p > reach THEN p ELSE reach

(* readBE32: four bytes, if the element still has them.                    *)
HasWord == pos + Word <= end
WordAt  == SubSeq(data, pos + 1, pos + Word)
BE32    == ((At(pos) * Base + At(pos + 1)) * Base + At(pos + 2)) * Base + At(pos + 3)

(* Variant: padding counted from the start of the datagram.                *)
PaddedInDatagram(n) == n + ((4 - (n % 4)) % 4)

(* Variant: the terminator is not consumed before the padding.             *)
PaddedFromTerminator(p) == p - 1 + ((Word - ((p - 1 - start) % Word)) % Word)

(* Strings are padded to a multiple of four bytes, counted from  *)
(* the start of the element.                                               *)
Padded(p) == p + ((Word - ((p - start) % Word)) % Word)

(* Variant: the loop over the padding runs on.                             *)
StringToUnchecked(q) == At(q) = Nul /\ \A r \in pos .. q - 1 : At(r) # Nul

(* readPaddedString: its terminator is at q.  The loop over the padding    *)
(* fails only once the cursor has passed the end by two bytes.             *)
StringTo(q) ==
  /\ At(q) = Nul
  /\ \A r \in pos .. q - 1 : At(r) # Nul
  /\ Padded(q + 1) = q + 1 \/ Padded(q + 1) <= end + 1

Strings == {q \in pos .. end - 1 : StringTo(q)}
Text(q) == SubSeq(data, pos + 1, q)

(* The size of a blob rounded up in 32 bits.                               *)
BlobSize ==
  LET n == (BE32 + 3) % (Base * Base * Base * Base) IN n - (n % Word)
-----------------------------------------------------------------------------
(* parsePacket *)

(* memcmp looks at eight bytes, if there are as many.                      *)
IsBundle ==
  /\ end - start >= 2 * Word
  /\ SubSeq(data, start + 1, start + 2 * Word) = Marker

(* Variant: four bytes of timetag instead of eight.                        *)
ParsePacketShortTimetag ==
  /\ pc = "packet"
  /\ pc' = IF IsBundle THEN "element" ELSE "address"
  /\ pos' = IF IsBundle THEN start + 3 * Word ELSE start
  /\ IF end - start >= 2 * Word THEN Looked(start + 2 * Word) ELSE UNCHANGED reach
  /\ UNCHANGED <<data, start, end, calls, local, out>>

ParsePacket ==
  /\ pc = "packet"
  /\ pc' = IF IsBundle THEN "element" ELSE "address"
  /\ pos' = IF IsBundle THEN start + 4 * Word ELSE start
  /\ IF end - start >= 2 * Word THEN Looked(start + 2 * Word) ELSE UNCHANGED reach
  /\ UNCHANGED <<data, start, end, calls, local, out>>

(* Variant: the size of an element is not compared with what is left.      *)
OpenElementUnchecked ==
  /\ pc = "element" /\ HasWord
  /\ calls' = Append(calls, [start |-> start, end |-> end])
  /\ start' = pos + Word /\ pos' = pos + Word /\ end' = pos + Word + BE32
  /\ Looked(pos + Word)
  /\ pc' = "packet"
  /\ UNCHANGED <<data, local, out>>

(* The recursive call on an element of a bundle.                           *)
OpenElement ==
  /\ pc = "element" /\ HasWord
  /\ pos + Word + BE32 <= end
  /\ calls' = Append(calls, [start |-> start, end |-> end])
  /\ start' = pos + Word /\ pos' = pos + Word /\ end' = pos + Word + BE32
  /\ Looked(pos + Word)
  /\ pc' = "packet"
  /\ UNCHANGED <<data, local, out>>

(* Variant: "pos += sz" is forgotten after the recursive call.             *)
ReturnTrueRereads ==
  IF calls = <<>>
  THEN pc' = "true" /\ UNCHANGED frame
  ELSE /\ pc' = "element"
       /\ pos' = start - Word
       /\ start' = Last(calls).start /\ end' = Last(calls).end
       /\ calls' = Front(calls)

(* The caller goes on behind the element, in its own loop.                 *)
ReturnTrue ==
  IF calls = <<>>
  THEN pc' = "true" /\ UNCHANGED frame
  ELSE /\ pc' = "element"
       /\ pos' = end
       /\ start' = Last(calls).start /\ end' = Last(calls).end
       /\ calls' = Front(calls)

(* The loop of a bundle ends when fewer than four bytes are left.          *)
EndOfBundle ==
  /\ pc = "element" /\ ~HasWord
  /\ ReturnTrue
  /\ UNCHANGED <<data, local, out, reach>>

PushMessage ==
  /\ pc = "message"
  /\ out' = Append(out, msg)
  /\ ReturnTrue
  /\ UNCHANGED <<data, local, reach>>
-----------------------------------------------------------------------------
(* parse *)

(* A message may end after its address.                                    *)
ReadAddress ==
  /\ pc = "address"
  /\ \E q \in Strings :
       /\ msg' = [NoMsg EXCEPT !.address = Text(q)]
       /\ pos' = Padded(q + 1)
       /\ pc' = IF pos' >= end THEN "message" ELSE "tags"
       /\ Looked(q + 1)
  /\ tags' = <<>>
  /\ UNCHANGED <<data, start, end, calls, t, out>>

ReadTags ==
  /\ pc = "tags"
  /\ \E q \in Strings :
       /\ q > pos /\ At(pos) = Comma
       /\ tags' = Text(q) /\ t' = 2
       /\ pos' = Padded(q + 1)
       /\ Looked(q + 1)
  /\ pc' = "args"
  /\ UNCHANGED <<data, start, end, calls, msg, out>>

Push(v) == msg' = [msg EXCEPT !.args = Append(@, [tag |-> tags[t], val |-> v])]

(* One turn of the loop over the tags.                                     *)
ReadNumber ==
  /\ tags[t] \in Numbers /\ HasWord
  /\ Push(WordAt)
  /\ pos' = pos + Word
  /\ Looked(pos + Word)

ReadString ==
  /\ tags[t] = Str
  /\ \E q \in Strings : Push(Text(q)) /\ pos' = Padded(q + 1) /\ Looked(q + 1)

(* Blobs are skipped.                                                      *)
SkipBlob ==
  /\ tags[t] = Blob /\ HasWord
  /\ pos + Word + BlobSize <= end
  /\ pos' = pos + Word + BlobSize
  /\ Looked(pos + Word)
  /\ UNCHANGED msg

SkipBare == tags[t] \in Bare /\ UNCHANGED <<msg, pos, reach>>

ReadArg == ReadNumber \/ ReadString \/ SkipBlob \/ SkipBare

NextArg ==
  /\ pc = "args" /\ t <= Len(tags)
  /\ ReadArg
  /\ t' = t + 1
  /\ UNCHANGED <<data, pc, start, end, calls, tags, out>>

EndOfArgs ==
  /\ pc = "args" /\ t > Len(tags)
  /\ pc' = "message"
  /\ UNCHANGED <<data, frame, local, out, reach>>

(* A field that is not there: every level of the recursion returns false.  *)
(* A string without a terminator was looked for up to the end.             *)
Missing ==
  \/ pc = "element" /\ HasWord /\ pos + Word + BE32 > end
  \/ pc = "address" /\ Strings = {}
  \/ pc = "tags" /\ \A q \in Strings : q = pos \/ At(pos) # Comma
  \/ /\ pc = "args" /\ t <= Len(tags)
     /\ \/ tags[t] \in Numbers \cup {Blob} /\ ~HasWord
        \/ tags[t] = Blob /\ HasWord /\ pos + Word + BlobSize > end
        \/ tags[t] = Str /\ Strings = {}
        \/ tags[t] \notin Numbers \cup Bare \cup {Blob, Str}

ReturnFalse ==
  /\ Missing
  /\ pc' = "false"
  /\ IF pos < end THEN Looked(end) ELSE UNCHANGED reach
  /\ UNCHANGED <<data, frame, local, out>>

Done == pc \in {"true", "false"} /\ UNCHANGED vars
-----------------------------------------------------------------------------
Parse ==
  \/ ParsePacket \/ OpenElement \/ EndOfBundle \/ PushMessage
  \/ ReadAddress \/ ReadTags \/ NextArg \/ EndOfArgs \/ ReturnFalse

Next == Parse \/ Done

Spec == Init /\ [][Next]_vars /\ WF_vars(Parse)
-----------------------------------------------------------------------------
(* serialize *)

(* appendPaddedString: a terminator, then zeros up to a multiple of four.  *)
PadString(s, fill) ==
  Append(s, Nul) \o [i \in 1 .. 3 - (Len(s) % Word) |-> fill]

(* serialize, with fill for the bytes no reader looks at.                  *)
Encoding(m, fill) ==
  FlattenSeq(<<PadString(m.address, fill),
               PadString(<<Comma>> \o [i \in DOMAIN m.args |-> m.args[i].tag], fill)>>
             \o [i \in DOMAIN m.args |->
                   IF m.args[i].tag = Str THEN PadString(m.args[i].val, fill)
                   ELSE m.args[i].val])

Serialize(m) == Encoding(m, Nul)
-----------------------------------------------------------------------------
(* Properties *)

(* Cursors and local variables hold what their C++ counterparts hold: a    *)
(* cursor passes the end of its element by at most a byte of padding, or   *)
(* by the header of a bundle that was cut short.                           *)
TypeOK ==
  /\ data \in Seq(Byte)
  /\ pc \in {"packet", "element", "address", "tags", "args", "message", "true", "false"}
  /\ start \in Nat /\ end \in Nat /\ start <= end
  /\ pos \in Nat /\ pos >= start
  /\ pos <= end + 1 \/ (pos = start + 4 * Word /\ end - start >= 2 * Word)
  /\ calls \in Seq([start : Nat, end : Nat])
  /\ tags \in Seq(Byte) /\ t \in Nat \ {0}
  /\ msg \in [address : Seq(Byte), args : Seq([tag : Byte, val : Seq(Byte)])]
  /\ out \in Seq([address : Seq(Byte), args : Seq([tag : Byte, val : Seq(Byte)])])
  /\ reach \in Nat

(* No datagram, however cut or forged, makes parse or parsePacket look at  *)
(* a byte behind the element it is parsing, nor an element extend behind   *)
(* its bundle or the datagram.                                             *)
ReadsInside ==
  /\ reach <= end
  /\ \A i \in DOMAIN calls : end <= calls[i].end
  /\ end <= Len(data)

(* parsePacket calls itself: the depth of that recursion is bounded by the *)
(* datagram, which spends twenty bytes on every level.                     *)
NestingBounded == 5 * Word * Len(calls) <= Len(data)

(* What the sender serializes, parsePacket reads back as that message,     *)
(* alone or as an element of a bundle, wherever the element starts.        *)
RoundTrip ==
  /\ pc \in {"message", "false"} =>
       \A m \in Messages : SubSeq(data, start + 1, end) = Serialize(m) =>
         pc = "message" /\ msg = m
  /\ pc = "true" =>
       \A m \in Messages : data = Serialize(m) => out = <<m>>

(* A message that is accepted, alone or in a bundle, without arguments     *)
(* parse leaves out, is the one its bytes encode: serialized again it      *)
(* agrees with every byte that is not padding, and at most one byte of the *)
(* last padding may be missing.                                            *)
AcceptedIsEncoding ==
  pc = "message" /\ Len(msg.args) = Len(tags) - 1 =>
    LET bytes == Encoding(msg, Free) IN
    /\ Len(bytes) <= end - start + 1
    /\ \A i \in DOMAIN bytes : bytes[i] # Free => data[start + i] = bytes[i]

(* What is left to do, most significant first: bytes of the datagram, calls*)
(* to return from, the phase of the running call, tags of its message.     *)
Unparsed == Len(data) - (IF pos < end THEN pos ELSE end)
Phase ==
  [packet |-> 5, address |-> 4, tags |-> 3, args |-> 2,
   message |-> 1, element |-> 1, true |-> 0, false |-> 0][pc]
TagsLeft == IF t <= Len(tags) THEN Len(tags) + 1 - t ELSE 0
Rank == <<Unparsed, Len(calls), Phase, TagsLeft>>

Precedes(a, b) ==
  \E i \in DOMAIN b : a[i] < b[i] /\ \A j \in 1 .. i - 1 : a[j] = b[j]

(* Every step leaves less to do, in an order without infinite descent: no  *)
(* element is read twice, though blobs and elements may be empty, a rounded*)
(* size may wrap to 0, and the cursor steps back when an element ends.     *)
Advances == [][Parse => Rank \in Seq(Nat) /\ Precedes(Rank', Rank)]_vars

(* parsePacket returns, whatever sizes a bundle claims for its elements.   *)
Terminates == <>(pc \in {"true", "false"})
=============================================================================
