-------------------------- MODULE OscServerProofs --------------------------
(***************************************************************************)
(* Proofs about the receive path, for every set of packets, ports, sockets *)
(* and descriptors: type correctness, the safety of restarts, and that     *)
(* the threads implement CommandStream.                                    *)
(***************************************************************************)
EXTENDS OscServer, SequenceTheorems, TLAPS

USE DEF NoFd

-----------------------------------------------------------------------------
(* Type correctness *)

LEMMA InitType == Init => TypeOK
<1>1. <<>> \in Seq(Msgs) /\ <<>> \in Seq(Packets)
  BY EmptySeq
<1>2. Unset \in Ports
  BY ReceivePathAssumption DEF Unset
<1> QED
  BY <1>1, <1>2 DEF Init, TypeOK, UiPc, NetPc

(* The thread enters recvfrom() only with a descriptor it has loaded.      *)
LoadedFd == net = "recv" => h \in Fds

LEMMA ParsedType ==
  ASSUME NEW p \in Packets
  PROVE  Parsed(p) \in Seq(Msgs)
BY ReceivePathAssumption, EmptySeq DEF Parsed

LEMMA UiType ==
  ASSUME TypeOK, UiStep \/ UiDestroy
  PROVE  TypeOK'
<1> USE ReceivePathAssumption
<1>0. <<>> \in Seq(Msgs) /\ <<>> \in Seq(Packets)
  BY EmptySeq
<1>1. CASE UiFrame
  BY <1>1 DEF TypeOK, UiFrame, UiPc, configVars, serverVars, netVars, kernelVars
<1>2. CASE UiDestroy
  BY <1>2 DEF TypeOK, UiDestroy, UiPc, configVars, serverVars, netVars, kernelVars
<1>3. CASE UiStop
  BY <1>3 DEF TypeOK, UiStop, UiPc, configVars, netVars, kernelVars
<1>4. CASE UiClose
  BY <1>4 DEF TypeOK, UiClose, UiPc, configVars, serverVars, netVars, kernelVars
<1>5. CASE UiForget
  BY <1>5 DEF TypeOK, UiForget, UiPc, configVars, netVars, kernelVars
<1>6. CASE UiJoin
  BY <1>0, <1>6 DEF TypeOK, UiJoin, UiPc, NetPc, configVars, kernelVars
<1>7. CASE UiOpen
  <2>1. CASE ui' = "drain"
    BY <1>7, <2>1 DEF TypeOK, UiOpen, UiPc, netVars, kernelVars
  <2>2. CASE ui' # "drain"
    <3>1. PICK s \in Socks, n \in Fds :
            /\ table' = [table EXCEPT ![n] = s]
            /\ bound' = [k \in Socks |-> IF k = s THEN listenPort
                                         ELSE IF k \in Live THEN bound[k]
                                         ELSE Unset]
            /\ inbox' = [k \in Socks |-> IF k \in Live THEN inbox[k]
                                         ELSE <<>>]
            /\ fd' = n /\ serverOk' = TRUE /\ ui' = "spawn"
      BY <1>7, <2>2 DEF UiOpen
    <3>2. Unset \in Ports
      BY DEF Unset
    <3>3. /\ table' \in [Fds -> Socks \cup Strangers \cup {Free}]
          /\ bound' \in [Socks -> Ports]
          /\ inbox' \in [Socks -> Seq(Packets)]
      BY <1>0, <3>1, <3>2 DEF TypeOK
    <3> QED
      BY <1>7, <3>1, <3>3 DEF TypeOK, UiOpen, UiPc, netVars
  <2> QED
    BY <2>1, <2>2
<1>8. CASE UiSpawn
  BY <1>8 DEF TypeOK, UiSpawn, UiPc, NetPc, configVars, kernelVars
<1>9. CASE UiDrain
  BY <1>0, <1>9 DEF TypeOK, UiDrain, UiPc, configVars, serverVars, netVars, kernelVars
<1>10. CASE UiDispatch
  <2>1. Head(batch) \in Msgs /\ Tail(batch) \in Seq(Msgs)
    BY <1>10, HeadTailProperties DEF TypeOK, UiDispatch
  <2>2. Append(applied, Head(batch)) \in Seq(Msgs)
    BY <2>1, AppendProperties DEF TypeOK
  <2> QED
    BY <1>10, <2>1, <2>2
       DEF TypeOK, UiDispatch, configVars, serverVars, netVars, kernelVars
<1>11. CASE UiFrameEnd
  BY <1>11 DEF TypeOK, UiFrameEnd, UiPc, configVars, serverVars, netVars, kernelVars
<1> QED
  BY <1>1, <1>2, <1>3, <1>4, <1>5, <1>6, <1>7, <1>8, <1>9, <1>10, <1>11
     DEF UiStep

LEMMA NetType ==
  ASSUME TypeOK, LoadedFd, NetStep \/ NetReceiveForeign
  PROVE  TypeOK'
<1>1. CASE NetCheck
  BY <1>1 DEF TypeOK, NetCheck, NetPc, configVars, uiVars, serverVars, kernelVars
<1>2. CASE NetLoad
  BY <1>2 DEF TypeOK, NetLoad, NetPc, configVars, uiVars, serverVars, kernelVars
<1>3. CASE NetEnterRecv
  BY <1>3 DEF TypeOK, LoadedFd, NetEnterRecv, NetPc, configVars, uiVars,
              serverVars, kernelVars
<1>4. CASE NetReceive
  <2>1. /\ Head(inbox[held]) \in Packets
        /\ Tail(inbox[held]) \in Seq(Packets)
    BY <1>4, HeadTailProperties DEF TypeOK, NetReceive
  <2>2. Parsed(Head(inbox[held])) \in Seq(Msgs)
    BY <2>1, ParsedType
  <2> QED
    BY <1>4, <2>1, <2>2
       DEF TypeOK, NetReceive, NetPc, configVars, uiVars, serverVars
<1>5. CASE NetReceiveForeign
  <2>1. msgs' \in Seq(Msgs) /\ sent' \subseteq Packets
    BY <1>5, ParsedType, EmptySeq DEF TypeOK, NetReceiveForeign
  <2> QED
    BY <1>5, <2>1 DEF TypeOK, NetReceiveForeign, NetPc, configVars, uiVars,
                      serverVars, kernelVars
<1>6. CASE NetTimeout
  BY <1>6 DEF TypeOK, NetTimeout, NetPc, configVars, uiVars, serverVars,
              kernelVars
<1>7. CASE NetFailed
  BY <1>7 DEF TypeOK, NetFailed, NetPc, configVars, uiVars, serverVars,
              kernelVars
<1>8. CASE NetPush
  <2>1. Head(msgs) \in Msgs /\ Tail(msgs) \in Seq(Msgs)
    BY <1>8, HeadTailProperties DEF TypeOK, NetPush
  <2>2. Append(queue, Head(msgs)) \in Seq(Msgs)
    BY <2>1, AppendProperties DEF TypeOK
  <2> QED
    BY <1>8, <2>1, <2>2
       DEF TypeOK, NetPush, configVars, uiVars, serverVars, kernelVars
<1>9. CASE NetPushed
  BY <1>9 DEF TypeOK, NetPushed, NetPc, configVars, uiVars, serverVars,
              kernelVars
<1> QED
  BY <1>1, <1>2, <1>3, <1>4, <1>5, <1>6, <1>7, <1>8, <1>9 DEF NetStep

LEMMA EnvironmentType ==
  ASSUME TypeOK, Environment
  PROVE  TypeOK'
<1>1. ASSUME NEW p \in Packets, NEW q \in Ports, ClientSend(p, q)
      PROVE  TypeOK'
  <2>1. \A s \in Socks : Append(inbox[s], p) \in Seq(Packets)
    BY AppendProperties DEF TypeOK
  <2> QED
    BY <1>1, <2>1 DEF TypeOK, ClientSend, Live, configVars, uiVars, serverVars,
                      netVars
<1>2. ASSUME NEW q \in Ports, Reconfigure(q)
      PROVE  TypeOK'
  BY <1>2 DEF TypeOK, Reconfigure, uiVars, serverVars, netVars, kernelVars
<1>3. ASSUME NEW x \in Strangers, StrangerOpen(x) \/ StrangerClose(x)
      PROVE  TypeOK'
  BY <1>3 DEF TypeOK, StrangerOpen, StrangerClose, configVars, uiVars,
              serverVars, netVars
<1> QED
  BY <1>1, <1>2, <1>3 DEF Environment

LEMMA StutterType == TypeOK /\ UNCHANGED vars => TypeOK'
BY DEF TypeOK, vars, configVars, uiVars, serverVars, netVars, kernelVars
-----------------------------------------------------------------------------
(* The inductive invariant: who owns the descriptor, what the thread may   *)
(* hold, and when there is a thread at all.                                *)

(* A socket the table names is the server's, and open until close().       *)
OneDescriptor ==
  /\ \A n \in Fds : table[n] \in Socks => n = fd
  /\ fd # NoFd /\ ui # "forget" => fd \in Fds /\ table[fd] \in Socks
  /\ ui = "forget" => \A n \in Fds : table[n] \notin Socks
  /\ ui \in {"join", "open", "gone"} => fd = NoFd

(* Only a blocked recvfrom() holds a socket, and only push works on msgs.  *)
ThreadLocals ==
  /\ LoadedFd
  /\ held # Free => net = "blocked"
  /\ net # "push" => msgs = <<>>
  /\ ui # "dispatch" => batch = <<>>

(* thread_ is joinable exactly as long as a thread is left to join.        *)
ThreadOwned ==
  /\ joinable <=> net # "none"
  /\ running => net \notin {"none", "done"}
  /\ ui \in {"open", "spawn", "gone"} => ~joinable

(* serverOk and the port, from the bind() to the next frame.               *)
Listening ==
  /\ ui = "spawn" => fd \in Fds /\ bound[table[fd]] = listenPort
  /\ serverOk /\ ui \in {"drain", "dispatch", "idle"} =>
       /\ fd \in Fds
       /\ running
       /\ ~configDirty => bound[table[fd]] = listenPort

Inv == /\ TypeOK
       /\ OneDescriptor
       /\ ThreadLocals
       /\ ThreadOwned
       /\ Listening
       /\ CurrentSocketOnly

LEMMA NotFree == Free \notin Socks /\ -1 \notin Fds
BY ReceivePathAssumption

LEMMA InitInv == Init => Inv
<1> SUFFICES ASSUME Init PROVE Inv
  OBVIOUS
<1>1. TypeOK
  BY InitType
<1> QED
  BY <1>1, NotFree
     DEF Init, Inv, OneDescriptor, ThreadLocals, LoadedFd, ThreadOwned,
         Listening, CurrentSocketOnly

LEMMA UiInv ==
  ASSUME Inv, UiStep \/ UiDestroy
  PROVE  Inv'
<1>0. TypeOK /\ TypeOK'
  BY UiType DEF Inv
<1> USE NotFree DEF Inv, OneDescriptor, ThreadLocals, LoadedFd, ThreadOwned,
                    Listening, CurrentSocketOnly
<1>1. CASE UiFrame
  BY <1>0, <1>1 DEF UiFrame, configVars, serverVars, netVars, kernelVars, TypeOK
<1>2. CASE UiDestroy
  BY <1>0, <1>2 DEF UiDestroy, configVars, serverVars, netVars, kernelVars
<1>3. CASE UiStop
  BY <1>0, <1>3 DEF UiStop, configVars, netVars, kernelVars
<1>4. CASE UiClose
  BY <1>0, <1>4 DEF UiClose, configVars, serverVars, netVars, TypeOK
<1>5. CASE UiForget
  BY <1>0, <1>5 DEF UiForget, configVars, netVars, kernelVars
<1>6. CASE UiJoin
  BY <1>0, <1>6 DEF UiJoin, configVars, kernelVars
<1>7. CASE UiOpen
  <2>1. CASE ui' = "drain"
    BY <1>0, <1>7, <2>1 DEF UiOpen, netVars, kernelVars
  <2>2. CASE ui' # "drain"
    <3>1. PICK s \in Socks, n \in Fds :
            /\ table' = [table EXCEPT ![n] = s]
            /\ bound'[s] = listenPort
            /\ fd' = n /\ serverOk' = TRUE /\ ui' = "spawn"
      BY <1>7, <2>2 DEF UiOpen
    <3>2. /\ ui = "open" /\ fd = NoFd
          /\ ~joinable /\ joinable' = joinable /\ listenPort' = listenPort
          /\ UNCHANGED <<running, batch, net, h, held, msgs>>
      BY <1>7 DEF UiOpen, netVars
    <3>3. table'[n] = s /\ \A k \in Fds \ {n} : table'[k] = table[k]
      BY <1>0, <3>1 DEF TypeOK
    <3>4. \A k \in Fds : table[k] \notin Socks
      BY <3>2
    <3>5. OneDescriptor'
      BY <3>1, <3>3, <3>4
    <3>6. ThreadLocals' /\ ThreadOwned' /\ CurrentSocketOnly'
      BY <3>1, <3>2
    <3>7. Listening'
      BY <3>1, <3>2, <3>3
    <3> QED
      BY <1>0, <3>5, <3>6, <3>7
  <2> QED
    BY <2>1, <2>2
<1>8. CASE UiSpawn
  BY <1>0, <1>8 DEF UiSpawn, configVars, kernelVars
<1>9. CASE UiDrain
  BY <1>0, <1>9 DEF UiDrain, configVars, serverVars, netVars, kernelVars
<1>10. CASE UiDispatch
  BY <1>0, <1>10 DEF UiDispatch, configVars, serverVars, netVars, kernelVars
<1>11. CASE UiFrameEnd
  BY <1>0, <1>11 DEF UiFrameEnd, configVars, serverVars, netVars, kernelVars
<1> QED
  BY <1>1, <1>2, <1>3, <1>4, <1>5, <1>6, <1>7, <1>8, <1>9, <1>10, <1>11
     DEF UiStep

LEMMA NetInv ==
  ASSUME Inv, NetStep \/ NetReceiveForeign
  PROVE  Inv'
<1>0. TypeOK /\ TypeOK'
  BY NetType DEF Inv, ThreadLocals
<1> USE NotFree DEF Inv, OneDescriptor, ThreadLocals, LoadedFd, ThreadOwned,
                    Listening, CurrentSocketOnly
<1>1. CASE NetCheck
  BY <1>0, <1>1 DEF NetCheck, configVars, uiVars, serverVars, kernelVars
<1>2. CASE NetLoad
  BY <1>0, <1>2 DEF NetLoad, configVars, uiVars, serverVars, kernelVars, TypeOK
<1>3. CASE NetEnterRecv
  BY <1>0, <1>3 DEF NetEnterRecv, configVars, uiVars, serverVars, kernelVars
<1>4. CASE NetReceive
  BY <1>0, <1>4 DEF NetReceive, configVars, uiVars, serverVars
<1>5. CASE NetReceiveForeign
  BY <1>0, <1>5 DEF NetReceiveForeign, configVars, uiVars, serverVars,
                    kernelVars
<1>6. CASE NetTimeout
  BY <1>0, <1>6 DEF NetTimeout, configVars, uiVars, serverVars, kernelVars
<1>7. CASE NetFailed
  BY <1>0, <1>7 DEF NetFailed, configVars, uiVars, serverVars, kernelVars
<1>8. CASE NetPush
  BY <1>0, <1>8 DEF NetPush, configVars, uiVars, serverVars, kernelVars
<1>9. CASE NetPushed
  BY <1>0, <1>9 DEF NetPushed, configVars, uiVars, serverVars, kernelVars
<1> QED
  BY <1>1, <1>2, <1>3, <1>4, <1>5, <1>6, <1>7, <1>8, <1>9 DEF NetStep

LEMMA EnvironmentInv ==
  ASSUME Inv, Environment
  PROVE  Inv'
<1>0. TypeOK /\ TypeOK'
  BY EnvironmentType DEF Inv
<1> USE NotFree DEF Inv, OneDescriptor, ThreadLocals, LoadedFd, ThreadOwned,
                    Listening, CurrentSocketOnly
<1>1. ASSUME NEW p \in Packets, NEW q \in Ports, ClientSend(p, q)
      PROVE  Inv'
  BY <1>0, <1>1 DEF ClientSend, configVars, uiVars, serverVars, netVars
<1>2. ASSUME NEW q \in Ports, Reconfigure(q)
      PROVE  Inv'
  BY <1>0, <1>2 DEF Reconfigure, uiVars, serverVars, netVars, kernelVars
<1>3. ASSUME NEW x \in Strangers, NEW n \in Fds, NEW y \in {x, Free},
             table[n] \notin Socks, table' = [table EXCEPT ![n] = y],
             UNCHANGED <<configVars, uiVars, serverVars, netVars, queue, bound,
                         inbox, sent, applied>>
      PROVE  Inv'
  <2>1. y \notin Socks
    BY ReceivePathAssumption
  <2>2. \A k \in Fds : table'[k] = IF k = n THEN y ELSE table[k]
    BY <1>0, <1>3 DEF TypeOK
  <2>3. \A k \in Fds : table[k] \in Socks \/ table'[k] \in Socks =>
                         table'[k] = table[k]
    BY <1>3, <2>1, <2>2
  <2>4. UNCHANGED <<listenPort, configDirty, serverOk, ui, batch, running,
                    joinable, fd, net, h, held, msgs, bound>>
    BY <1>3 DEF configVars, uiVars, serverVars, netVars
  <2>5. fd \in Fds /\ ui # "forget" => table'[fd] = table[fd]
    BY <2>3
  <2>6. OneDescriptor'
    BY <2>3, <2>4, <2>5
  <2>7. ThreadLocals' /\ ThreadOwned'
    BY <2>4
  <2>8. Listening' /\ CurrentSocketOnly'
    BY <2>4, <2>5
  <2> QED
    BY <1>0, <2>6, <2>7, <2>8
<1>4. ASSUME NEW x \in Strangers, StrangerOpen(x)
      PROVE  Inv'
  BY <1>3, <1>4 DEF StrangerOpen, LowestFree
<1>5. ASSUME NEW x \in Strangers, StrangerClose(x)
      PROVE  Inv'
  BY <1>3, <1>5, ReceivePathAssumption DEF StrangerClose
<1> QED
  BY <1>1, <1>2, <1>4, <1>5 DEF Environment

LEMMA StutterInv == Inv /\ UNCHANGED vars => Inv'
<1> SUFFICES ASSUME Inv, UNCHANGED vars PROVE Inv'
  OBVIOUS
<1>1. TypeOK'
  BY StutterType DEF Inv
<1> QED
  BY <1>1 DEF Inv, OneDescriptor, ThreadLocals, LoadedFd, ThreadOwned, Listening,
         CurrentSocketOnly, vars, configVars, uiVars, serverVars, netVars,
         kernelVars

(* The invariant holds in every reachable state of the receive path.       *)
THEOREM Invariance == Spec => []Inv
<1>1. Init => Inv
  BY InitInv
<1>2. Inv /\ [Next]_vars => Inv'
  BY UiInv, NetInv, EnvironmentInv, StutterInv DEF Next, Rest
<1> QED
  BY <1>1, <1>2, PTL DEF Spec

(* Every variable keeps its type, whatever the threads interleave.         *)
THEOREM TypeCorrect == Spec => []TypeOK
BY Invariance, PTL DEF Inv

(* No start() overlaps what is left of the previous thread or socket, and  *)
(* the queue outlives the thread that pushes on it.                        *)
THEOREM RestartIsClean == Spec => []CleanRestart
<1>1. Inv => CleanRestart
  BY NotFree DEF Inv, OneDescriptor, ThreadLocals, ThreadOwned, CleanRestart,
                 Live, Opened
<1> QED
  BY <1>1, Invariance, PTL

(* Outside close(), the receive thread waits on the server's own socket.   *)
THEOREM SocketIsCurrent == Spec => []CurrentSocketOnly
BY Invariance, PTL DEF Inv

(* A panel that says "listening" with no restart pending tells the truth.  *)
THEOREM StatusIsHonest == Spec => []StatusHonest
<1>1. Inv => StatusHonest
  BY NotFree DEF Inv, OneDescriptor, ThreadOwned, Listening, StatusHonest
<1> QED
  BY <1>1, Invariance, PTL
-----------------------------------------------------------------------------
(* Refinement of CommandStream *)

LEMMA PipeQueueDrained ==
  ASSUME NEW q \in Seq(Msgs), NEW m \in Seq(Msgs)
  PROVE  <<>> \o q \o m = q \o <<>> \o m
BY ConcatEmptySeq

LEMMA Associative ==
  \A x, y, z \in Seq(Msgs) : x \o y \o z = x \o (y \o z)
BY ConcatAssociative

LEMMA PipePush ==
  ASSUME NEW b \in Seq(Msgs), NEW q \in Seq(Msgs), NEW m \in Seq(Msgs),
         m # <<>>
  PROVE  b \o q \o m = b \o Append(q, Head(m)) \o Tail(m)
<1>1. /\ Head(m) \in Msgs /\ Tail(m) \in Seq(Msgs)
      /\ <<Head(m)>> \in Seq(Msgs)
  BY HeadTailProperties
<1>2. m = <<Head(m)>> \o Tail(m)
  <2>1. /\ Len(<<Head(m)>>) = 1 /\ <<Head(m)>>[1] = Head(m)
        /\ Head(m) = m[1]
    OBVIOUS
  <2>2. /\ Len(Tail(m)) = Len(m) - 1
        /\ \A i \in 1 .. Len(Tail(m)) : Tail(m)[i] = m[i+1]
        /\ Len(m) \in Nat
    BY HeadTailProperties, LenProperties
  <2>3. /\ <<Head(m)>> \o Tail(m) \in Seq(Msgs)
        /\ Len(<<Head(m)>> \o Tail(m)) = Len(m)
        /\ \A i \in 1 .. Len(m) : (<<Head(m)>> \o Tail(m))[i] =
              IF i <= 1 THEN <<Head(m)>>[i] ELSE Tail(m)[i - 1]
    BY <1>1, <2>1, <2>2, ConcatProperties
  <2>4. \A i \in 1 .. Len(m) : m[i] = (<<Head(m)>> \o Tail(m))[i]
    BY <2>1, <2>2, <2>3
  <2> QED
    BY <2>3, <2>4, SeqEqual
<1>3. Append(q, Head(m)) = q \o <<Head(m)>>
  BY <1>1, AppendIsConcat
<1>4. q \o m = (q \o <<Head(m)>>) \o Tail(m)
  BY <1>1, <1>2, ConcatAssociative
<1>5. b \o q \o m = b \o (q \o m)
  BY ConcatAssociative
<1>6. b \o Append(q, Head(m)) \o Tail(m) = b \o (Append(q, Head(m)) \o Tail(m))
  <2>1. Append(q, Head(m)) \in Seq(Msgs)
    BY <1>1, AppendProperties
  <2> QED
    BY <1>1, <2>1, Associative, Zenon
<1> QED
  BY <1>3, <1>4, <1>5, <1>6

LEMMA PipeApply ==
  ASSUME NEW b \in Seq(Msgs), NEW q \in Seq(Msgs), NEW m \in Seq(Msgs),
         b # <<>>
  PROVE  /\ b \o q \o m # <<>>
         /\ Head(b \o q \o m) = Head(b)
         /\ Tail(b \o q \o m) = Tail(b) \o q \o m
<1> DEFINE r == q \o m
           t == Tail(b)
<1>1. r \in Seq(Msgs) /\ b \o r = b \o q \o m
  BY ConcatProperties, ConcatAssociative
<1>2. /\ t \in Seq(Msgs) /\ Len(t) = Len(b) - 1
      /\ \A i \in 1 .. Len(t) : t[i] = b[i+1]
      /\ Len(b) \in Nat \ {0} /\ Len(r) \in Nat /\ Head(b) = b[1]
  BY <1>1, HeadTailProperties, EmptySeq, LenProperties
<1>3. t \o r = t \o q \o m
  BY <1>2, ConcatAssociative
<1> HIDE DEF r, t
<1>4. /\ b \o r \in Seq(Msgs) /\ Len(b \o r) = Len(b) + Len(r)
      /\ \A i \in 1 .. Len(b) + Len(r) :
           (b \o r)[i] = IF i <= Len(b) THEN b[i] ELSE r[i - Len(b)]
  BY <1>1, ConcatProperties
<1>5. b \o r # <<>> /\ Head(b \o r) = Head(b)
  BY <1>2, <1>4
<1>6. /\ Tail(b \o r) \in Seq(Msgs) /\ Len(Tail(b \o r)) = Len(b) + Len(r) - 1
      /\ \A i \in 1 .. Len(Tail(b \o r)) : Tail(b \o r)[i] = (b \o r)[i+1]
  BY <1>4, <1>5, HeadTailProperties
<1>7. /\ t \o r \in Seq(Msgs) /\ Len(t \o r) = Len(t) + Len(r)
      /\ \A i \in 1 .. Len(t) + Len(r) :
           (t \o r)[i] = IF i <= Len(t) THEN t[i] ELSE r[i - Len(t)]
  BY <1>1, <1>2, ConcatProperties
<1>8. \A i \in 1 .. Len(t \o r) : Tail(b \o r)[i] = (t \o r)[i]
  <2> TAKE i \in 1 .. Len(t \o r)
  <2>1. Tail(b \o r)[i] = IF i + 1 <= Len(b) THEN b[i+1] ELSE r[i + 1 - Len(b)]
    BY <1>2, <1>4, <1>6, <1>7
  <2>2. (t \o r)[i] = IF i <= Len(t) THEN t[i] ELSE r[i - Len(t)]
    BY <1>7
  <2>3. i + 1 - Len(b) = i - Len(t)
    BY <1>2
  <2> QED
    BY <1>2, <2>1, <2>2, <2>3
<1>9. Tail(b \o r) = t \o r
  BY <1>2, <1>6, <1>7, <1>8, SeqEqual
<1> QED
  BY <1>1, <1>3, <1>5, <1>9 DEF t

(* A step that leaves the stream's variables alone is a stutter.           *)
LEMMA Stutters ==
  ASSUME UNCHANGED <<inbox, applied, batch, queue, msgs, held>>,
         ui' = "gone" <=> ui = "gone"
  PROVE  UNCHANGED Stream!streamVars
BY DEF Stream!streamVars

LEMMA NotStranger ==
  /\ Free \notin Strangers
  /\ \A s \in Socks : s \notin Strangers
BY ReceivePathAssumption

LEMMA NetRefines ==
  ASSUME Inv, NetStep \/ NetReceiveForeign
  PROVE  [Stream!Next]_(Stream!streamVars)
<1> USE DEF configVars, uiVars, serverVars, kernelVars
<1>0. /\ batch \in Seq(Msgs) /\ queue \in Seq(Msgs) /\ msgs \in Seq(Msgs)
      /\ inbox \in [Socks -> Seq(Packets)]
  BY DEF Inv, TypeOK
<1>1. CASE NetReceive
  <2>1. /\ held \in Socks /\ inbox[held] # <<>>
        /\ inbox' = [inbox EXCEPT ![held] = Tail(@)]
        /\ msgs' = Parsed(Head(inbox[held]))
        /\ held' = Free
        /\ UNCHANGED <<batch, queue, ui, applied>>
    BY <1>1 DEF NetReceive
  <2>2. msgs = <<>> /\ ui # "gone"
    BY <1>1 DEF NetReceive, Inv, ThreadLocals, ThreadOwned
  <2>3. batch \o queue \in Seq(Msgs)
    BY <1>0, ConcatProperties
  <2>4. batch \o queue \o msgs = batch \o queue
    BY <2>2, <2>3, ConcatEmptySeq
  <2>5. (batch \o queue \o msgs)' = batch \o queue \o Parsed(Head(inbox[held]))
    BY <2>1
  <2>6. Stream!Messages(Head(inbox[held])) = Parsed(Head(inbox[held]))
    BY DEF Parsed, Stream!Messages
  <2>7. Stream!Accept(held)
    BY <2>1, <2>2, <2>4, <2>5, <2>6, NotStranger DEF Stream!Accept
  <2> QED
    BY <2>1, <2>7 DEF Stream!Next
<1>2. CASE NetPush
  <2>1. /\ msgs # <<>>
        /\ queue' = Append(queue, Head(msgs)) /\ msgs' = Tail(msgs)
        /\ UNCHANGED <<batch, ui, applied, inbox, held>>
    BY <1>2 DEF NetPush
  <2>2. (batch \o queue \o msgs)'
          = batch \o Append(queue, Head(msgs)) \o Tail(msgs)
    BY <2>1
  <2>3. (batch \o queue \o msgs)' = batch \o queue \o msgs
    BY <1>0, <2>1, <2>2, PipePush
  <2> QED
    BY <2>1, <2>3 DEF Stream!streamVars
<1>3. CASE NetEnterRecv
  <2>1. /\ held = Free
        /\ UNCHANGED <<inbox, applied, batch, queue, msgs, ui>>
    BY <1>3 DEF NetEnterRecv, Inv, ThreadLocals
  <2>2. CASE held' \in Strangers
    <3>1. Stream!GoAstray
      BY <2>1, <2>2, NotStranger DEF Stream!GoAstray
    <3> QED
      BY <3>1 DEF Stream!Next
  <2>3. CASE held' \notin Strangers
    BY <2>1, <2>3, NotStranger DEF Stream!streamVars
  <2> QED
    BY <2>2, <2>3
<1>4. CASE NetReceiveForeign
  <2>1. /\ held \in Strangers /\ held' = Free
        /\ UNCHANGED <<batch, queue, ui, applied, inbox>>
    BY <1>4 DEF NetReceiveForeign
  <2>2. msgs = <<>> /\ ui # "gone"
    BY <1>4 DEF NetReceiveForeign, Inv, ThreadLocals, ThreadOwned
  <2>3. batch \o queue \in Seq(Msgs)
    BY <1>0, ConcatProperties
  <2>4. batch \o queue \o msgs = batch \o queue
    BY <2>2, <2>3, ConcatEmptySeq
  <2>5. (batch \o queue \o msgs)' = batch \o queue \o msgs'
    BY <2>1
  <2>6. \/ msgs' = <<>>
        \/ \E p \in Packets : msgs' = Stream!Messages(p)
    BY <1>4 DEF NetReceiveForeign, Parsed, Stream!Messages
  <2>7. Stream!Intrude
    BY <2>1, <2>2, <2>3, <2>4, <2>5, <2>6, NotStranger, ConcatEmptySeq
       DEF Stream!Intrude
  <2> QED
    BY <2>7 DEF Stream!Next
<1>5. CASE NetTimeout
  BY <1>5, NotStranger DEF NetTimeout, Stream!streamVars
<1>6. CASE NetCheck \/ NetLoad \/ NetFailed \/ NetPushed
  <2>1. UNCHANGED <<inbox, applied, batch, queue, msgs, held, ui>>
    BY <1>6 DEF NetCheck, NetLoad, NetFailed, NetPushed
  <2> QED
    BY <2>1, Stutters
<1> QED
  BY <1>1, <1>2, <1>3, <1>4, <1>5, <1>6 DEF NetStep

LEMMA UiRefines ==
  ASSUME Inv, UiStep \/ UiDestroy
  PROVE  [Stream!Next]_(Stream!streamVars)
<1> USE DEF configVars, serverVars, netVars
<1>0. /\ batch \in Seq(Msgs) /\ queue \in Seq(Msgs) /\ msgs \in Seq(Msgs)
      /\ <<>> \in Seq(Msgs)
  BY EmptySeq DEF Inv, TypeOK
<1>1. CASE UiJoin /\ quit
  <2>1. /\ ui = "join" /\ ui' = "gone" /\ queue' = <<>>
        /\ UNCHANGED <<batch, msgs, inbox, applied, held>>
    BY <1>1 DEF UiJoin, kernelVars
  <2>2. batch = <<>> /\ msgs = <<>>
    BY <1>1 DEF UiJoin, Inv, ThreadLocals, ThreadOwned
  <2>3. (batch \o queue \o msgs)' = <<>> \o <<>> \o <<>>
    BY <2>1, <2>2
  <2>4. (batch \o queue \o msgs)' = <<>>
    BY <1>0, <2>3, ConcatEmptySeq
  <2>5. Stream!Discard
    BY <2>1, <2>4 DEF Stream!Discard
  <2> QED
    BY <2>5 DEF Stream!Next
<1>2. CASE UiOpen
  <2>1. /\ UNCHANGED <<batch, queue, msgs, applied, held>>
        /\ ui # "gone" /\ ui' # "gone"
    BY <1>2 DEF UiOpen
  <2>2. CASE UNCHANGED inbox
    BY <2>1, <2>2, Stutters
  <2>3. CASE inbox' # inbox
    <3>1. inbox' = [k \in Socks |-> IF k \in Socks \ Live THEN <<>>
                                   ELSE inbox[k]]
      BY <1>2, <2>3 DEF UiOpen, kernelVars
    <3>2. Stream!Drop(Socks \ Live)
      BY <2>1, <3>1 DEF Stream!Drop
    <3>3. (Socks \ Live) \in SUBSET Socks
      OBVIOUS
    <3> QED
      BY <3>2, <3>3 DEF Stream!Next
  <2> QED
    BY <2>2, <2>3
<1>3. CASE UiDrain
  <2>1. /\ batch = <<>> /\ batch' = queue /\ queue' = <<>>
        /\ UNCHANGED <<msgs, inbox, applied, held>>
        /\ ui # "gone" /\ ui' # "gone"
    BY <1>3 DEF UiDrain, Inv, ThreadLocals, kernelVars
  <2>2. (batch \o queue \o msgs)' = queue \o <<>> \o msgs
    BY <2>1
  <2>3. (batch \o queue \o msgs)' = batch \o queue \o msgs
    BY <1>0, <2>1, <2>2, PipeQueueDrained
  <2> QED
    BY <2>1, <2>3 DEF Stream!streamVars
<1>4. CASE UiDispatch
  <2>1. /\ batch # <<>> /\ batch' = Tail(batch)
        /\ applied' = Append(applied, Head(batch))
        /\ UNCHANGED <<queue, msgs, inbox, ui, held>>
        /\ ui # "gone"
    BY <1>4 DEF UiDispatch, kernelVars
  <2>2. (batch \o queue \o msgs)' = Tail(batch) \o queue \o msgs
    BY <2>1
  <2>3. /\ batch \o queue \o msgs # <<>>
        /\ Head(batch \o queue \o msgs) = Head(batch)
        /\ Tail(batch \o queue \o msgs) = Tail(batch) \o queue \o msgs
    <3>1. /\ batch \in Seq(Msgs) /\ queue \in Seq(Msgs) /\ msgs \in Seq(Msgs)
          /\ batch # <<>>
      BY <1>0, <2>1
    <3> QED
      BY <3>1, PipeApply
  <2>4. Stream!Apply
    BY <2>1, <2>2, <2>3, Zenon DEF Stream!Apply
  <2> QED
    BY <2>4 DEF Stream!Next
<1>5. CASE UiDestroy \/ UiFrame \/ UiStop \/ UiClose \/ UiForget \/ UiSpawn
           \/ UiFrameEnd \/ (UiJoin /\ ~quit)
  <2>1. /\ UNCHANGED <<inbox, applied, batch, queue, msgs, held>>
        /\ ui # "gone" /\ ui' # "gone"
    BY <1>5 DEF UiDestroy, UiFrame, UiStop, UiClose, UiForget, UiSpawn,
                UiFrameEnd, UiJoin, kernelVars
  <2> QED
    BY <2>1, Stutters
<1> QED
  BY <1>1, <1>2, <1>3, <1>4, <1>5 DEF UiStep

LEMMA EnvironmentRefines ==
  ASSUME Inv, Environment
  PROVE  [Stream!Next]_(Stream!streamVars)
<1> USE DEF configVars, uiVars, serverVars, netVars, kernelVars
<1>1. ASSUME NEW p \in Packets, NEW q \in Ports, ClientSend(p, q)
      PROVE  [Stream!Next]_(Stream!streamVars)
  <2>1. UNCHANGED <<batch, queue, msgs, applied, ui, held>>
    BY <1>1 DEF ClientSend
  <2>2. CASE UNCHANGED inbox
    BY <2>1, <2>2, Stutters
  <2>3. CASE inbox' # inbox
    <3>1. PICK s \in Socks : inbox' = [inbox EXCEPT ![s] = Append(@, p)]
      BY <1>1, <2>3 DEF ClientSend, Live
    <3>2. Stream!Arrive(s, p)
      BY <2>1, <3>1 DEF Stream!Arrive
    <3> QED
      BY <3>2 DEF Stream!Next
  <2> QED
    BY <2>2, <2>3
<1>2. ASSUME NEW q \in Ports, Reconfigure(q)
      PROVE  [Stream!Next]_(Stream!streamVars)
  BY <1>2, Stutters DEF Reconfigure
<1>3. ASSUME NEW x \in Strangers, StrangerOpen(x) \/ StrangerClose(x)
      PROVE  [Stream!Next]_(Stream!streamVars)
  BY <1>3, Stutters DEF StrangerOpen, StrangerClose
<1> QED
  BY <1>1, <1>2, <1>3 DEF Environment

(* The threads, queue and socket of the receive path implement the stream  *)
(* of commands: accepted datagrams are applied whole, in order, once.      *)
THEOREM ReceivePathRefinesStream == Spec => StreamSpec
<1>1. Init => Stream!Init
  <2>0. <<>> \in Seq(Msgs)
    BY EmptySeq
  <2>1. <<>> \o <<>> \o <<>> = <<>>
    BY <2>0, ConcatEmptySeq
  <2> QED
    BY <2>1, NotStranger DEF Init, Stream!Init
<1>2. Inv /\ [Next]_vars => [Stream!Next]_(Stream!streamVars)
  <2> SUFFICES ASSUME Inv, [Next]_vars
               PROVE  [Stream!Next]_(Stream!streamVars)
    OBVIOUS
  <2>1. CASE UNCHANGED vars
    BY <2>1, Stutters DEF vars, uiVars, netVars, kernelVars
  <2> QED
    BY <2>1, NetRefines, UiRefines, EnvironmentRefines DEF Next, Rest
<1> QED
  BY <1>1, <1>2, Invariance, PTL DEF Spec, StreamSpec, Stream!Spec
=============================================================================
