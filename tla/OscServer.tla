----------------------------- MODULE OscServer -----------------------------
(***************************************************************************)
(* The OSC receive path: the network thread (OscServer::run), the UI       *)
(* thread that starts, stops and restarts it and drains its queue          *)
(* (OscController::processPending), the CommandQueue between them, and the *)
(* UdpSocket descriptor they share without a lock.                         *)
(*                                                                         *)
(* One action is one access to state another thread can see.  Descriptors  *)
(* are numbers in a process-wide table, as close() and recvfrom() see      *)
(* them: closing one frees the number, and the next thread of the process  *)
(* to open anything is handed that number.                                 *)
(***************************************************************************)
EXTENDS Integers, Sequences, Functions

CONSTANTS
  Packets,     \* datagrams a client may send, each at most once
  Malformed,   \* those on which OscMessage::parsePacket returns false
  Msgs,        \* OSC messages
  Body,        \* Body[p]: messages parsePacket has appended when it returns
  Ports,       \* ports the configuration may name
  Socks,       \* kernel socket objects
  Fds,         \* descriptor numbers free for the threads modelled here
  Strangers,   \* other threads of the process that open descriptors
  Free         \* table entry of an unused descriptor number

ASSUME ReceivePathAssumption ==
  /\ Malformed \subseteq Packets
  /\ Body \in [Packets -> Seq(Msgs)]
  /\ Ports # {}
  /\ Fds \subseteq Nat
  /\ Free \notin Socks \cup Strangers
  /\ Socks \cap Strangers = {}

NoFd == -1     \* fd_ of a closed UdpSocket

VARIABLES
  \* configuration, written by the menu and by dataFromJson
  listenPort, configDirty, serverOk,
  \* UI thread: program counter, ~OscController running, drained messages
  ui, quit, batch,
  \* OscServer and its UdpSocket; joinable: thread_.joinable()
  running, joinable, fd,
  \* network thread: program counter, the fd_ it loaded, the socket its
  \* recvfrom() holds, its local vector of parsed messages
  net, h, held, msgs,
  \* CommandQueue::queue_
  queue,
  \* kernel: descriptor table, port and receive buffer of each socket
  table, bound, inbox,
  \* environment and history: datagrams sent, messages dispatched
  sent, applied

configVars == <<listenPort, configDirty, serverOk>>
uiVars     == <<ui, quit, batch>>
serverVars == <<running, joinable, fd>>
netVars    == <<net, h, held, msgs>>
kernelVars == <<table, bound, inbox>>
vars == <<configVars, uiVars, serverVars, netVars, queue, kernelVars,
          sent, applied>>

UiPc  == {"idle", "stop", "close", "forget", "join", "open", "spawn",
          "drain", "dispatch", "gone"}
NetPc == {"none", "check", "load", "recv", "blocked", "failed", "push", "done"}

Unset == CHOOSE p \in Ports : TRUE

Opened(o) == \E n \in Fds : table[n] = o

(* Sockets the kernel keeps: one a descriptor names or a recvfrom() holds. *)
Live == {s \in Socks : Opened(s) \/ held = s}

LowestFree(n) ==
  /\ table[n] = Free
  /\ \A k \in Fds : table[k] = Free => n <= k

Init ==
  /\ listenPort \in Ports
  /\ configDirty = TRUE
  /\ serverOk = FALSE
  /\ ui = "idle" /\ quit = FALSE /\ batch = <<>>
  /\ running = FALSE /\ joinable = FALSE /\ fd = NoFd
  /\ net = "none" /\ h = NoFd /\ held = Free /\ msgs = <<>>
  /\ queue = <<>>
  /\ table = [n \in Fds |-> Free]
  /\ bound = [s \in Socks |-> Unset]
  /\ inbox = [s \in Socks |-> <<>>]
  /\ sent = {}
  /\ applied = <<>>
-----------------------------------------------------------------------------
(* Environment *)

(* A datagram to port q reaches a socket bound there, or is lost.          *)
ClientSend(p, q) ==
  /\ p \notin sent
  /\ sent' = sent \cup {p}
  /\ \/ UNCHANGED inbox
     \/ \E s \in Live :
          /\ bound[s] = q
          /\ inbox' = [inbox EXCEPT ![s] = Append(@, p)]
  /\ UNCHANGED <<configVars, uiVars, serverVars, netVars, queue, table, bound,
                 applied>>

(* Variant: a menu entry that forgets requestRestart().                    *)
ReconfigureQuietly(q) ==
  /\ ui \in {"idle", "dispatch"}
  /\ listenPort' = q
  /\ UNCHANGED <<configDirty, serverOk, uiVars, serverVars, netVars, queue,
                 kernelVars, sent, applied>>

(* A menu choice, or dataFromJson, on the UI thread: new port, then        *)
(* requestRestart().  Inside a dispatch it is a preset loaded on the       *)
(* controller itself.                                                      *)
Reconfigure(q) ==
  /\ ui \in {"idle", "dispatch"}
  /\ listenPort' = q
  /\ configDirty' = TRUE
  /\ UNCHANGED <<serverOk, uiVars, serverVars, netVars, queue, kernelVars,
                 sent, applied>>

StrangerOpen(x) ==
  /\ ~Opened(x)
  /\ \E n \in Fds : LowestFree(n) /\ table' = [table EXCEPT ![n] = x]
  /\ UNCHANGED <<configVars, uiVars, serverVars, netVars, queue, bound, inbox,
                 sent, applied>>

StrangerClose(x) ==
  /\ \E n \in Fds : table[n] = x /\ table' = [table EXCEPT ![n] = Free]
  /\ UNCHANGED <<configVars, uiVars, serverVars, netVars, queue, bound, inbox,
                 sent, applied>>
-----------------------------------------------------------------------------
(* UI thread *)

(* processPending: configDirty.exchange(false), then restartServer().      *)
UiFrame ==
  /\ ui = "idle"
  /\ configDirty' = FALSE
  /\ ui' = IF configDirty THEN "stop" ELSE "drain"
  /\ UNCHANGED <<listenPort, serverOk, quit, batch, serverVars, netVars,
                 queue, kernelVars, sent, applied>>

(* ~OscController, when the user deletes the module.                       *)
UiDestroy ==
  /\ ui = "idle"
  /\ quit' = TRUE
  /\ ui' = "stop"
  /\ UNCHANGED <<configVars, batch, serverVars, netVars, queue, kernelVars,
                 sent, applied>>

(* OscServer::stop.  The early return of a server that is neither running  *)
(* nor joinable closes its socket as the long path does and joins nothing. *)
UiStop ==
  /\ ui = "stop"
  /\ running' = FALSE
  /\ ui' = "close"
  /\ UNCHANGED <<configVars, quit, batch, joinable, fd, netVars, queue,
                 kernelVars, sent, applied>>

(* Variant: fd_ is forgotten and its descriptor never closed.              *)
UiCloseLeaks ==
  /\ ui = "close"
  /\ ui' = IF fd = NoFd THEN "join" ELSE "forget"
  /\ UNCHANGED <<configVars, quit, batch, serverVars, netVars, queue,
                 kernelVars, sent, applied>>

(* UdpSocket::close: the descriptor is released before fd_ says so.        *)
UiClose ==
  /\ ui = "close"
  /\ IF fd = NoFd
     THEN /\ ui' = "join"
          /\ UNCHANGED table
     ELSE /\ ui' = "forget"
          /\ table' = [table EXCEPT ![fd] = Free]
  /\ UNCHANGED <<configVars, quit, batch, serverVars, netVars, queue, bound,
                 inbox, sent, applied>>

UiForget ==
  /\ ui = "forget"
  /\ fd' = NoFd
  /\ ui' = "join"
  /\ UNCHANGED <<configVars, quit, batch, running, joinable, netVars, queue,
                 kernelVars, sent, applied>>

(* Variant: thread_.detach() in place of join().                           *)
UiJoinDetaches ==
  /\ ui = "join"
  /\ joinable' = FALSE
  /\ ui' = IF quit THEN "gone" ELSE "open"
  /\ queue' = IF quit THEN <<>> ELSE queue
  /\ UNCHANGED <<configVars, quit, batch, running, fd, netVars, kernelVars,
                 sent, applied>>

(* thread_.join(); after ~OscController the queue's memory is gone too.    *)
UiJoin ==
  /\ ui = "join"
  /\ joinable => net = "done"
  /\ joinable' = FALSE
  /\ net' = IF joinable THEN "none" ELSE net
  /\ ui' = IF quit THEN "gone" ELSE "open"
  /\ queue' = IF quit THEN <<>> ELSE queue
  /\ UNCHANGED <<configVars, quit, batch, running, fd, h, held, msgs,
                 kernelVars, sent, applied>>

(* UdpSocket::open(listenPort, bind): socket() or bind() may fail.  What a *)
(* socket that no longer exists was bound to and had received is forgotten.*)
UiOpen ==
  /\ ui = "open"
  /\ \/ /\ serverOk' = FALSE
        /\ ui' = "drain"
        /\ UNCHANGED <<fd, kernelVars>>
     \/ \E s \in Socks \ Live, n \in Fds :
          /\ LowestFree(n)
          /\ table' = [table EXCEPT ![n] = s]
          /\ bound' = [k \in Socks |-> IF k = s THEN listenPort
                                       ELSE IF k \in Live THEN bound[k]
                                       ELSE Unset]
          /\ inbox' = [k \in Socks |-> IF k \in Live THEN inbox[k] ELSE <<>>]
          /\ fd' = n
          /\ serverOk' = TRUE
          /\ ui' = "spawn"
  /\ UNCHANGED <<listenPort, configDirty, quit, batch, running, joinable,
                 netVars, queue, sent, applied>>

(* OscServer::start: running_ is set and the receive thread created.       *)
UiSpawn ==
  /\ ui = "spawn"
  /\ running' = TRUE
  /\ joinable' = TRUE
  /\ net' = "check"
  /\ ui' = "drain"
  /\ UNCHANGED <<configVars, quit, batch, fd, h, held, msgs, queue,
                 kernelVars, sent, applied>>

(* Variants: the queue is copied and not cleared; one message a frame is   *)
(* taken and the others are cleared.                                       *)
UiDrainCopies ==
  /\ ui = "drain"
  /\ batch' = queue
  /\ ui' = "dispatch"
  /\ UNCHANGED <<configVars, quit, serverVars, netVars, queue, kernelVars,
                 sent, applied>>

UiDrainOne ==
  /\ ui = "drain"
  /\ batch' = IF queue = <<>> THEN <<>> ELSE <<Head(queue)>>
  /\ queue' = <<>>
  /\ ui' = "dispatch"
  /\ UNCHANGED <<configVars, quit, serverVars, netVars, kernelVars, sent,
                 applied>>

(* CommandQueue::drain, under the queue's mutex.                           *)
UiDrain ==
  /\ ui = "drain"
  /\ batch' = queue
  /\ queue' = <<>>
  /\ ui' = "dispatch"
  /\ UNCHANGED <<configVars, quit, serverVars, netVars, kernelVars, sent,
                 applied>>

UiDispatch ==
  /\ ui = "dispatch"
  /\ batch # <<>>
  /\ applied' = Append(applied, Head(batch))
  /\ batch' = Tail(batch)
  /\ UNCHANGED <<configVars, ui, quit, serverVars, netVars, queue, kernelVars,
                 sent>>

UiFrameEnd ==
  /\ ui = "dispatch"
  /\ batch = <<>>
  /\ ui' = "idle"
  /\ UNCHANGED <<configVars, quit, batch, serverVars, netVars, queue,
                 kernelVars, sent, applied>>
-----------------------------------------------------------------------------
(* Network thread: OscServer::run *)

NetCheck ==
  /\ net = "check"
  /\ net' = IF running THEN "load" ELSE "done"
  /\ UNCHANGED <<configVars, uiVars, serverVars, h, held, msgs, queue,
                 kernelVars, sent, applied>>

(* UdpSocket::recv reads fd_, a plain int the UI thread may be writing.    *)
(* The race has two outcomes, the old descriptor or -1; a build that reads *)
(* it again for the call gets -1, and the EBADF of NetEnterRecv below.     *)
NetLoad ==
  /\ net = "load"
  /\ h' = fd
  /\ net' = IF fd = NoFd THEN "failed" ELSE "recv"
  /\ UNCHANGED <<configVars, uiVars, serverVars, held, msgs, queue,
                 kernelVars, sent, applied>>

(* recvfrom(h) finds whatever the number names by now; the loaded value is *)
(* not used again.                                                         *)
NetEnterRecv ==
  /\ net = "recv"
  /\ h' = NoFd
  /\ held' = table[h]
  /\ net' = IF table[h] = Free THEN "failed" ELSE "blocked"
  /\ UNCHANGED <<configVars, uiVars, serverVars, msgs, queue, kernelVars, sent,
                 applied>>

(* Variants: the result of parsePacket is ignored; the message it was in   *)
(* the middle of is kept too, the packet standing for what it holds.       *)
ParsedPartly(p) == Body[p]
ParsedWithRest(p) == IF p \in Malformed THEN Append(Body[p], p) ELSE Body[p]

(* parsePacket fills a local vector that is dropped when it returns false. *)
Parsed(p) == IF p \in Malformed THEN <<>> ELSE Body[p]

NetReceive ==
  /\ net = "blocked"
  /\ held \in Socks
  /\ inbox[held] # <<>>
  /\ msgs' = Parsed(Head(inbox[held]))
  /\ inbox' = [inbox EXCEPT ![held] = Tail(@)]
  /\ held' = Free
  /\ net' = "push"
  /\ UNCHANGED <<configVars, uiVars, serverVars, h, queue, table, bound, sent,
                 applied>>

(* Bytes of another descriptor are parsed like any others: they are no OSC *)
(* packet, or a datagram that was meant for that thread.                   *)
NetReceiveForeign ==
  /\ net = "blocked"
  /\ held \in Strangers
  /\ \/ msgs' = <<>> /\ UNCHANGED sent
     \/ \E p \in Packets \ sent : msgs' = Parsed(p) /\ sent' = sent \cup {p}
  /\ held' = Free
  /\ net' = "push"
  /\ UNCHANGED <<configVars, uiVars, serverVars, h, queue, kernelVars, applied>>

(* recvfrom() returns -1: the 200 ms timeout, or a socket closed under it. *)
NetTimeout ==
  /\ net = "blocked"
  /\ held \in Socks
  /\ inbox[held] = <<>> \/ ~Opened(held)
  /\ held' = Free
  /\ net' = "failed"
  /\ UNCHANGED <<configVars, uiVars, serverVars, h, msgs, queue, kernelVars,
                 sent, applied>>

(* Variant: an error retries the receive without a look at running_.       *)
NetFailedRetries ==
  /\ net = "failed"
  /\ net' = "load"
  /\ UNCHANGED <<configVars, uiVars, serverVars, h, held, msgs, queue,
                 kernelVars, sent, applied>>

NetFailed ==
  /\ net = "failed"
  /\ net' = IF running THEN "check" ELSE "done"
  /\ UNCHANGED <<configVars, uiVars, serverVars, h, held, msgs, queue,
                 kernelVars, sent, applied>>

(* CommandQueue::push, one lock acquisition per message.                   *)
NetPush ==
  /\ net = "push"
  /\ msgs # <<>>
  /\ queue' = Append(queue, Head(msgs))
  /\ msgs' = Tail(msgs)
  /\ UNCHANGED <<configVars, uiVars, serverVars, net, h, held, kernelVars,
                 sent, applied>>

NetPushed ==
  /\ net = "push"
  /\ msgs = <<>>
  /\ net' = "check"
  /\ UNCHANGED <<configVars, uiVars, serverVars, h, held, msgs, queue,
                 kernelVars, sent, applied>>
-----------------------------------------------------------------------------
UiStep ==
  \/ UiFrame \/ UiStop \/ UiClose \/ UiForget \/ UiJoin \/ UiOpen \/ UiSpawn
  \/ UiDrain \/ UiDispatch \/ UiFrameEnd

NetStep ==
  \/ NetCheck \/ NetLoad \/ NetEnterRecv \/ NetReceive \/ NetTimeout
  \/ NetFailed \/ NetPush \/ NetPushed

Environment ==
  \/ \E p \in Packets, q \in Ports : ClientSend(p, q)
  \/ \E q \in Ports : Reconfigure(q)
  \/ \E x \in Strangers : StrangerOpen(x) \/ StrangerClose(x)

(* The module is gone and every client has fallen silent.                  *)
Rest ==
  /\ ui = "gone"
  /\ sent = Packets
  /\ UNCHANGED vars

Next == UiStep \/ UiDestroy \/ NetStep \/ NetReceiveForeign \/ Environment \/ Rest

Spec == Init /\ [][Next]_vars

(* Rack draws frames for ever and the OS schedules the thread; recvfrom()  *)
(* returns because setRecvTimeout bounded it.  Nothing obliges the user,   *)
(* the clients or the other threads of the process.                        *)
FairSpec == Spec /\ WF_vars(UiStep) /\ WF_vars(NetStep)
-----------------------------------------------------------------------------
(* Properties *)

(* The variables keep the types of the C++ members they stand for.         *)
TypeOK ==
  /\ listenPort \in Ports /\ configDirty \in BOOLEAN /\ serverOk \in BOOLEAN
  /\ ui \in UiPc /\ quit \in BOOLEAN /\ batch \in Seq(Msgs)
  /\ running \in BOOLEAN /\ joinable \in BOOLEAN /\ fd \in Fds \cup {NoFd}
  /\ net \in NetPc /\ h \in Fds \cup {NoFd}
  /\ held \in Socks \cup Strangers \cup {Free} /\ msgs \in Seq(Msgs)
  /\ queue \in Seq(Msgs)
  /\ table \in [Fds -> Socks \cup Strangers \cup {Free}]
  /\ bound \in [Socks -> Ports]
  /\ inbox \in [Socks -> Seq(Packets)]
  /\ sent \subseteq Packets
  /\ applied \in Seq(Msgs)

(* A restart opens its socket, creates its thread, or frees the queue only *)
(* once the previous receive thread is over and no socket of it survives:  *)
(* std::thread would otherwise terminate the process on assignment, two    *)
(* sockets would share the port, or the thread would push into freed       *)
(* memory (OscServer::start, OscServer::stop, ~OscController).             *)
CleanRestart ==
  /\ ui \in {"open", "spawn", "gone"} => net = "none" /\ ~joinable
  /\ ui \in {"open", "gone"} => Live = {}

(* Except while stop() is closing it, the socket the receive thread waits  *)
(* on is the one the server owns now: no datagram of a previous listen     *)
(* port is taken after a restart (UdpSocket::recv against close/open).     *)
CurrentSocketOnly ==
  held \in Socks /\ ui \notin {"forget", "join"} =>
    fd \in Fds /\ table[fd] = held

(* Between frames, a display that says "listening" with no restart pending *)
(* is true: the receive thread runs on a socket bound to the configured    *)
(* port (OscController::restartServer).                                    *)
StatusHonest ==
  ui = "idle" /\ serverOk /\ ~configDirty =>
    /\ fd \in Fds /\ table[fd] \in Socks /\ bound[table[fd]] = listenPort
    /\ running /\ net \notin {"none", "done"}

(* UdpSocket.hpp promises that recv() yields bytes of this socket or -1:   *)
(* the receive thread never reads another thread's descriptor.             *)
OwnDescriptorOnly == held \notin Strangers

Stream == INSTANCE CommandStream WITH
            Lanes <- Socks,
            lane  <- inbox,
            pipe  <- batch \o queue \o msgs,
            stray <- held \in Strangers,
            open  <- ui # "gone"

(* The receive path implements CommandStream: whole datagrams, in arrival  *)
(* order, nothing lost, doubled or reordered between the socket and the    *)
(* dispatcher, and nothing from elsewhere except what a receive on another *)
(* thread's descriptor yields (OscServer::run, CommandQueue,               *)
(* processPending).                                                        *)
StreamSpec == Stream!Spec

(* The receive thread waits on another thread's descriptor, on which       *)
(* setRecvTimeout set no timeout, while stop() waits for the receive thread.*)
Astray == ui = "join" /\ held \in Strangers

(* stop() returns: but for the descriptor reuse of OwnDescriptorOnly, the  *)
(* UI thread is not left waiting in join(), which would hang Rack when the *)
(* module is deleted (OscServer::stop).                                    *)
StopReturns == ui = "join" ~> ui # "join" \/ Astray

(* Every message pushed on the queue is dispatched, unless the module is   *)
(* deleted first or stop() does not return (CommandQueue, processPending). *)
PushedIsApplied ==
  \A m \in Msgs :
    (m \in Range(queue)) ~> (m \in Range(applied) \/ ui = "gone" \/ Astray)
=============================================================================
