----------------------------- MODULE HttpServer -----------------------------
(***************************************************************************)
(* OSCQuery over HTTP: the HTTP thread (HttpServer::run), the UI thread    *)
(* that rebuilds the cached namespace and starts and stops the server      *)
(* (OscController::restartServer), and the HTTP clients.                   *)
(*                                                                         *)
(* The OSC server of the same restart is OscServer.tla; here it is the     *)
(* closing of its socket and the outcome of its bind.                      *)
(*                                                                         *)
(* handlerSet and wsa are those of the Windows build, where the servers of *)
(* all the controllers of a patch count their use of Winsock together.     *)
(***************************************************************************)
EXTENDS Integers

CONSTANTS
  Clients,     \* HTTP clients, one connection at a time each
  Stallers,    \* those that may stop reading an answer
  Ports,       \* OSC ports the configuration may name
  NoPort,      \* no OSC endpoint
  NoClient,
  Refresh,     \* frames between two rebuilds of the namespace, 30
  MaxOthers,   \* bound: other controllers whose server listens
  MaxFailed    \* bound: starts of this server that fail

ASSUME HttpAssumption ==
  /\ Stallers \subseteq Clients
  /\ NoPort \notin Ports
  /\ NoClient \notin Clients
  /\ Refresh \in Nat \ {0}
  /\ MaxOthers \in Nat /\ MaxFailed \in Nat

VARIABLES
  \* configuration and status; endpoint: the port the OSC server is bound to
  listenPort, oscQueryEnabled, configDirty, endpoint, httpOk,
  \* oscQueryDoc: frames since it was built, and oscQueryTick
  age, oscQueryTick,
  \* UI thread
  ui, quit,
  \* HttpServer; listenFd: "open", "closed" (a stale number) or "none" (-1)
  running, joinable, listenFd,
  \* HTTP thread: program counter and accepted client
  srv, client,
  \* connections: "none", "queued", "open"; does the client read its answer
  conn, reads,
  \* handler_ is set; g_httpWsa and the references WSAStartup gave for it;
  \* other controllers' servers, and failed starts of this one
  handlerSet, wsa, others, failed

configVars == <<listenPort, oscQueryEnabled, configDirty, endpoint, httpOk>>
docVars    == <<age, oscQueryTick>>
uiVars     == <<ui, quit>>
serverVars == <<running, joinable, listenFd>>
srvVars    == <<srv, client>>
clientVars == <<conn, reads>>
wsaVars    == <<handlerSet, wsa, others, failed>>
vars == <<configVars, docVars, uiVars, serverVars, srvVars, clientVars, wsaVars>>

Never == Refresh + 1     \* age of a document never built, or older

UiPc  == {"idle", "chosen", "tick", "loaded", "unbind", "bind", "stop",
          "close", "forget", "join", "build", "open", "spawn", "gone",
          "aborted"}
SrvPc == {"none", "check", "fdset", "select", "recheck", "accept", "read",
          "hostinfo", "tree", "send", "done", "undefined"}

Init ==
  /\ listenPort \in Ports /\ oscQueryEnabled \in BOOLEAN
  /\ configDirty = TRUE /\ endpoint = NoPort /\ httpOk = FALSE
  /\ age = Never /\ oscQueryTick = 0
  /\ ui = "idle" /\ quit = FALSE
  /\ running = FALSE /\ joinable = FALSE /\ listenFd = "none"
  /\ srv = "none" /\ client = NoClient
  /\ conn = [c \in Clients |-> "none"]
  /\ reads = [c \in Clients |-> TRUE]
  /\ handlerSet = FALSE /\ wsa = [count |-> 0, refs |-> 0]
  /\ others = 0 /\ failed = 0
-----------------------------------------------------------------------------
(* Winsock, on the UI thread *)

(* httpWsaAcquire                                                          *)
Acquired(w) ==
  [count |-> w.count + 1, refs |-> IF w.count = 0 THEN w.refs + 1 ELSE w.refs]

(* httpWsaRelease                                                          *)
Released(w) ==
  [count |-> w.count - 1, refs |-> IF w.count = 1 THEN w.refs - 1 ELSE w.refs]

(* The server of another controller starts or stops listening.             *)
OtherStart ==
  /\ ui = "idle" /\ others < MaxOthers
  /\ others' = others + 1
  /\ wsa' = Acquired(wsa)
  /\ UNCHANGED <<configVars, docVars, uiVars, serverVars, srvVars, clientVars,
                 handlerSet, failed>>

OtherStop ==
  /\ ui = "idle" /\ others > 0
  /\ others' = others - 1
  /\ wsa' = Released(wsa)
  /\ UNCHANGED <<configVars, docVars, uiVars, serverVars, srvVars, clientVars,
                 handlerSet, failed>>
-----------------------------------------------------------------------------
(* Clients and configuration *)

Connect(c) ==
  /\ listenFd = "open"
  /\ conn[c] = "none"
  /\ conn' = [conn EXCEPT ![c] = "queued"]
  /\ UNCHANGED <<configVars, docVars, uiVars, serverVars, srvVars, reads,
                 wsaVars>>

(* A client that leaves its connection open and reads no more of it, and   *)
(* may some day read on or hang up.                                        *)
Stall(c) ==
  /\ conn[c] = "open"
  /\ reads[c]
  /\ reads' = [reads EXCEPT ![c] = FALSE]
  /\ UNCHANGED <<configVars, docVars, uiVars, serverVars, srvVars, conn,
                 wsaVars>>

Resume(c) ==
  /\ ~reads[c]
  /\ reads' = [reads EXCEPT ![c] = TRUE]
  /\ UNCHANGED <<configVars, docVars, uiVars, serverVars, srvVars, conn,
                 wsaVars>>

(* Menu choices and dataFromJson, on the UI thread, which the HTTP thread  *)
(* may see before requestRestart() below; in the middle of a frame it is a *)
(* preset loaded on the controller itself.                                 *)
Reconfigure(q, on) ==
  /\ ui \in {"idle", "tick"}
  /\ listenPort' = q
  /\ oscQueryEnabled' = on
  /\ ui' = IF ui = "idle" THEN "chosen" ELSE "loaded"
  /\ UNCHANGED <<configDirty, endpoint, httpOk, docVars, quit, serverVars,
                 srvVars, clientVars, wsaVars>>
-----------------------------------------------------------------------------
(* UI thread *)

(* Variant: a menu entry that forgets requestRestart().                    *)
UiRequestForgets ==
  /\ ui \in {"chosen", "loaded"}
  /\ ui' = IF ui = "chosen" THEN "idle" ELSE "tick"
  /\ UNCHANGED <<configVars, docVars, quit, serverVars, srvVars, clientVars,
                 wsaVars>>

(* requestRestart(), and back to where the choice was made.                *)
UiRequest ==
  /\ ui \in {"chosen", "loaded"}
  /\ configDirty' = TRUE
  /\ ui' = IF ui = "chosen" THEN "idle" ELSE "tick"
  /\ UNCHANGED <<listenPort, oscQueryEnabled, endpoint, httpOk, docVars, quit,
                 serverVars, srvVars, clientVars, wsaVars>>

UiFrame ==
  /\ ui = "idle"
  /\ ~configDirty
  /\ ui' = "tick"
  /\ UNCHANGED <<configVars, docVars, quit, serverVars, srvVars, clientVars,
                 wsaVars>>

(* Variant: "oscQueryTick++ >= 30".                                        *)
UiTickLate ==
  /\ ui = "tick"
  /\ IF httpOk /\ oscQueryTick >= Refresh
     THEN age' = 0 /\ oscQueryTick' = 0
     ELSE /\ age' = IF age = Never THEN Never ELSE age + 1
          /\ oscQueryTick' = IF httpOk THEN oscQueryTick + 1 ELSE oscQueryTick
  /\ ui' = "idle"
  /\ UNCHANGED <<configVars, quit, serverVars, srvVars, clientVars, wsaVars>>

(* The end of every frame: "if (httpOk && ++oscQueryTick >= 30)" rebuild.  *)
UiTick ==
  /\ ui = "tick"
  /\ IF httpOk /\ oscQueryTick + 1 >= Refresh
     THEN age' = 0 /\ oscQueryTick' = 0
     ELSE /\ age' = IF age = Never THEN Never ELSE age + 1
          /\ oscQueryTick' = IF httpOk THEN oscQueryTick + 1 ELSE oscQueryTick
  /\ ui' = "idle"
  /\ UNCHANGED <<configVars, quit, serverVars, srvVars, clientVars, wsaVars>>

(* configDirty.exchange(false): a frame with a restart, while the old OSC  *)
(* socket is still bound.                                                  *)
UiRestart ==
  /\ ui = "idle"
  /\ configDirty
  /\ configDirty' = FALSE
  /\ ui' = "unbind"
  /\ UNCHANGED <<listenPort, oscQueryEnabled, endpoint, httpOk, docVars, quit,
                 serverVars, srvVars, clientVars, wsaVars>>

UiDestroy ==
  /\ ui = "idle"
  /\ quit' = TRUE
  /\ ui' = "unbind"
  /\ UNCHANGED <<configVars, docVars, serverVars, srvVars, clientVars, wsaVars>>

(* OscServer::stop closes the OSC socket.                                  *)
UiUnbind ==
  /\ ui = "unbind"
  /\ endpoint' = NoPort
  /\ ui' = IF quit THEN "stop" ELSE "bind"
  /\ UNCHANGED <<listenPort, oscQueryEnabled, configDirty, httpOk, docVars,
                 quit, serverVars, srvVars, clientVars, wsaVars>>

(* OscServer::start opens another one on the configured port, or fails.    *)
UiBind ==
  /\ ui = "bind"
  /\ endpoint' \in {listenPort, NoPort}
  /\ ui' = "stop"
  /\ UNCHANGED <<listenPort, oscQueryEnabled, configDirty, httpOk, docVars,
                 quit, serverVars, srvVars, clientVars, wsaVars>>

(* HttpServer::stop, one access to shared state a step.                    *)
UiStop ==
  /\ ui = "stop"
  /\ running' = FALSE
  /\ ui' = IF listenFd = "open" THEN "close" ELSE "join"
  /\ UNCHANGED <<configVars, docVars, quit, joinable, listenFd, srvVars,
                 clientVars, wsaVars>>

UiClose ==
  /\ ui = "close"
  /\ listenFd' = "closed"
  /\ conn' = [c \in Clients |-> IF conn[c] = "queued" THEN "none" ELSE conn[c]]
  /\ ui' = "forget"
  /\ UNCHANGED <<configVars, docVars, quit, running, joinable, srvVars,
                 reads, wsaVars>>

UiForget ==
  /\ ui = "forget"
  /\ listenFd' = "none"
  /\ ui' = "join"
  /\ UNCHANGED <<configVars, docVars, quit, running, joinable, srvVars,
                 clientVars, wsaVars>>

(* Variants: the thread is not waited for; the status is left as it was.   *)
UiJoinDetaches ==
  /\ ui = "join"
  /\ joinable' = FALSE
  /\ httpOk' = FALSE
  /\ ui' = IF quit THEN "gone" ELSE IF oscQueryEnabled THEN "build"
           ELSE "tick"
  /\ handlerSet' = FALSE
  /\ wsa' = IF handlerSet THEN Released(wsa) ELSE wsa
  /\ UNCHANGED <<listenPort, oscQueryEnabled, configDirty, endpoint, docVars,
                 quit, running, listenFd, srvVars, clientVars, others, failed>>

UiJoinKeepsStatus ==
  /\ ui = "join"
  /\ joinable => srv = "done"
  /\ joinable' = FALSE
  /\ srv' = IF joinable THEN "none" ELSE srv
  /\ ui' = IF quit THEN "gone" ELSE IF oscQueryEnabled THEN "build"
           ELSE "tick"
  /\ handlerSet' = FALSE
  /\ wsa' = IF handlerSet THEN Released(wsa) ELSE wsa
  /\ UNCHANGED <<configVars, docVars, quit, running, listenFd, client,
                 clientVars, others, failed>>

UiJoin ==
  /\ ui = "join"
  /\ joinable => srv = "done"
  /\ joinable' = FALSE
  /\ srv' = IF joinable THEN "none" ELSE srv
  /\ httpOk' = FALSE
  /\ ui' = IF quit THEN "gone" ELSE IF oscQueryEnabled THEN "build"
           ELSE "tick"
  /\ handlerSet' = FALSE
  /\ wsa' = IF handlerSet THEN Released(wsa) ELSE wsa
  /\ UNCHANGED <<listenPort, oscQueryEnabled, configDirty, endpoint, docVars,
                 quit, running, listenFd, client, clientVars, others, failed>>

(* Variant: the first document is left to the periodic rebuild.            *)
UiBuildLater ==
  /\ ui = "build"
  /\ ui' = "open"
  /\ UNCHANGED <<configVars, docVars, quit, serverVars, srvVars, clientVars,
                 wsaVars>>

(* rebuildOscQuery, before the server can take a request.                  *)
UiBuild ==
  /\ ui = "build"
  /\ age' = 0
  /\ ui' = "open"
  /\ UNCHANGED <<configVars, oscQueryTick, quit, serverVars, srvVars,
                 clientVars, wsaVars>>

(* HttpServer::start: socket(), bind() or listen() may fail, and give the  *)
(* reference back, which the next stop() does again: handler_ stays set.   *)
UiOpen ==
  /\ ui = "open"
  /\ handlerSet' = TRUE
  /\ \/ /\ failed < MaxFailed
        /\ failed' = failed + 1
        /\ wsa' = Released(Acquired(wsa))
        /\ ui' = "tick"
        /\ UNCHANGED listenFd
     \/ /\ wsa' = Acquired(wsa)
        /\ listenFd' = "open"
        /\ ui' = "spawn"
        /\ UNCHANGED failed
  /\ UNCHANGED <<configVars, docVars, quit, running, joinable, srvVars,
                 clientVars, others>>

UiSpawn ==
  /\ ui = "spawn"
  /\ running' = TRUE
  /\ joinable' = TRUE
  /\ srv' = "check"
  /\ httpOk' = TRUE
  /\ ui' = "tick"
  /\ UNCHANGED <<listenPort, oscQueryEnabled, configDirty, endpoint, docVars,
                 quit, listenFd, client, clientVars, wsaVars>>
-----------------------------------------------------------------------------
(* HTTP thread: HttpServer::run *)

SrvKeeps == UNCHANGED <<configVars, docVars, uiVars, serverVars, wsaVars>>

(* Variant: the loop of run() does not look at running_.                   *)
SrvCheckForever ==
  /\ srv = "check"
  /\ srv' = "fdset"
  /\ SrvKeeps /\ UNCHANGED <<client, clientVars>>

SrvCheck ==
  /\ srv = "check"
  /\ srv' = IF running THEN "fdset" ELSE "done"
  /\ SrvKeeps /\ UNCHANGED <<client, clientVars>>

(* FD_SET(listenFd_, &rs) with -1 is undefined: a checking C library ends  *)
(* the process, another leaves a set that select() returns from.           *)
SrvFdSet ==
  /\ srv = "fdset"
  /\ \/ srv' = "select" /\ UNCHANGED ui
     \/ listenFd = "none" /\ srv' = "undefined" /\ ui' = "aborted"
  /\ UNCHANGED <<configVars, docVars, quit, serverVars, client, clientVars,
                 wsaVars>>

Queued == \E c \in Clients : conn[c] = "queued"

(* A connection, or the 200 ms timeout, or an error on a closed number.    *)
SrvSelect ==
  /\ srv = "select"
  /\ srv' = IF listenFd = "open" /\ Queued THEN "recheck" ELSE "check"
  /\ SrvKeeps /\ UNCHANGED <<client, clientVars>>

SrvRecheck ==
  /\ srv = "recheck"
  /\ srv' = IF running THEN "accept" ELSE "done"
  /\ SrvKeeps /\ UNCHANGED <<client, clientVars>>

SrvAccept ==
  /\ srv = "accept"
  /\ IF listenFd = "open" /\ Queued
     THEN \E c \in Clients :
            /\ conn[c] = "queued"
            /\ conn' = [conn EXCEPT ![c] = "open"]
            /\ client' = c
            /\ srv' = "read"
     ELSE srv' = "check" /\ UNCHANGED <<client, conn>>
  /\ SrvKeeps /\ UNCHANGED reads

(* readRequest ends with a request, or empty after SO_RCVTIMEO; what is    *)
(* no GET is answered without the handler.                                 *)
SrvRead ==
  /\ srv = "read"
  /\ srv' \in {"hostinfo", "tree", "send"}
  /\ SrvKeeps /\ UNCHANGED <<client, clientVars>>

(* handleOscQuery: HOST_INFO answers with listenPort as it is now.         *)
SrvHostInfo ==
  /\ srv = "hostinfo"
  /\ srv' = "send"
  /\ SrvKeeps /\ UNCHANGED <<client, clientVars>>

(* handleOscQuery: any path is answered from a copy of the cached document. *)
SrvTree ==
  /\ srv = "tree"
  /\ srv' = "send"
  /\ SrvKeeps /\ UNCHANGED <<client, clientVars>>

(* send() has no timeout: it waits for a client that does not read.        *)
SrvSend ==
  /\ srv = "send"
  /\ reads[client]
  /\ conn' = [conn EXCEPT ![client] = "none"]
  /\ client' = NoClient
  /\ srv' = "check"
  /\ SrvKeeps /\ UNCHANGED reads
-----------------------------------------------------------------------------
UiStep ==
  \/ UiRequest \/ UiFrame \/ UiTick \/ UiRestart \/ UiUnbind \/ UiBind
  \/ UiStop \/ UiClose \/ UiForget \/ UiJoin \/ UiBuild \/ UiOpen \/ UiSpawn

SrvStep ==
  \/ SrvCheck \/ SrvFdSet \/ SrvSelect \/ SrvRecheck \/ SrvAccept \/ SrvRead
  \/ SrvHostInfo \/ SrvTree \/ SrvSend

Environment ==
  \/ \E c \in Clients : Connect(c)
  \/ \E c \in Stallers : Stall(c) \/ Resume(c)
  \/ \E q \in Ports, on \in BOOLEAN : Reconfigure(q, on)
  \/ OtherStart \/ OtherStop

Gone ==
  /\ ui \in {"gone", "aborted"}
  /\ UNCHANGED vars

Next == UiStep \/ UiDestroy \/ SrvStep \/ Environment \/ Gone

Spec == Init /\ [][Next]_vars

(* Rack draws frames and the OS schedules the thread; select() and recv()  *)
(* are bounded by their timeouts, send() only by its client.               *)
FairSpec == Spec /\ WF_vars(UiStep) /\ WF_vars(SrvStep)
-----------------------------------------------------------------------------
(* Properties *)

(* The variables keep the types of the C++ members they stand for.         *)
TypeOK ==
  /\ listenPort \in Ports /\ oscQueryEnabled \in BOOLEAN
  /\ configDirty \in BOOLEAN /\ endpoint \in Ports \cup {NoPort}
  /\ httpOk \in BOOLEAN
  /\ age \in 0 .. Never /\ oscQueryTick \in 0 .. Refresh - 1
  /\ ui \in UiPc /\ quit \in BOOLEAN
  /\ running \in BOOLEAN /\ joinable \in BOOLEAN
  /\ listenFd \in {"open", "closed", "none"}
  /\ srv \in SrvPc /\ client \in Clients \cup {NoClient}
  /\ conn \in [Clients -> {"none", "queued", "open"}]
  /\ reads \in [Clients -> BOOLEAN]
  /\ handlerSet \in BOOLEAN /\ wsa \in [count : Int, refs : Int]
  /\ others \in 0 .. MaxOthers /\ failed \in 0 .. MaxFailed

(* handler_, the std::thread and the controller both work for are replaced *)
(* or freed only when no HTTP thread is left, and while there is one the   *)
(* handler it calls is set (HttpServer::start, stop, ~OscController).  The *)
(* document is another matter: it is replaced under the thread, behind its *)
(* mutex; and the listening socket is closed under it, which is            *)
(* StaleFdOnlyInStop.                                                      *)
HandlerOutlivesThread ==
  /\ ui \in {"build", "open", "spawn", "gone"} => srv = "none" /\ ~joinable
  /\ srv # "none" => handlerSet

(* A request is answered from a document no older than Refresh frames,     *)
(* through every switching off and on again, the first request included    *)
(* (restartServer's rebuild, processPending's tick).                       *)
DocumentRecent == srv = "tree" => age <= Refresh

(* Between frames, httpOk with no restart pending means that the thread    *)
(* runs on an open socket, and the switch is on (restartServer).           *)
HttpStatusHonest ==
  ui = "idle" /\ httpOk /\ ~configDirty =>
    oscQueryEnabled /\ listenFd = "open" /\ running /\ srv \notin {"none", "done"}

(* The accept loop uses a descriptor that was closed under it, or the -1   *)
(* that is undefined in FD_SET, only while stop() is on its way to join(): *)
(* never in service, and never after the next start (HttpServer::run       *)
(* against stop and start).                                                *)
StaleFdOnlyInStop ==
  srv \in {"fdset", "select", "accept", "undefined"} /\ listenFd # "open" =>
    ui \in {"forget", "join", "aborted"} /\ ~running

(* HttpServer.cpp:25-26: "pairing Startup/Cleanup per user is the          *)
(* documented contract": while a server listens, its use of Winsock is     *)
(* counted, and Winsock is loaded (httpWsaAcquire, httpWsaRelease).        *)
WinsockHeld == others > 0 \/ running => wsa.refs > 0

(* HOST_INFO "tells the client where the actual OSC (UDP) endpoint is"     *)
(* (OscController.cpp:991): when the HTTP thread reads listenPort and an   *)
(* endpoint is bound, that is its port, except from the write of a setting *)
(* to its requestRestart(), while that request waits for its frame, and    *)
(* from there to the closing of the old socket.  With no endpoint bound,   *)
(* in the middle of a restart or after a failed bind, it names the port    *)
(* that was asked for.                                                     *)
HostInfoNamesEndpoint ==
  srv = "hostinfo" /\ endpoint # NoPort =>
    \/ listenPort = endpoint
    \/ ui \in {"chosen", "loaded"} \/ configDirty \/ ui = "unbind"

(* HttpServer.hpp:18 promises that stop() unblocks the accept loop         *)
(* promptly: the UI thread is not left waiting in join().                  *)
StopReturns == ui = "join" ~> ui # "join"

(* It does return as long as the client being answered reads its answer.   *)
StopReturnsOrStalls ==
  ui = "join" ~> \/ ui # "join"
                 \/ srv = "send" /\ ~reads[client]
=============================================================================
