-------------------------- MODULE HttpServerProofs --------------------------
(***************************************************************************)
(* Proofs about the OSCQuery server, for any clients, ports, refresh       *)
(* period and bounds: no thread outlives what it works with, answers are   *)
(* recent, and the status and HOST_INFO tell the truth.                    *)
(***************************************************************************)
EXTENDS HttpServer, TLAPS

(* The thread exists as long as it is joinable, and the status says so.    *)
ThreadKnown ==
  /\ joinable <=> srv # "none"
  /\ joinable => httpOk /\ handlerSet

(* While running_ is set, the thread is in its loop and the socket open.   *)
Running ==
  running =>
    /\ ui \in {"idle", "chosen", "tick", "loaded", "unbind", "bind", "stop",
              "aborted"}
    /\ listenFd = "open" /\ srv \notin {"none", "done", "undefined"}

(* A descriptor other than an open one belongs to stop() or to nobody.     *)
FdOfThread ==
  /\ srv # "none" /\ listenFd # "open" =>
       ui \in {"forget", "join", "aborted"} /\ ~running
  /\ ui = "spawn" => listenFd = "open"

(* Between stop() and the end of start() nothing is left of the old server *)
(* and the document of the new one is fresh.                               *)
Between ==
  /\ ui \in {"build", "open", "spawn", "gone"} => ~joinable /\ ~httpOk
  /\ ui \in {"build", "open"} => ~handlerSet
  /\ ui \in {"build", "open", "spawn"} => oscQueryEnabled
  /\ ui \in {"open", "spawn"} => age = 0
  /\ ui = "spawn" => handlerSet

(* Between frames the status is that of the thread.                        *)
Status ==
  ui \in {"idle", "chosen", "tick", "loaded"} /\ httpOk =>
    running /\ (ui \in {"idle", "tick"} /\ ~configDirty => oscQueryEnabled)

(* While the server is up, the document ages no faster than the counter.   *)
Aging == httpOk => age <= oscQueryTick

(* A restart binds the configured port or none; a change asks for another. *)
Endpoint ==
  /\ endpoint # NoPort =>
       listenPort = endpoint \/ configDirty \/ ui \in {"chosen", "loaded", "unbind"}
  /\ ui = "bind" => endpoint = NoPort

Inv ==
  /\ TypeOK /\ ThreadKnown /\ Running /\ FdOfThread /\ Between
  /\ Status /\ Aging /\ Endpoint
-----------------------------------------------------------------------------
(* Type correctness *)

LEMMA InitType == Init => TypeOK
<1>1. Init => /\ configDirty \in BOOLEAN /\ httpOk \in BOOLEAN
              /\ quit \in BOOLEAN
              /\ running \in BOOLEAN /\ joinable \in BOOLEAN
              /\ handlerSet \in BOOLEAN
  BY DEF Init
<1>2. Init => reads \in [Clients -> BOOLEAN]
  BY DEF Init
<1> QED
  BY <1>1, <1>2, HttpAssumption DEF Init, TypeOK, UiPc, SrvPc, Never

LEMMA UiType ==
  ASSUME TypeOK, UiStep \/ UiDestroy
  PROVE  TypeOK'
<1> USE HttpAssumption DEF TypeOK, UiPc, SrvPc, configVars, docVars, uiVars,
                           serverVars, srvVars, clientVars, wsaVars
<1>1. CASE UiFrame
  BY <1>1 DEF UiFrame
<1>2. CASE UiTick
  BY <1>2 DEF UiTick, Never
<1>3. CASE UiRestart \/ UiRequest
  <2>1. configDirty' \in BOOLEAN
    BY <1>3 DEF UiRestart, UiRequest
  <2> QED
    BY <1>3, <2>1 DEF UiRestart, UiRequest
<1>4. CASE UiStop
  <2>1. running' \in BOOLEAN
    BY <1>4 DEF UiStop
  <2> QED
    BY <1>4, <2>1 DEF UiStop
<1>5. CASE UiClose
  BY <1>5 DEF UiClose
<1>6. CASE UiForget
  BY <1>6 DEF UiForget
<1>7. CASE UiJoin
  <2>1. joinable' \in BOOLEAN /\ httpOk' \in BOOLEAN /\ handlerSet' \in BOOLEAN
    BY <1>7 DEF UiJoin
  <2> QED
    BY <1>7, <2>1 DEF UiJoin, Released
<1>8. CASE UiBuild
  BY <1>8 DEF UiBuild, Never
<1>9. CASE UiOpen
  BY <1>9 DEF UiOpen, Acquired, Released
<1>10. CASE UiSpawn
  BY <1>10 DEF UiSpawn
<1>11. CASE UiDestroy
  BY <1>11 DEF UiDestroy
<1>12. CASE UiUnbind \/ UiBind
  BY <1>12 DEF UiUnbind, UiBind
<1> QED
  BY <1>1, <1>2, <1>3, <1>4, <1>5, <1>6, <1>7, <1>8, <1>9, <1>10, <1>11, <1>12
     DEF UiStep

LEMMA SrvType ==
  ASSUME TypeOK, SrvStep
  PROVE  TypeOK'
<1> USE HttpAssumption DEF TypeOK, UiPc, SrvPc, SrvKeeps, configVars,
                           docVars, uiVars, serverVars, srvVars, clientVars,
                           wsaVars
<1>1. CASE SrvCheck
  BY <1>1 DEF SrvCheck
<1>2. CASE SrvFdSet
  BY <1>2 DEF SrvFdSet
<1>3. CASE SrvSelect
  BY <1>3 DEF SrvSelect
<1>4. CASE SrvRecheck
  BY <1>4 DEF SrvRecheck
<1>5. CASE SrvAccept
  BY <1>5 DEF SrvAccept
<1>6. CASE SrvRead
  BY <1>6 DEF SrvRead
<1>7. CASE SrvHostInfo
  BY <1>7 DEF SrvHostInfo
<1>8. CASE SrvTree
  BY <1>8 DEF SrvTree
<1>9. CASE SrvSend
  <2>1. conn' \in [Clients -> {"none", "queued", "open"}]
    BY <1>9 DEF SrvSend
  <2> QED
    BY <1>9, <2>1 DEF SrvSend
<1> QED
  BY <1>1, <1>2, <1>3, <1>4, <1>5, <1>6, <1>7, <1>8, <1>9 DEF SrvStep

LEMMA EnvironmentType ==
  ASSUME TypeOK, Environment
  PROVE  TypeOK'
<1> USE HttpAssumption DEF TypeOK, configVars, docVars, uiVars, serverVars,
                           srvVars, clientVars, wsaVars
<1>1. ASSUME NEW c \in Clients, Connect(c)
      PROVE  TypeOK'
  BY <1>1 DEF Connect
<1>2. ASSUME NEW c \in Stallers, Stall(c) \/ Resume(c)
      PROVE  TypeOK'
  BY <1>2 DEF Stall, Resume
<1>3. ASSUME NEW q \in Ports, NEW on \in BOOLEAN, Reconfigure(q, on)
      PROVE  TypeOK'
  BY <1>3 DEF Reconfigure, UiPc
<1>4. ASSUME OtherStart \/ OtherStop
      PROVE  TypeOK'
  BY <1>4 DEF OtherStart, OtherStop, Acquired, Released
<1> QED
  BY <1>1, <1>2, <1>3, <1>4 DEF Environment

LEMMA StepType ==
  ASSUME TypeOK, [Next]_vars
  PROVE  TypeOK'
<1>1. CASE UNCHANGED vars
  BY <1>1 DEF TypeOK, vars, configVars, docVars, uiVars, serverVars, srvVars,
              clientVars, wsaVars
<1> QED
  BY <1>1, UiType, SrvType, EnvironmentType DEF Next, Gone

(* The variables keep the types of the C++ members they stand for.         *)
THEOREM TypeCorrect == Spec => []TypeOK
BY InitType, StepType, PTL DEF Spec

-----------------------------------------------------------------------------
(* The server's life *)

(* The invariant without the types.                                        *)
Rest ==
  /\ ThreadKnown /\ Running /\ FdOfThread /\ Between
  /\ Status /\ Aging /\ Endpoint

LEMMA UiRest ==
  ASSUME TypeOK, Rest, UiStep \/ UiDestroy
  PROVE  Rest'
<1> USE HttpAssumption DEF TypeOK, Rest, ThreadKnown, Running, FdOfThread,
                           Between, Status, Aging, Endpoint, configVars,
                           docVars, uiVars, serverVars, srvVars, clientVars,
                           wsaVars
<1>1. CASE UiFrame
  BY <1>1 DEF UiFrame
<1>2. CASE UiTick
  BY <1>2 DEF UiTick, Never
<1>3. CASE UiRestart \/ UiRequest
  BY <1>3 DEF UiRestart, UiRequest
<1>4. CASE UiStop
  BY <1>4 DEF UiStop
<1>5. CASE UiClose
  BY <1>5 DEF UiClose
<1>6. CASE UiForget
  BY <1>6 DEF UiForget
<1>7. CASE UiJoin
  BY <1>7 DEF UiJoin
<1>8. CASE UiBuild
  BY <1>8 DEF UiBuild
<1>9. CASE UiOpen
  BY <1>9 DEF UiOpen
<1>10. CASE UiSpawn
  BY <1>10 DEF UiSpawn
<1>11. CASE UiDestroy
  BY <1>11 DEF UiDestroy
<1>12. CASE UiUnbind \/ UiBind
  BY <1>12 DEF UiUnbind, UiBind
<1> QED
  BY <1>1, <1>2, <1>3, <1>4, <1>5, <1>6, <1>7, <1>8, <1>9, <1>10, <1>11, <1>12
     DEF UiStep

LEMMA SrvRest ==
  ASSUME TypeOK, Rest, SrvStep
  PROVE  Rest'
<1> USE DEF Rest, SrvKeeps, ThreadKnown, Running, FdOfThread, Between,
            Status, Aging, Endpoint, configVars, docVars, uiVars, serverVars,
            srvVars, clientVars, wsaVars
<1>1. CASE SrvCheck
  BY <1>1 DEF SrvCheck
<1>2. CASE SrvFdSet
  BY <1>2 DEF SrvFdSet
<1>3. CASE SrvSelect
  BY <1>3 DEF SrvSelect
<1>4. CASE SrvRecheck
  BY <1>4 DEF SrvRecheck
<1>5. CASE SrvAccept
  BY <1>5 DEF SrvAccept
<1>6. CASE SrvRead
  BY <1>6 DEF SrvRead
<1>7. CASE SrvHostInfo
  BY <1>7 DEF SrvHostInfo
<1>8. CASE SrvTree
  BY <1>8 DEF SrvTree
<1>9. CASE SrvSend
  BY <1>9 DEF SrvSend
<1> QED
  BY <1>1, <1>2, <1>3, <1>4, <1>5, <1>6, <1>7, <1>8, <1>9 DEF SrvStep

LEMMA EnvironmentRest ==
  ASSUME TypeOK, Rest, Environment
  PROVE  Rest'
<1> USE HttpAssumption DEF Rest, ThreadKnown, Running, FdOfThread, Between,
                           Status, Aging, Endpoint, configVars, docVars,
                           uiVars, serverVars, srvVars, clientVars, wsaVars
<1>1. ASSUME NEW c \in Clients, Connect(c)
      PROVE  Rest'
  BY <1>1 DEF Connect
<1>2. ASSUME NEW c \in Stallers, Stall(c) \/ Resume(c)
      PROVE  Rest'
  BY <1>2 DEF Stall, Resume
<1>3. ASSUME NEW q \in Ports, NEW on \in BOOLEAN, Reconfigure(q, on)
      PROVE  Rest'
  BY <1>3 DEF Reconfigure
<1>4. ASSUME OtherStart \/ OtherStop
      PROVE  Rest'
  BY <1>4 DEF OtherStart, OtherStop, Acquired, Released
<1> QED
  BY <1>1, <1>2, <1>3, <1>4 DEF Environment

-----------------------------------------------------------------------------
(* The invariant *)

LEMMA InitInv == Init => Inv
<1>1. Init => Rest
  BY HttpAssumption DEF Init, Rest, ThreadKnown, Running, FdOfThread,
                        Between, Status, Aging, Endpoint
<1> QED
  BY <1>1, InitType DEF Inv, Rest

LEMMA StepInv ==
  ASSUME Inv, [Next]_vars
  PROVE  Inv'
<1>1. CASE UNCHANGED vars
  BY <1>1, StepType
     DEF Inv, vars, Rest, ThreadKnown, Running, FdOfThread, Between, Status,
         Aging, Endpoint, configVars, docVars, uiVars, serverVars, srvVars,
         clientVars, wsaVars
<1>2. CASE Next
  <2>1. Rest'
    BY <1>2, UiRest, SrvRest, EnvironmentRest, <1>1 DEF Inv, Rest, Next, Gone
  <2> QED
    BY <2>1, StepType DEF Inv, Rest
<1> QED
  BY <1>1, <1>2

(* The parts of the invariant hold together, whatever clients, the menu    *)
(* and other controllers do (HttpServer, restartServer, processPending).   *)
THEOREM Invariance == Spec => []Inv
BY InitInv, StepInv, PTL DEF Spec

(* handler_, the std::thread and the controller are replaced or freed only *)
(* when no HTTP thread is left to use them, and the thread never meets an  *)
(* empty handler (HttpServer::start, stop, ~OscController).                *)
THEOREM HandlerIsSafe == Spec => []HandlerOutlivesThread
<1>1. Inv => HandlerOutlivesThread
  BY DEF Inv, ThreadKnown, Between, HandlerOutlivesThread
<1> QED
  BY <1>1, Invariance, PTL

(* A request is answered from a document no older than Refresh frames, the *)
(* first one included (restartServer's rebuild, processPending's tick).    *)
THEOREM DocumentIsRecent == Spec => []DocumentRecent
<1>1. Inv => DocumentRecent
  BY HttpAssumption
     DEF Inv, TypeOK, ThreadKnown, Aging, DocumentRecent, Never
<1> QED
  BY <1>1, Invariance, PTL

(* Between frames, httpOk with no restart pending means that the thread    *)
(* runs on an open socket, and the switch is on (restartServer).           *)
THEOREM StatusIsHonest == Spec => []HttpStatusHonest
<1>1. Inv => HttpStatusHonest
  BY DEF Inv, Running, Status, HttpStatusHonest
<1> QED
  BY <1>1, Invariance, PTL

(* The accept loop meets a closed descriptor, or -1, only while stop() is  *)
(* on its way to join() (HttpServer::run against stop and start).          *)
THEOREM FdIsCurrent == Spec => []StaleFdOnlyInStop
<1>1. Inv => StaleFdOnlyInStop
  BY DEF Inv, FdOfThread, StaleFdOnlyInStop
<1> QED
  BY <1>1, Invariance, PTL

(* While an OSC endpoint is bound HOST_INFO names its port, except from    *)
(* the write of a setting to the closing of the old socket: before and     *)
(* after requestRestart(), and at the start of the restart.                *)
THEOREM HostInfoIsTrue == Spec => []HostInfoNamesEndpoint
<1>1. Inv => HostInfoNamesEndpoint
  BY DEF Inv, Endpoint, HostInfoNamesEndpoint
<1> QED
  BY <1>1, Invariance, PTL
=============================================================================
