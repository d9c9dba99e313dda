---------------------------- MODULE OneBotGateway ----------------------------
(***************************************************************************)
(* The OneBot adapter (src/src/gateway/onebot-adapter.ts) as a client of   *)
(* the chat platform: the API calls it makes, over HTTP or over one        *)
(* WebSocket, the table of calls that wait for their answer, the 30 s      *)
(* timeout of a call, and the loss, closing and reopening of the socket.   *)
(*                                                                         *)
(* The WebSocket library and the platform are external: a socket's events  *)
(* come late, also after the adapter has let go of the socket; the         *)
(* platform accepts or refuses a request, or never sees it, and its answer *)
(* may never come.                                                         *)
(* The echo of a call is its identity in Call (generateEcho is unique).    *)
(***************************************************************************)
EXTENDS Naturals

CONSTANTS
  Call,        \* the API calls, one per message that is sent
  MaxSockets,  \* bound: the sockets opened in a run
  MaxStops     \* bound: how often the adapter is stopped

ASSUME OneBotGatewayAssumption ==
  MaxSockets \in Nat \ {0} /\ MaxStops \in Nat

VARIABLES
  transport,       \* config.transport
  ready,           \* start() was called, stop() was not
  manuallyClosed,
  socket,          \* the current socket, 0 for null
  wsConnected,
  reconnectTimer,  \* a reconnection is scheduled
  \* the outside world
  link,            \* link[s]: the state of socket s
  opened,          \* how many sockets were created
  stops,           \* how often stop() was called
  call,            \* call[c]: where the call stands, for the code that awaits it
  via,             \* via[c]: the socket the request was written to (0: HTTP)
  request,         \* the calls whose request the platform has not handled
  answer,          \* answer[c]: the platform's answer on its way back
  accepted         \* accepted[c]: how often the platform posted the message

adapter == <<transport, ready, manuallyClosed, socket, wsConnected, reconnectTimer>>
calls == <<call, via, request, answer, accepted>>
gatewayVars == <<adapter, link, opened, stops, calls>>

Socket == 1..MaxSockets
LinkState == {"none", "connecting", "open", "closing", "closed"}

\* pendingWsRequests
Pending == {c \in Call : call[c] = "waiting" /\ transport = "ws"}

\* The constructor: nothing is started.
GatewayInit ==
  /\ transport \in {"ws", "http"}
  /\ ready = FALSE /\ manuallyClosed = FALSE
  /\ socket = 0 /\ wsConnected = FALSE /\ reconnectTimer = FALSE
  /\ link = [s \in Socket |-> "none"]
  /\ opened = 0 /\ stops = 0
  /\ call = [c \in Call |-> "none"]
  /\ via = [c \in Call |-> 0]
  /\ request = {}
  /\ answer = [c \in Call |-> "none"]
  /\ accepted = [c \in Call |-> 0]

-----------------------------------------------------------------------------
(* Opening and closing the socket.                                         *)

\* openWebSocket does nothing over HTTP, when stopped, or when there is a socket.
MayOpen(isReady, current) == transport = "ws" /\ isReady /\ current = 0

\* openWebSocket, called with the timer and flags its caller leaves: the factory
\* succeeds, or it throws and a reconnection is scheduled.
OpenWebSocket(isReady, timer) ==
  IF MayOpen(isReady, socket)
  THEN \/ /\ opened < MaxSockets
          /\ opened' = opened + 1
          /\ link' = [link EXCEPT ![opened + 1] = "connecting"]
          /\ socket' = opened + 1
          /\ wsConnected' = FALSE
          /\ reconnectTimer' = timer
       \/ /\ reconnectTimer' = TRUE
          /\ UNCHANGED <<opened, link, socket, wsConnected>>
  ELSE /\ reconnectTimer' = timer
       /\ UNCHANGED <<opened, link, socket, wsConnected>>

\* start() and connect()
Start ==
  /\ ~ready
  /\ ready' = TRUE /\ manuallyClosed' = FALSE
  /\ OpenWebSocket(TRUE, reconnectTimer)
  /\ UNCHANGED <<transport, stops, calls>>

\* rejectAllPendingWsRequests: the calls after every waiting one was rejected.
\* Mutated form: the table is kept.
PendingKept == call
PendingRejected == [c \in Call |-> IF c \in Pending THEN "error" ELSE call[c]]

\* The state of a socket once the adapter asked it to close.
Closing(s) ==
  IF s # 0 /\ link[s] \in {"connecting", "open"}
  THEN [link EXCEPT ![s] = "closing"] ELSE link

\* stop(), disconnect() and closeWebSocket
Stop ==
  /\ ready /\ stops < MaxStops
  /\ stops' = stops + 1
  /\ ready' = FALSE /\ manuallyClosed' = TRUE
  /\ reconnectTimer' = FALSE
  /\ wsConnected' = FALSE /\ socket' = 0
  /\ link' = Closing(socket)
  /\ call' = PendingRejected
  /\ UNCHANGED <<transport, opened, via, request, answer, accepted>>

\* The reconnection timer fires: wsReconnectIntervalMs after a close or a failed open.
Reconnect ==
  /\ reconnectTimer
  /\ OpenWebSocket(ready, FALSE)
  /\ UNCHANGED <<transport, ready, manuallyClosed, stops, calls>>

-----------------------------------------------------------------------------
(* The events of a socket.                                                 *)

IsCurrentStartedWebSocket(s) == ready /\ ~manuallyClosed /\ s = socket

\* The connection is up: handleWebSocketOpen.
SocketOpen(s) ==
  /\ link[s] = "connecting"
  /\ link' = [link EXCEPT ![s] = "open"]
  /\ wsConnected' = (wsConnected \/ IsCurrentStartedWebSocket(s))
  /\ UNCHANGED <<transport, ready, manuallyClosed, socket, reconnectTimer, opened, stops, calls>>

\* The peer or the network ends the connection (external).
SocketLost(s) ==
  /\ link[s] \in {"connecting", "open"}
  /\ link' = [link EXCEPT ![s] = "closing"]
  /\ UNCHANGED <<adapter, opened, stops, calls>>

\* handleWebSocketClose looks at the current socket only.
\* A late close event of another socket is ignored.
ClosesCurrent(s) == s = socket

\* The close event reaches the adapter: handleWebSocketClose and scheduleReconnect.
SocketClose(s) ==
  /\ link[s] = "closing"
  /\ link' = [link EXCEPT ![s] = "closed"]
  /\ IF ClosesCurrent(s)
     THEN /\ wsConnected' = FALSE
          /\ socket' = 0
          /\ call' = PendingRejected
          /\ reconnectTimer' = (reconnectTimer \/ (~manuallyClosed /\ ready))
     ELSE UNCHANGED <<wsConnected, socket, call, reconnectTimer>>
  /\ UNCHANGED <<transport, ready, manuallyClosed, opened, stops, via, request, answer, accepted>>

-----------------------------------------------------------------------------
(* API calls.                                                              *)

\* callWsApi writes the request only on a connected socket, callHttpApi always.
CanCall == transport = "http" \/ (socket # 0 /\ wsConnected)

\* callApi: the call throws at once (not connected, or socket.send threw), or its
\* request is written and the caller waits.
CallApi(c) ==
  /\ call[c] = "none"
  /\ \/ /\ transport = "ws"
        /\ call' = [call EXCEPT ![c] = "error"]
        /\ UNCHANGED <<via, request>>
     \/ /\ CanCall
        /\ call' = [call EXCEPT ![c] = "waiting"]
        /\ via' = [via EXCEPT ![c] = IF transport = "ws" THEN socket ELSE 0]
        /\ request' = request \cup {c}
  /\ UNCHANGED <<adapter, link, opened, stops, answer, accepted>>

\* The platform posts the message or refuses it, and answers (external).
Handle(c) ==
  /\ c \in request
  /\ request' = request \ {c}
  /\ \E ok \in BOOLEAN :
       /\ answer' = [answer EXCEPT ![c] = IF ok THEN "ok" ELSE "refused"]
       /\ accepted' = [accepted EXCEPT ![c] = @ + IF ok THEN 1 ELSE 0]
  /\ UNCHANGED <<adapter, link, opened, stops, call, via>>

\* assertApiOk.  Mutated form: any answer will do.
AnyAnswer(a) == TRUE
ApiOk(a) == a = "ok"

\* An answer arrives: handleWebSocketMessage, resolvePendingWsResponse.  An
\* answer nobody waits for, or on a socket that is not the current one, is dropped.
Answer(c) ==
  /\ answer[c] # "none"
  /\ via[c] # 0 => link[via[c]] \in {"open", "closing"}
  /\ answer' = [answer EXCEPT ![c] = "none"]
  /\ call' = IF call[c] = "waiting" /\ (via[c] # 0 => IsCurrentStartedWebSocket(via[c]))
             THEN [call EXCEPT ![c] = IF ApiOk(answer[c]) THEN "ok" ELSE "error"]
             ELSE call
  /\ UNCHANGED <<adapter, link, opened, stops, via, request, accepted>>

\* The 30 s timer of a WebSocket call, or the failure of an HTTP exchange, which
\* fetch reports also when the platform's answer does not come.
CallFails(c) ==
  /\ call[c] = "waiting"
  /\ call' = [call EXCEPT ![c] = "error"]
  /\ UNCHANGED <<adapter, link, opened, stops, via, request, answer, accepted>>

\* The code that awaited the call takes its result.
Taken(c) ==
  /\ call[c] \in {"ok", "error"}
  /\ call' = [call EXCEPT ![c] = "none"]
  /\ via' = [via EXCEPT ![c] = 0]
  /\ UNCHANGED <<adapter, link, opened, stops, request, answer, accepted>>

PlatformNext ==
  \/ \E s \in Socket : SocketOpen(s) \/ SocketLost(s) \/ SocketClose(s)
  \/ \E c \in Call : Handle(c) \/ Answer(c) \/ CallFails(c)

GatewayNext == Start \/ Stop \/ Reconnect \/ PlatformNext

-----------------------------------------------------------------------------
(* Properties.                                                             *)

GatewayTypeOK ==
  /\ transport \in {"ws", "http"}
  /\ ready \in BOOLEAN /\ manuallyClosed \in BOOLEAN
  /\ socket \in 0..MaxSockets /\ wsConnected \in BOOLEAN /\ reconnectTimer \in BOOLEAN
  /\ link \in [Socket -> LinkState]
  /\ opened \in 0..MaxSockets /\ stops \in 0..MaxStops
  /\ call \in [Call -> {"none", "waiting", "ok", "error"}]
  /\ via \in [Call -> 0..MaxSockets]
  /\ request \subseteq Call
  /\ answer \in [Call -> {"none", "ok", "refused"}]
  /\ accepted \in [Call -> Nat]

\* A waiting WebSocket call was written to the current, connected socket: no call
\* outlives its connection, so that none waits for an answer that can only come
\* on a socket whose messages the adapter drops.
CallsDieWithTheirSocket ==
  \A c \in Pending : wsConnected /\ via[c] = socket /\ socket # 0

\* Every connection that is up or coming up is the adapter's current one: a late
\* close event, a second start or a reconnection timer never leaves a live socket
\* behind that nobody listens to or closes.
NoOrphanSocket ==
  \A s \in Socket : link[s] \in {"connecting", "open"} => socket = s

\* A started WebSocket adapter without a socket has a reconnection scheduled: no
\* order of failures, stops and starts leaves it disconnected for good.
Reconnecting ==
  transport = "ws" /\ ready /\ socket = 0 => reconnectTimer
=============================================================================
