--------------------------- MODULE EventListener ---------------------------
(***************************************************************************)
(* How messages reach the pipeline of module EventPipeline, and how the    *)
(* process lets go of them when it is stopped.  Over a WebSocket           *)
(* (handleWebSocketMessage) a message is taken as it comes and the         *)
(* platform learns nothing.  Over HTTP the platform posts it:              *)
(* ApplicationHttpServer (src/src/http/application-http-server.ts) hands   *)
(* the request to handleOneBotHttpEvent (src/src/index.ts), which collects *)
(* the body as it arrives, under a time limit, and answers once.  The      *)
(* platform posts again what was not answered with 200.                    *)
(*                                                                         *)
(* A host given as an address is bound without a pause, and the gateway of *)
(* an HTTP transport is ready when it is started: the listener is up from  *)
(* the ready callback to the end of stop().                                *)
(***************************************************************************)
EXTENDS EventPipeline

CONSTANTS
  Post,      \* the requests of the platform
  Posted,    \* the messages it posts
  Other      \* the content of a body that is no chat message

ASSUME EventListenerAssumption == Posted \subseteq Message /\ Other \notin Message

VARIABLES
  transport,  \* config.onebotTransport, "ws" or "http"
  post,       \* post[p]: where request p stands
  body        \* body[p]: what the body of p is about

listenerVars == <<vars, transport, post, body>>

\* "reading" has the timer running and chunks buffered; "refused" stands for the
\* answers 400, 401, 408, 413, 500 and 503.
PostStage == {"none", "reading", "ok", "refused", "abandoned"}

ListenerInit ==
  /\ Init
  /\ transport \in {"ws", "http"}
  /\ post = [p \in Post |-> "none"]
  /\ body = [p \in Post |-> Other]

-----------------------------------------------------------------------------
(* A request *)

\* The event path is served: close() keeps the listener until its requests end.
Serving == transport = "http" /\ phase = "up"

\* A request comes in.  Without admission, a credential, or with a body declared
\* too large it is answered at once.
Arrive(p) ==
  /\ Serving
  /\ post[p] = "none"
  /\ \/ post' = [post EXCEPT ![p] = "refused"] /\ UNCHANGED body
     \/ /\ accepting
        /\ post' = [post EXCEPT ![p] = "reading"]
        /\ \E content \in Posted \cup {Other} : body' = [body EXCEPT ![p] = content]
  /\ UNCHANGED <<vars, transport>>

\* The request is over, with this outcome and no effect on the pipeline.
Over(p, outcome) ==
  /\ post[p] = "reading"
  /\ post' = [post EXCEPT ![p] = outcome]
  /\ UNCHANGED <<vars, transport, body>>

\* More arrives than the limit allows.
Overflow(p) == Over(p, "refused")

\* lethebotEventBodyTimeoutMs have passed.
TimeOut(p) == Over(p, "refused")

\* The platform goes away.
Abandon(p) == Over(p, "abandoned")

\* validateHttpEventAuth fails, the body is not JSON, or taking the event threw.
Reject(p) == Over(p, "refused")

\* Admission closed while the body was on its way.
TurnedDown(p) == ~accepting /\ Over(p, "refused")

\* convertToInternalEvent: what becomes an event of the pipeline.
IsMessage(p) == body[p] \in Message

\* What convertToInternalEvent makes nothing of is ignored, and answered with 200.
Skip(p) == accepting /\ ~IsMessage(p) /\ Over(p, "ok")

\* dispatchInboundEvent and claimAndEnqueueEvent: the event is claimed, in one
\* transaction, before the platform is told.
Take(p) ==
  /\ post[p] = "reading" /\ IsMessage(p)
  /\ Deliver(body[p])
  /\ post' = [post EXCEPT ![p] = "ok"]
  /\ UNCHANGED <<transport, body>>

\* Mutated form: an event nobody could take is confirmed all the same.
ConfirmAnyway(p) ==
  \/ Take(p) \/ Skip(p)
  \/ Over(p, "ok")
  \/ Reject(p)

\* The body is complete.
Complete(p) ==
  \/ Take(p) \/ Skip(p)
  \/ TurnedDown(p)
  \/ Reject(p)

RequestStep(p) == Overflow(p) \/ TimeOut(p) \/ Abandon(p) \/ Complete(p)

-----------------------------------------------------------------------------
(* The process *)

\* handleWebSocketMessage: the platform is not told what became of the event.
Receive(m) == transport = "ws" /\ Deliver(m) /\ UNCHANGED <<transport, post, body>>

Unposted == UNCHANGED <<transport, post, body>>

\* performStop after the ready callback.  With HTTP there is no moment before it
\* at which a signal could be handled: adapter.start() does not wait for anything.
ListenerStop == (transport = "http" => phase = "up") /\ Stop /\ Unposted

\* server.close() waits for the requests that are being read.
ListenerClosed == \A p \in Post : post[p] # "reading"

ListenerCloseDatabase == ListenerClosed /\ CloseDatabase /\ Unposted

\* What was being read is cut off.
ListenerCrash ==
  /\ Crash
  /\ post' = [p \in Post |-> IF post[p] = "reading" THEN "abandoned" ELSE post[p]]
  /\ UNCHANGED <<transport, body>>

ListenerStep(m) == Step(m) /\ Unposted
ListenerStartup == Startup /\ Unposted
ListenerDrain == Drain /\ Unposted

-----------------------------------------------------------------------------
ListenerNext ==
  \/ \E p \in Post : Arrive(p) \/ RequestStep(p)
  \/ \E m \in Message : Receive(m) \/ ListenerStep(m)
  \/ ListenerStartup
  \/ ListenerStop \/ ListenerDrain \/ ListenerCloseDatabase \/ ListenerCrash

ListenerSpec == ListenerInit /\ [][ListenerNext]_listenerVars

\* As for the pipeline; a request's timer fires if nothing else ends it.  Stopping
\* ends once it can.
ListenerFairSpec ==
  /\ ListenerSpec
  /\ \A m \in Message : WF_listenerVars(ListenerStep(m))
  /\ \A p \in Post : WF_listenerVars(RequestStep(p))
  /\ WF_listenerVars(ListenerStartup)
  /\ WF_listenerVars(ListenerDrain) /\ WF_listenerVars(ListenerCloseDatabase)

-----------------------------------------------------------------------------
(* Properties *)

\* Every variable of the listener has its type, and requests exist only with HTTP.
ListenerTypeOK ==
  /\ transport \in {"ws", "http"}
  /\ post \in [Post -> PostStage]
  /\ body \in [Post -> Posted \cup {Other}]
  /\ \A p \in Post : post[p] = "reading" => Serving

\* A post that was answered with 200 is in the database, whatever crash, stop or
\* other delivery came between: the platform will not post it again.
AcknowledgedIsKept ==
  \A p \in Post : post[p] = "ok" /\ IsMessage(p) => admission[body[p]] # "none"

\* An event whose body arrives after the stop is neither claimed nor recorded.
NothingTakenAfterStop ==
  [][transport = "http" /\ stopping => receipts' = receipts]_listenerVars

\* SQLite is closed under no event task and no request, although bodies may still
\* arrive when waitForIdle has returned.
NothingUnderClosedDatabase ==
  [][transport = "http" /\ phase = "up" /\ phase' = "down" /\ exits' = exits =>
       /\ \A m \in Message : at[m] = "idle"
       /\ \A p \in Post : post[p] # "reading"]_listenerVars

\* The platform can rely on what it is told, and a stop on what it waited for.
IngressHonest ==
  /\ [](ListenerTypeOK /\ AcknowledgedIsKept)
  /\ NothingTakenAfterStop /\ NothingUnderClosedDatabase

\* No slow client holds up a request, or the stop, for ever.
EveryBodyEnds == \A p \in Post : post[p] = "reading" ~> post[p] # "reading"
StopReturns == stopping ~> phase = "down"

\* Whatever was taken is settled, every request ends, and stop() returns.
EverythingSettles == EveryEventSettles /\ EveryBodyEnds /\ StopReturns
=============================================================================
