------------------------------- MODULE AgentHub -------------------------------
(***************************************************************************)
(* The Console's side of the agents: AgentHub and AgentConnection in       *)
(* src/webui/backend/app/control/hub.py, the WebSocket handler in          *)
(* ws_router.py, and the requests in router.py and main.py that change the *)
(* stored status of a node.                                                *)
(*                                                                         *)
(* Ping and rename are requests that run in worker threads.  Everything    *)
(* else runs on one event loop, so a step is what a coroutine does between *)
(* two awaits that can suspend it.  The hub's lock is never held across an *)
(* await, so taking it does not suspend.                                   *)
(*                                                                         *)
(* A session is one WebSocket and its handler.  An agent that lost its     *)
(* network opens a new one while the handler of the old one still waits to *)
(* receive, and frames that are under way on the old one still arrive.     *)
(* What an agent does is left open: it may answer a request that reached   *)
(* it at any time, or never.                                               *)
(*                                                                         *)
(* Variables                                                               *)
(*   record    nodes.status, or "none" when the row does not exist         *)
(*   session   progress of the handler of each session                     *)
(*   registry  hub._connections                                            *)
(*   call      the coroutine that waits for each call                      *)
(*   pending   connection._pending of each session                         *)
(*   stream    each log stream: its reader and its queue                   *)
(*   routed    connection._streams of each session                         *)
(*   asked     requests that reached the agent of each session             *)
(*   thread    the status a worker thread is about to write to a node, or  *)
(*             "none" when no thread is at work on it                       *)
(***************************************************************************)
EXTENDS Naturals

CONSTANTS
  Nodes,       \* nodes by uuid
  Sessions,    \* WebSocket sessions; one that closed may stand for a later one
  Calls,       \* requests of the panel; one that ended may stand for a later one
  Streams,     \* log streams, likewise
  NodeOf,      \* the node of a session, a call or a stream
  Kind,        \* what a call is for
  QueueSize,   \* items a log queue holds (1000)
  NoSession

Kinds == {"read", "summary", "decommission"}

ASSUME HubAssumption ==
  /\ NoSession \notin Sessions
  /\ NodeOf \in [Sessions \cup Calls \cup Streams -> Nodes]
  /\ Kind \in [Calls -> Kinds]
  /\ QueueSize \in Nat

VARIABLES record, session, registry, call, pending, stream, routed, asked, thread

hubVars == <<record, session, registry, call, pending, stream, routed, asked, thread>>

Statuses == {"none", "pending", "online", "offline"}

CallStates ==
  [ phase  : {"idle", "sending", "waiting"},
    on     : Sessions \cup {NoSession},
    future : {"open", "answered", "refused", "failed"} ]

StreamStates ==
  [ phase  : {"idle", "sending", "reading"},
    on     : Sessions \cup {NoSession},
    items  : 0..QueueSize,
    marked : BOOLEAN ]    \* the end marker None is in the queue

TypeOK ==
  /\ record \in [Nodes -> Statuses]
  /\ session \in [Sessions -> {"closed", "greeting", "open"}]
  /\ registry \in [Nodes -> Sessions \cup {NoSession}]
  /\ call \in [Calls -> CallStates]
  /\ pending \in [Sessions -> SUBSET Calls]
  /\ stream \in [Streams -> StreamStates]
  /\ routed \in [Sessions -> SUBSET Streams]
  /\ asked \in [Sessions -> SUBSET (Calls \cup Streams)]
  /\ thread \in [Nodes -> Statuses]

IdleCall   == [phase |-> "idle", on |-> NoSession, future |-> "open"]
IdleStream == [phase |-> "idle", on |-> NoSession, items |-> 0, marked |-> FALSE]

Init ==
  /\ record = [n \in Nodes |-> "pending"]
  /\ session = [s \in Sessions |-> "closed"]
  /\ registry = [n \in Nodes |-> NoSession]
  /\ call = [c \in Calls |-> IdleCall]
  /\ pending = [s \in Sessions |-> {}]
  /\ stream = [st \in Streams |-> IdleStream]
  /\ routed = [s \in Sessions |-> {}]
  /\ asked = [s \in Sessions |-> {}]
  /\ thread = [n \in Nodes |-> "none"]

\* update_node and mark_status_by_uuid: nothing happens to a node that is gone.
Marked(n, status) == IF record[n] = "none" THEN record ELSE [record EXCEPT ![n] = status]

\* Sensitivity check of TypeOK: a queue that is never full.
PutAlways(q, what) ==
  IF what = "end" THEN [q EXCEPT !.marked = TRUE] ELSE [q EXCEPT !.items = @ + 1]

\* put_nowait: what does not fit is dropped, the end marker too.
Put(q, what) ==
  IF q.items + (IF q.marked THEN 1 ELSE 0) >= QueueSize THEN q
  ELSE IF what = "end" THEN [q EXCEPT !.marked = TRUE]
  ELSE [q EXCEPT !.items = @ + 1]

\* fail_all: every caller and reader of a session is woken.
CallsFailed(S) ==
  [c \in Calls |-> IF (\E s \in S : c \in pending[s]) /\ call[c].future = "open"
                     THEN [call[c] EXCEPT !.future = "failed"] ELSE call[c]]

StreamsEnded(S) ==
  [st \in Streams |-> IF \E s \in S : st \in routed[s] THEN Put(stream[st], "end") ELSE stream[st]]

FailAll(S) ==
  /\ call' = CallsFailed(S)
  /\ pending' = [s \in Sessions |-> IF s \in S THEN {} ELSE pending[s]]
  /\ stream' = StreamsEnded(S)
  /\ routed' = [s \in Sessions |-> IF s \in S THEN {} ELSE routed[s]]

-----------------------------------------------------------------------------
(***************************************************************************)
(* Sessions.                                                               *)
(***************************************************************************)
Unused(s) ==
  /\ session[s] = "closed"
  /\ \A c \in Calls : call[c].on # s
  /\ \A st \in Streams : stream[st].on # s

\* hello with the right secret; a node that was deleted is refused.
Hello(s) ==
  /\ Unused(s)
  /\ record[NodeOf[s]] # "none"
  /\ session' = [session EXCEPT ![s] = "greeting"]
  /\ UNCHANGED <<record, registry, call, pending, stream, routed, asked, thread>>

\* The acknowledgement was sent: the node is marked and the session registered.
\* Sensitivity check of NoOrphans: the replaced session keeps its callers.
GreetKeepingCallers(s) ==
  /\ session[s] = "greeting"
  /\ session' = [session EXCEPT ![s] = "open"]
  /\ registry' = [registry EXCEPT ![NodeOf[s]] = s]
  /\ record' = Marked(NodeOf[s], "online")
  /\ UNCHANGED <<call, pending, stream, routed, asked, thread>>

Greet(s) ==
  /\ session[s] = "greeting"
  /\ session' = [session EXCEPT ![s] = "open"]
  /\ registry' = [registry EXCEPT ![NodeOf[s]] = s]
  /\ record' = Marked(NodeOf[s], "online")
  /\ FailAll({registry[NodeOf[s]]} \ {NoSession})
  /\ UNCHANGED <<asked, thread>>

\* The acknowledgement could not be sent: the handler ends before its try.
GreetFails(s) ==
  /\ session[s] = "greeting"
  /\ session' = [session EXCEPT ![s] = "closed"]
  /\ UNCHANGED <<record, registry, call, pending, stream, routed, asked, thread>>

\* A heartbeat, also of a session that was replaced.
Heartbeat(s) ==
  /\ session[s] = "open"
  /\ record' = Marked(NodeOf[s], "online")
  /\ UNCHANGED <<session, registry, call, pending, stream, routed, asked, thread>>

\* Sensitivity check of RegistryKept: unregister removes whatever is registered.
RegistryWithoutNode(s) == [registry EXCEPT ![NodeOf[s]] = NoSession]

RegistryWithout(s) ==
  IF registry[NodeOf[s]] = s THEN [registry EXCEPT ![NodeOf[s]] = NoSession] ELSE registry

\* The handler's finally: unregister, then the offline mark, whoever serves the
\* node by now.
Disconnect(s) ==
  /\ session[s] = "open"
  /\ session' = [session EXCEPT ![s] = "closed"]
  /\ registry' = RegistryWithout(s)
  /\ FailAll({s})
  /\ record' = Marked(NodeOf[s], "offline")
  /\ asked' = [asked EXCEPT ![s] = {}]
  /\ UNCHANGED thread

-----------------------------------------------------------------------------
(***************************************************************************)
(* Calls.                                                                  *)
(***************************************************************************)
\* Ids of requests are random and never used again.
Fresh(id) == \A s \in Sessions : id \notin asked[s] \cup pending[s] \cup routed[s]

\* hub.get and call up to the first await.  A summary goes over the nodes it
\* listed when it began.  (Without a session the request fails at once and
\* nothing changes, but see DeleteOffline.)
StartCall(c) ==
  LET s == registry[NodeOf[c]]
  IN  /\ call[c].phase = "idle" /\ Fresh(c)
      /\ Kind[c] = "summary" \/ record[NodeOf[c]] # "none"
      /\ s # NoSession
      /\ call' = [call EXCEPT ![c] = [phase |-> "sending", on |-> s, future |-> "open"]]
      /\ pending' = [pending EXCEPT ![s] = @ \cup {c}]
      /\ UNCHANGED <<record, session, registry, stream, routed, asked, thread>>

CallSent(c) ==
  /\ call[c].phase = "sending" /\ session[call[c].on] = "open"
  /\ call' = [call EXCEPT ![c].phase = "waiting"]
  /\ asked' = [asked EXCEPT ![call[c].on] = @ \cup {c}]
  /\ UNCHANGED <<record, session, registry, pending, stream, routed, thread>>

\* What the caller does with the status when its call ended.  delete_node goes
\* on to delete the row after every error of the hub, but not after others.
AfterCall(c, outcome) ==
  CASE Kind[c] = "summary" ->
         Marked(NodeOf[c], IF outcome = "answered" THEN "online" ELSE "offline")
    [] Kind[c] = "decommission" /\ outcome # "raised" -> [record EXCEPT ![NodeOf[c]] = "none"]
    [] OTHER -> record

EndCall(c, outcome) ==
  /\ call' = [call EXCEPT ![c] = IdleCall]
  /\ pending' = [pending EXCEPT ![call[c].on] = @ \ {c}]
  /\ record' = AfterCall(c, outcome)
  /\ UNCHANGED <<session, registry, stream, routed, thread>>

SendFails(c) ==
  /\ call[c].phase = "sending"
  /\ EndCall(c, "raised")
  /\ UNCHANGED asked

\* Sensitivity check of CallsEnd: wait_for without a timeout.
NeverTimeout(c) ==
  /\ FALSE
  /\ EndCall(c, "timeout")
  /\ UNCHANGED asked

Timeout(c) ==
  /\ call[c].phase = "waiting" /\ call[c].future = "open"
  /\ EndCall(c, "timeout")
  /\ UNCHANGED asked

\* The caller resumes some time after its future was done.
Resume(c) ==
  /\ call[c].phase = "waiting" /\ call[c].future # "open"
  /\ EndCall(c, call[c].future)
  /\ asked' = [asked EXCEPT ![call[c].on] = @ \ {c}]

\* handle_response; an answer nobody waits for any more is dropped.
Response(s, c, result) ==
  /\ session[s] = "open" /\ c \in asked[s]
  /\ asked' = [asked EXCEPT ![s] = @ \ {c}]
  /\ call' = IF c \in pending[s] /\ call[c].future = "open"
               THEN [call EXCEPT ![c].future = result] ELSE call
  /\ UNCHANGED <<record, session, registry, pending, stream, routed, thread>>

\* delete_node of a node without a session.
DeleteOffline(n) ==
  /\ registry[n] = NoSession /\ record[n] # "none"
  /\ record' = [record EXCEPT ![n] = "none"]
  /\ UNCHANGED <<session, registry, call, pending, stream, routed, asked, thread>>

\* ping_node looks at the registry and decides what to write.
PingLooks(n) ==
  /\ thread[n] = "none"
  /\ record[n] # "none" /\ registry[n] # NoSession
  /\ thread' = [thread EXCEPT ![n] = "online"]
  /\ UNCHANGED <<record, session, registry, call, pending, stream, routed, asked>>

\* patch_node renames: update_node reads the whole row to write it back.
RenameReads(n) ==
  /\ thread[n] = "none"
  /\ record[n] # "none"
  /\ thread' = [thread EXCEPT ![n] = record[n]]
  /\ UNCHANGED <<record, session, registry, call, pending, stream, routed, asked>>

ThreadWrites(n) ==
  /\ thread[n] # "none"
  /\ thread' = [thread EXCEPT ![n] = "none"]
  /\ record' = Marked(n, thread[n])
  /\ UNCHANGED <<session, registry, call, pending, stream, routed, asked>>

-----------------------------------------------------------------------------
(***************************************************************************)
(* Log streams.                                                            *)
(***************************************************************************)
OpenStream(st) ==
  LET s == registry[NodeOf[st]]
  IN  /\ stream[st].phase = "idle" /\ Fresh(st)
      /\ record[NodeOf[st]] # "none" /\ s # NoSession
      /\ stream' = [stream EXCEPT ![st] = [IdleStream EXCEPT !.phase = "sending", !.on = s]]
      /\ routed' = [routed EXCEPT ![s] = @ \cup {st}]
      /\ UNCHANGED <<record, session, registry, call, pending, asked, thread>>

StreamSent(st) ==
  /\ stream[st].phase = "sending" /\ session[stream[st].on] = "open"
  /\ stream' = [stream EXCEPT ![st].phase = "reading"]
  /\ asked' = [asked EXCEPT ![stream[st].on] = @ \cup {st}]
  /\ UNCHANGED <<record, session, registry, call, pending, routed, thread>>

\* The send raises: open_stream has no finally, so the entry stays until the
\* session ends.
StreamSendFails(st) ==
  /\ stream[st].phase = "sending"
  /\ stream' = [stream EXCEPT ![st] = IdleStream]
  /\ UNCHANGED <<record, session, registry, call, pending, routed, asked, thread>>

\* handle_stream.
Data(s, st) ==
  /\ session[s] = "open" /\ st \in asked[s] /\ st \in routed[s]
  /\ stream' = [stream EXCEPT ![st] = Put(@, "data")]
  /\ UNCHANGED <<record, session, registry, call, pending, routed, asked, thread>>

End(s, st) ==
  /\ session[s] = "open" /\ st \in asked[s]
  /\ asked' = [asked EXCEPT ![s] = @ \ {st}]
  /\ routed' = [routed EXCEPT ![s] = @ \ {st}]
  /\ stream' = IF st \in routed[s] THEN [stream EXCEPT ![st] = Put(@, "end")] ELSE stream
  /\ UNCHANGED <<record, session, registry, call, pending, thread>>

Read(st) ==
  /\ stream[st].phase = "reading" /\ stream[st].items > 0
  /\ stream' = [stream EXCEPT ![st].items = @ - 1]
  /\ UNCHANGED <<record, session, registry, call, pending, routed, asked, thread>>

\* cancel_stream, when the reader met the marker or its client went away.
CancelStream(st) ==
  /\ stream' = [stream EXCEPT ![st] = IdleStream]
  /\ routed' = [routed EXCEPT ![stream[st].on] = @ \ {st}]
  /\ UNCHANGED <<record, session, registry, call, pending, asked, thread>>

ReaderEnds(st) ==
  /\ stream[st].phase = "reading" /\ stream[st].items = 0 /\ stream[st].marked
  /\ CancelStream(st)

ClientLeaves(st) ==
  /\ stream[st].phase = "reading"
  /\ CancelStream(st)

-----------------------------------------------------------------------------
CallStep(c) ==
  StartCall(c) \/ CallSent(c) \/ SendFails(c) \/ Timeout(c) \/ Resume(c)

StreamStep(st) ==
  \/ OpenStream(st) \/ StreamSent(st) \/ StreamSendFails(st)
  \/ Read(st) \/ ReaderEnds(st) \/ ClientLeaves(st)

FrameArrives(s) ==
  \/ Heartbeat(s)
  \/ \E c \in Calls, result \in {"answered", "refused"} : Response(s, c, result)
  \/ \E st \in Streams : Data(s, st) \/ End(s, st)

NodeRequest(n) ==
  DeleteOffline(n) \/ PingLooks(n) \/ RenameReads(n) \/ ThreadWrites(n)

Next ==
  \/ \E s \in Sessions : Hello(s) \/ Greet(s) \/ GreetFails(s) \/ Disconnect(s)
  \/ \E s \in Sessions : FrameArrives(s)
  \/ \E c \in Calls : CallStep(c)
  \/ \E st \in Streams : StreamStep(st)
  \/ \E n \in Nodes : NodeRequest(n)

Spec == Init /\ [][Next]_hubVars

\* A send ends, one way or the other, and the event loop runs what is due:
\* the callers that were woken and the timers.
FairSpec ==
  /\ Spec
  /\ \A c \in Calls : /\ WF_hubVars(CallSent(c) \/ SendFails(c))
                      /\ WF_hubVars(Timeout(c))
                      /\ WF_hubVars(Resume(c))

-----------------------------------------------------------------------------
(***************************************************************************)
(* Properties.                                                             *)
(***************************************************************************)

\* A request or stream waits only on the session that serves its node, and a
\* caller whose future is open can still be found by fail_all: a connection that
\* is replaced or lost leaves nobody behind who waits for it (hub.py:182-198).
NoOrphans ==
  /\ \A s \in Sessions : pending[s] \cup routed[s] # {} => registry[NodeOf[s]] = s
  /\ \A c \in Calls : call[c].phase # "idle" /\ call[c].future = "open"
                        => c \in pending[call[c].on]

\* A session that serves its node is unregistered only by its own end or by a
\* newer session: the late end of a replaced one does not take the newer one out
\* (hub.py:194).
RegistryKept ==
  [][\A s \in Sessions :
       registry[NodeOf[s]] = s /\ session'[s] = "open"
         => \/ registry'[NodeOf[s]] = s
            \/ \E r \in Sessions : registry'[NodeOf[s]] = r /\ session[r] = "greeting"]_hubVars

\* Every request ends, whatever the agent and the network do (hub.py:74).
CallsEnd == \A c \in Calls : call[c].phase # "idle" ~> call[c].phase = "idle"

\* What ws_router.py:9 says: a node whose connections have ended is marked offline.
OfflineWhenGone ==
  \A n \in Nodes :
    (\A s \in Sessions : NodeOf[s] = n => session[s] = "closed") => record[n] # "online"

\* What hub.py:90 and hub.py:147 say: a reader whose stream has ended, or whose
\* connection has, finds the end marker in its queue.
EndReachesReader ==
  \A st \in Streams :
    stream[st].phase = "reading" /\ (\A s \in Sessions : st \notin routed[s])
      => stream[st].marked
=============================================================================
