---------------------------- MODULE AgentHubProofs ----------------------------
(***************************************************************************)
(* For every set of nodes, sessions, requests and streams: the hub leaves  *)
(* no caller behind on a connection that is gone, and the late end of a    *)
(* replaced session leaves its successor registered.                       *)
(***************************************************************************)
EXTENDS AgentHub, TLAPS

\* What is registered for a node is a session of this node that is open.
RegistryLive ==
  \A n \in Nodes : \A s \in Sessions :
    registry[n] = s => NodeOf[s] = n /\ session[s] = "open"

\* Whoever is not idle has a session.
HasSession ==
  /\ \A c \in Calls : call[c].phase # "idle" => call[c].on \in Sessions
  /\ \A st \in Streams : stream[st].phase # "idle" => stream[st].on \in Sessions

HubInv == TypeOK /\ RegistryLive /\ HasSession /\ NoOrphans

-----------------------------------------------------------------------------
\* A queue stays within its size (hub.py:133-144).
LEMMA PutTyped ==
  ASSUME HubAssumption, NEW q \in StreamStates, NEW what
  PROVE  /\ Put(q, what) \in StreamStates
         /\ Put(q, what).phase = q.phase
         /\ Put(q, what).on = q.on
<1>1. q.items \in 0..QueueSize /\ QueueSize \in Nat
  BY DEF StreamStates, HubAssumption
<1>2. CASE q.items + (IF q.marked THEN 1 ELSE 0) >= QueueSize
  BY <1>2 DEF Put
<1>3. CASE ~(q.items + (IF q.marked THEN 1 ELSE 0) >= QueueSize)
  <2>1. q.items + 1 \in 0..QueueSize
    <3>1. CASE q.marked  BY <1>1, <1>3, <3>1
    <3>2. CASE ~q.marked  BY <1>1, <1>3, <3>2
    <3>  QED  BY <3>1, <3>2
  <2>2. /\ [q EXCEPT !.items = q.items + 1] \in StreamStates
        /\ [q EXCEPT !.items = q.items + 1].phase = q.phase
        /\ [q EXCEPT !.items = q.items + 1].on = q.on
    BY <2>1 DEF StreamStates
  <2>3. /\ [q EXCEPT !.marked = TRUE] \in StreamStates
        /\ [q EXCEPT !.marked = TRUE].phase = q.phase
        /\ [q EXCEPT !.marked = TRUE].on = q.on
    BY DEF StreamStates
  <2>4. Put(q, what) = IF what = "end" THEN [q EXCEPT !.marked = TRUE]
                         ELSE [q EXCEPT !.items = q.items + 1]
    BY <1>3 DEF Put
  <2>  QED  BY <2>2, <2>3, <2>4
<1>  QED  BY <1>2, <1>3

\* The stored status remains one of the four.
LEMMA MarkedTyped ==
  ASSUME TypeOK, NEW n \in Nodes, NEW status \in Statuses
  PROVE  Marked(n, status) \in [Nodes -> Statuses]
  BY DEF TypeOK, Marked

\* What a caller leaves in the stored status is one of the four.
LEMMA AfterCallTyped ==
  ASSUME HubAssumption, TypeOK, NEW c \in Calls, NEW outcome
  PROVE  AfterCall(c, outcome) \in [Nodes -> Statuses]
<1>1. NodeOf[c] \in Nodes  BY DEF HubAssumption
<1>2. /\ Marked(NodeOf[c], "online") \in [Nodes -> Statuses]
      /\ Marked(NodeOf[c], "offline") \in [Nodes -> Statuses]
  BY <1>1, MarkedTyped DEF Statuses
<1>3. [record EXCEPT ![NodeOf[c]] = "none"] \in [Nodes -> Statuses]
  BY <1>1 DEF TypeOK, Statuses
<1>4. Kind[c] \in Kinds  BY DEF HubAssumption
<1>  QED  BY <1>2, <1>3, <1>4 DEF AfterCall, TypeOK, Kinds

\* What fail_all changes and what it leaves alone (hub.py:146-159).
LEMMA FailAllEffect ==
  ASSUME HubAssumption, TypeOK, NEW S \in SUBSET Sessions, FailAll(S)
  PROVE  /\ call' \in [Calls -> CallStates]
         /\ pending' \in [Sessions -> SUBSET Calls]
         /\ stream' \in [Streams -> StreamStates]
         /\ routed' \in [Sessions -> SUBSET Streams]
         /\ \A c \in Calls : /\ call'[c].phase = call[c].phase
                             /\ call'[c].on = call[c].on
                             /\ call'[c].future = "open" =>
                                  /\ call[c].future = "open"
                                  /\ \A s \in S : c \notin pending[s]
         /\ \A st \in Streams : /\ stream'[st].phase = stream[st].phase
                                /\ stream'[st].on = stream[st].on
         /\ \A s \in Sessions : /\ pending'[s] = IF s \in S THEN {} ELSE pending[s]
                                /\ routed'[s] = IF s \in S THEN {} ELSE routed[s]
<1>1. /\ pending' \in [Sessions -> SUBSET Calls]
      /\ routed' \in [Sessions -> SUBSET Streams]
      /\ \A s \in Sessions : /\ pending'[s] = IF s \in S THEN {} ELSE pending[s]
                             /\ routed'[s] = IF s \in S THEN {} ELSE routed[s]
  BY DEF FailAll, TypeOK
<1>2. ASSUME NEW c \in Calls
      PROVE  /\ call'[c] \in CallStates
             /\ call'[c].phase = call[c].phase
             /\ call'[c].on = call[c].on
             /\ call'[c].future = "open" => /\ call[c].future = "open"
                                            /\ \A s \in S : c \notin pending[s]
  <2>1. call[c] \in CallStates  BY DEF TypeOK
  <2>2. call'[c] = IF (\E s \in S : c \in pending[s]) /\ call[c].future = "open"
                     THEN [call[c] EXCEPT !.future = "failed"] ELSE call[c]
    BY DEF FailAll, CallsFailed
  <2>3. CASE (\E s \in S : c \in pending[s]) /\ call[c].future = "open"
    BY <2>1, <2>2, <2>3 DEF CallStates
  <2>4. CASE ~((\E s \in S : c \in pending[s]) /\ call[c].future = "open")
    BY <2>1, <2>2, <2>4
  <2>  QED  BY <2>3, <2>4
<1>3. ASSUME NEW st \in Streams
      PROVE  /\ stream'[st] \in StreamStates
             /\ stream'[st].phase = stream[st].phase
             /\ stream'[st].on = stream[st].on
  <2>1. stream[st] \in StreamStates  BY DEF TypeOK
  <2>2. stream'[st] = IF \E s \in S : st \in routed[s] THEN Put(stream[st], "end")
                        ELSE stream[st]
    BY DEF FailAll, StreamsEnded
  <2>  QED  BY <2>1, <2>2, PutTyped
<1>4. call' = [c \in Calls |-> call'[c]] /\ stream' = [st \in Streams |-> stream'[st]]
  BY DEF FailAll, CallsFailed, StreamsEnded
<1>  QED  BY <1>1, <1>2, <1>3, <1>4

-----------------------------------------------------------------------------
\* The initial states satisfy the inductive invariant.
LEMMA HubInit ==
  ASSUME HubAssumption, Init
  PROVE  HubInv
<1>1. TypeOK
  <2>1. IdleStream \in StreamStates
    BY DEF HubAssumption, IdleStream, StreamStates
  <2>  QED  BY <2>1 DEF Init, TypeOK, Statuses, CallStates, IdleCall
<1>2. RegistryLive
  BY DEF Init, RegistryLive, HubAssumption
<1>3. HasSession /\ NoOrphans
  BY DEF Init, HasSession, NoOrphans, IdleCall, IdleStream, HubAssumption
<1>  QED  BY <1>1, <1>2, <1>3 DEF HubInv

\* Every step of the handler of a session preserves the types.
LEMMA SessionTypes ==
  ASSUME HubAssumption, HubInv, NEW s \in Sessions,
         Hello(s) \/ Greet(s) \/ GreetFails(s) \/ Disconnect(s) \/ FrameArrives(s)
  PROVE  TypeOK'
<1>  USE DEF HubInv
<1>1. NodeOf[s] \in Nodes  BY DEF HubAssumption
<1>2. /\ Marked(NodeOf[s], "online") \in [Nodes -> Statuses]
      /\ Marked(NodeOf[s], "offline") \in [Nodes -> Statuses]
  BY <1>1, MarkedTyped DEF Statuses
<1>3. CASE Hello(s) \/ GreetFails(s)
  BY <1>3 DEF Hello, GreetFails, TypeOK
<1>4. CASE Greet(s)
  <2>1. {registry[NodeOf[s]]} \ {NoSession} \in SUBSET Sessions
    BY <1>1 DEF TypeOK
  <2>2. /\ call' \in [Calls -> CallStates]
        /\ pending' \in [Sessions -> SUBSET Calls]
        /\ stream' \in [Streams -> StreamStates]
        /\ routed' \in [Sessions -> SUBSET Streams]
    BY <1>4, <2>1, FailAllEffect DEF Greet
  <2>  QED  BY <1>1, <1>2, <1>4, <2>2 DEF Greet, TypeOK
<1>5. CASE Disconnect(s)
  <2>1. /\ call' \in [Calls -> CallStates]
        /\ pending' \in [Sessions -> SUBSET Calls]
        /\ stream' \in [Streams -> StreamStates]
        /\ routed' \in [Sessions -> SUBSET Streams]
    BY <1>5, FailAllEffect DEF Disconnect
  <2>2. registry' \in [Nodes -> Sessions \cup {NoSession}]
    BY <1>1, <1>5 DEF Disconnect, RegistryWithout, TypeOK
  <2>  QED  BY <1>2, <1>5, <2>1, <2>2 DEF Disconnect, TypeOK
<1>6. CASE Heartbeat(s)
  BY <1>2, <1>6 DEF Heartbeat, TypeOK
<1>7. ASSUME NEW c \in Calls, NEW result \in {"answered", "refused"}, Response(s, c, result)
      PROVE  TypeOK'
  <2>1. [call EXCEPT ![c].future = result] \in [Calls -> CallStates]
    BY DEF TypeOK, CallStates
  <2>2. call' \in [Calls -> CallStates]
    BY <1>7, <2>1 DEF Response, TypeOK
  <2>3. asked' \in [Sessions -> SUBSET (Calls \cup Streams)]
    BY <1>7 DEF Response, TypeOK
  <2>  QED  BY <1>7, <2>2, <2>3 DEF Response, TypeOK
<1>8. ASSUME NEW st \in Streams, Data(s, st) \/ End(s, st)
      PROVE  TypeOK'
  <2>1. /\ Put(stream[st], "data") \in StreamStates
        /\ Put(stream[st], "end") \in StreamStates
    BY PutTyped DEF TypeOK
  <2>2. CASE Data(s, st)  BY <2>1, <2>2 DEF Data, TypeOK
  <2>3. CASE End(s, st)
    <3>1. stream' \in [Streams -> StreamStates]
      BY <2>1, <2>3 DEF End, TypeOK
    <3>2. routed' \in [Sessions -> SUBSET Streams]
      BY <2>3 DEF End, TypeOK
    <3>3. asked' \in [Sessions -> SUBSET (Calls \cup Streams)]
      BY <2>3 DEF End, TypeOK
    <3>  QED  BY <2>3, <3>1, <3>2, <3>3 DEF End, TypeOK
  <2>  QED  BY <1>8, <2>2, <2>3
<1>  QED  BY <1>3, <1>4, <1>5, <1>6, <1>7, <1>8 DEF FrameArrives

\* Every step of a caller preserves the types.
LEMMA CallTypes ==
  ASSUME HubAssumption, HubInv, NEW c \in Calls, CallStep(c)
  PROVE  TypeOK'
<1>  USE DEF HubInv
<1>1. NodeOf[c] \in Nodes  BY DEF HubAssumption
<1>2. ASSUME NEW outcome, EndCall(c, outcome), call[c].phase # "idle"
      PROVE  /\ call' \in [Calls -> CallStates]
             /\ pending' \in [Sessions -> SUBSET Calls]
             /\ record' \in [Nodes -> Statuses]
             /\ UNCHANGED <<session, registry, stream, routed, thread>>
  BY <1>2, AfterCallTyped DEF EndCall, TypeOK, CallStates, IdleCall
<1>3. CASE StartCall(c)
  <2>  DEFINE s == registry[NodeOf[c]]
  <2>1. s \in Sessions  BY <1>1, <1>3 DEF StartCall, TypeOK
  <2>2. call' \in [Calls -> CallStates]
    BY <1>3, <2>1 DEF StartCall, TypeOK, CallStates
  <2>3. pending' \in [Sessions -> SUBSET Calls]
    BY <1>3, <2>1 DEF StartCall, TypeOK
  <2>  QED  BY <1>3, <2>2, <2>3 DEF StartCall, TypeOK
<1>4. CASE CallSent(c)
  <2>1. call[c].on \in Sessions  BY <1>4 DEF CallSent, HasSession
  <2>2. call' \in [Calls -> CallStates]
    BY <1>4 DEF CallSent, TypeOK, CallStates
  <2>3. asked' \in [Sessions -> SUBSET (Calls \cup Streams)]
    BY <1>4, <2>1 DEF CallSent, TypeOK
  <2>  QED  BY <1>4, <2>2, <2>3 DEF CallSent, TypeOK
<1>5. CASE SendFails(c) \/ Timeout(c)
  BY <1>2, <1>5 DEF SendFails, Timeout, TypeOK
<1>6. CASE Resume(c)
  <2>1. asked' \in [Sessions -> SUBSET (Calls \cup Streams)]
    BY <1>6 DEF Resume, TypeOK
  <2>  QED  BY <1>2, <1>6, <2>1 DEF Resume, TypeOK
<1>  QED  BY <1>3, <1>4, <1>5, <1>6 DEF CallStep

\* Every step of the reader of a stream preserves the types.
LEMMA StreamTypes ==
  ASSUME HubAssumption, HubInv, NEW st \in Streams, StreamStep(st)
  PROVE  TypeOK'
<1>  USE DEF HubInv
<1>1. NodeOf[st] \in Nodes  BY DEF HubAssumption
<1>2. IdleStream \in StreamStates
  BY DEF HubAssumption, IdleStream, StreamStates
<1>3. CASE OpenStream(st)
  <2>  DEFINE s == registry[NodeOf[st]]
  <2>1. s \in Sessions  BY <1>1, <1>3 DEF OpenStream, TypeOK
  <2>2. [IdleStream EXCEPT !.phase = "sending", !.on = s] \in StreamStates
    BY <1>2, <2>1 DEF StreamStates, IdleStream
  <2>3. stream' \in [Streams -> StreamStates]
    BY <1>3, <2>2 DEF OpenStream, TypeOK
  <2>4. routed' \in [Sessions -> SUBSET Streams]
    BY <1>3, <2>1 DEF OpenStream, TypeOK
  <2>  QED  BY <1>3, <2>3, <2>4 DEF OpenStream, TypeOK
<1>4. CASE StreamSent(st)
  <2>1. stream[st].on \in Sessions  BY <1>4 DEF StreamSent, HasSession
  <2>2. stream' \in [Streams -> StreamStates]
    BY <1>4 DEF StreamSent, TypeOK, StreamStates
  <2>3. asked' \in [Sessions -> SUBSET (Calls \cup Streams)]
    BY <1>4, <2>1 DEF StreamSent, TypeOK
  <2>  QED  BY <1>4, <2>2, <2>3 DEF StreamSent, TypeOK
<1>5. CASE StreamSendFails(st)
  BY <1>2, <1>5 DEF StreamSendFails, TypeOK
<1>6. CASE Read(st)
  <2>1. stream[st].items - 1 \in 0..QueueSize
    BY <1>6 DEF Read, TypeOK, StreamStates, HubAssumption
  <2>  DEFINE read == [stream[st] EXCEPT !.items = stream[st].items - 1]
  <2>2. read \in StreamStates
    BY <2>1 DEF TypeOK, StreamStates
  <2>3. stream' = [stream EXCEPT ![st] = read]
    BY <1>6 DEF Read
  <2>4. stream' \in [Streams -> StreamStates]
    BY <2>2, <2>3 DEF TypeOK
  <2>  QED  BY <1>6, <2>4 DEF Read, TypeOK
<1>7. CASE CancelStream(st)
  <2>1. stream' \in [Streams -> StreamStates]
    BY <1>2, <1>7 DEF CancelStream, TypeOK
  <2>2. routed' \in [Sessions -> SUBSET Streams]
    BY <1>7 DEF CancelStream, TypeOK
  <2>  QED  BY <1>7, <2>1, <2>2 DEF CancelStream, TypeOK
<1>  QED  BY <1>3, <1>4, <1>5, <1>6, <1>7 DEF StreamStep, ReaderEnds, ClientLeaves

\* Every request that changes the stored status preserves the types.
LEMMA NodeTypes ==
  ASSUME HubAssumption, HubInv, NEW n \in Nodes, NodeRequest(n)
  PROVE  TypeOK'
<1>  USE DEF HubInv
<1>1. record[n] \in Statuses /\ thread[n] \in Statuses  BY DEF TypeOK
<1>2. Marked(n, thread[n]) \in [Nodes -> Statuses]  BY <1>1, MarkedTyped
<1>3. CASE DeleteOffline(n)  BY <1>3 DEF DeleteOffline, TypeOK, Statuses
<1>4. CASE PingLooks(n) \/ RenameReads(n)
  BY <1>1, <1>4 DEF PingLooks, RenameReads, TypeOK, Statuses
<1>5. CASE ThreadWrites(n)
  BY <1>2, <1>5 DEF ThreadWrites, TypeOK, Statuses
<1>  QED  BY <1>3, <1>4, <1>5 DEF NodeRequest

\* Every step preserves the types.
LEMMA HubTypes ==
  ASSUME HubAssumption, HubInv, [Next]_hubVars
  PROVE  TypeOK'
<1>1. CASE UNCHANGED hubVars  BY <1>1 DEF HubInv, TypeOK, hubVars
<1>2. CASE Next  BY <1>2, SessionTypes, CallTypes, StreamTypes, NodeTypes DEF Next
<1>  QED  BY <1>1, <1>2

-----------------------------------------------------------------------------
\* What a step does to the registry: only the handlers' beginning and end touch
\* it, and the end of a session that was replaced does not.
LEMMA RegistrySteps ==
  ASSUME HubAssumption, HubInv, [Next]_hubVars
  PROVE  /\ RegistryLive'
         /\ \A s \in Sessions :
              registry[NodeOf[s]] = s /\ session'[s] = "open"
                => \/ registry'[NodeOf[s]] = s
                   \/ \E r \in Sessions : registry'[NodeOf[s]] = r /\ session[r] = "greeting"
<1>  USE DEF HubInv
<1>1. \A s \in Sessions : NodeOf[s] \in Nodes  BY DEF HubAssumption
<1>2. CASE UNCHANGED <<registry, session>>
  BY <1>2 DEF RegistryLive
<1>3. ASSUME NEW s \in Sessions, Hello(s) \/ GreetFails(s)
      PROVE  /\ RegistryLive'
             /\ registry' = registry
  BY <1>3 DEF Hello, Unused, GreetFails, RegistryLive, TypeOK
<1>4. ASSUME NEW s \in Sessions, Greet(s)
      PROVE  /\ RegistryLive'
             /\ session[s] = "greeting" /\ registry' = [registry EXCEPT ![NodeOf[s]] = s]
  BY <1>1, <1>4 DEF Greet, RegistryLive, TypeOK
<1>5. ASSUME NEW s \in Sessions, Disconnect(s)
      PROVE  /\ RegistryLive'
             /\ session'[s] = "closed"
             /\ \A r \in Sessions : registry[NodeOf[r]] = r /\ r # s
                                      => registry'[NodeOf[r]] = r
  <2>1. CASE registry[NodeOf[s]] = s
    BY <1>1, <1>5, <2>1 DEF Disconnect, RegistryWithout, RegistryLive, TypeOK, HubAssumption
  <2>2. CASE registry[NodeOf[s]] # s
    BY <1>1, <1>5, <2>2 DEF Disconnect, RegistryWithout, RegistryLive, TypeOK
  <2>  QED  BY <2>1, <2>2
<1>6. \/ UNCHANGED <<registry, session>>
      \/ \E s \in Sessions : Hello(s) \/ GreetFails(s)
      \/ \E s \in Sessions : Greet(s)
      \/ \E s \in Sessions : Disconnect(s)
  <2>1. CASE \E s \in Sessions : FrameArrives(s)
    BY <2>1 DEF FrameArrives, Heartbeat, Response, Data, End
  <2>2. CASE \E c \in Calls : CallStep(c)
    BY <2>2 DEF CallStep, StartCall, CallSent, SendFails, Timeout, Resume, EndCall
  <2>3. CASE \E st \in Streams : StreamStep(st)
    BY <2>3 DEF StreamStep, OpenStream, StreamSent, StreamSendFails, Read, ReaderEnds,
                ClientLeaves, CancelStream
  <2>4. CASE \E n \in Nodes : NodeRequest(n)
    BY <2>4 DEF NodeRequest, DeleteOffline, PingLooks, RenameReads, ThreadWrites
  <2>5. CASE UNCHANGED hubVars  BY <2>5 DEF hubVars
  <2>  QED  BY <2>1, <2>2, <2>3, <2>4, <2>5 DEF Next
<1>7. CASE \E s \in Sessions : Greet(s)
  <2>1. PICK s \in Sessions : Greet(s)  BY <1>7
  <2>2. /\ RegistryLive'
        /\ session[s] = "greeting" /\ registry' = [registry EXCEPT ![NodeOf[s]] = s]
    BY <1>4, <2>1
  <2>3. ASSUME NEW r \in Sessions, registry[NodeOf[r]] = r
        PROVE  registry'[NodeOf[r]] = r \/ registry'[NodeOf[r]] = s
    BY <1>1, <2>2, <2>3 DEF TypeOK
  <2>  QED  BY <2>2, <2>3
<1>8. CASE \E s \in Sessions : Disconnect(s)
  <2>1. PICK s \in Sessions : Disconnect(s)  BY <1>8
  <2>  QED  BY <1>5, <2>1
<1>  QED  BY <1>2, <1>3, <1>6, <1>7, <1>8

\* A caller and a reader keep the session they began on until they are idle again.
LEMMA SessionKept ==
  ASSUME HubAssumption, HubInv, [Next]_hubVars
  PROVE  HasSession'
<1>  USE DEF HubInv
<1>1. \A x \in Sessions \cup Calls \cup Streams : NodeOf[x] \in Nodes
  BY DEF HubAssumption
<1>2. ASSUME NEW S \in SUBSET Sessions, FailAll(S)
      PROVE  HasSession'
  BY <1>2, FailAllEffect DEF HasSession
<1>3. ASSUME NEW s \in Sessions, Hello(s) \/ Greet(s) \/ GreetFails(s) \/ Disconnect(s)
      PROVE  HasSession'
  <2>1. CASE Hello(s) \/ GreetFails(s)  BY <2>1 DEF Hello, GreetFails, HasSession
  <2>2. CASE Greet(s)
    <3>1. {registry[NodeOf[s]]} \ {NoSession} \in SUBSET Sessions
      BY <1>1 DEF TypeOK
    <3>  QED  BY <1>2, <2>2, <3>1 DEF Greet
  <2>3. CASE Disconnect(s)  BY <1>2, <2>3 DEF Disconnect
  <2>  QED  BY <1>3, <2>1, <2>2, <2>3
<1>4. ASSUME NEW s \in Sessions, FrameArrives(s)
      PROVE  HasSession'
  <2>1. CASE Heartbeat(s)  BY <2>1 DEF Heartbeat, HasSession
  <2>2. ASSUME NEW c \in Calls, NEW result, Response(s, c, result)
        PROVE  HasSession'
    BY <2>2 DEF Response, HasSession, TypeOK, CallStates
  <2>3. ASSUME NEW st \in Streams, Data(s, st) \/ End(s, st)
        PROVE  HasSession'
    <3>1. \A what : /\ Put(stream[st], what).phase = stream[st].phase
                    /\ Put(stream[st], what).on = stream[st].on
      BY PutTyped DEF TypeOK
    <3>2. call' = call  BY <2>3 DEF Data, End
    <3>3. \A q \in Streams : /\ stream'[q].phase = stream[q].phase
                             /\ stream'[q].on = stream[q].on
      BY <2>3, <3>1 DEF Data, End, TypeOK
    <3>  QED  BY <3>2, <3>3 DEF HasSession
  <2>  QED  BY <1>4, <2>1, <2>2, <2>3 DEF FrameArrives
<1>5. ASSUME NEW c \in Calls, CallStep(c)
      PROVE  HasSession'
  <2>1. CASE StartCall(c)
    BY <1>1, <2>1 DEF StartCall, HasSession, TypeOK
  <2>2. CASE CallSent(c)
    BY <2>2 DEF CallSent, HasSession, TypeOK, CallStates
  <2>3. CASE SendFails(c) \/ Timeout(c) \/ Resume(c)
    BY <2>3 DEF SendFails, Timeout, Resume, EndCall, IdleCall, HasSession, TypeOK
  <2>  QED  BY <1>5, <2>1, <2>2, <2>3 DEF CallStep
<1>6. ASSUME NEW st \in Streams, StreamStep(st)
      PROVE  HasSession'
  <2>1. CASE OpenStream(st)
    BY <1>1, <2>1 DEF OpenStream, IdleStream, HasSession, TypeOK
  <2>2. CASE StreamSent(st) \/ Read(st)
    BY <2>2 DEF StreamSent, Read, HasSession, TypeOK, StreamStates
  <2>3. CASE StreamSendFails(st) \/ CancelStream(st)
    BY <2>3 DEF StreamSendFails, CancelStream, IdleStream, HasSession, TypeOK
  <2>  QED  BY <1>6, <2>1, <2>2, <2>3 DEF StreamStep, ReaderEnds, ClientLeaves
<1>7. ASSUME NEW n \in Nodes, NodeRequest(n)
      PROVE  HasSession'
  BY <1>7 DEF NodeRequest, DeleteOffline, PingLooks, RenameReads, ThreadWrites, HasSession
<1>8. CASE UNCHANGED hubVars  BY <1>8 DEF hubVars, HasSession
<1>  QED  BY <1>3, <1>4, <1>5, <1>6, <1>7, <1>8 DEF Next

\* Nobody is left waiting for a session that stopped serving its node.
LEMMA OrphanSteps ==
  ASSUME HubAssumption, HubInv, [Next]_hubVars
  PROVE  NoOrphans'
<1>  USE DEF HubInv
<1>1. \A x \in Sessions \cup Calls \cup Streams : NodeOf[x] \in Nodes
  BY DEF HubAssumption
<1>2. ASSUME NEW S \in SUBSET Sessions, FailAll(S)
      PROVE  \A c \in Calls : call'[c].phase # "idle" /\ call'[c].future = "open"
                                => c \in pending'[call'[c].on]
  <2>  SUFFICES ASSUME NEW c \in Calls, call'[c].phase # "idle", call'[c].future = "open"
                PROVE  c \in pending'[call'[c].on]
    OBVIOUS
  <2>1. /\ call[c].phase # "idle" /\ call[c].future = "open" /\ call'[c].on = call[c].on
        /\ \A s \in S : c \notin pending[s]
    BY <1>2, FailAllEffect
  <2>2. call[c].on \in Sessions /\ c \in pending[call[c].on]
    BY <2>1 DEF HasSession, NoOrphans
  <2>3. call[c].on \notin S  BY <2>1, <2>2
  <2>  QED  BY <1>2, <2>1, <2>2, <2>3, FailAllEffect
<1>3. ASSUME NEW s \in Sessions, Hello(s) \/ GreetFails(s)
      PROVE  NoOrphans'
  BY <1>3 DEF Hello, GreetFails, NoOrphans
<1>4. ASSUME NEW s \in Sessions, Greet(s)
      PROVE  NoOrphans'
  <2>  DEFINE S == {registry[NodeOf[s]]} \ {NoSession}
  <2>1. S \in SUBSET Sessions /\ FailAll(S)  BY <1>1, <1>4 DEF Greet, TypeOK
  <2>2. ASSUME NEW r \in Sessions, pending'[r] \cup routed'[r] # {}
        PROVE  registry'[NodeOf[r]] = r
    <3>1. r \notin S /\ pending[r] \cup routed[r] # {}  BY <2>1, <2>2, FailAllEffect
    <3>2. registry[NodeOf[r]] = r  BY <3>1 DEF NoOrphans
    <3>3. NodeOf[r] # NodeOf[s]  BY <3>1, <3>2 DEF HubAssumption
    <3>  QED  BY <1>1, <1>4, <3>2, <3>3 DEF Greet, TypeOK
  <2>  QED  BY <1>2, <2>1, <2>2 DEF NoOrphans
<1>5. ASSUME NEW s \in Sessions, Disconnect(s)
      PROVE  NoOrphans'
  <2>1. FailAll({s})  BY <1>5 DEF Disconnect
  <2>2. ASSUME NEW r \in Sessions, pending'[r] \cup routed'[r] # {}
        PROVE  registry'[NodeOf[r]] = r
    <3>1. r # s /\ pending[r] \cup routed[r] # {}  BY <2>1, <2>2, FailAllEffect
    <3>2. registry[NodeOf[r]] = r  BY <3>1 DEF NoOrphans
    <3>  QED  BY <1>1, <1>5, <3>1, <3>2 DEF Disconnect, RegistryWithout, TypeOK
  <2>  QED  BY <1>2, <2>1, <2>2 DEF NoOrphans
<1>6. ASSUME NEW s \in Sessions, FrameArrives(s)
      PROVE  NoOrphans'
  <2>1. CASE Heartbeat(s)  BY <2>1 DEF Heartbeat, NoOrphans
  <2>2. ASSUME NEW c \in Calls, NEW result \in {"answered", "refused"}, Response(s, c, result)
        PROVE  NoOrphans'
    BY <2>2 DEF Response, NoOrphans, TypeOK, CallStates
  <2>3. ASSUME NEW st \in Streams, Data(s, st) \/ End(s, st)
        PROVE  NoOrphans'
    BY <2>3 DEF Data, End, NoOrphans, TypeOK
  <2>  QED  BY <1>6, <2>1, <2>2, <2>3 DEF FrameArrives
<1>7. ASSUME NEW c \in Calls, CallStep(c)
      PROVE  NoOrphans'
  <2>1. CASE StartCall(c)
    <3>  DEFINE s == registry[NodeOf[c]]
    <3>1. s \in Sessions /\ NodeOf[s] = NodeOf[c]
      BY <1>1, <2>1 DEF StartCall, RegistryLive, TypeOK
    <3>2. /\ pending' = [pending EXCEPT ![s] = @ \cup {c}]
          /\ call' = [call EXCEPT ![c] = [phase |-> "sending", on |-> s, future |-> "open"]]
          /\ routed' = routed /\ registry' = registry
      BY <2>1 DEF StartCall
    <3>3. \A r \in Sessions : /\ pending[r] \subseteq pending'[r]
                              /\ r # s => pending'[r] = pending[r]
      BY <3>1, <3>2 DEF TypeOK
    <3>4. \A r \in Sessions : pending'[r] \cup routed'[r] # {} => registry'[NodeOf[r]] = r
      BY <3>1, <3>2, <3>3 DEF NoOrphans
    <3>5. c \in pending'[s] /\ call'[c].on = s  BY <3>1, <3>2 DEF TypeOK
    <3>6. ASSUME NEW d \in Calls, d # c, call'[d].phase # "idle", call'[d].future = "open"
          PROVE  d \in pending'[call'[d].on]
      BY <3>2, <3>3, <3>6 DEF NoOrphans, HasSession, TypeOK
    <3>  QED  BY <3>4, <3>5, <3>6 DEF NoOrphans
  <2>2. CASE CallSent(c)  BY <2>2 DEF CallSent, NoOrphans, TypeOK, CallStates
  <2>3. ASSUME NEW outcome, EndCall(c, outcome), call[c].phase # "idle"
        PROVE  NoOrphans'
    <3>1. call[c].on \in Sessions  BY <2>3 DEF HasSession
    <3>2. /\ pending' = [pending EXCEPT ![call[c].on] = @ \ {c}]
          /\ call' = [call EXCEPT ![c] = IdleCall]
          /\ routed' = routed /\ registry' = registry
      BY <2>3 DEF EndCall
    <3>3. \A r \in Sessions : /\ pending'[r] \subseteq pending[r]
                              /\ \A d \in pending[r] : d # c => d \in pending'[r]
      BY <3>1, <3>2 DEF TypeOK
    <3>4. \A r \in Sessions : pending'[r] \cup routed'[r] # {} => registry'[NodeOf[r]] = r
      BY <3>2, <3>3 DEF NoOrphans
    <3>5. call'[c].phase = "idle"  BY <3>2 DEF IdleCall, TypeOK
    <3>6. ASSUME NEW d \in Calls, d # c, call'[d].phase # "idle", call'[d].future = "open"
          PROVE  d \in pending'[call'[d].on]
      BY <3>2, <3>3, <3>6 DEF NoOrphans, HasSession, TypeOK
    <3>  QED  BY <3>4, <3>5, <3>6 DEF NoOrphans
  <2>4. CASE SendFails(c) \/ Timeout(c) \/ Resume(c)
    BY <2>3, <2>4 DEF SendFails, Timeout, Resume
  <2>  QED  BY <1>7, <2>1, <2>2, <2>4 DEF CallStep
<1>8. ASSUME NEW st \in Streams, StreamStep(st)
      PROVE  NoOrphans'
  <2>1. CASE OpenStream(st)
    <3>  DEFINE s == registry[NodeOf[st]]
    <3>1. s \in Sessions /\ NodeOf[s] = NodeOf[st]
      BY <1>1, <2>1 DEF OpenStream, RegistryLive, TypeOK
    <3>2. /\ routed' = [routed EXCEPT ![s] = @ \cup {st}]
          /\ UNCHANGED <<registry, call, pending>>
      BY <2>1 DEF OpenStream
    <3>  QED  BY <3>1, <3>2 DEF NoOrphans, TypeOK
  <2>2. CASE StreamSent(st) \/ StreamSendFails(st) \/ Read(st)
    BY <2>2 DEF StreamSent, StreamSendFails, Read, NoOrphans
  <2>3. CASE CancelStream(st)  BY <2>3 DEF CancelStream, NoOrphans, TypeOK
  <2>  QED  BY <1>8, <2>1, <2>2, <2>3 DEF StreamStep, ReaderEnds, ClientLeaves
<1>9. ASSUME NEW n \in Nodes, NodeRequest(n)
      PROVE  NoOrphans'
  BY <1>9 DEF NodeRequest, DeleteOffline, PingLooks, RenameReads, ThreadWrites, NoOrphans
<1>10. CASE UNCHANGED hubVars  BY <1>10 DEF hubVars, NoOrphans
<1>  QED  BY <1>3, <1>4, <1>5, <1>6, <1>7, <1>8, <1>9, <1>10 DEF Next

-----------------------------------------------------------------------------
\* The inductive invariant holds in every reachable state.
THEOREM HubInductive == Spec => []HubInv
<1>1. Init => HubInv  BY HubInit, HubAssumption
<1>2. HubInv /\ [Next]_hubVars => HubInv'
  BY HubTypes, RegistrySteps, SessionKept, OrphanSteps, HubAssumption DEF HubInv
<1>  QED  BY <1>1, <1>2, PTL DEF Spec

\* Sessions, calls and streams keep the shapes the code gives them (hub.py:47-56),
\* for any numbers of nodes, connections, callers and streams.
THEOREM HubTypeCorrect == Spec => []TypeOK
<1>1. HubInv => TypeOK  BY DEF HubInv
<1>  QED  BY <1>1, HubInductive, PTL

\* A connection that is replaced or lost leaves no request and no stream behind
\* on it, and no caller that fail_all could not wake (hub.py:146-198).
THEOREM NobodyIsOrphaned == Spec => []NoOrphans
<1>1. HubInv => NoOrphans  BY DEF HubInv
<1>  QED  BY <1>1, HubInductive, PTL

\* The late end of a replaced session leaves its successor registered
\* (hub.py:191-195).
THEOREM SuccessorStaysRegistered == Spec => RegistryKept
<1>  DEFINE Kept == \A s \in Sessions :
              registry[NodeOf[s]] = s /\ session'[s] = "open"
                => \/ registry'[NodeOf[s]] = s
                   \/ \E r \in Sessions : registry'[NodeOf[s]] = r /\ session[r] = "greeting"
<1>1. HubInv /\ [Next]_hubVars => [Kept]_hubVars
  BY RegistrySteps, HubAssumption
<1>2. Spec => [][Kept]_hubVars
  BY <1>1, HubInductive, PTL DEF Spec
<1>  QED  BY <1>2 DEF RegistryKept
=============================================================================
