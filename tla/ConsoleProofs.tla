---------------------------- MODULE ConsoleProofs ----------------------------
(***************************************************************************)
(* Pages of the Console that show what a server knows, for every set of    *)
(* nodes, instances, domains, servers and views and every number of        *)
(* requests on their way.                                                  *)
(*                                                                         *)
(* A behaviour of the Console is about one page, so an invariant of a page *)
(* is one of the Console where that page is shown; every part below finds  *)
(* the inductive invariant of a page and lifts it to ConsoleSpec.          *)
(***************************************************************************)
EXTENDS ConsolePages, TLAPS, FiniteSetTheorems

-----------------------------------------------------------------------------
(***************************************************************************)
(* One page is shown, and stays: what it may do is a step of that page.    *)
(***************************************************************************)
LEMMA FocusStays ==
  ASSUME [ConsoleNext]_pageVars
  PROVE  focus' = focus
  BY DEF ConsoleNext, pageVars, EditorNext, WorkNext, DetailNext, CreateNext, LibraryNext,
         ViewsNext, ImportNext, BulkNext, DiscoveryNext, JobsPanelNext, TestCreateNext,
         TestNodesNext, LbNext, CandidatesNext, UserActs, Runs

\* The page a behaviour begins with is the one that is shown.
LEMMA StartOfPage ==
  ASSUME ConsoleInit
  PROVE  /\ Shows("workspace")  => WorkInit
         /\ Shows("lb")         => LbInit
         /\ Shows("candidates") => CandidatesInit
         /\ Shows("library")    => LibraryInit
         /\ Shows("views")      => ViewsInit
         /\ Shows("test")       => TestCreateInit
         /\ Shows("detail")     => DetailInit
         /\ Shows("import")     => ImportInit
         /\ Shows("bulk")       => BulkInit
         /\ Shows("jobs")       => JobsPanelInit
         /\ Shows("nodes")      => TestNodesInit
         /\ Shows("discovery")  => DiscoveryInit
         /\ Shows("editor")     => EditorInit
         /\ Shows("create")     => CreateInit
<1>1. /\ EditorInit => focus = "editor"
      /\ WorkInit => focus = "workspace"
      /\ DetailInit => focus = "detail"
      /\ CreateInit => focus = "create"
      /\ LibraryInit => focus = "library"
      /\ ViewsInit => focus = "views"
      /\ ImportInit => focus = "import"
      /\ BulkInit => focus = "bulk"
      /\ DiscoveryInit => focus = "discovery"
      /\ JobsPanelInit => focus = "jobs"
      /\ TestCreateInit => focus = "test"
      /\ TestNodesInit => focus = "nodes"
      /\ LbInit => focus = "lb"
      /\ CandidatesInit => focus = "candidates"
  BY DEF EditorInit, WorkInit, DetailInit, CreateInit, LibraryInit, ViewsInit, ImportInit,
         BulkInit, DiscoveryInit, JobsPanelInit, TestCreateInit, TestNodesInit, LbInit,
         CandidatesInit, Opens
<1>  QED  BY <1>1 DEF ConsoleInit, Shows

-----------------------------------------------------------------------------
(***************************************************************************)
(* The list of instances (Workspace).                                      *)
(***************************************************************************)
WorkFields == {"where", "nodes", "insts", "on", "up", "loaded", "failed", "pending", "systems",
               "chosen", "status", "cache"}

\* The systems are those of the nodes: an offline one has none.
SystemsFit(p) ==
  /\ DOMAIN p.systems = DOMAIN p.nodes
  /\ \A n \in DOMAIN p.nodes : ~p.nodes[n] => p.systems[n] = "error"

\* Whatever is read about systems is read about the nodes of now.
SystemsFollow(p, w) ==
  /\ \A r \in w : r.kind = "systems" => Area(p) /\ r.nodes = p.nodes
  /\ Area(p) /\ (\A r \in w : r.kind # "systems") => SystemsFit(p)

\* A leading instance is summarised, or is going to be.
DetailsFollow(p, w) ==
  p.where = "list" =>
    \A i \in Leading(p) : i \in p.cache \/ \E r \in w : r.kind = "details" /\ i \in r.insts

\* A marked instance is being operated on, or the summary that frees it is due.
MarksFollow(p, w) ==
  /\ p.pending = [i \in Instances |-> p.pending[i]]
  /\ \A i \in Instances : p.pending[i] # "none" =>
        \/ \E r \in w : r.kind = "operation" /\ r.inst = i
        \/ \E r \in w : r.kind = "summary" /\ r.for # NoOne /\ r.for[1] = i

WorkRequest(r) ==
  /\ r.kind \in {"summary", "systems", "details", "operation"}
  /\ r.kind = "operation" => r.inst \in Instances /\ r.verb \in Verbs
  /\ r.kind = "summary" => /\ r = [kind |-> "summary", for |-> r.for, nodes |-> r.nodes, list |-> r.list]
                           /\ r.for \in {NoOne} \cup (Instances \X Verbs)

WorkInv ==
  /\ \A f \in WorkFields : f \in DOMAIN page
  /\ \A r \in wire : WorkRequest(r)
  /\ SystemsFollow(page, wire)
  /\ DetailsFollow(page, wire)
  /\ MarksFollow(page, wire)

HasWork(p) == \A f \in WorkFields : f \in DOMAIN p

\* A render asks again for what the page it makes lacks (ConsoleContext.tsx:163-187,
\* Overview.tsx:159-194).
LEMMA RenderFollows ==
  ASSUME WorkInv, NEW p, NEW w, HasWork(p), \A r \in w : WorkRequest(r),
         Area(p) = Area(page) /\ p.nodes = page.nodes => SystemsFollow(p, w),
         page.where = "list" =>
           \A i \in Leading(page) : i \in p.cache \/ \E r \in w : r.kind = "details" /\ i \in r.insts,
         MarksFollow(p, w),
         Renders(p, w)
  PROVE  WorkInv'
<1>  DEFINE chosen == IF p.where = "list" /\ p.chosen \notin DOMAIN p.nodes THEN "all" ELSE p.chosen
            systems == IF Area(p) /\ DOMAIN p.nodes # {} THEN p.systems ELSE <<>>
            cache == IF p.where = "list" THEN p.cache ELSE {}
            status == IF p.where = "list" THEN p.status ELSE "all"
            q == [p EXCEPT !.chosen = chosen, !.systems = systems, !.cache = cache, !.status = status]
            v == SystemsEffect(q, w)
<1>1. page' = q /\ wire' = DetailsEffect(q, v)
  BY DEF Renders
<1>2. /\ HasWork(q)
      /\ q.where = p.where /\ q.nodes = p.nodes /\ q.pending = p.pending
      /\ q.systems = systems /\ q.cache = cache
  BY DEF HasWork, WorkFields
<1>3. /\ Area(q) <=> Area(p)
      /\ (Area(q) = Area(page)) <=> (Area(p) = Area(page))
  BY <1>2 DEF Area
<1>  HIDE DEF q
<1>4. /\ \A r \in v : WorkRequest(r)
      /\ {r \in v : r.kind # "systems"} = {r \in w : r.kind # "systems"}
      /\ SystemsFollow(q, v)
  <2>1. CASE Area(q) = Area(page) /\ q.nodes = page.nodes
    <3>1. v = w
      BY <2>1 DEF SystemsEffect
    <3>2. SystemsFollow(p, w)
      BY <1>2, <1>3, <2>1
    <3>3. p.systems = q.systems \/ (DOMAIN p.nodes = {} /\ q.systems = <<>>) \/ ~Area(p)
      BY <1>2
    <3>4. ASSUME Area(q), SystemsFit(p)
          PROVE  SystemsFit(q)
      <4>1. CASE p.systems = q.systems
        BY <1>2, <3>4, <4>1 DEF SystemsFit
      <4>2. CASE DOMAIN p.nodes = {} /\ q.systems = <<>>
        BY <1>2, <4>2 DEF SystemsFit
      <4>  QED  BY <1>3, <3>3, <3>4, <4>1, <4>2
    <3>5. SystemsFollow(q, w)
      BY <1>2, <1>3, <3>2, <3>4 DEF SystemsFollow
    <3>  QED  BY <3>1, <3>5
  <2>2. CASE ~(Area(q) = Area(page) /\ q.nodes = page.nodes)
    <3>  DEFINE new == IF Area(q) /\ DOMAIN q.nodes # {} THEN {[kind |-> "systems", nodes |-> q.nodes]} ELSE {}
    <3>1. v = Cancelled(w, "systems") \cup new
      BY <2>2 DEF SystemsEffect
    <3>2. {r \in v : r.kind = "systems"} = new
      BY <3>1 DEF Cancelled
    <3>3. {r \in v : r.kind # "systems"} = {r \in w : r.kind # "systems"}
      BY <3>1 DEF Cancelled
    <3>4. \A r \in v : WorkRequest(r)
      BY <3>1 DEF Cancelled, WorkRequest
    <3>5. \A r \in v : r.kind = "systems" => r.nodes = q.nodes /\ Area(q)
      BY <3>2
    <3>6. ASSUME Area(q), \A r \in v : r.kind # "systems"
          PROVE  SystemsFit(q)
      <4>1. DOMAIN q.nodes = {} /\ q.systems = <<>>
        BY <1>2, <1>3, <3>2, <3>6
      <4>  QED  BY <4>1 DEF SystemsFit
    <3>7. SystemsFollow(q, v)
      BY <3>5, <3>6 DEF SystemsFollow
    <3>  QED  BY <3>3, <3>4, <3>7
  <2>  QED  BY <2>1, <2>2
<1>5. /\ \A r \in wire' : WorkRequest(r)
      /\ {r \in wire' : r.kind # "details"} = {r \in v : r.kind # "details"}
      /\ DetailsFollow(q, wire')
  <2>  HIDE DEF v
  <2>1. CASE q.where = page.where /\ Leading(q) = Leading(page)
    <3>1. wire' = v
      BY <1>1, <2>1 DEF DetailsEffect
    <3>2. ASSUME q.where = "list", NEW i \in Leading(q)
          PROVE  i \in q.cache \/ \E r \in v : r.kind = "details" /\ i \in r.insts
      <4>1. i \in p.cache \/ \E r \in w : r.kind = "details" /\ i \in r.insts
        BY <2>1, <3>2
      <4>  QED  BY <1>2, <1>4, <3>2, <4>1
    <3>  QED  BY <1>4, <3>1, <3>2 DEF DetailsFollow
  <2>2. CASE ~(q.where = page.where /\ Leading(q) = Leading(page))
    <3>1. wire' = {r \in v : r.kind # "details"} \cup
                  (IF q.where = "list" /\ Missing(q) # {}
                   THEN {[kind |-> "details", insts |-> Missing(q)]} ELSE {})
      BY <1>1, <2>2 DEF DetailsEffect
    <3>2. ASSUME q.where = "list", NEW i \in Leading(q), i \notin q.cache
          PROVE  \E r \in wire' : r.kind = "details" /\ i \in r.insts
      <4>1. i \in Missing(q)
        BY <3>2 DEF Missing
      <4>2. [kind |-> "details", insts |-> Missing(q)] \in wire'
        BY <3>1, <3>2, <4>1
      <4>  QED  BY <4>1, <4>2
    <3>3. DetailsFollow(q, wire')
      BY <3>2 DEF DetailsFollow
    <3>  QED  BY <1>4, <3>1, <3>3 DEF WorkRequest
  <2>  QED  BY <2>1, <2>2
<1>  HIDE DEF v, systems, cache, status, chosen
<1>6. SystemsFollow(q, wire')
  <2>1. \A r : r.kind = "systems" => (r \in wire' <=> r \in v)
    BY <1>5
  <2>  QED  BY <1>4, <2>1 DEF SystemsFollow
<1>7. MarksFollow(q, wire')
  <2>1. \A r \in w : r.kind \in {"operation", "summary"} => r \in wire'
    BY <1>4, <1>5
  <2>  QED  BY <1>2, <2>1 DEF MarksFollow
<1>  QED  BY <1>1, <1>2, <1>5, <1>6, <1>7 DEF WorkInv, HasWork

ViewFields == WorkFields \ {"pending", "loaded", "failed"}

\* A step that renders nothing anew.
LEMMA SameViewFollows ==
  ASSUME WorkInv, HasWork(page'), \A f \in ViewFields : page'[f] = page[f],
         \A r \in wire' : WorkRequest(r),
         \A r : r.kind \in {"systems", "details"} => (r \in wire' <=> r \in wire),
         MarksFollow(page', wire')
  PROVE  WorkInv'
<1>1. /\ page'.where = page.where /\ page'.nodes = page.nodes /\ page'.insts = page.insts
      /\ page'.on = page.on /\ page'.up = page.up /\ page'.systems = page.systems
      /\ page'.chosen = page.chosen /\ page'.status = page.status /\ page'.cache = page.cache
  BY DEF ViewFields, WorkFields
<1>2. SystemsFollow(page', wire')
  BY <1>1 DEF WorkInv, SystemsFollow, SystemsFit, Area
<1>3. Leading(page') = Leading(page)
  BY <1>1 DEF Leading, Ahead, Visible, InScope, Badge
<1>4. DetailsFollow(page', wire')
  BY <1>1, <1>3 DEF WorkInv, DetailsFollow
<1>  QED  BY <1>2, <1>4 DEF WorkInv, HasWork

LEMMA WorkStep ==
  ASSUME WorkInv, [WorkNext]_pageVars
  PROVE  WorkInv'
<1>0. /\ HasWork(page) /\ \A r \in wire : WorkRequest(r)
      /\ SystemsFollow(page, wire) /\ DetailsFollow(page, wire) /\ MarksFollow(page, wire)
  BY DEF WorkInv, HasWork
<1>  DEFINE Summarised(p, w) == \A i \in Leading(page) :
              i \in p.cache \/ \E r \in w : r.kind = "details" /\ i \in r.insts
            Others(w) == \A r : r.kind \in {"systems", "details"} => (r \in w <=> r \in wire)
<1>1. ASSUME NEW p, NEW w, HasWork(p), \A r \in w : WorkRequest(r), Others(w),
             p.systems = page.systems, p.cache = page.cache, MarksFollow(p, w), Renders(p, w)
      PROVE  WorkInv'
  <2>1. ASSUME Area(p) = Area(page), p.nodes = page.nodes
        PROVE  SystemsFollow(p, w)
    BY <1>0, <1>1, <2>1 DEF SystemsFollow, SystemsFit
  <2>2. page.where = "list" => Summarised(p, w)
    BY <1>0, <1>1 DEF DetailsFollow
  <2>  QED  BY <1>1, <2>1, <2>2, RenderFollows
<1>2. ASSUME NEW where, Visit(where)
      PROVE  WorkInv'
  <2>  DEFINE q == [page EXCEPT !.where = where]
              w == IF Area(q) /\ ~Area(page) THEN wire \cup {Summary(NoOne)} ELSE wire
  <2>1. Renders(q, w)
    BY <1>2 DEF Visit
  <2>2. HasWork(q) /\ q.systems = page.systems /\ q.cache = page.cache /\ q.pending = page.pending
    BY <1>0 DEF HasWork, WorkFields
  <2>3. (\A r \in w : WorkRequest(r)) /\ Others(w)
    BY <1>0 DEF Summary, WorkRequest
  <2>4. wire \subseteq w
    OBVIOUS
  <2>  HIDE DEF q, w
  <2>5. MarksFollow(q, w)
    BY <1>0, <2>2, <2>4 DEF MarksFollow
  <2>  QED  BY <1>1, <2>1, <2>2, <2>3, <2>5
<1>3. CASE Poll
  <2>1. wire' = wire \cup {Summary(NoOne)} /\ page' = page
    BY <1>3 DEF Poll
  <2>2. (\A r \in wire' : WorkRequest(r)) /\ Others(wire')
    BY <1>0, <2>1 DEF Summary, WorkRequest
  <2>3. MarksFollow(page', wire')
    BY <1>0, <2>1 DEF MarksFollow
  <2>  QED  BY <1>0, <2>1, <2>2, <2>3, SameViewFollows
<1>4. ASSUME NEW n, SelectNode(n)
      PROVE  WorkInv'
  <2>  DEFINE q == [page EXCEPT !.chosen = n]
  <2>1. Renders(q, wire)
    BY <1>4 DEF SelectNode
  <2>2. HasWork(q) /\ q.systems = page.systems /\ q.cache = page.cache /\ q.pending = page.pending
    BY <1>0 DEF HasWork, WorkFields
  <2>  HIDE DEF q
  <2>3. MarksFollow(q, wire)
    BY <1>0, <2>2 DEF MarksFollow
  <2>  QED  BY <1>0, <1>1, <2>1, <2>2, <2>3
<1>5. ASSUME NEW f, SelectStatus(f)
      PROVE  WorkInv'
  <2>  DEFINE q == [page EXCEPT !.status = f]
  <2>1. Renders(q, wire)
    BY <1>5 DEF SelectStatus
  <2>2. HasWork(q) /\ q.systems = page.systems /\ q.cache = page.cache /\ q.pending = page.pending
    BY <1>0 DEF HasWork, WorkFields
  <2>  HIDE DEF q
  <2>3. MarksFollow(q, wire)
    BY <1>0, <2>2 DEF MarksFollow
  <2>  QED  BY <1>0, <1>1, <2>1, <2>2, <2>3
<1>6. ASSUME NEW i \in Instances, NEW verb \in Verbs, Operate(i, verb)
      PROVE  WorkInv'
  <2>1. /\ page' = [page EXCEPT !.pending[i] = Mark(verb)]
        /\ wire' = wire \cup {Operation(i, verb)}
    BY <1>6 DEF Operate
  <2>2. HasWork(page') /\ \A f \in ViewFields : page'[f] = page[f]
    BY <1>0, <2>1 DEF HasWork, WorkFields, ViewFields
  <2>3. page'.pending = [page.pending EXCEPT ![i] = Mark(verb)]
    BY <1>0, <2>1 DEF HasWork, WorkFields
  <2>4. (\A r \in wire' : WorkRequest(r)) /\ Others(wire')
    BY <1>0, <2>1 DEF Operation, WorkRequest
  <2>5. Operation(i, verb) \in wire' /\ Operation(i, verb).kind = "operation" /\ Operation(i, verb).inst = i
    BY <2>1 DEF Operation
  <2>6. MarksFollow(page', wire')
    BY <1>0, <2>1, <2>3, <2>5 DEF MarksFollow
  <2>  QED  BY <2>2, <2>4, <2>6, SameViewFollows
<1>7. CASE WorldMoves
  <2>1. page' = page /\ wire' = wire
    BY <1>7 DEF WorldMoves
  <2>  QED  BY <1>0, <2>1, SameViewFollows
<1>8. CASE SummaryRead
  <2>1. PICK r \in Of("summary") :
           \/ wire' = (wire \ {r}) \cup {[r EXCEPT !.nodes = world.nodes]}
           \/ wire' = (wire \ {r}) \cup {[r EXCEPT !.list = Reported(world)]}
    BY <1>8 DEF SummaryRead
  <2>2. PICK q : /\ wire' = (wire \ {r}) \cup {q}
                 /\ q = [kind |-> "summary", for |-> r.for, nodes |-> q.nodes, list |-> q.list]
    <3>1. r = [kind |-> "summary", for |-> r.for, nodes |-> r.nodes, list |-> r.list]
      BY <1>0 DEF Of, WorkRequest
    <3>2. [r EXCEPT !.nodes = world.nodes]
            = [kind |-> "summary", for |-> r.for, nodes |-> world.nodes, list |-> r.list]
      BY <3>1
    <3>3. [r EXCEPT !.list = Reported(world)]
            = [kind |-> "summary", for |-> r.for, nodes |-> r.nodes, list |-> Reported(world)]
      BY <3>1
    <3>4. CASE wire' = (wire \ {r}) \cup {[r EXCEPT !.nodes = world.nodes]}
      <4>  WITNESS [r EXCEPT !.nodes = world.nodes]
      <4>  QED  BY <3>2, <3>4
    <3>5. CASE wire' = (wire \ {r}) \cup {[r EXCEPT !.list = Reported(world)]}
      <4>  WITNESS [r EXCEPT !.list = Reported(world)]
      <4>  QED  BY <3>3, <3>5
    <3>  QED  BY <2>1, <3>4, <3>5
  <2>3. r \in wire /\ r.kind = "summary" /\ r.for \in {NoOne} \cup (Instances \X Verbs)
        /\ q.kind = "summary" /\ q.for = r.for
    BY <1>0, <2>1, <2>2 DEF Of, WorkRequest
  <2>4. (\A s \in wire' : WorkRequest(s)) /\ Others(wire')
    BY <1>0, <2>2, <2>3 DEF WorkRequest
  <2>5. page' = page
    BY <1>8 DEF SummaryRead
  <2>6. MarksFollow(page', wire')
    BY <1>0, <2>2, <2>3, <2>5 DEF MarksFollow
  <2>  QED  BY <1>0, <2>4, <2>5, <2>6, SameViewFollows
<1>9. ASSUME NEW r \in Of("summary")
      PROVE  /\ \A s \in wire \ {r} : WorkRequest(s)
             /\ Others(wire \ {r})
             /\ \A p : p.pending = Done(page.pending, r.for) => MarksFollow(p, wire \ {r})
  <2>1. r \in wire /\ r.kind = "summary" /\ r.for \in {NoOne} \cup (Instances \X Verbs)
    BY <1>0 DEF Of, WorkRequest
  <2>2. ASSUME NEW p, p.pending = Done(page.pending, r.for)
        PROVE  MarksFollow(p, wire \ {r})
    <3>1. /\ p.pending = [i \in Instances |-> p.pending[i]]
          /\ \A i \in Instances : \/ p.pending[i] = "none"
                                  \/ p.pending[i] = page.pending[i] /\ ~(r.for # NoOne /\ r.for[1] = i)
      BY <1>0, <2>1, <2>2 DEF Done, MarksFollow
    <3>  QED  BY <1>0, <2>1, <3>1 DEF MarksFollow
  <2>  QED  BY <1>0, <2>1, <2>2
<1>10. CASE SummaryArrived
  <2>1. PICK r \in Of("summary") :
          Renders([page EXCEPT
               !.nodes = [n \in DOMAIN r.nodes |->
                            IF n \in DOMAIN r.list.nodes THEN r.list.nodes[n] ELSE r.nodes[n]],
               !.insts = r.list.insts, !.on = r.list.on, !.up = r.list.up,
               !.loaded = TRUE, !.failed = FALSE, !.pending = Done(@, r.for)], wire \ {r})
    BY <1>10 DEF SummaryArrived
  <2>2. PICK p : /\ HasWork(p) /\ p.systems = page.systems /\ p.cache = page.cache
                 /\ p.pending = Done(page.pending, r.for)
                 /\ Renders(p, wire \ {r})
    BY <1>0, <2>1 DEF HasWork, WorkFields
  <2>  QED  BY <1>1, <1>9, <2>2
<1>11. CASE SummaryFailed
  <2>1. PICK r \in Of("summary") :
          Renders([page EXCEPT !.loaded = TRUE, !.failed = TRUE, !.pending = Done(@, r.for)], wire \ {r})
    BY <1>11 DEF SummaryFailed
  <2>2. PICK p : /\ HasWork(p) /\ p.systems = page.systems /\ p.cache = page.cache
                 /\ p.pending = Done(page.pending, r.for)
                 /\ Renders(p, wire \ {r})
    BY <1>0, <2>1 DEF HasWork, WorkFields
  <2>  QED  BY <1>1, <1>9, <2>2
<1>12. CASE SystemsArrived
  <2>1. PICK r \in Of("systems"), lost \in SUBSET DOMAIN page.nodes :
           /\ page' = [page EXCEPT !.systems =
                 [n \in DOMAIN r.nodes |-> IF r.nodes[n] /\ n \notin lost THEN "info" ELSE "error"]]
           /\ wire' = wire \ {r}
    <3>1. \A r \in Of("systems") : r.nodes = page.nodes
      BY <1>0 DEF Of, SystemsFollow
    <3>  QED  BY <1>12, <3>1 DEF SystemsArrived
  <2>2. r \in wire /\ r.kind = "systems" /\ r.nodes = page.nodes /\ Area(page)
    BY <1>0 DEF Of, SystemsFollow
  <2>3. /\ HasWork(page') /\ \A f \in WorkFields \ {"systems"} : page'[f] = page[f]
        /\ page'.systems = [n \in DOMAIN page.nodes |->
                              IF page.nodes[n] /\ n \notin lost THEN "info" ELSE "error"]
    BY <1>0, <2>1, <2>2 DEF HasWork, WorkFields
  <2>4. /\ page'.where = page.where /\ page'.nodes = page.nodes /\ page'.insts = page.insts
        /\ page'.on = page.on /\ page'.up = page.up /\ page'.pending = page.pending
        /\ page'.chosen = page.chosen /\ page'.status = page.status /\ page'.cache = page.cache
    BY <2>3 DEF WorkFields
  <2>5. SystemsFollow(page', wire')
    <3>1. SystemsFit(page')
      BY <2>3, <2>4 DEF SystemsFit
    <3>  QED  BY <1>0, <2>1, <2>4, <3>1 DEF SystemsFollow, Area
  <2>6. DetailsFollow(page', wire')
    <3>1. Leading(page') = Leading(page)
      BY <2>4 DEF Leading, Ahead, Visible, InScope, Badge
    <3>  QED  BY <1>0, <2>1, <2>2, <2>4, <3>1 DEF DetailsFollow
  <2>7. MarksFollow(page', wire')
    BY <1>0, <2>1, <2>2, <2>4 DEF MarksFollow
  <2>  QED  BY <1>0, <2>1, <2>3, <2>5, <2>6, <2>7 DEF WorkInv, HasWork
<1>13. CASE DetailsArrived
  <2>1. PICK r \in Of("details") : Renders([page EXCEPT !.cache = @ \cup r.insts], wire \ {r})
    BY <1>13 DEF DetailsArrived
  <2>  DEFINE p == [page EXCEPT !.cache = @ \cup r.insts]
  <2>2. /\ HasWork(p) /\ p.systems = page.systems /\ p.cache = page.cache \cup r.insts
        /\ p.pending = page.pending /\ p.where = page.where /\ p.nodes = page.nodes
    BY <1>0 DEF HasWork, WorkFields
  <2>3. r \in wire /\ r.kind = "details" /\ Renders(p, wire \ {r})
    BY <2>1 DEF Of
  <2>  HIDE DEF p
  <2>4. SystemsFollow(p, wire \ {r})
    BY <1>0, <2>2, <2>3 DEF SystemsFollow, SystemsFit, Area
  <2>5. page.where = "list" => Summarised(p, wire \ {r})
    BY <1>0, <2>2, <2>3 DEF DetailsFollow
  <2>6. MarksFollow(p, wire \ {r})
    BY <1>0, <2>2, <2>3 DEF MarksFollow
  <2>  QED  BY <1>0, <2>2, <2>3, <2>4, <2>5, <2>6, RenderFollows
<1>14. CASE OperationSucceeded
  <2>1. PICK r \in Of("operation") : /\ wire' = (wire \ {r}) \cup {Summary(<<r.inst, r.verb>>)}
                                     /\ page' = page
    BY <1>14 DEF OperationSucceeded
  <2>  DEFINE s == Summary(<<r.inst, r.verb>>)
  <2>2. r \in wire /\ r.kind = "operation" /\ r.inst \in Instances /\ r.verb \in Verbs
    BY <1>0 DEF Of, WorkRequest
  <2>3. s.kind = "summary" /\ s.for # NoOne /\ s.for[1] = r.inst /\ WorkRequest(s)
    BY <2>2, OperationsAssumption DEF Summary, WorkRequest
  <2>  HIDE DEF s
  <2>4. (\A q \in wire' : WorkRequest(q)) /\ Others(wire')
    BY <1>0, <2>1, <2>2, <2>3 DEF s
  <2>5. MarksFollow(page', wire')
    <3>1. s \in wire'
      BY <2>1 DEF s
    <3>  QED  BY <1>0, <2>1, <2>2, <2>3, <3>1 DEF MarksFollow
  <2>  QED  BY <1>0, <2>1, <2>4, <2>5, SameViewFollows
<1>15. CASE OperationFailed
  <2>1. PICK r \in Of("operation") : /\ page' = [page EXCEPT !.pending[r.inst] = "none"]
                                     /\ wire' = wire \ {r}
    BY <1>15 DEF OperationFailed
  <2>2. r \in wire /\ r.kind = "operation" /\ r.inst \in Instances
    BY <1>0 DEF Of, WorkRequest
  <2>3. /\ HasWork(page') /\ \A f \in ViewFields : page'[f] = page[f]
        /\ page'.pending = [page.pending EXCEPT ![r.inst] = "none"]
    BY <1>0, <2>1 DEF HasWork, WorkFields, ViewFields
  <2>4. (\A q \in wire' : WorkRequest(q)) /\ Others(wire')
    BY <1>0, <2>1, <2>2
  <2>5. MarksFollow(page', wire')
    BY <1>0, <2>1, <2>2, <2>3 DEF MarksFollow
  <2>  QED  BY <2>3, <2>4, <2>5, SameViewFollows
<1>16. CASE UNCHANGED pageVars
  <2>1. page' = page /\ wire' = wire
    BY <1>16 DEF pageVars
  <2>  QED  BY <1>0, <2>1, SameViewFollows
<1>  QED
  BY <1>2, <1>3, <1>4, <1>5, <1>6, <1>7, <1>8, <1>10, <1>11, <1>12, <1>13, <1>14, <1>15, <1>16
     DEF WorkNext, WorkUser, WorkRuns

LEMMA WorkStart ==
  ASSUME WorkInit
  PROVE  WorkInv
<1>1. page = EmptyContext /\ wire = {}
  BY DEF WorkInit, Opens
<1>  QED  BY <1>1 DEF EmptyContext, WorkInv, WorkFields, SystemsFollow, DetailsFollow, MarksFollow, Area

\* Wherever the list of instances or one of its areas is shown, its invariant holds.
LEMMA WorkHolds == ConsoleSpec => [](Shows("workspace") => WorkInv)
<1>1. ConsoleInit => (Shows("workspace") => WorkInv)
  BY StartOfPage, WorkStart
<1>2. (Shows("workspace") => WorkInv) /\ [ConsoleNext]_pageVars
        => (Shows("workspace") => WorkInv)'
  <2>  SUFFICES ASSUME Shows("workspace") => WorkInv, [ConsoleNext]_pageVars, Shows("workspace")'
                PROVE  WorkInv'
    OBVIOUS
  <2>1. focus = "workspace"
    BY FocusStays DEF Shows
  <2>2. [WorkNext]_pageVars
    BY <2>1 DEF ConsoleNext, Shows
  <2>  QED  BY <2>1, <2>2, WorkStep DEF Shows
<1>  QED  BY <1>1, <1>2, PTL DEF ConsoleSpec

(* Once no reading is on the way every node that is shown has a system that *)
(* was read for the nodes of now, and an offline one has none               *)
(* (ConsoleContext.tsx:163-187).                                            *)
THEOREM WorkspaceSystemsFit == ConsoleSpec => []SystemsFitNodes
<1>1. (Shows("workspace") => WorkInv) => SystemsFitNodes
  BY DEF WorkInv, SystemsFollow, SystemsFit, SystemsFitNodes, Of
<1>  QED  BY <1>1, WorkHolds, PTL

(* An instance among the first SummaryRows that are visible has its          *)
(* configuration summary or one that will be used is on the way              *)
(* (Overview.tsx:159-194, where the first 25 are taken).                     *)
THEOREM WorkspaceSummariesCome == ConsoleSpec => []SummariesComing
<1>1. (Shows("workspace") => WorkInv) => SummariesComing
  BY DEF WorkInv, DetailsFollow, SummariesComing, Of
<1>  QED  BY <1>1, WorkHolds, PTL

(* What is read for each node, and for the first lines of the list of       *)
(* instances, follows the list                                              *)
(* (ConsoleContext.tsx:163-187, Overview.tsx:159-194).                      *)
THEOREM LinesFollowTheirList == ConsoleSpec => []LinesAreRead
<1>1. SystemsFitNodes /\ SummariesComing => LinesAreRead
  BY DEF LinesAreRead
<1>  QED  BY <1>1, WorkspaceSystemsFit, WorkspaceSummariesCome, PTL

-----------------------------------------------------------------------------
(***************************************************************************)
(* The domains of the load balancer (LbPage).                              *)
(*                                                                         *)
(* That what is shown is right is not inductive: an answer brings in what  *)
(* was asked for.  The invariant adds that whatever is still heard was     *)
(* asked for the domain that is inspected now.                             *)
(***************************************************************************)
LbFields == {"list", "at", "records", "logs"}

HasFields(p) == \A f \in LbFields : f \in DOMAIN p

\* A request the dialog still hears is about d.
AskedFor(r, d) == "kind" \in DOMAIN r /\ (r.kind \in {"records", "logs"} => r.of = d)

ShownFor(p, d) == {p.records, p.logs} \subseteq {NoOne, d}

LbInv ==
  /\ HasFields(page)
  /\ ShownFor(page, Inspected(page))
  /\ \A r \in wire : AskedFor(r, Inspected(page))

-----------------------------------------------------------------------------
\* Reading the list again and leaving a dialog change no request of the
\* records (LbPage.tsx:86-115).
LEMMA ListRequests ==
  ASSUME NEW reqs, NEW d, \A r \in reqs : AskedFor(r, d)
  PROVE  /\ \A frees : \A r \in Loading(reqs, frees) : AskedFor(r, d)
         /\ \A r \in Unmounted(reqs) : AskedFor(r, d)
<1>1. \A r \in Overtaken(reqs) : AskedFor(r, d)
  <2>  SUFFICES ASSUME NEW q \in reqs, NEW r,
                       r = IF q.kind = "domains" THEN [q EXCEPT !.last = FALSE] ELSE q
                PROVE  AskedFor(r, d)
    BY DEF Overtaken
  <2>  QED  BY DEF AskedFor
<1>2. \A r \in Unmounted(reqs) : AskedFor(r, d)
  <2>  SUFFICES ASSUME NEW q \in reqs, NEW r,
                       r = IF q.kind = "save" THEN [q EXCEPT !.here = FALSE] ELSE q
                PROVE  AskedFor(r, d)
    BY DEF Unmounted
  <2>  QED  BY DEF AskedFor
<1>  QED  BY <1>1, <1>2 DEF Loading, AskedFor

\* The effect of the dialog: with another domain nothing old is shown or heard
\* (LbPage.tsx:505-517).
LEMMA InspectsIsSound ==
  ASSUME LbInv, NEW p, HasFields(p), p.records = page.records, p.logs = page.logs,
         NEW reqs, \A r \in reqs : AskedFor(r, Inspected(page)), Inspects(p, reqs)
  PROVE  LbInv'
<1>1. CASE Inspected(p) = Inspected(page)
  BY <1>1 DEF Inspects, LbInv, ShownFor, Inspected
<1>2. CASE Inspected(p) # Inspected(page)
  <2>1. /\ page' = [p EXCEPT !.records = NoOne, !.logs = NoOne]
        /\ wire' = HeardHere(reqs) \cup
             (IF Inspected(p) = NoOne THEN {}
              ELSE {[kind |-> k, of |-> Inspected(p)] : k \in {"records", "logs"}})
    BY <1>2 DEF Inspects
  <2>2. /\ HasFields(page')
        /\ page'.list = p.list /\ page'.at = p.at
        /\ page'.records = NoOne /\ page'.logs = NoOne
    BY <2>1 DEF HasFields, LbFields
  <2>3. Inspected(page') = Inspected(p)
    BY <2>2 DEF Inspected
  <2>4. \A r \in wire' : AskedFor(r, Inspected(p))
    BY <2>1 DEF HeardHere, AskedFor
  <2>  QED  BY <2>2, <2>3, <2>4 DEF LbInv, ShownFor, Inspected
<1>  QED  BY <1>1, <1>2

\* A step that touches neither the list nor the rendered address nor what the
\* dialog shows.
Aside == /\ HasFields(page')
         /\ \A f \in LbFields : page'[f] = page[f]

LEMMA AsideKeeps ==
  ASSUME LbInv, Aside, \A r \in wire' : AskedFor(r, Inspected(page))
  PROVE  LbInv'
  BY DEF LbInv, Aside, LbFields, Inspected, ShownFor

-----------------------------------------------------------------------------
LEMMA LbStep ==
  ASSUME LbInv, [LbNext]_pageVars
  PROVE  LbInv'
<1> DEFINE AskedHere(reqs) == \A r \in reqs : AskedFor(r, Inspected(page))
<1>0. HasFields(page) /\ AskedHere(wire)
  BY DEF LbInv
<1>1. /\ \A reqs : AskedHere(reqs) => \A frees : AskedHere(Loading(reqs, frees))
      /\ \A reqs : AskedHere(reqs) => AskedHere(Unmounted(reqs))
  BY ListRequests
<1>2. CASE AddressSettles
  <2>1. PICK i \in DOMAIN page.coming :
          LET to    == page.coming[i]
              again == to.type # page.type \/ to.at.q # page.at.q
          IN  Inspects([page EXCEPT !.at = to.at, !.type = to.type,
                          !.coming = SubSeq(@, i + 1, Len(@)),
                          !.text = IF again /\ to.type # "replace" THEN to.at.q ELSE @], wire)
    BY <1>2 DEF AddressSettles
  <2>2. PICK p : /\ HasFields(p) /\ p.records = page.records /\ p.logs = page.logs
                 /\ Inspects(p, wire)
    BY <1>0, <2>1 DEF HasFields, LbFields
  <2>  QED  BY <1>0, <2>2, InspectsIsSound
<1>3. CASE SearchDomains \/ FilterDomains \/ ClearFilters \/ OpenDetails \/ CloseDetails \/ BackInHistory
  <2>1. Aside
    BY <1>0, <1>3 DEF SearchDomains, FilterDomains, ClearFilters, OpenDetails, CloseDetails,
                      BackInHistory, Goes, Aside, HasFields, LbFields
  <2>2. wire' = wire
    BY <1>3 DEF SearchDomains, FilterDomains, ClearFilters, OpenDetails, CloseDetails, BackInHistory
  <2>  QED  BY <1>0, <2>1, <2>2, AsideKeeps
<1>4. CASE LoadDomains
  <2>1. Aside
    BY <1>0, <1>4 DEF LoadDomains, Aside, HasFields, LbFields
  <2>  QED  BY <1>0, <1>1, <1>4, <2>1, AsideKeeps DEF LoadDomains
<1>5. CASE DomainsShown
  <2>1. PICK r \in Of("domains"), lost \in BOOLEAN :
          Inspects([Frees(page, r.frees) EXCEPT
                      !.list = IF r.last /\ ~lost THEN world ELSE @,
                      !.loaded = @ \/ (r.last /\ ~lost),
                      !.error = IF r.last THEN lost ELSE @,
                      !.refreshing = @ /\ ~r.last], wire \ {r})
    BY <1>5 DEF DomainsShown
  <2>2. PICK p : /\ HasFields(p) /\ p.records = page.records /\ p.logs = page.logs
                 /\ Inspects(p, wire \ {r})
    BY <1>0, <2>1 DEF Frees, HasFields, LbFields
  <2>  QED  BY <1>0, <2>2, InspectsIsSound
<1>6. CASE RecordsArrived
  <2>1. PICK r \in Of("records") \cup Of("logs"), lost \in BOOLEAN :
           /\ page' = IF lost THEN page
                      ELSE IF r.kind = "records" THEN [page EXCEPT !.records = r.of]
                      ELSE [page EXCEPT !.logs = r.of]
           /\ wire' = wire \ {r}
    BY <1>6 DEF RecordsArrived
  <2>2. r.of = Inspected(page)
    BY <1>0 DEF Of, AskedFor
  <2>3. HasFields(page') /\ page'.list = page.list /\ page'.at = page.at
    BY <1>0, <2>1 DEF HasFields, LbFields
  <2>4. ShownFor(page', Inspected(page))
    BY <1>0, <2>1, <2>2 DEF LbInv, ShownFor, HasFields, LbFields
  <2>  QED  BY <1>0, <2>1, <2>3, <2>4 DEF LbInv, Inspected, ShownFor
<1>7. CASE SyncNow
  <2>1. Aside
    BY <1>0, <1>7 DEF SyncNow, Aside, HasFields, LbFields
  <2>2. PICK d : wire' = wire \cup {[kind |-> "sync", of |-> d]}
    BY <1>7 DEF SyncNow
  <2>  QED  BY <1>0, <2>1, <2>2, AsideKeeps DEF AskedFor
<1>8. CASE SyncAnswered
  <2>1. Aside
    BY <1>0, <1>8 DEF SyncAnswered, Frees, Aside, HasFields, LbFields
  <2>2. PICK r : wire' \in {wire \ {r}, Loading(wire \ {r}, r.of)}
    BY <1>8 DEF SyncAnswered
  <2>3. AskedHere(wire \ {r})
    BY <1>0
  <2>  QED  BY <1>1, <2>1, <2>2, <2>3, AsideKeeps
<1>9. CASE OpenDomain \/ CloseDomain
  <2>1. Aside
    BY <1>0, <1>9 DEF OpenDomain, CloseDomain, Aside, HasFields, LbFields
  <2>2. wire' \in {wire, Unmounted(wire)}
    BY <1>9 DEF OpenDomain, CloseDomain
  <2>  QED  BY <1>0, <1>1, <2>1, <2>2, AsideKeeps
<1>10. CASE SubmitDomain \/ ConfirmDeletion
  <2>1. Aside
    BY <1>0, <1>10 DEF SubmitDomain, ConfirmDeletion, Aside, HasFields, LbFields
  <2>2. AskedHere(wire')
    BY <1>0, <1>10 DEF SubmitDomain, ConfirmDeletion, AskedFor
  <2>  QED  BY <2>1, <2>2, AsideKeeps
<1>11. CASE DomainStored \/ DomainDeleted
  <2>1. PICK r \in wire : /\ wire' = (wire \ {r}) \cup {[r EXCEPT !.done = TRUE]}
                          /\ r.kind \in {"save", "delete"}
    BY <1>11 DEF DomainStored, DomainDeleted, Of
  <2>2. AskedFor([r EXCEPT !.done = TRUE], Inspected(page))
    BY <1>0, <2>1 DEF AskedFor
  <2>3. page' = page
    BY <1>11 DEF DomainStored, DomainDeleted
  <2>  QED  BY <1>0, <2>1, <2>2, <2>3, AsideKeeps DEF Aside
<1>12. CASE DomainSaved
  <2>1. Aside
    BY <1>0, <1>12 DEF DomainSaved, Aside, HasFields, LbFields
  <2>2. PICK r : wire' = Loading(Unmounted(wire \ {r}), NoOne)
    BY <1>12 DEF DomainSaved
  <2>3. AskedHere(Unmounted(wire \ {r}))
    BY <1>0, <1>1
  <2>  QED  BY <1>1, <2>1, <2>2, <2>3, AsideKeeps
<1>13. CASE DomainNotSaved
  <2>1. Aside
    BY <1>0, <1>13 DEF DomainNotSaved, Aside, HasFields, LbFields
  <2>  QED  BY <1>0, <1>13, <2>1, AsideKeeps DEF DomainNotSaved
<1>14. CASE DeletionShown
  <2>1. Aside
    BY <1>0, <1>14 DEF DeletionShown, Aside, HasFields, LbFields
  <2>2. PICK r : wire' \in {wire \ {r}, Loading(wire \ {r}, NoOne)}
    BY <1>14 DEF DeletionShown
  <2>3. AskedHere(wire \ {r})
    BY <1>0
  <2>  QED  BY <1>1, <2>1, <2>2, <2>3, AsideKeeps
<1>15. CASE UNCHANGED pageVars
  BY <1>0, <1>15, AsideKeeps DEF pageVars, Aside
<1>  HIDE DEF AskedHere
<1>  QED
  BY <1>2, <1>3, <1>4, <1>5, <1>6, <1>7, <1>8, <1>9, <1>10, <1>11, <1>12, <1>13, <1>14, <1>15
     DEF LbNext, LbUser, LbRuns, RefreshDomains

LEMMA LbStart ==
  ASSUME LbInit
  PROVE  LbInv
<1>1. HasFields(page) /\ page.records = NoOne /\ page.logs = NoOne
  <2>1. PICK at : page = FreshList(at)
    BY DEF LbInit
  <2>  QED  BY <2>1 DEF FreshList, HasFields, LbFields
<1>2. \A r \in {} : AskedFor(r, Inspected(page))
  OBVIOUS
<1>3. \A r \in Loading({}, NoOne) : AskedFor(r, Inspected(page))
  BY <1>2, ListRequests
<1>  QED  BY <1>1, <1>3 DEF LbInit, LbInv, ShownFor

(***************************************************************************)
(* The button of a domain is taken by one request: its sync, or the reading *)
(* of the list that follows it.                                            *)
(***************************************************************************)
Takes(r) == IF r.kind = "sync" THEN {r.of}
            ELSE IF r.kind = "domains" THEN {r.frees} \ {NoOne} ELSE {}

LbRequest(r) ==
  /\ "kind" \in DOMAIN r
  /\ r.kind = "domains" => {"last", "frees"} \subseteq DOMAIN r
  /\ r.kind = "save" => /\ {"of", "on", "done", "here"} \subseteq DOMAIN r
                        /\ r.of \in Domains

\* The requests w take the domains S, each of them one.
TakenBy(w, S) ==
  /\ \A r \in w : LbRequest(r) /\ Takes(r) \subseteq S
  /\ \A d \in S : \E r \in w : d \in Takes(r)
  /\ \A r, s \in w, d \in S : d \in Takes(r) /\ d \in Takes(s) => r = s

SyncInv ==
  /\ {"syncing", "list"} \subseteq DOMAIN page
  /\ NoOne \notin page.list.there \cup world.there \cup page.syncing
  /\ TakenBy(wire, page.syncing)

LEMMA OvertakenTakes ==
  ASSUME NEW w, NEW S, TakenBy(w, S)
  PROVE  TakenBy(Overtaken(w), S)
<1>  DEFINE f(r) == IF r.kind = "domains" THEN [r EXCEPT !.last = FALSE] ELSE r
<1>1. \A r \in w : LbRequest(f(r)) /\ Takes(f(r)) = Takes(r)
  BY DEF TakenBy, LbRequest, Takes
<1>2. Overtaken(w) = {f(r) : r \in w}
  BY DEF Overtaken
<1>  HIDE DEF f
<1>  QED  BY <1>1, <1>2 DEF TakenBy

LEMMA UnmountedTakes ==
  ASSUME NEW w, NEW S, TakenBy(w, S)
  PROVE  TakenBy(Unmounted(w), S)
<1>  DEFINE f(r) == IF r.kind = "save" THEN [r EXCEPT !.here = FALSE] ELSE r
<1>1. \A r \in w : LbRequest(f(r)) /\ Takes(f(r)) = Takes(r)
  BY DEF TakenBy, LbRequest, Takes
<1>2. Unmounted(w) = {f(r) : r \in w}
  BY DEF Unmounted
<1>  HIDE DEF f
<1>  QED  BY <1>1, <1>2 DEF TakenBy

LEMMA AnsweredTakes ==
  ASSUME NEW w, NEW S, TakenBy(w, S), NEW r \in w
  PROVE  TakenBy(w \ {r}, S \ Takes(r))
  BY DEF TakenBy

LEMMA AskedTakes ==
  ASSUME NEW w, NEW S, TakenBy(w, S), NEW s, LbRequest(s), Takes(s) \cap S = {}
  PROVE  TakenBy(w \cup {s}, S \cup Takes(s))
<1>1. \A r \in w, d \in Takes(s) : d \notin Takes(r)
  BY DEF TakenBy
<1>  QED  BY <1>1 DEF TakenBy

LEMMA LoadingTakes ==
  ASSUME NEW w, NEW S, TakenBy(w, S), NEW d, d = NoOne \/ d \notin S
  PROVE  TakenBy(Loading(w, d), S \cup ({d} \ {NoOne}))
<1>  DEFINE s == [kind |-> "domains", last |-> TRUE, frees |-> d]
<1>1. LbRequest(s) /\ Takes(s) = {d} \ {NoOne}
  BY DEF LbRequest, Takes
<1>2. Loading(w, d) = Overtaken(w) \cup {s}
  BY DEF Loading
<1>3. TakenBy(Overtaken(w), S)
  BY OvertakenTakes
<1>  HIDE DEF s
<1>  QED  BY <1>1, <1>2, <1>3, AskedTakes

\* The dialog asks for records, which take no domain (LbPage.tsx:505-517).
LEMMA InspectsTakes ==
  ASSUME NEW p, NEW reqs, {"syncing", "list"} \subseteq DOMAIN p, TakenBy(reqs, p.syncing),
         NoOne \notin p.list.there \cup world.there \cup p.syncing,
         Inspects(p, reqs), UNCHANGED world
  PROVE  SyncInv'
<1>1. CASE page' = p /\ wire' = reqs
  BY <1>1 DEF SyncInv
<1>2. CASE ~(page' = p /\ wire' = reqs)
  <2>1. /\ page' = [p EXCEPT !.records = NoOne, !.logs = NoOne]
        /\ \A r \in wire' : r \in reqs \/ \E k \in {"records", "logs"} : \E d : r = [kind |-> k, of |-> d]
        /\ \A r \in reqs : r.kind \notin {"records", "logs"} => r \in wire'
    BY <1>2 DEF Inspects, HeardHere
  <2>2. \A r \in wire' : r \in reqs \/ (LbRequest(r) /\ Takes(r) = {})
    BY <2>1 DEF LbRequest, Takes
  <2>3. \A r \in reqs : Takes(r) # {} => r \in wire'
    BY <2>1 DEF Takes
  <2>4. page'.syncing = p.syncing /\ page'.list = p.list /\ {"syncing", "list"} \subseteq DOMAIN page'
    BY <2>1
  <2>5. TakenBy(wire', p.syncing)
    BY <2>2, <2>3 DEF TakenBy
  <2>  QED  BY <2>4, <2>5 DEF SyncInv
<1>  QED  BY <1>1, <1>2

LEMMA SyncStep ==
  ASSUME SyncInv, [LbNext]_pageVars
  PROVE  SyncInv'
<1>0. {"syncing", "list"} \subseteq DOMAIN page /\ TakenBy(wire, page.syncing)
  BY DEF SyncInv
<1>  DEFINE Aloof == {"syncing", "list"} \subseteq DOMAIN page' /\ page'.list = page.list
<1>1. CASE AddressSettles
  <2>1. PICK i \in DOMAIN page.coming :
          LET to    == page.coming[i]
              again == to.type # page.type \/ to.at.q # page.at.q
          IN  Inspects([page EXCEPT !.at = to.at, !.type = to.type,
                          !.coming = SubSeq(@, i + 1, Len(@)),
                          !.text = IF again /\ to.type # "replace" THEN to.at.q ELSE @], wire)
    BY <1>1 DEF AddressSettles
  <2>2. PICK p : /\ {"syncing", "list"} \subseteq DOMAIN p /\ p.syncing = page.syncing
                 /\ p.list = page.list /\ Inspects(p, wire)
    BY <1>0, <2>1
  <2>  QED  BY <1>0, <1>1, <2>2, InspectsTakes DEF AddressSettles, SyncInv
<1>2. CASE SearchDomains \/ FilterDomains \/ ClearFilters \/ OpenDetails \/ CloseDetails \/ BackInHistory
           \/ OpenDomain
  <2>1. Aloof /\ page'.syncing = page.syncing /\ wire' = wire /\ world' = world
    BY <1>0, <1>2 DEF SearchDomains, FilterDomains, ClearFilters, OpenDetails, CloseDetails,
                      BackInHistory, Goes, OpenDomain
  <2>  QED  BY <1>0, <2>1 DEF SyncInv
<1>3. CASE LoadDomains
  <2>1. Aloof /\ page'.syncing = page.syncing /\ wire' = Loading(wire, NoOne) /\ world' = world
    BY <1>0, <1>3 DEF LoadDomains
  <2>  QED  BY <1>0, <2>1, LoadingTakes DEF SyncInv
<1>4. CASE DomainsShown
  <2>1. PICK r \in Of("domains"), lost \in BOOLEAN :
          Inspects([Frees(page, r.frees) EXCEPT
                      !.list = IF r.last /\ ~lost THEN world ELSE @,
                      !.loaded = @ \/ (r.last /\ ~lost),
                      !.error = IF r.last THEN lost ELSE @,
                      !.refreshing = @ /\ ~r.last], wire \ {r})
    BY <1>4 DEF DomainsShown
  <2>2. PICK p : /\ {"syncing", "list"} \subseteq DOMAIN p /\ p.syncing = page.syncing \ {r.frees}
                 /\ p.list \in {page.list, world} /\ Inspects(p, wire \ {r})
    BY <1>0, <2>1 DEF Frees
  <2>3. r \in wire /\ Takes(r) = {r.frees} \ {NoOne}
    BY DEF Of, Takes
  <2>4. page.syncing \ {r.frees} = page.syncing \ Takes(r)
    BY <2>3 DEF SyncInv
  <2>5. TakenBy(wire \ {r}, p.syncing)
    BY <1>0, <2>2, <2>3, <2>4, AnsweredTakes
  <2>6. NoOne \notin p.list.there \cup world.there \cup p.syncing
    BY <2>2 DEF SyncInv
  <2>7. UNCHANGED world
    BY <1>4 DEF DomainsShown
  <2>  QED  BY <2>2, <2>5, <2>6, <2>7, InspectsTakes
<1>5. ASSUME NEW r \in wire, Takes(r) = {}
      PROVE  TakenBy(wire \ {r}, page.syncing)
  <2>1. page.syncing \ Takes(r) = page.syncing
    BY <1>5
  <2>  QED  BY <1>0, <2>1, AnsweredTakes
<1>6. CASE RecordsArrived \/ DomainNotSaved
  <2>1. PICK r \in wire : /\ wire' = wire \ {r}
                          /\ r.kind \in {"records", "logs", "save"}
    BY <1>6 DEF RecordsArrived, DomainNotSaved, Of
  <2>2. Aloof /\ page'.syncing = page.syncing /\ world' = world
    BY <1>0, <1>6 DEF RecordsArrived, DomainNotSaved
  <2>3. Takes(r) = {}
    BY <2>1 DEF Takes
  <2>  QED  BY <1>5, <2>1, <2>2, <2>3 DEF SyncInv
<1>7. CASE SyncNow
  <2>1. PICK d \in Found(page) \ page.syncing :
           /\ page' = [page EXCEPT !.syncing = @ \cup {d}]
           /\ wire' = wire \cup {[kind |-> "sync", of |-> d]}
    BY <1>7 DEF SyncNow
  <2>  DEFINE s == [kind |-> "sync", of |-> d]
  <2>2. LbRequest(s) /\ Takes(s) = {d}
    BY DEF LbRequest, Takes
  <2>  HIDE DEF s
  <2>3. TakenBy(wire \cup {s}, page.syncing \cup {d})
    BY <1>0, <2>1, <2>2, AskedTakes
  <2>4. d # NoOne
    BY <2>1 DEF Found, SyncInv
  <2>5. Aloof /\ page'.syncing = page.syncing \cup {d} /\ world' = world /\ wire' = wire \cup {s}
    BY <1>0, <1>7, <2>1 DEF SyncNow, s
  <2>  QED  BY <2>3, <2>4, <2>5 DEF SyncInv
<1>8. CASE SyncAnswered
  <2>1. PICK r \in Of("sync"), lost \in BOOLEAN :
           /\ page' = IF lost THEN Frees(page, r.of) ELSE [page EXCEPT !.refreshing = TRUE]
           /\ wire' = IF lost THEN wire \ {r} ELSE Loading(wire \ {r}, r.of)
    BY <1>8 DEF SyncAnswered
  <2>2. r \in wire /\ Takes(r) = {r.of}
    BY DEF Of, Takes
  <2>3. TakenBy(wire \ {r}, page.syncing \ {r.of})
    BY <1>0, <2>2, AnsweredTakes
  <2>4. r.of \in page.syncing
    BY <1>0, <2>2 DEF TakenBy
  <2>5. CASE lost
    <3>1. Aloof /\ page'.syncing = page.syncing \ {r.of} /\ world' = world
      BY <1>0, <1>8, <2>1, <2>5 DEF SyncAnswered, Frees
    <3>  QED  BY <2>1, <2>3, <2>5, <3>1 DEF SyncInv
  <2>6. CASE ~lost
    <3>1. Aloof /\ page'.syncing = page.syncing /\ world' = world
      BY <1>0, <1>8, <2>1, <2>6 DEF SyncAnswered
    <3>2. (page.syncing \ {r.of}) \cup ({r.of} \ {NoOne}) = page.syncing
      BY <2>4 DEF SyncInv
    <3>3. TakenBy(Loading(wire \ {r}, r.of), page.syncing)
      BY <2>3, <3>2, LoadingTakes
    <3>  QED  BY <2>1, <2>6, <3>1, <3>3 DEF SyncInv
  <2>  QED  BY <2>5, <2>6
<1>9. CASE CloseDomain
  <2>1. Aloof /\ page'.syncing = page.syncing /\ wire' = Unmounted(wire) /\ world' = world
    BY <1>0, <1>9 DEF CloseDomain
  <2>  QED  BY <1>0, <2>1, UnmountedTakes DEF SyncInv
<1>10. CASE SubmitDomain \/ ConfirmDeletion
  <2>1. Aloof /\ page'.syncing = page.syncing /\ world' = world
    BY <1>0, <1>10 DEF SubmitDomain, ConfirmDeletion
  <2>2. PICK s : wire' = wire \cup {s} /\ LbRequest(s) /\ Takes(s) = {}
    <3>1. CASE SubmitDomain
      <4>1. PICK d \in Domains, on \in BOOLEAN :
               wire' = wire \cup {[kind |-> "save", of |-> d, new |-> page.editing = "new",
                                   on |-> on, here |-> TRUE, done |-> FALSE]}
        BY <3>1 DEF SubmitDomain
      <4>  WITNESS [kind |-> "save", of |-> d, new |-> page.editing = "new",
                    on |-> on, here |-> TRUE, done |-> FALSE]
      <4>  QED  BY <4>1 DEF LbRequest, Takes
    <3>2. CASE ConfirmDeletion
      <4>  WITNESS [kind |-> "delete", of |-> page.deleting, done |-> FALSE]
      <4>  QED  BY <3>2 DEF ConfirmDeletion, LbRequest, Takes
    <3>  QED  BY <1>10, <3>1, <3>2
  <2>3. TakenBy(wire', page.syncing \cup Takes(s))
    BY <1>0, <2>2, AskedTakes
  <2>4. page.syncing \cup Takes(s) = page.syncing
    BY <2>2
  <2>  QED  BY <2>1, <2>3, <2>4 DEF SyncInv
<1>11. CASE DomainStored \/ DomainDeleted
  <2>1. PICK r \in wire : /\ wire' = (wire \ {r}) \cup {[r EXCEPT !.done = TRUE]}
                          /\ r.kind \in {"save", "delete"}
                          /\ world'.there \subseteq world.there \cup (IF r.kind = "save" THEN {r.of} ELSE {})
    BY <1>11 DEF DomainStored, DomainDeleted, Of
  <2>2. page' = page
    BY <1>11 DEF DomainStored, DomainDeleted
  <2>  DEFINE s == [r EXCEPT !.done = TRUE]
  <2>3. LbRequest(r) /\ Takes(r) = {}
    BY <1>0, <2>1 DEF TakenBy, Takes
  <2>4. LbRequest(s) /\ Takes(s) = {}
    BY <2>1, <2>3 DEF LbRequest, Takes
  <2>5. TakenBy(wire \ {r}, page.syncing)
    BY <1>5, <2>3
  <2>  HIDE DEF s
  <2>6. TakenBy((wire \ {r}) \cup {s}, page.syncing \cup Takes(s))
    BY <2>4, <2>5, AskedTakes
  <2>7. page.syncing \cup Takes(s) = page.syncing
    BY <2>4
  <2>8. NoOne \notin world'.there
    BY <2>1, <2>3, DomainsAssumption DEF SyncInv, LbRequest
  <2>  QED  BY <2>1, <2>2, <2>6, <2>7, <2>8 DEF SyncInv, s
<1>12. CASE DomainSaved
  <2>1. PICK r \in wire : /\ wire' = Loading(Unmounted(wire \ {r}), NoOne)
                          /\ r.kind = "save"
    BY <1>12 DEF DomainSaved, Of
  <2>2. Aloof /\ page'.syncing = page.syncing /\ world' = world
    BY <1>0, <1>12 DEF DomainSaved
  <2>3. TakenBy(Unmounted(wire \ {r}), page.syncing)
    BY <1>5, <2>1, UnmountedTakes DEF Takes
  <2>4. page.syncing \cup ({NoOne} \ {NoOne}) = page.syncing
    OBVIOUS
  <2>  QED  BY <2>1, <2>2, <2>3, <2>4, LoadingTakes DEF SyncInv
<1>13. CASE DeletionShown
  <2>1. PICK r \in wire : /\ wire' \in {wire \ {r}, Loading(wire \ {r}, NoOne)}
                          /\ r.kind = "delete"
    BY <1>13 DEF DeletionShown, Of
  <2>2. Aloof /\ page'.syncing = page.syncing /\ world' = world
    BY <1>0, <1>13 DEF DeletionShown
  <2>3. TakenBy(wire \ {r}, page.syncing)
    BY <1>5, <2>1 DEF Takes
  <2>4. page.syncing \cup ({NoOne} \ {NoOne}) = page.syncing
    OBVIOUS
  <2>5. TakenBy(Loading(wire \ {r}, NoOne), page.syncing)
    BY <2>3, <2>4, LoadingTakes
  <2>  QED  BY <2>1, <2>2, <2>3, <2>5 DEF SyncInv
<1>14. CASE UNCHANGED pageVars
  BY <1>14 DEF pageVars, SyncInv
<1>  QED
  BY <1>1, <1>2, <1>3, <1>4, <1>6, <1>7, <1>8, <1>9, <1>10, <1>11, <1>12, <1>13, <1>14
     DEF LbNext, LbUser, LbRuns, RefreshDomains

LEMMA SyncStart ==
  ASSUME LbInit
  PROVE  SyncInv
<1>1. PICK at : page = FreshList(at)
  BY DEF LbInit
<1>2. {"syncing", "list"} \subseteq DOMAIN page /\ page.syncing = {} /\ page.list.there = {}
  BY <1>1 DEF FreshList
<1>3. TakenBy({}, {}) /\ {} \cup ({NoOne} \ {NoOne}) = {}
  BY DEF TakenBy
<1>4. TakenBy(Loading({}, NoOne), {})
  BY <1>3, LoadingTakes
<1>5. NoOne \notin world.there
  BY DomainsAssumption DEF LbInit
<1>  QED  BY <1>2, <1>4, <1>5 DEF SyncInv, LbInit

LEMMA LbHolds == ConsoleSpec => [](Shows("lb") => LbInv /\ SyncInv)
<1>1. ConsoleInit => (Shows("lb") => LbInv /\ SyncInv)
  BY StartOfPage, LbStart, SyncStart
<1>2. (Shows("lb") => LbInv /\ SyncInv) /\ [ConsoleNext]_pageVars
        => (Shows("lb") => LbInv /\ SyncInv)'
  <2>  SUFFICES ASSUME Shows("lb") => LbInv /\ SyncInv, [ConsoleNext]_pageVars, Shows("lb")'
                PROVE  (LbInv /\ SyncInv)'
    OBVIOUS
  <2>1. focus = "lb"
    BY FocusStays DEF Shows
  <2>2. [LbNext]_pageVars
    BY <2>1 DEF ConsoleNext, Shows
  <2>  QED  BY <2>1, <2>2, LbStep, SyncStep DEF Shows
<1>  QED  BY <1>1, <1>2, PTL DEF ConsoleSpec

LEMMA SyncMarked ==
  (Shows("lb") => LbInv /\ SyncInv) => SyncingIsInFlight
<1>1. ASSUME SyncInv
      PROVE  page.syncing = {r.of : r \in Of("sync")} \cup
                            ({r.frees : r \in Of("domains")} \ {NoOne})
  <2>1. ASSUME NEW d
        PROVE  (\E r \in wire : d \in Takes(r))
                 <=> d \in {r.of : r \in Of("sync")} \cup ({r.frees : r \in Of("domains")} \ {NoOne})
    BY DEF Takes, Of
  <2>2. \A d : d \in page.syncing <=> \E r \in wire : d \in Takes(r)
    BY <1>1 DEF SyncInv, TakenBy
  <2>  QED  BY <2>1, <2>2
<1>  QED  BY <1>1 DEF SyncingIsInFlight

(* The records and the logs in the dialog are those of the domain the       *)
(* address names, however the address and the list changed since they were  *)
(* asked for (LbPage.tsx:78-79, 505-517).                                   *)
THEOREM LbRecordsBelong == ConsoleSpec => []RecordsOfInspected
<1>1. (Shows("lb") => LbInv /\ SyncInv) => RecordsOfInspected
  BY DEF LbInv, ShownFor, RecordsOfInspected
<1>  QED  BY <1>1, LbHolds, PTL

-----------------------------------------------------------------------------
(***************************************************************************)
(* A trail of pages is a sequence that is not empty.                       *)
(***************************************************************************)
IsTrail(t) == \E S : t \in Seq(S) /\ Len(t) > 0

LEMMA TrailStarts == ASSUME NEW x PROVE IsTrail(<<x>>) /\ Last(<<x>>) = x
<1>1. <<x>> \in Seq({x})
  OBVIOUS
<1>2. Len(<<x>>) = 1 /\ <<x>>[1] = x
  OBVIOUS
<1>3. <<x>>[Len(<<x>>)] = x
  BY <1>2
<1>4. <<x>> \in Seq({x}) /\ Len(<<x>>) > 0
  BY <1>1, <1>2
<1>5. IsTrail(<<x>>)
  BY <1>4 DEF IsTrail
<1>  QED  BY <1>3, <1>5 DEF Last

LEMMA TrailGrows ==
  ASSUME NEW t, IsTrail(t), NEW x
  PROVE  IsTrail(Append(t, x)) /\ Last(Append(t, x)) = x
<1>1. PICK S : t \in Seq(S)
  BY DEF IsTrail
<1>2. t \in Seq(S \cup {x})
  BY <1>1
<1>3. Append(t, x) \in Seq(S \cup {x}) /\ Len(Append(t, x)) = Len(t) + 1
  BY <1>2
<1>4. Append(t, x)[Len(t) + 1] = x
  BY <1>2
<1>  QED  BY <1>1, <1>3, <1>4 DEF IsTrail, Last

LEMMA TrailShrinks ==
  ASSUME NEW t, IsTrail(t), Len(t) > 1
  PROVE  IsTrail(Front(t)) /\ Front(t) # t
<1>1. PICK S : t \in Seq(S)
  BY DEF IsTrail
<1>2. Front(t) \in Seq(S) /\ Len(Front(t)) = Len(t) - 1
  BY <1>1 DEF Front
<1>3. Len(t) \in Nat
  BY <1>1
<1>  QED  BY <1>2, <1>3 DEF IsTrail

-----------------------------------------------------------------------------
(***************************************************************************)
(* The candidates of a domain (Candidates).                                *)
(***************************************************************************)
CandFields == {"shown", "at", "reading", "failed", "text", "word", "conn", "cursor", "trail",
               "rows", "answers", "ticked", "adding", "removing", "asked", "target", "switching"}

HasCand(p) == \A f \in CandFields : f \in DOMAIN p

\* The rows that are read are those of the search and the place of now.
RowsFollow(p, w) ==
  /\ IsTrail(p.trail) /\ p.cursor = Last(p.trail)
  /\ \A r \in w : r.kind = "rows" => r.q = Question(p)
  /\ "rows" \notin p.reading /\ ~p.failed => p.answers = Question(p)

Adder(r)    == r.kind = "add" \/ (r.kind = "reread" /\ r.for = "add")
Switcher(r) == r.kind = "switch" \/ (r.kind = "reread" /\ r.for = "switch")
Remover(r)  == r.kind = "remove"

Single(w) ==
  /\ \A r, s \in w : Adder(r) /\ Adder(s) => r = s
  /\ \A r, s \in w : Switcher(r) /\ Switcher(s) => r = s
  /\ \A r, s \in w : Remover(r) /\ Remover(s) => r = s

(* One request stands behind every mark, and the questions in front of the  *)
(* dialog exclude each other and what they would carry out.                 *)
PoolFollows(p, w) ==
  /\ p.adding <=> \E r \in w : Adder(r)
  /\ p.switching <=> \E r \in w : Switcher(r)
  /\ Single(w)
  /\ p.removing # NoOne => \E r \in w : Remover(r)
  /\ \A r \in w : Remover(r) => r.of = p.removing /\ r.of # NoOne
  /\ p.removing # NoOne => ~p.adding /\ ~p.switching /\ p.target = NoOne
  /\ p.asked # NoOne => ~p.adding /\ ~p.switching /\ p.target = NoOne

CandRequest(r) ==
  /\ r.kind \in {"members", "rows", "reread", "add", "remove", "switch"}
  /\ r.kind = "add" => NoOne \notin r.ids
  /\ r.kind = "reread" => r.for \in {"add", "switch"}

NoMember(p) == NoOne \notin p.shown \cup p.ticked \cup p.rows

CandInv ==
  /\ HasCand(page)
  /\ \A r \in wire : CandRequest(r)
  /\ NoMember(page) /\ NoOne \notin world.pool \cup world.pass
  /\ RowsFollow(page, wire)
  /\ PoolFollows(page, wire)

\* Pages that show the same search and place, and pages with the same marks.
SamePlace(p, q) == p.word = q.word /\ p.conn = q.conn /\ p.cursor = q.cursor /\ p.trail = q.trail
SameMarks(p, q) == /\ p.adding = q.adding /\ p.removing = q.removing /\ p.switching = q.switching
                   /\ p.asked = q.asked /\ p.target = q.target

\* Of the requests only those that read a list differ.
SameDeeds(v, w) == \A r : r.kind \notin {"members", "rows"} => (r \in v <=> r \in w)

LEMMA ReadsAreReads ==
  ASSUME NEW p, NEW kinds \in SUBSET PoolAndLibrary
  PROVE  \A r \in ReadsOf(p, kinds) :
            /\ r.kind \in kinds /\ CandRequest(r)
            /\ r.kind = "rows" => r.q = Question(p)
<1>  SUFFICES ASSUME NEW k \in kinds, NEW r,
                     r = IF k = "members" THEN [kind |-> k, at |-> p.at] ELSE [kind |-> k, q |-> Question(p)]
              PROVE  /\ r.kind \in kinds /\ CandRequest(r)
                     /\ r.kind = "rows" => r.q = Question(p)
  BY DEF ReadsOf
<1>1. k \in {"members", "rows"}
  BY DEF PoolAndLibrary
<1>2. CASE k = "members"
  BY <1>2 DEF CandRequest
<1>3. CASE k = "rows"
  BY <1>3 DEF CandRequest
<1>  QED  BY <1>1, <1>2, <1>3

LEMMA MarksCarry ==
  ASSUME NEW p, NEW q, NEW v, NEW w, SameMarks(p, q), SameDeeds(v, w), PoolFollows(q, w)
  PROVE  PoolFollows(p, v)
<1>1. \A r : Adder(r) \/ Switcher(r) \/ Remover(r) => (r \in v <=> r \in w)
  BY DEF Adder, Switcher, Remover, SameDeeds
<1>2. Single(v)
  BY <1>1 DEF PoolFollows, Single
<1>  QED  BY <1>1, <1>2 DEF PoolFollows, SameMarks

(* A read that is asked again replaces the one before; the place it is      *)
(* asked for is then answered (DomainCandidatesDialog.tsx:92-140).          *)
LEMMA AskedFollows ==
  ASSUME NEW p, NEW w, NEW kinds \in SUBSET PoolAndLibrary, HasCand(p),
         \A r \in w : CandRequest(r), NoMember(p), NoOne \notin world'.pool \cup world'.pass,
         IsTrail(p.trail), p.cursor = Last(p.trail),
         "rows" \notin kinds => RowsFollow(p, w),
         PoolFollows(p, w), Asked(p, w, kinds)
  PROVE  CandInv'
<1>1. /\ page' = [p EXCEPT !.reading = @ \cup kinds, !.failed = @ /\ "rows" \notin kinds]
      /\ wire' = {r \in w : r.kind \notin kinds} \cup ReadsOf(p, kinds)
  BY DEF Asked
<1>2. HasCand(page') /\ SamePlace(page', p) /\ page'.answers = p.answers /\ SameMarks(page', p)
      /\ page'.shown = p.shown /\ page'.ticked = p.ticked /\ page'.rows = p.rows
      /\ page'.reading = p.reading \cup kinds
      /\ page'.failed = (p.failed /\ "rows" \notin kinds)
  BY <1>1 DEF HasCand, CandFields, SamePlace, SameMarks
<1>3. \A r \in wire' : CandRequest(r)
  BY <1>1, ReadsAreReads
<1>4. SameDeeds(wire', w)
  BY <1>1, ReadsAreReads DEF SameDeeds, PoolAndLibrary
<1>5. PoolFollows(page', wire')
  BY <1>2, <1>4, MarksCarry
<1>6. Question(page') = Question(p)
  BY <1>2 DEF Question, SamePlace
<1>7. RowsFollow(page', wire')
  <2>1. \A r \in wire' : r.kind = "rows" => r.q = Question(p)
    BY <1>1, ReadsAreReads DEF RowsFollow
  <2>2. CASE "rows" \in kinds
    BY <1>2, <1>6, <2>1, <2>2 DEF RowsFollow, SamePlace
  <2>3. CASE "rows" \notin kinds
    BY <1>2, <1>6, <2>1, <2>3 DEF RowsFollow, SamePlace
  <2>  QED  BY <2>2, <2>3
<1>  QED  BY <1>2, <1>3, <1>5, <1>7 DEF CandInv, NoMember

\* A render reads the rows again whenever their place has changed.
LEMMA RedrawnFollows ==
  ASSUME NEW p, NEW w, HasCand(p),
         \A r \in w : CandRequest(r), NoMember(p), NoOne \notin world'.pool \cup world'.pass,
         IsTrail(p.trail), p.cursor = Last(p.trail),
         SamePlace(p, page) => RowsFollow(p, w),
         PoolFollows(p, w), Redrawn(p, w)
  PROVE  CandInv'
<1>  DEFINE kinds == (IF p.at # page.at THEN {"members"} ELSE {})
                     \cup (IF <<Question(p), p.trail>> # <<Question(page), page.trail>> THEN {"rows"} ELSE {})
<1>1. kinds \in SUBSET PoolAndLibrary /\ Asked(p, w, kinds)
  BY DEF PoolAndLibrary, Redrawn
<1>2. ASSUME "rows" \notin kinds
      PROVE  SamePlace(p, page)
  BY <1>2 DEF Question, SamePlace
<1>  HIDE DEF kinds
<1>  QED  BY <1>1, <1>2, AskedFollows

\* A step that turns no page and reads no list.
LEMMA StillFollows ==
  ASSUME CandInv, HasCand(page'), SamePlace(page', page), page'.answers = page.answers,
         page'.reading = page.reading, page'.failed = page.failed,
         \A r \in wire' : CandRequest(r), \A r \in wire' : r.kind = "rows" => r \in wire,
         NoMember(page'), NoOne \notin world'.pool \cup world'.pass, PoolFollows(page', wire')
  PROVE  CandInv'
<1>1. Question(page') = Question(page)
  BY DEF Question, SamePlace
<1>  QED  BY <1>1 DEF CandInv, RowsFollow, SamePlace

LEMMA FreshDialogFits ==
  ASSUME NEW n, NEW p, p = FreshDialog(n), NEW w, w = ReadsOf(p, PoolAndLibrary)
  PROVE  /\ HasCand(p) /\ NoMember(p) /\ \A r \in w : CandRequest(r)
         /\ RowsFollow(p, w) /\ PoolFollows(p, w)
<1>1. /\ HasCand(p) /\ NoMember(p) /\ p.trail = <<NoOne>> /\ p.cursor = NoOne
      /\ p.reading = PoolAndLibrary
      /\ p.adding = FALSE /\ p.switching = FALSE
      /\ p.removing = NoOne /\ p.asked = NoOne /\ p.target = NoOne
  BY DEF FreshDialog, HasCand, CandFields, NoMember
<1>2. \A r \in w : r.kind \in PoolAndLibrary /\ CandRequest(r) /\ (r.kind = "rows" => r.q = Question(p))
  BY ReadsAreReads
<1>3. RowsFollow(p, w)
  BY <1>1, <1>2, TrailStarts DEF RowsFollow, PoolAndLibrary
<1>4. \A r \in w : ~Adder(r) /\ ~Switcher(r) /\ ~Remover(r)
  BY <1>2 DEF Adder, Switcher, Remover, PoolAndLibrary
<1>5. PoolFollows(p, w)
  BY <1>1, <1>4 DEF PoolFollows, Single
<1>  QED  BY <1>1, <1>2, <1>3, <1>5

LEMMA CandStep ==
  ASSUME CandInv, [CandidatesNext]_pageVars
  PROVE  CandInv'
<1>0. /\ HasCand(page) /\ \A r \in wire : CandRequest(r)
      /\ NoMember(page) /\ NoOne \notin world.pool \cup world.pass
      /\ RowsFollow(page, wire) /\ PoolFollows(page, wire)
  BY DEF CandInv
<1>1. IsTrail(page.trail) /\ page.cursor = Last(page.trail)
  BY <1>0 DEF RowsFollow
<1>  DEFINE Rests == /\ HasCand(page') /\ SamePlace(page', page) /\ page'.answers = page.answers
                    /\ page'.reading = page.reading /\ page'.failed = page.failed
            Carries(p) == /\ HasCand(p) /\ NoMember(p) /\ SameMarks(p, page)
            Deeds(w) == (\A r \in w : CandRequest(r)) /\ SameDeeds(w, wire)
<1>2. ASSUME NEW p, NEW w, Carries(p), Deeds(w)
      PROVE  PoolFollows(p, w)
  BY <1>0, <1>2, MarksCarry
<1>3. Deeds(wire)
  BY <1>0 DEF SameDeeds
<1>4. ASSUME NEW p, NEW w, Carries(p), Deeds(w), world' = world, IsTrail(p.trail),
             p.cursor = Last(p.trail), ~SamePlace(p, page), Redrawn(p, w)
      PROVE  CandInv'
  BY <1>0, <1>2, <1>4, RedrawnFollows
<1>5. CASE MembersTick
  BY <1>0, <1>1, <1>5, AskedFollows DEF MembersTick, PoolAndLibrary
<1>6. CASE TypeMachine
  <2>1. PICK x : page' = [page EXCEPT !.text = x] /\ wire' = wire /\ world' = world
    BY <1>6 DEF TypeMachine
  <2>2. Rests /\ Carries(page')
    BY <1>0, <2>1 DEF HasCand, CandFields, SamePlace, SameMarks, NoMember
  <2>  QED  BY <1>0, <1>2, <1>3, <2>1, <2>2, StillFollows
<1>7. ASSUME NEW p, HasCand(p), NoMember(p), SameMarks(p, page), p.word # page.word \/ p.conn # page.conn
      PROVE  /\ Carries(Anew(p)) /\ ~SamePlace(Anew(p), page)
             /\ IsTrail(Anew(p).trail) /\ Anew(p).cursor = Last(Anew(p).trail)
  <2>1. /\ HasCand(Anew(p)) /\ SameMarks(Anew(p), p) /\ Anew(p).shown = p.shown
        /\ Anew(p).ticked = p.ticked /\ Anew(p).rows = p.rows
        /\ Anew(p).word = p.word /\ Anew(p).conn = p.conn
        /\ Anew(p).cursor = NoOne /\ Anew(p).trail = <<NoOne>>
    BY <1>7 DEF Anew, HasCand, CandFields, SameMarks
  <2>  QED  BY <1>7, <2>1, TrailStarts DEF SameMarks, SamePlace, NoMember
<1>8. CASE TextSettles
  <2>  DEFINE p == [page EXCEPT !.word = page.text]
  <2>1. HasCand(p) /\ NoMember(p) /\ SameMarks(p, page) /\ p.word # page.word
    BY <1>0, <1>8 DEF HasCand, CandFields, NoMember, SameMarks, TextSettles
  <2>2. Redrawn(Anew(p), wire) /\ world' = world
    BY <1>8 DEF TextSettles
  <2>  HIDE DEF p
  <2>  QED  BY <1>3, <1>4, <1>7, <2>1, <2>2
<1>9. CASE ChooseConnectivity
  <2>1. PICK c \in Connectivity \ {page.conn} : Redrawn(Anew([page EXCEPT !.conn = c]), wire)
    BY <1>9 DEF ChooseConnectivity
  <2>  DEFINE p == [page EXCEPT !.conn = c]
  <2>2. HasCand(p) /\ NoMember(p) /\ SameMarks(p, page) /\ p.conn # page.conn
    BY <1>0, <2>1 DEF HasCand, CandFields, NoMember, SameMarks
  <2>3. Redrawn(Anew(p), wire) /\ world' = world
    BY <1>9, <2>1 DEF ChooseConnectivity
  <2>  HIDE DEF p
  <2>  QED  BY <1>3, <1>4, <1>7, <2>2, <2>3
<1>10. CASE NextRows
  <2>  DEFINE p == [page EXCEPT !.trail = Append(@, page.next), !.cursor = page.next]
  <2>1. Redrawn(p, wire) /\ world' = world
    BY <1>10 DEF NextRows
  <2>2. Carries(p) /\ p.trail = Append(page.trail, page.next) /\ p.cursor = page.next
    BY <1>0 DEF HasCand, CandFields, NoMember, SameMarks
  <2>3. IsTrail(p.trail) /\ p.cursor = Last(p.trail) /\ p.trail # page.trail
    <3>1. Append(page.trail, page.next) # page.trail
      BY <1>1 DEF IsTrail
    <3>  QED  BY <1>1, <2>2, <3>1, TrailGrows
  <2>4. ~SamePlace(p, page)
    BY <2>3 DEF SamePlace
  <2>  HIDE DEF p
  <2>  QED  BY <1>3, <1>4, <2>1, <2>2, <2>3, <2>4
<1>11. ASSUME NEW p, Carries(p), SamePlace(p, page), Len(page.trail) > 1
       PROVE  /\ Carries(Before(p)) /\ ~SamePlace(Before(p), page)
              /\ IsTrail(Before(p).trail) /\ Before(p).cursor = Last(Before(p).trail)
  <2>1. /\ HasCand(Before(p)) /\ SameMarks(Before(p), p) /\ Before(p).shown = p.shown
        /\ Before(p).ticked = p.ticked /\ Before(p).rows = p.rows
        /\ Before(p).trail = Front(p.trail) /\ Before(p).cursor = Last(Front(p.trail))
    BY <1>11 DEF Before, HasCand, CandFields, SameMarks
  <2>2. IsTrail(Front(page.trail)) /\ Front(page.trail) # page.trail
    BY <1>1, <1>11, TrailShrinks
  <2>  QED  BY <1>11, <2>1, <2>2 DEF SameMarks, SamePlace, NoMember
<1>12. CASE PreviousRows
  <2>1. Carries(page) /\ SamePlace(page, page)
    BY <1>0 DEF SameMarks, SamePlace
  <2>2. Redrawn(Before(page), wire) /\ world' = world /\ Len(page.trail) > 1
    BY <1>12 DEF PreviousRows
  <2>  QED  BY <1>3, <1>4, <1>11, <2>1, <2>2
<1>13. ASSUME NEW r \in wire, r.kind \in {"members", "rows"}
       PROVE  Deeds(wire \ {r})
  BY <1>0, <1>13 DEF SameDeeds
<1>14. CASE MachinesRead
  <2>1. PICK r \in Of("rows") : \E next :
          LET rows == NthOf(Answers(r.q), 1)
              p    == [page EXCEPT !.reading = @ \ {"rows"}, !.rows = rows, !.answers = r.q, !.next = next]
          IN  Redrawn(IF page.cursor # NoOne /\ rows = {} /\ Len(page.trail) > 1 THEN Before(p) ELSE p, wire \ {r})
    BY <1>14 DEF MachinesRead
  <2>2. PICK next :
          LET rows == NthOf(Answers(r.q), 1)
              p    == [page EXCEPT !.reading = @ \ {"rows"}, !.rows = rows, !.answers = r.q, !.next = next]
          IN  Redrawn(IF page.cursor # NoOne /\ rows = {} /\ Len(page.trail) > 1 THEN Before(p) ELSE p, wire \ {r})
    BY <2>1
  <2>  DEFINE rows == NthOf(Answers(r.q), 1)
              p    == [page EXCEPT !.reading = @ \ {"rows"}, !.rows = rows, !.answers = r.q, !.next = next]
  <2>3. r \in wire /\ r.kind = "rows" /\ r.q = Question(page)
    BY <1>0 DEF Of, RowsFollow
  <2>4. NoOne \notin rows
    BY MachinesAssumption, <1>0 DEF NthOf, Answers, CandInv
  <2>5. /\ Carries(p) /\ SamePlace(p, page) /\ p.answers = Question(page)
        /\ p.reading = page.reading \ {"rows"} /\ p.failed = page.failed
    BY <1>0, <2>3, <2>4 DEF HasCand, CandFields, NoMember, SameMarks, SamePlace
  <2>6. Redrawn(IF page.cursor # NoOne /\ rows = {} /\ Len(page.trail) > 1 THEN Before(p) ELSE p, wire \ {r})
    BY <2>2
  <2>7. world' = world
    BY <1>14 DEF MachinesRead
  <2>  HIDE DEF p, rows
  <2>8. Deeds(wire \ {r})
    BY <1>13, <2>3
  <2>9. CASE page.cursor # NoOne /\ rows = {} /\ Len(page.trail) > 1
    BY <1>4, <1>11, <2>5, <2>6, <2>7, <2>8, <2>9
  <2>10. CASE ~(page.cursor # NoOne /\ rows = {} /\ Len(page.trail) > 1)
    <3>1. Question(p) = Question(page)
      BY <2>5 DEF Question, SamePlace
    <3>2. RowsFollow(p, wire \ {r})
      BY <1>0, <1>1, <2>5, <3>1 DEF RowsFollow, SamePlace
    <3>3. IsTrail(p.trail) /\ p.cursor = Last(p.trail)
      BY <1>1, <2>5 DEF SamePlace
    <3>4. PoolFollows(p, wire \ {r})
      BY <1>2, <2>5, <2>8
    <3>  QED  BY <1>0, <2>5, <2>6, <2>7, <2>8, <2>10, <3>2, <3>3, <3>4, RedrawnFollows
  <2>  QED  BY <2>9, <2>10
<1>15. CASE ReadingFailed
  <2>1. PICK r \in wire : /\ r.kind \in {"members", "rows"}
                          /\ page' = [page EXCEPT !.reading = @ \ {r.kind}, !.failed = @ \/ r.kind = "rows"]
                          /\ wire' = wire \ {r} /\ world' = world
    BY <1>15 DEF ReadingFailed, Of
  <2>2. /\ Carries(page') /\ SamePlace(page', page) /\ page'.answers = page.answers
        /\ page'.reading = page.reading \ {r.kind} /\ page'.failed = (page.failed \/ r.kind = "rows")
    BY <1>0, <2>1 DEF HasCand, CandFields, NoMember, SameMarks, SamePlace
  <2>3. Deeds(wire') /\ PoolFollows(page', wire')
    BY <1>2, <1>13, <2>1, <2>2
  <2>4. Question(page') = Question(page)
    BY <2>2 DEF Question, SamePlace
  <2>5. RowsFollow(page', wire')
    BY <1>0, <2>1, <2>2, <2>4 DEF RowsFollow, SamePlace
  <2>  QED  BY <1>0, <2>1, <2>2, <2>3, <2>5 DEF CandInv
<1>16. ASSUME NEW at
       PROVE  /\ HasCand(MembersAs(page, at)) /\ NoMember(MembersAs(page, at))
              /\ SamePlace(MembersAs(page, at), page) /\ MembersAs(page, at).answers = page.answers
              /\ MembersAs(page, at).reading = page.reading /\ MembersAs(page, at).failed = page.failed
              /\ SameMarks(MembersAs(page, at), page)
  <2>1. NoOne \notin NthOf(world.pool, at)
    BY <1>0 DEF NthOf
  <2>  QED  BY <1>0, <2>1 DEF MembersAs, HasCand, CandFields, NoMember, SameMarks, SamePlace
<1>17. CASE MembersRead
  <2>1. PICK r \in wire : /\ r.kind = "members"
                          /\ page' = [MembersAs(page, r.at) EXCEPT !.reading = @ \ {"members"}]
                          /\ wire' = wire \ {r} /\ world' = world
    BY <1>17 DEF MembersRead, Of
  <2>2. /\ Carries(page') /\ SamePlace(page', page) /\ page'.answers = page.answers
        /\ page'.reading = page.reading \ {"members"} /\ page'.failed = page.failed
    BY <1>16, <2>1 DEF HasCand, CandFields, NoMember, SameMarks, SamePlace
  <2>3. Deeds(wire') /\ PoolFollows(page', wire')
    BY <1>2, <1>13, <2>1, <2>2
  <2>4. Question(page') = Question(page)
    BY <2>2 DEF Question, SamePlace
  <2>5. RowsFollow(page', wire')
    BY <1>0, <2>1, <2>2, <2>4 DEF RowsFollow, SamePlace
  <2>  QED  BY <1>0, <2>1, <2>2, <2>3, <2>5 DEF CandInv
<1>18. CASE TurnMembers
  <2>1. PICK at : Redrawn([page EXCEPT !.at = at], wire) /\ world' = world
    BY <1>18 DEF TurnMembers
  <2>  DEFINE p == [page EXCEPT !.at = at]
  <2>2. /\ Carries(p) /\ SamePlace(p, page) /\ p.answers = page.answers
        /\ p.reading = page.reading /\ p.failed = page.failed
    BY <1>0 DEF HasCand, CandFields, NoMember, SameMarks, SamePlace
  <2>3. Redrawn(p, wire)
    BY <2>1
  <2>  HIDE DEF p
  <2>4. Question(p) = Question(page)
    BY <2>2 DEF Question, SamePlace
  <2>5. RowsFollow(p, wire)
    BY <1>0, <2>2, <2>4 DEF RowsFollow, SamePlace
  <2>6. IsTrail(p.trail) /\ p.cursor = Last(p.trail)
    BY <1>1, <2>2 DEF SamePlace
  <2>  QED  BY <1>0, <1>2, <1>3, <2>1, <2>2, <2>3, <2>5, <2>6, RedrawnFollows
<1>19. CASE RereadShown
  <2>1. PICK r \in wire : \E p \in {page, MembersAs(page, r.at)} :
           /\ r.kind = "reread"
           /\ page' = IF r.for = "add" THEN [p EXCEPT !.adding = FALSE] ELSE [p EXCEPT !.switching = FALSE]
           /\ wire' = wire \ {r} /\ world' = world
    BY <1>19 DEF RereadShown, Of
  <2>2. PICK p \in {page, MembersAs(page, r.at)} :
           page' = IF r.for = "add" THEN [p EXCEPT !.adding = FALSE] ELSE [p EXCEPT !.switching = FALSE]
    BY <2>1
  <2>3. HasCand(p) /\ NoMember(p) /\ SamePlace(p, page) /\ p.answers = page.answers
        /\ p.reading = page.reading /\ p.failed = page.failed /\ SameMarks(p, page)
    BY <1>0, <1>16, <2>2 DEF SamePlace, SameMarks
  <2>4. Rests /\ NoMember(page')
    BY <2>3, <2>2 DEF HasCand, CandFields, NoMember, SamePlace
  <2>5. r.for \in {"add", "switch"}
    BY <1>0, <2>1 DEF CandRequest
  <2>6. CASE r.for = "add"
    <3>1. /\ page'.adding = FALSE /\ page'.switching = page.switching /\ page'.removing = page.removing
          /\ page'.asked = page.asked /\ page'.target = page.target
      BY <2>3, <2>6, <2>2 DEF HasCand, CandFields, SameMarks
    <3>2. Adder(r) /\ ~Switcher(r) /\ ~Remover(r)
      BY <2>1, <2>6 DEF Adder, Switcher, Remover
    <3>  QED  BY <1>0, <2>1, <2>4, <3>1, <3>2, StillFollows DEF PoolFollows, Single
  <2>7. CASE r.for = "switch"
    <3>1. /\ page'.adding = page.adding /\ page'.switching = FALSE /\ page'.removing = page.removing
          /\ page'.asked = page.asked /\ page'.target = page.target
      BY <2>3, <2>7, <2>2 DEF HasCand, CandFields, SameMarks
    <3>2. ~Adder(r) /\ Switcher(r) /\ ~Remover(r)
      BY <2>1, <2>7 DEF Adder, Switcher, Remover
    <3>  QED  BY <1>0, <2>1, <2>4, <3>1, <3>2, StillFollows DEF PoolFollows, Single
  <2>  QED  BY <2>5, <2>6, <2>7
<1>20. CASE TickMachine
  <2>1. PICK m \in page.rows : /\ page' = [page EXCEPT !.ticked = IF m \in @ THEN @ \ {m} ELSE @ \cup {m}]
                               /\ wire' = wire /\ world' = world
    BY <1>20 DEF TickMachine
  <2>2. Rests /\ Carries(page')
    BY <1>0, <2>1 DEF HasCand, CandFields, SamePlace, SameMarks, NoMember
  <2>  QED  BY <1>0, <1>2, <1>3, <2>1, <2>2, StillFollows
<1>21. CASE AddTicked
  <2>  DEFINE s == [kind |-> "add", ids |-> page.ticked \ page.shown, members |-> page.shown]
  <2>1. /\ page' = [page EXCEPT !.adding = TRUE] /\ wire' = wire \cup {s} /\ world' = world
        /\ page.asked = NoOne /\ page.target = NoOne
        /\ page.removing = NoOne /\ ~page.switching /\ ~page.adding
    BY <1>21 DEF AddTicked, InDialog, Settled
  <2>2. Rests /\ NoMember(page') /\ page'.adding = TRUE /\ page'.switching = page.switching
        /\ page'.removing = page.removing /\ page'.asked = page.asked /\ page'.target = page.target
    BY <1>0, <2>1 DEF HasCand, CandFields, SamePlace, NoMember
  <2>3. CandRequest(s) /\ Adder(s) /\ ~Switcher(s) /\ ~Remover(s) /\ s.kind # "rows"
    BY <1>0 DEF CandRequest, NoMember, Adder, Switcher, Remover
  <2>  HIDE DEF s
  <2>4. PoolFollows(page', wire')
    BY <1>0, <2>1, <2>2, <2>3 DEF PoolFollows, Single
  <2>  QED  BY <1>0, <2>1, <2>2, <2>3, <2>4, StillFollows
<1>22. CASE Added
  <2>1. PICK r \in wire : /\ r.kind = "add"
                          /\ world' = [world EXCEPT !.pool = @ \cup r.ids]
                          /\ Redrawn([page EXCEPT !.ticked = {}, !.at = 1], (wire \ {r}) \cup {Reread("add", 1)})
    BY <1>22 DEF Added, Of
  <2>  DEFINE p == [page EXCEPT !.ticked = {}, !.at = 1]
              s == Reread("add", 1)
              w == (wire \ {r}) \cup {s}
  <2>2. HasCand(p) /\ NoMember(p) /\ SamePlace(p, page) /\ p.answers = page.answers
        /\ p.reading = page.reading /\ p.failed = page.failed /\ SameMarks(p, page)
    BY <1>0 DEF HasCand, CandFields, NoMember, SamePlace, SameMarks
  <2>3. CandRequest(s) /\ Adder(s) /\ ~Switcher(s) /\ ~Remover(s) /\ s.kind # "rows"
    BY DEF Reread, CandRequest, Adder, Switcher, Remover
  <2>4. Adder(r) /\ ~Switcher(r) /\ ~Remover(r) /\ NoOne \notin r.ids
    BY <1>0, <2>1 DEF CandRequest, Adder, Switcher, Remover
  <2>5. Redrawn(p, w) /\ NoOne \notin world'.pool \cup world'.pass
    BY <1>0, <2>1, <2>4
  <2>  HIDE DEF p, s
  <2>6. PoolFollows(p, w)
    BY <1>0, <2>1, <2>2, <2>3, <2>4 DEF PoolFollows, Single, SameMarks
  <2>7. Question(p) = Question(page)
    BY <2>2 DEF Question, SamePlace
  <2>8. RowsFollow(p, w)
    BY <1>0, <2>2, <2>3, <2>7 DEF RowsFollow, SamePlace
  <2>9. IsTrail(p.trail) /\ p.cursor = Last(p.trail) /\ \A q \in w : CandRequest(q)
    BY <1>0, <1>1, <2>2, <2>3 DEF SamePlace
  <2>  HIDE DEF w
  <2>  QED  BY <2>2, <2>5, <2>6, <2>8, <2>9, RedrawnFollows
<1>23. CASE AddLost
  <2>1. PICK r \in wire : /\ r.kind = "add"
                          /\ world' \in {world, [world EXCEPT !.pool = @ \cup r.ids]}
                          /\ page' = [page EXCEPT !.adding = FALSE]
                          /\ wire' = wire \ {r}
    BY <1>23 DEF AddLost, Of
  <2>2. Rests /\ NoMember(page') /\ page'.adding = FALSE /\ page'.switching = page.switching
        /\ page'.removing = page.removing /\ page'.asked = page.asked /\ page'.target = page.target
    BY <1>0, <2>1 DEF HasCand, CandFields, SamePlace, NoMember
  <2>3. Adder(r) /\ ~Switcher(r) /\ ~Remover(r) /\ NoOne \notin r.ids
    BY <1>0, <2>1 DEF CandRequest, Adder, Switcher, Remover
  <2>4. PoolFollows(page', wire')
    BY <1>0, <2>1, <2>2, <2>3 DEF PoolFollows, Single
  <2>5. NoOne \notin world'.pool \cup world'.pass
    <3>1. CASE world' = [world EXCEPT !.pool = @ \cup r.ids]
      BY <1>0, <2>3, <3>1
    <3>  QED  BY <1>0, <2>1, <3>1
  <2>  QED  BY <1>0, <2>1, <2>2, <2>4, <2>5, StillFollows
<1>24. ASSUME NEW m, m # NoOne, Removing(m), world' = world, page.removing = NoOne,
              page.target = NoOne, ~page.adding, ~page.switching
       PROVE  CandInv'
  <2>  DEFINE s == [kind |-> "remove", of |-> m]
  <2>1. page' = [page EXCEPT !.removing = m] /\ wire' = wire \cup {s}
    BY <1>24 DEF Removing
  <2>2. Rests /\ NoMember(page') /\ page'.adding = page.adding /\ page'.switching = page.switching
        /\ page'.removing = m /\ page'.asked = page.asked /\ page'.target = page.target
    BY <1>0, <2>1 DEF HasCand, CandFields, SamePlace, NoMember
  <2>3. CandRequest(s) /\ ~Adder(s) /\ ~Switcher(s) /\ Remover(s) /\ s.of = m /\ s.kind # "rows"
    BY DEF CandRequest, Adder, Switcher, Remover
  <2>  HIDE DEF s
  <2>4. PoolFollows(page', wire')
    BY <1>0, <1>24, <2>1, <2>2, <2>3 DEF PoolFollows, Single
  <2>  QED  BY <1>0, <1>24, <2>1, <2>2, <2>3, <2>4, StillFollows
<1>25. CASE RemoveMember
  <2>1. /\ page.asked = NoOne /\ page.target = NoOne /\ world' = world
        /\ page.removing = NoOne /\ ~page.switching /\ ~page.adding
    BY <1>25 DEF RemoveMember, InDialog, Settled
  <2>2. PICK m \in page.shown : \/ page' = [page EXCEPT !.asked = m] /\ wire' = wire
                                \/ Removing(m)
    BY <1>25 DEF RemoveMember
  <2>3. m # NoOne
    BY <1>0 DEF NoMember
  <2>4. CASE page' = [page EXCEPT !.asked = m] /\ wire' = wire
    <3>1. Rests /\ NoMember(page') /\ page'.adding = page.adding /\ page'.switching = page.switching
          /\ page'.removing = page.removing /\ page'.target = page.target
      BY <1>0, <2>4 DEF HasCand, CandFields, SamePlace, NoMember
    <3>2. PoolFollows(page', wire')
      BY <1>0, <2>1, <2>4, <3>1 DEF PoolFollows
    <3>  QED  BY <1>0, <2>1, <2>4, <3>1, <3>2, StillFollows
  <2>  QED  BY <1>24, <2>1, <2>2, <2>3, <2>4
<1>26. CASE ConfirmRemoval
  <2>1. /\ page.asked # NoOne /\ page.removing = NoOne /\ Removing(page.asked) /\ world' = world
    BY <1>26 DEF ConfirmRemoval
  <2>2. page.target = NoOne /\ ~page.adding /\ ~page.switching
    BY <1>0, <2>1 DEF PoolFollows
  <2>  QED  BY <1>24, <2>1, <2>2
<1>27. ASSUME NEW m
       PROVE  /\ WithoutMember(world, m).pool \subseteq world.pool
              /\ WithoutMember(world, m).pass \subseteq world.pass
  BY DEF WithoutMember
<1>28. CASE Removed
  <2>1. PICK r \in wire :
           /\ r.kind = "remove" /\ wire' = wire \ {r} /\ world' = WithoutMember(world, r.of)
           /\ page' = [page EXCEPT !.shown = @ \ {r.of}, !.total = IF @ = 0 THEN 0 ELSE @ - 1,
                                   !.ticked = @ \ {r.of}, !.asked = NoOne, !.removing = NoOne]
    BY <1>28 DEF Removed, Of
  <2>2. Rests /\ NoMember(page') /\ page'.adding = page.adding /\ page'.switching = page.switching
        /\ page'.removing = NoOne /\ page'.asked = NoOne /\ page'.target = page.target
    BY <1>0, <2>1 DEF HasCand, CandFields, SamePlace, NoMember
  <2>3. ~Adder(r) /\ ~Switcher(r) /\ Remover(r)
    BY <2>1 DEF Adder, Switcher, Remover
  <2>4. PoolFollows(page', wire')
    BY <1>0, <2>1, <2>2, <2>3 DEF PoolFollows, Single
  <2>5. NoOne \notin world'.pool \cup world'.pass
    BY <1>0, <1>27, <2>1
  <2>  QED  BY <1>0, <2>1, <2>2, <2>4, <2>5, StillFollows
<1>29. CASE RemovalLost
  <2>1. PICK r \in wire :
           /\ r.kind = "remove" /\ wire' = wire \ {r} /\ world' \in {world, WithoutMember(world, r.of)}
           /\ page' = [page EXCEPT !.removing = NoOne]
    BY <1>29 DEF RemovalLost, Of
  <2>2. Rests /\ NoMember(page') /\ page'.adding = page.adding /\ page'.switching = page.switching
        /\ page'.removing = NoOne /\ page'.asked = page.asked /\ page'.target = page.target
    BY <1>0, <2>1 DEF HasCand, CandFields, SamePlace, NoMember
  <2>3. ~Adder(r) /\ ~Switcher(r) /\ Remover(r)
    BY <2>1 DEF Adder, Switcher, Remover
  <2>4. PoolFollows(page', wire')
    BY <1>0, <2>1, <2>2, <2>3 DEF PoolFollows, Single
  <2>5. NoOne \notin world'.pool \cup world'.pass
    BY <1>0, <1>27, <2>1
  <2>  QED  BY <1>0, <2>1, <2>2, <2>4, <2>5, StillFollows
<1>30. CASE AskSwitch
  <2>1. PICK m : /\ page' = [page EXCEPT !.target = m] /\ wire' = wire /\ world' = world
                 /\ page.asked = NoOne /\ page.removing = NoOne
    BY <1>30 DEF AskSwitch, InDialog
  <2>2. Rests /\ NoMember(page') /\ page'.adding = page.adding /\ page'.switching = page.switching
        /\ page'.removing = page.removing /\ page'.asked = page.asked
    BY <1>0, <2>1 DEF HasCand, CandFields, SamePlace, NoMember
  <2>3. PoolFollows(page', wire')
    BY <1>0, <2>1, <2>2 DEF PoolFollows
  <2>  QED  BY <1>0, <2>1, <2>2, <2>3, StillFollows
<1>31. CASE ConfirmSwitch
  <2>  DEFINE s == [kind |-> "switch", of |-> page.target, at |-> page.at]
  <2>1. /\ page' = [page EXCEPT !.switching = TRUE] /\ wire' = wire \cup {s} /\ world' = world
        /\ page.target # NoOne /\ ~page.switching
    BY <1>31 DEF ConfirmSwitch
  <2>2. Rests /\ NoMember(page') /\ page'.adding = page.adding /\ page'.switching = TRUE
        /\ page'.removing = page.removing /\ page'.asked = page.asked /\ page'.target = page.target
    BY <1>0, <2>1 DEF HasCand, CandFields, SamePlace, NoMember
  <2>3. CandRequest(s) /\ ~Adder(s) /\ Switcher(s) /\ ~Remover(s) /\ s.kind # "rows"
    BY DEF CandRequest, Adder, Switcher, Remover
  <2>  HIDE DEF s
  <2>4. PoolFollows(page', wire')
    BY <1>0, <2>1, <2>2, <2>3 DEF PoolFollows, Single
  <2>  QED  BY <1>0, <2>1, <2>2, <2>3, <2>4, StillFollows
<1>32. ASSUME NEW m
       PROVE  Pointed(world, m).pool = world.pool /\ Pointed(world, m).pass = world.pass
  BY DEF Pointed
<1>33. CASE Switched
  <2>1. PICK r \in wire : /\ r.kind = "switch" /\ world' = Pointed(world, r.of)
                          /\ page' = [page EXCEPT !.target = NoOne]
                          /\ wire' = (wire \ {r}) \cup {Reread("switch", r.at)}
    BY <1>33 DEF Switched, Of
  <2>  DEFINE s == Reread("switch", r.at)
  <2>2. Rests /\ NoMember(page') /\ page'.adding = page.adding /\ page'.switching = page.switching
        /\ page'.removing = page.removing /\ page'.asked = page.asked /\ page'.target = NoOne
    BY <1>0, <2>1 DEF HasCand, CandFields, SamePlace, NoMember
  <2>3. CandRequest(s) /\ ~Adder(s) /\ Switcher(s) /\ ~Remover(s) /\ s.kind # "rows"
    BY DEF Reread, CandRequest, Adder, Switcher, Remover
  <2>4. ~Adder(r) /\ Switcher(r) /\ ~Remover(r)
    BY <2>1 DEF Adder, Switcher, Remover
  <2>5. wire' = (wire \ {r}) \cup {s} /\ NoOne \notin world'.pool \cup world'.pass
    BY <1>0, <1>32, <2>1
  <2>  HIDE DEF s
  <2>6. PoolFollows(page', wire')
    BY <1>0, <2>2, <2>3, <2>4, <2>5 DEF PoolFollows, Single
  <2>  QED  BY <1>0, <2>2, <2>3, <2>5, <2>6, StillFollows
<1>34. CASE SwitchLost
  <2>1. PICK r \in wire : /\ r.kind = "switch" /\ world' \in {world, Pointed(world, r.of)}
                          /\ page' = [page EXCEPT !.switching = FALSE] /\ wire' = wire \ {r}
    BY <1>34 DEF SwitchLost, Of
  <2>2. Rests /\ NoMember(page') /\ page'.adding = page.adding /\ page'.switching = FALSE
        /\ page'.removing = page.removing /\ page'.asked = page.asked /\ page'.target = page.target
    BY <1>0, <2>1 DEF HasCand, CandFields, SamePlace, NoMember
  <2>3. ~Adder(r) /\ Switcher(r) /\ ~Remover(r)
    BY <2>1 DEF Adder, Switcher, Remover
  <2>4. PoolFollows(page', wire')
    BY <1>0, <2>1, <2>2, <2>3 DEF PoolFollows, Single
  <2>5. NoOne \notin world'.pool \cup world'.pass
    BY <1>0, <1>32, <2>1
  <2>  QED  BY <1>0, <2>1, <2>2, <2>4, <2>5, StillFollows
<1>35. CASE Decline
  <2>1. page' = [page EXCEPT !.asked = NoOne, !.target = NoOne] /\ wire' = wire /\ world' = world
    BY <1>35 DEF Decline
  <2>2. Rests /\ NoMember(page') /\ page'.adding = page.adding /\ page'.switching = page.switching
        /\ page'.removing = page.removing /\ page'.asked = NoOne /\ page'.target = NoOne
    BY <1>0, <2>1 DEF HasCand, CandFields, SamePlace, NoMember
  <2>3. PoolFollows(page', wire')
    BY <1>0, <2>1, <2>2 DEF PoolFollows
  <2>  QED  BY <1>0, <2>1, <2>2, <2>3, StillFollows
<1>36. CASE PoolMoves
  <2>1. page' = page /\ wire' = wire
    BY <1>36 DEF PoolMoves
  <2>2. NoOne \notin world'.pool \cup world'.pass
    <3>1. PICK m \in Machines :
            \/ world' = WithoutMember(world, m)
            \/ world' = [world EXCEPT !.pool = @ \cup {m}]
            \/ world' = [world EXCEPT !.current = m, !.pinned = FALSE]
            \/ world' = [world EXCEPT !.pass = @ \ {m}]
      BY <1>36 DEF PoolMoves
    <3>2. m # NoOne
      BY MachinesAssumption
    <3>3. CASE world' = WithoutMember(world, m)
      BY <1>0, <1>27, <3>3
    <3>4. CASE world' = [world EXCEPT !.pool = @ \cup {m}]
      BY <1>0, <3>2, <3>4
    <3>5. CASE world' = [world EXCEPT !.current = m, !.pinned = FALSE]
      BY <1>0, <3>5
    <3>6. CASE world' = [world EXCEPT !.pass = @ \ {m}]
      BY <1>0, <3>6
    <3>  QED  BY <3>1, <3>3, <3>4, <3>5, <3>6
  <2>  QED  BY <1>0, <2>1, <2>2, StillFollows DEF SamePlace
<1>37. CASE ReopenCandidates
  <2>1. PICK n : page' = FreshDialog(n) /\ wire' = ReadsOf(page', PoolAndLibrary) /\ world' = world
    BY <1>37 DEF ReopenCandidates
  <2>2. /\ HasCand(page') /\ NoMember(page') /\ \A r \in wire' : CandRequest(r)
        /\ RowsFollow(page', wire') /\ PoolFollows(page', wire')
    BY <2>1, FreshDialogFits
  <2>  QED  BY <1>0, <2>1, <2>2 DEF CandInv
<1>38. CASE UNCHANGED pageVars
  BY <1>0, <1>38 DEF pageVars, CandInv
<1>  QED
  BY <1>5, <1>6, <1>8, <1>9, <1>10, <1>12, <1>14, <1>15, <1>17, <1>18, <1>19, <1>20, <1>21, <1>22,
     <1>23, <1>25, <1>26, <1>28, <1>29, <1>30, <1>31, <1>33, <1>34, <1>35, <1>36, <1>37, <1>38
     DEF CandidatesNext, CandidatesUser, CandidatesRuns

LEMMA CandStart ==
  ASSUME CandidatesInit
  PROVE  CandInv
<1>1. PICK n : page = FreshDialog(n) /\ wire = ReadsOf(page, PoolAndLibrary)
  BY DEF CandidatesInit
<1>2. NoOne \notin world.pool \cup world.pass
  <2>1. PICK pool \in SUBSET Machines : \E current :
          world = [pool |-> pool, current |-> current, pinned |-> FALSE, pass |-> Machines]
    BY DEF CandidatesInit
  <2>2. world.pool = pool /\ world.pass = Machines
    BY <2>1
  <2>  QED  BY MachinesAssumption, <2>2
<1>  QED  BY <1>1, <1>2, FreshDialogFits DEF CandInv

LEMMA CandHolds == ConsoleSpec => [](Shows("candidates") => CandInv)
<1>1. ConsoleInit => (Shows("candidates") => CandInv)
  BY StartOfPage, CandStart
<1>2. (Shows("candidates") => CandInv) /\ [ConsoleNext]_pageVars
        => (Shows("candidates") => CandInv)'
  <2>  SUFFICES ASSUME Shows("candidates") => CandInv, [ConsoleNext]_pageVars, Shows("candidates")'
                PROVE  CandInv'
    OBVIOUS
  <2>1. focus = "candidates"
    BY FocusStays DEF Shows
  <2>2. [CandidatesNext]_pageVars
    BY <2>1 DEF ConsoleNext, Shows
  <2>  QED  BY <2>1, <2>2, CandStep DEF Shows
<1>  QED  BY <1>1, <1>2, PTL DEF ConsoleSpec

-----------------------------------------------------------------------------
(***************************************************************************)
(* The test jobs (JobsPanel).                                              *)
(***************************************************************************)
PanelFields == {"job", "at", "filter", "listed", "error", "detail"}
AskFields   == {"kind", "job", "at", "filter", "stage", "answer"}

HasPanel(p) == \A f \in PanelFields : f \in DOMAIN p

(* A read of the panel is about the job, the place and the filter of now;   *)
(* its detail comes after its list.                                         *)
ReadOfPanel(p, r) ==
  /\ \A f \in AskFields : f \in DOMAIN r
  /\ r.job = p.job /\ r.at = p.at /\ r.filter = p.filter
  /\ r.stage \in {"list", "detail"}
  /\ r.stage = "list" => r.answer = NoOne
  /\ r.stage = "detail" => p.listed = p.filter.list
  /\ r.answer # NoOne => r.answer.filter = r.filter

PanelSettled(p) ==
  /\ p.listed = p.filter.list
  /\ p.detail # NoOne /\ p.detail.job = p.job /\ p.detail.at = p.at => p.detail.filter = p.filter

PanelFollows(p, w) ==
  /\ HasPanel(p)
  /\ \A r \in w : "kind" \in DOMAIN r
  /\ \A r \in w : r.kind = "jobs" => ReadOfPanel(p, r)
  /\ (\A r \in w : r.kind # "jobs") /\ ~p.error => PanelSettled(p)

PanelInv == PanelFollows(page, wire)

\* The panels that show the same, and requests that read the same.
SamePanel(p, q) == \A f \in PanelFields : f \in DOMAIN p /\ p[f] = q[f]
SameJobReads(v, w) == \A r : r.kind = "jobs" => (r \in v <=> r \in w)

LEMMA SamePanelFollows ==
  ASSUME NEW p, NEW q, NEW v, NEW w, SamePanel(p, q), SameJobReads(v, w),
         \A r \in v : "kind" \in DOMAIN r, PanelFollows(q, w)
  PROVE  PanelFollows(p, v)
<1>1. /\ p.job = q.job /\ p.at = q.at /\ p.filter = q.filter /\ p.listed = q.listed
      /\ p.error = q.error /\ p.detail = q.detail /\ HasPanel(p)
  BY DEF SamePanel, PanelFields, HasPanel
<1>2. \A r \in v : r.kind = "jobs" => r \in w
  BY DEF SameJobReads
<1>3. (\A r \in v : r.kind # "jobs") => (\A r \in w : r.kind # "jobs")
  BY DEF SameJobReads
<1>  QED  BY <1>1, <1>2, <1>3 DEF PanelFollows, ReadOfPanel, PanelSettled

\* A new read is the only one.
LEMMA ReloadFollows ==
  ASSUME NEW p, NEW acts, HasPanel(p), \A r \in acts : "kind" \in DOMAIN r /\ r.kind # "jobs",
         Reloads(p, acts)
  PROVE  PanelInv'
<1>  DEFINE a == AskJobs(p)
<1>1. page' = p /\ wire' = acts \cup {a}
  BY DEF Reloads, StillHeard
<1>2. /\ a.kind = "jobs" /\ a.job = p.job /\ a.at = p.at /\ a.filter = p.filter
      /\ a.stage = "list" /\ a.answer = NoOne /\ \A f \in AskFields : f \in DOMAIN a
  BY DEF AskJobs, AskFields
<1>  HIDE DEF a
<1>3. a.stage # "detail"
  BY <1>2
<1>4. ReadOfPanel(p, a)
  BY <1>2, <1>3 DEF ReadOfPanel
<1>5. "kind" \in DOMAIN a
  BY <1>2 DEF AskFields
<1>  QED  BY <1>1, <1>2, <1>4, <1>5 DEF PanelInv, PanelFollows

LEMMA ActsAreActs ==
  ASSUME PanelInv
  PROVE  /\ \A r \in JobActs : "kind" \in DOMAIN r /\ r.kind # "jobs"
         /\ \A r \in {[r EXCEPT !.own = FALSE] : r \in JobActs} : "kind" \in DOMAIN r /\ r.kind # "jobs"
         /\ \A r \in {[r EXCEPT !.own = FALSE, !.here = FALSE] : r \in JobActs} :
               "kind" \in DOMAIN r /\ r.kind # "jobs"
<1>1. \A r \in JobActs : "kind" \in DOMAIN r /\ r.kind = "act"
  BY DEF JobActs, PanelInv, PanelFollows
<1>2. ASSUME NEW r, "kind" \in DOMAIN r, r.kind = "act"
      PROVE  /\ "kind" \in DOMAIN [r EXCEPT !.own = FALSE] /\ [r EXCEPT !.own = FALSE].kind # "jobs"
             /\ "kind" \in DOMAIN [r EXCEPT !.own = FALSE, !.here = FALSE]
             /\ [r EXCEPT !.own = FALSE, !.here = FALSE].kind # "jobs"
  BY <1>2
<1>  QED  BY <1>1, <1>2

LEMMA ReselectFollows ==
  ASSUME PanelInv, NEW p, HasPanel(p), Reselects(p)
  PROVE  PanelInv'
  BY ActsAreActs, ReloadFollows DEF Reselects

LEMMA ReloadActsFollows ==
  ASSUME PanelInv, NEW p, NEW acts, acts \subseteq JobActs, HasPanel(p), Reloads(p, acts)
  PROVE  PanelInv'
<1>1. \A r \in acts : "kind" \in DOMAIN r /\ r.kind # "jobs"
  BY ActsAreActs
<1>  QED  BY <1>1, ReloadFollows

LEMMA PanelHasFields ==
  ASSUME NEW job, NEW filter, NEW home
  PROVE  HasPanel(Panel(job, filter, home))
  BY DEF Panel, HasPanel, PanelFields

\* Another address is read at once, the same one changes nothing.
LEMMA ToJobFollows ==
  ASSUME PanelInv, NEW job, NEW filter, ToJob(job, filter)
  PROVE  PanelInv'
<1>  DEFINE p == Panel(job, filter, page.home)
            q == [p EXCEPT !.listed = page.listed, !.error = page.error, !.seen = page.seen,
                           !.acting = page.acting, !.stopping = page.stopping]
<1>1. HasPanel(q)
  BY DEF Panel, HasPanel, PanelFields
<1>2. HasPanel([page EXCEPT !.filter = filter])
  BY DEF PanelInv, PanelFollows, HasPanel, PanelFields
<1>3. CASE p.job # page.job
  <2>1. Reselects(q)
    BY <1>3 DEF ToJob
  <2>  HIDE DEF q, p
  <2>  QED  BY <1>1, <2>1, ReselectFollows
<1>4. CASE p.job = page.job /\ filter # page.filter
  <2>1. Reloads([page EXCEPT !.filter = filter], JobActs)
    BY <1>4 DEF ToJob
  <2>  QED  BY <1>2, <2>1, ReloadActsFollows
<1>5. CASE p.job = page.job /\ filter = page.filter
  <2>1. page' = page /\ wire' = wire
    BY <1>5 DEF ToJob
  <2>  QED  BY <2>1 DEF PanelInv
<1>  QED  BY <1>3, <1>4, <1>5

LEMMA PanelStep ==
  ASSUME PanelInv, [JobsPanelNext]_pageVars
  PROVE  PanelInv'
<1>0. /\ HasPanel(page) /\ \A r \in wire : "kind" \in DOMAIN r
      /\ \A r \in wire : r.kind = "jobs" => ReadOfPanel(page, r)
      /\ (\A r \in wire : r.kind # "jobs") /\ ~page.error => PanelSettled(page)
  BY DEF PanelInv, PanelFollows
<1>1. SamePanel(page, page)
  BY <1>0 DEF SamePanel, HasPanel
<1>2. ASSUME SamePanel(page', page), SameJobReads(wire', wire), \A r \in wire' : "kind" \in DOMAIN r
      PROVE  PanelInv'
  BY <1>2, SamePanelFollows DEF PanelInv
<1>3. ASSUME SamePanel(page', page), wire' = wire
      PROVE  PanelInv'
  BY <1>0, <1>2, <1>3 DEF SameJobReads
<1>4. CASE PollJobs
  BY <1>0, <1>4, ReloadActsFollows DEF PollJobs
<1>5. CASE JobsListed
  <2>1. PICK r \in wire :
          /\ r.kind = "jobs" /\ r.stage = "list"
          /\ page' = [page EXCEPT !.listed = r.filter.list,
                                  !.detail = IF r.job = NoOne THEN NoOne ELSE @,
                                  !.error = IF r.job = NoOne THEN FALSE ELSE @]
          /\ wire' = (wire \ {r}) \cup (IF r.job = NoOne THEN {} ELSE {[r EXCEPT !.stage = "detail"]})
    BY <1>5 DEF JobsListed, Of
  <2>2. ReadOfPanel(page, r)
    BY <1>0, <2>1
  <2>3. /\ HasPanel(page') /\ page'.job = page.job /\ page'.at = page.at
        /\ page'.filter = page.filter /\ page'.listed = page.filter.list
    BY <1>0, <2>1, <2>2 DEF HasPanel, PanelFields, ReadOfPanel
  <2>4. \A s \in wire : s.kind = "jobs" => ReadOfPanel(page', s)
    BY <1>0, <2>3 DEF ReadOfPanel
  <2>5. CASE r.job = NoOne
    <3>1. page'.detail = NoOne
      BY <1>0, <2>1, <2>5 DEF HasPanel, PanelFields
    <3>2. PanelSettled(page')
      BY <2>3, <3>1 DEF PanelSettled
    <3>  QED  BY <1>0, <2>1, <2>3, <2>4, <2>5, <3>2 DEF PanelInv, PanelFollows
  <2>6. CASE r.job # NoOne
    <3>  DEFINE s == [r EXCEPT !.stage = "detail"]
    <3>1. wire' = (wire \ {r}) \cup {s}
      BY <2>1, <2>6
    <3>2. /\ \A f \in AskFields : f \in DOMAIN s
          /\ s.kind = "jobs" /\ s.job = r.job /\ s.at = r.at /\ s.filter = r.filter
          /\ s.stage = "detail" /\ s.answer = r.answer
      BY <2>1, <2>2 DEF ReadOfPanel, AskFields
    <3>  HIDE DEF s
    <3>3. ReadOfPanel(page', s)
      BY <2>1, <2>2, <2>3, <3>2 DEF ReadOfPanel
    <3>4. "kind" \in DOMAIN s
      BY <3>2 DEF AskFields
    <3>  QED  BY <1>0, <2>3, <2>4, <3>1, <3>2, <3>3, <3>4 DEF PanelInv, PanelFollows
  <2>  QED  BY <2>5, <2>6
<1>6. CASE JobDetailRead
  <2>1. PICK r \in wire : \E a :
          /\ r.kind = "jobs" /\ r.stage = "detail" /\ a.filter = r.filter
          /\ wire' = (wire \ {r}) \cup {[r EXCEPT !.answer = a]}
    <3>1. PICK r \in Of("jobs") :
            /\ r.stage = "detail"
            /\ wire' = (wire \ {r}) \cup {[r EXCEPT !.answer =
                   LET tasks == Passes(r.job, r.filter)
                   IN  [job |-> r.job, at |-> r.at, filter |-> r.filter, total |-> Cardinality(tasks),
                        tasks |-> {<<t, world[r.job][t]>> : t \in NthOf(tasks, r.at)},
                        states |-> {world[r.job][t] : t \in TaskIds}]]}
      BY <1>6 DEF JobDetailRead
    <3>  DEFINE tasks == Passes(r.job, r.filter)
                a == [job |-> r.job, at |-> r.at, filter |-> r.filter, total |-> Cardinality(tasks),
                      tasks |-> {<<t, world[r.job][t]>> : t \in NthOf(tasks, r.at)},
                      states |-> {world[r.job][t] : t \in TaskIds}]
    <3>2. a.filter = r.filter
      OBVIOUS
    <3>3. wire' = (wire \ {r}) \cup {[r EXCEPT !.answer = a]}
      BY <3>1
    <3>  HIDE DEF a
    <3>  QED  BY <3>1, <3>2, <3>3 DEF Of
  <2>2. PICK a : a.filter = r.filter /\ wire' = (wire \ {r}) \cup {[r EXCEPT !.answer = a]}
    BY <2>1
  <2>  DEFINE s == [r EXCEPT !.answer = a]
  <2>3. wire' = (wire \ {r}) \cup {s}
    BY <2>2
  <2>4. ReadOfPanel(page, r)
    BY <1>0, <2>1
  <2>5. /\ \A f \in AskFields : f \in DOMAIN s
        /\ s.kind = "jobs" /\ s.job = r.job /\ s.at = r.at /\ s.filter = r.filter
        /\ s.stage = "detail" /\ s.answer = a
    BY <2>1, <2>4 DEF ReadOfPanel, AskFields
  <2>  HIDE DEF s
  <2>6. s.stage # "list"
    BY <2>5
  <2>7. ReadOfPanel(page, s) /\ "kind" \in DOMAIN s
    BY <2>1, <2>2, <2>4, <2>5, <2>6 DEF ReadOfPanel, AskFields
  <2>8. page' = page
    BY <1>6 DEF JobDetailRead
  <2>  QED  BY <1>0, <2>1, <2>3, <2>5, <2>7, <2>8 DEF PanelInv, PanelFollows
<1>7. CASE JobDetailArrived
  <2>1. PICK r \in wire :
          /\ r.kind = "jobs" /\ r.answer # NoOne
          /\ IF r.at > LastPage(r.answer.total)
             THEN Reselects([page EXCEPT !.at = LastPage(r.answer.total)])
             ELSE /\ page' = [page EXCEPT !.detail = r.answer, !.error = FALSE]
                  /\ wire' = wire \ {r}
    BY <1>7 DEF JobDetailArrived, Of
  <2>2. CASE r.at > LastPage(r.answer.total)
    <3>1. HasPanel([page EXCEPT !.at = LastPage(r.answer.total)])
      BY <1>0 DEF HasPanel, PanelFields
    <3>  QED  BY <2>1, <2>2, <3>1, ReselectFollows
  <2>3. CASE ~(r.at > LastPage(r.answer.total))
    <3>1. page' = [page EXCEPT !.detail = r.answer, !.error = FALSE] /\ wire' = wire \ {r}
      BY <2>1, <2>3
    <3>2. ReadOfPanel(page, r)
      BY <1>0, <2>1
    <3>3. /\ HasPanel(page') /\ page'.job = page.job /\ page'.at = page.at
          /\ page'.filter = page.filter /\ page'.listed = page.listed /\ page'.detail = r.answer
      BY <1>0, <3>1 DEF HasPanel, PanelFields
    <3>4. page.listed = page.filter.list /\ r.answer.filter = page.filter
      BY <2>1, <3>2 DEF ReadOfPanel
    <3>5. PanelSettled(page')
      BY <3>3, <3>4 DEF PanelSettled
    <3>  QED  BY <1>0, <3>1, <3>3, <3>5 DEF PanelInv, PanelFollows, ReadOfPanel
  <2>  QED  BY <2>2, <2>3
<1>8. CASE JobsLost
  <2>1. PICK r \in wire : page' = [page EXCEPT !.error = TRUE] /\ wire' = wire \ {r}
    BY <1>8 DEF JobsLost, Of
  <2>2. /\ HasPanel(page') /\ page'.job = page.job /\ page'.at = page.at /\ page'.error = TRUE
        /\ page'.filter = page.filter /\ page'.listed = page.listed
    BY <1>0, <2>1 DEF HasPanel, PanelFields
  <2>  QED  BY <1>0, <2>1, <2>2 DEF PanelInv, PanelFollows, ReadOfPanel
<1>9. CASE OpenJob
  BY <1>9, ToJobFollows DEF OpenJob
<1>10. CASE BrowseJobs
  BY <1>10, ToJobFollows DEF BrowseJobs
<1>11. CASE ChangeFilter
  <2>1. PICK f : IF page.at = 1 THEN Reloads([page EXCEPT !.filter = f], JobActs)
                 ELSE Reselects([page EXCEPT !.filter = f, !.at = 1])
    BY <1>11 DEF ChangeFilter
  <2>2. HasPanel([page EXCEPT !.filter = f]) /\ HasPanel([page EXCEPT !.filter = f, !.at = 1])
    BY <1>0 DEF HasPanel, PanelFields
  <2>  QED  BY <2>1, <2>2, ReloadActsFollows, ReselectFollows
<1>12. CASE TurnTasks
  <2>1. PICK n : Reselects([page EXCEPT !.at = n, !.ticks = {}])
    BY <1>12 DEF TurnTasks
  <2>2. HasPanel([page EXCEPT !.at = n, !.ticks = {}])
    BY <1>0 DEF HasPanel, PanelFields
  <2>  QED  BY <2>1, <2>2, ReselectFollows
<1>13. CASE TickTask
  <2>1. PICK t : page' = [page EXCEPT !.ticks = IF t[1] \in @ THEN @ \ {t[1]} ELSE @ \cup {t[1]}]
    BY <1>13 DEF TickTask
  <2>2. SamePanel(page', page)
    BY <1>0, <2>1 DEF SamePanel, HasPanel, PanelFields
  <2>  QED  BY <1>3, <1>13, <2>2 DEF TickTask
<1>14. CASE TickTasks
  <2>1. PICK x : page' = [page EXCEPT !.ticks = x]
    BY <1>14 DEF TickTasks
  <2>2. SamePanel(page', page)
    BY <1>0, <2>1 DEF SamePanel, HasPanel, PanelFields
  <2>  QED  BY <1>3, <1>14, <2>2 DEF TickTasks
<1>15. CASE RefreshJobs
  BY <1>0, <1>15, ReloadActsFollows DEF RefreshJobs
<1>16. CASE ToggleSeen
  <2>  DEFINE p == [page EXCEPT !.seen = ~@]
  <2>1. HasPanel(p) /\ SamePanel(p, page)
    BY <1>0 DEF HasPanel, SamePanel, PanelFields
  <2>2. Reloads(p, JobActs) \/ (page' = p /\ wire' = wire)
    BY <1>16 DEF ToggleSeen
  <2>  HIDE DEF p
  <2>  QED  BY <1>3, <2>1, <2>2, ReloadActsFollows
<1>17. ASSUME NEW verb, NEW ids, Act(verb, ids)
       PROVE  PanelInv'
  <2>  DEFINE a == [kind |-> "act", verb |-> verb, job |-> page.job, at |-> page.at,
                    ids |-> ids, own |-> TRUE, here |-> TRUE, done |-> FALSE]
  <2>1. page' = [page EXCEPT !.acting = TRUE, !.stopping = FALSE] /\ wire' = wire \cup {a}
    BY <1>17 DEF Act
  <2>2. a.kind = "act" /\ "kind" \in DOMAIN a
    OBVIOUS
  <2>  HIDE DEF a
  <2>3. SamePanel(page', page)
    BY <1>0, <2>1 DEF SamePanel, HasPanel, PanelFields
  <2>4. SameJobReads(wire', wire) /\ \A r \in wire' : "kind" \in DOMAIN r
    BY <1>0, <2>1, <2>2 DEF SameJobReads
  <2>  QED  BY <1>2, <2>3, <2>4
<1>18. CASE AskStop \/ CancelStop
  <2>1. PICK x : page' = [page EXCEPT !.stopping = x]
    BY <1>18 DEF AskStop, CancelStop
  <2>2. SamePanel(page', page)
    BY <1>0, <2>1 DEF SamePanel, HasPanel, PanelFields
  <2>  QED  BY <1>3, <1>18, <2>2 DEF AskStop, CancelStop
<1>19. CASE ConfirmStop
  BY <1>17, <1>19 DEF ConfirmStop
<1>20. CASE RetryJob
  BY <1>17, <1>20 DEF RetryJob
<1>21. CASE ActOnTicked
  BY <1>17, <1>21 DEF ActOnTicked
<1>22. CASE LeaveJobs
  <2>  DEFINE acts == {[r EXCEPT !.own = FALSE, !.here = FALSE] : r \in JobActs}
  <2>1. page' = Panel(NoOne, AnyTask, page.home) /\ wire' = acts \cup {AskJobs(page')}
    BY <1>22 DEF LeaveJobs
  <2>2. \A r \in acts : "kind" \in DOMAIN r /\ r.kind # "jobs"
    BY ActsAreActs
  <2>  HIDE DEF acts
  <2>3. Reloads(page', acts) /\ HasPanel(page')
    BY <2>1, PanelHasFields DEF Reloads, StillHeard
  <2>4. PICK p : p = page'
    OBVIOUS
  <2>5. Reloads(p, acts) /\ HasPanel(p)
    BY <2>1, <2>4, PanelHasFields DEF Reloads, StillHeard
  <2>  QED  BY <2>2, <2>5, ReloadFollows
<1>23. CASE TaskEnds
  BY <1>1, <1>3, <1>23 DEF TaskEnds
<1>24. CASE ActServed
  <2>1. PICK r \in wire : /\ r.kind = "act" /\ page' = page
                          /\ wire' = (wire \ {r}) \cup {[r EXCEPT !.done = TRUE]}
    BY <1>24 DEF ActServed, JobActs
  <2>2. [r EXCEPT !.done = TRUE].kind = "act" /\ "kind" \in DOMAIN [r EXCEPT !.done = TRUE]
    BY <1>0, <2>1
  <2>3. SameJobReads(wire', wire) /\ \A s \in wire' : "kind" \in DOMAIN s
    BY <1>0, <2>1, <2>2 DEF SameJobReads
  <2>  QED  BY <1>1, <1>2, <2>1, <2>3
<1>25. CASE ActAnswered
  <2>1. PICK r \in JobActs :
          LET free == IF r.here THEN [page EXCEPT !.acting = FALSE] ELSE page
          IN  IF OwnAct(r) THEN Reloads([free EXCEPT !.ticks = {}], JobActs \ {r})
              ELSE page' = free /\ wire' = wire \ {r}
    BY <1>25 DEF ActAnswered
  <2>  DEFINE free == IF r.here THEN [page EXCEPT !.acting = FALSE] ELSE page
  <2>2. HasPanel([free EXCEPT !.ticks = {}]) /\ SamePanel(free, page)
    BY <1>0 DEF HasPanel, SamePanel, PanelFields
  <2>3. Reloads([free EXCEPT !.ticks = {}], JobActs \ {r}) \/ (page' = free /\ wire' = wire \ {r})
    BY <2>1
  <2>4. r.kind = "act"
    BY DEF JobActs
  <2>  HIDE DEF free
  <2>5. CASE page' = free /\ wire' = wire \ {r}
    <3>1. SameJobReads(wire', wire)
      BY <2>4, <2>5 DEF SameJobReads
    <3>  QED  BY <1>0, <1>2, <2>2, <2>5, <3>1
  <2>  QED  BY <2>2, <2>3, <2>5, ReloadActsFollows
<1>26. CASE ActLost
  <2>1. PICK r \in wire : /\ r.kind = "act" /\ wire' = wire \ {r}
                          /\ page' = IF r.here THEN [page EXCEPT !.acting = FALSE] ELSE page
    BY <1>26 DEF ActLost, JobActs
  <2>2. SamePanel(page', page)
    BY <1>0, <2>1 DEF HasPanel, SamePanel, PanelFields
  <2>3. SameJobReads(wire', wire)
    BY <2>1 DEF SameJobReads
  <2>  QED  BY <1>0, <1>2, <2>1, <2>2, <2>3
<1>27. CASE UNCHANGED pageVars
  BY <1>27 DEF pageVars, PanelInv
<1>  QED
  BY <1>4, <1>5, <1>6, <1>7, <1>8, <1>9, <1>10, <1>11, <1>12, <1>13, <1>14, <1>15, <1>16, <1>18,
     <1>19, <1>20, <1>21, <1>22, <1>23, <1>24, <1>25, <1>26, <1>27
     DEF JobsPanelNext, JobsPanelUser, JobsPanelRuns

LEMMA PanelStart ==
  ASSUME JobsPanelInit
  PROVE  PanelInv
<1>1. PICK home : page = Panel(NoOne, AnyTask, home)
  BY DEF JobsPanelInit
<1>2. HasPanel(page)
  BY <1>1, PanelHasFields
<1>  DEFINE a == AskJobs(page)
<1>3. wire = {a}
  BY DEF JobsPanelInit
<1>4. /\ a.kind = "jobs" /\ a.job = page.job /\ a.at = page.at /\ a.filter = page.filter
      /\ a.stage = "list" /\ a.answer = NoOne /\ \A f \in AskFields : f \in DOMAIN a
  BY DEF AskJobs, AskFields
<1>  HIDE DEF a
<1>5. a.stage # "detail"
  BY <1>4
<1>6. ReadOfPanel(page, a) /\ "kind" \in DOMAIN a
  BY <1>4, <1>5 DEF ReadOfPanel, AskFields
<1>  QED  BY <1>2, <1>3, <1>4, <1>6 DEF PanelInv, PanelFollows
LEMMA PanelHolds == ConsoleSpec => [](Shows("jobs") => PanelInv)
<1>1. ConsoleInit => (Shows("jobs") => PanelInv)
  BY StartOfPage, PanelStart
<1>2. (Shows("jobs") => PanelInv) /\ [ConsoleNext]_pageVars
        => (Shows("jobs") => PanelInv)'
  <2>  SUFFICES ASSUME Shows("jobs") => PanelInv, [ConsoleNext]_pageVars, Shows("jobs")'
                PROVE  PanelInv'
    OBVIOUS
  <2>1. focus = "jobs"
    BY FocusStays DEF Shows
  <2>2. [JobsPanelNext]_pageVars
    BY <2>1 DEF ConsoleNext, Shows
  <2>  QED  BY <2>1, <2>2, PanelStep DEF Shows
<1>  QED  BY <1>1, <1>2, PTL DEF ConsoleSpec


-----------------------------------------------------------------------------
(***************************************************************************)
(* The page of one instance (InstancePage).                                *)
(***************************************************************************)
ShownFields == {"at", "known", "drafts"}

HasShown(p) == \A f \in ShownFields : f \in DOMAIN p

\* The proxies that are kept or read are those of the instance that is shown.
ProxiesFollow(p, w) ==
  /\ HasShown(p)
  /\ p.drafts \in {NoOne, Shown(p)}
  /\ \A r \in w : r.kind = "proxies" => r.inst = Shown(p)

ProxiesInv == ProxiesFollow(page, wire)

(* Every render of another instance takes what was kept of the one before,  *)
(* and ends the effect that reads it (Detail.tsx:113-250).                  *)
LEMMA RenderKeepsProxies ==
  ASSUME ProxiesInv, NEW p, HasShown(p), p.drafts = page.drafts,
         NEW again, NEW w, \A r \in w : r.kind = "proxies" => r \in wire,
         RendersDetail(p, again, w)
  PROVE  ProxiesInv'
<1>  DEFINE q == Reset(p)
            reads == DetailRead(q) \cup AuditRead(q) \cup LogsRead(q, again)
<1>1. /\ page' = [q EXCEPT !.detail = IF Shown(q) = NoOne THEN NoOne ELSE @,
                           !.detailLoading = @ \/ DetailRead(q) # {},
                           !.logsLoading = @ \/ LogsRead(q, again) # {}]
      /\ wire' = ProxiesRead(q, again, w) \cup reads
  BY DEF RendersDetail
<1>2. \A r \in reads : r.kind # "proxies"
  BY DEF DetailRead, AuditRead, LogsRead, Reads
<1>3. /\ HasShown(q) /\ q.at = p.at /\ q.known = p.known
      /\ q.drafts = IF p.url = page.url /\ Shown(p) = Shown(page) THEN p.drafts ELSE NoOne
  BY DEF Reset, HasShown, ShownFields
<1>4. Shown(q) = Shown(p)
  BY <1>3 DEF Shown
<1>  HIDE DEF q, reads
<1>5. /\ HasShown(page') /\ page'.at = p.at /\ page'.known = p.known /\ page'.drafts = q.drafts
  BY <1>1, <1>3 DEF HasShown, ShownFields
<1>6. Shown(page') = Shown(p)
  BY <1>5 DEF Shown
<1>7. page'.drafts \in {NoOne, Shown(page')}
  BY <1>3, <1>5, <1>6 DEF ProxiesInv, ProxiesFollow
<1>8. ASSUME NEW r \in ProxiesRead(q, again, w), r.kind = "proxies"
      PROVE  r.inst = Shown(p)
  <2>1. CASE ~again /\ q.tab = page.tab /\ Shown(q) = Shown(page)
    BY <1>4, <1>8, <2>1 DEF ProxiesRead, ProxiesInv, ProxiesFollow
  <2>2. CASE ~(~again /\ q.tab = page.tab /\ Shown(q) = Shown(page))
    <3>1. r = Reads("proxies", Shown(q))
      BY <1>8, <2>2 DEF ProxiesRead
    <3>  QED  BY <1>4, <3>1 DEF Reads
  <2>  QED  BY <2>1, <2>2
<1>  QED  BY <1>1, <1>2, <1>5, <1>6, <1>7, <1>8 DEF ProxiesInv, ProxiesFollow

LEMMA DetailStep ==
  ASSUME ProxiesInv, [DetailNext]_pageVars
  PROVE  ProxiesInv'
<1>0. HasShown(page) /\ page.drafts \in {NoOne, Shown(page)}
      /\ \A r \in wire : r.kind = "proxies" => r.inst = Shown(page)
  BY DEF ProxiesInv, ProxiesFollow
<1>1. ASSUME /\ HasShown(page') /\ page'.at = page.at /\ page'.known = page.known
             /\ page'.drafts = page.drafts
             /\ \A r \in wire' : r.kind = "proxies" => r \in wire
      PROVE  ProxiesInv'
  BY <1>0, <1>1 DEF ProxiesInv, ProxiesFollow, Shown
<1>2. CASE \E i \in Owned : VisitInstance(i)
  <2>1. PICK i, t : RendersDetail([page EXCEPT !.at = i, !.url = t], FALSE, wire)
    BY <1>2 DEF VisitInstance
  <2>2. /\ HasShown([page EXCEPT !.at = i, !.url = t])
        /\ [page EXCEPT !.at = i, !.url = t].drafts = page.drafts
    BY <1>0 DEF HasShown, ShownFields
  <2>  QED  BY <2>1, <2>2, RenderKeepsProxies
<1>3. CASE \E t \in Tabs : SelectTab(t)
  <2>1. PICK t : RendersDetail([page EXCEPT !.tab = t], FALSE, wire \cup {Reads("address", t)})
    BY <1>3 DEF SelectTab
  <2>2. HasShown([page EXCEPT !.tab = t]) /\ [page EXCEPT !.tab = t].drafts = page.drafts
    BY <1>0 DEF HasShown, ShownFields
  <2>3. \A r \in wire \cup {Reads("address", t)} : r.kind = "proxies" => r \in wire
    BY DEF Reads
  <2>  QED  BY <2>1, <2>2, <2>3, RenderKeepsProxies
<1>4. CASE PauseLogs
  <2>1. RendersDetail([page EXCEPT !.paused = ~@], FALSE, wire)
    BY <1>4 DEF PauseLogs
  <2>2. HasShown([page EXCEPT !.paused = ~@]) /\ [page EXCEPT !.paused = ~@].drafts = page.drafts
    BY <1>0 DEF HasShown, ShownFields
  <2>  QED  BY <2>1, <2>2, RenderKeepsProxies
<1>5. CASE ClearView
  BY <1>0, <1>1, <1>5 DEF ClearView, HasShown, ShownFields
<1>6. CASE ApplyKeyword
  <2>1. RendersDetail([page EXCEPT !.keyword = ~@], FALSE, wire)
    BY <1>6 DEF ApplyKeyword
  <2>2. HasShown([page EXCEPT !.keyword = ~@]) /\ [page EXCEPT !.keyword = ~@].drafts = page.drafts
    BY <1>0 DEF HasShown, ShownFields
  <2>  QED  BY <2>1, <2>2, RenderKeepsProxies
<1>7. CASE Refresh
  <2>1. PICK k \in {"logs", "audit"} : wire' = wire \cup {Reads(k, Shown(page))}
    BY <1>7 DEF Refresh
  <2>2. page' = page \/ page' = [page EXCEPT !.logsLoading = TRUE]
    BY <1>7 DEF Refresh
  <2>3. \A r \in wire' : r.kind = "proxies" => r \in wire
    BY <2>1 DEF Reads
  <2>  QED  BY <1>0, <1>1, <2>2, <2>3 DEF HasShown, ShownFields
<1>8. CASE SummaryReplaced
  <2>1. RendersDetail([page EXCEPT !.known = world.insts], TRUE, wire)
    BY <1>8 DEF SummaryReplaced
  <2>2. /\ HasShown([page EXCEPT !.known = world.insts])
        /\ [page EXCEPT !.known = world.insts].drafts = page.drafts
    BY <1>0 DEF HasShown, ShownFields
  <2>  QED  BY <2>1, <2>2, RenderKeepsProxies
<1>9. CASE ServersMove
  BY <1>0, <1>1, <1>9 DEF ServersMove
<1>10. CASE AddressFollows
  <2>1. PICK r : RendersDetail([page EXCEPT !.url = r.inst], FALSE, wire \ {r})
    BY <1>10 DEF AddressFollows
  <2>2. /\ HasShown([page EXCEPT !.url = r.inst])
        /\ [page EXCEPT !.url = r.inst].drafts = page.drafts
    BY <1>0 DEF HasShown, ShownFields
  <2>  QED  BY <2>1, <2>2, RenderKeepsProxies
<1>11. CASE DetailArrived
  <2>1. PICK r, x : /\ page' = [page EXCEPT !.detailLoading = FALSE, !.detail = x]
                    /\ wire' = wire \ {r}
    BY <1>11 DEF DetailArrived
  <2>  QED  BY <1>0, <1>1, <2>1 DEF HasShown, ShownFields
<1>12. CASE LogsArrived
  <2>1. PICK r, x : page' = [page EXCEPT !.logsLoading = FALSE, !.logs = x] /\ wire' = wire \ {r}
    <3>1. PICK r \in Of("logs"), ok \in BOOLEAN :
            /\ page' = [page EXCEPT !.logsLoading = FALSE, !.logs = IF ok THEN r.inst ELSE @]
            /\ wire' = wire \ {r}
      BY <1>12 DEF LogsArrived
    <3>  QED  BY <3>1
  <2>  QED  BY <1>0, <1>1, <2>1 DEF HasShown, ShownFields
<1>13. CASE AuditArrived
  <2>1. PICK r : page' = [page EXCEPT !.audits = world.audited] /\ wire' = wire \ {r}
    BY <1>13 DEF AuditArrived
  <2>  QED  BY <1>0, <1>1, <2>1 DEF HasShown, ShownFields
<1>14. CASE ProxiesArrived
  <2>1. PICK r \in wire, ok \in BOOLEAN :
          /\ r.kind = "proxies" /\ page' = [page EXCEPT !.drafts = IF ok THEN r.inst ELSE NoOne]
          /\ wire' = wire \ {r}
    BY <1>14 DEF ProxiesArrived, Of
  <2>2. /\ HasShown(page') /\ page'.at = page.at /\ page'.known = page.known
        /\ page'.drafts \in {NoOne, Shown(page)}
    BY <1>0, <2>1 DEF HasShown, ShownFields
  <2>3. Shown(page') = Shown(page)
    BY <2>2 DEF Shown
  <2>  QED  BY <1>0, <2>1, <2>2, <2>3 DEF ProxiesInv, ProxiesFollow
<1>15. CASE UNCHANGED pageVars
  BY <1>0, <1>1, <1>15 DEF pageVars
<1>  QED
  BY <1>2, <1>3, <1>4, <1>5, <1>6, <1>7, <1>8, <1>9, <1>10, <1>11, <1>12, <1>13, <1>14, <1>15
     DEF DetailNext, DetailUser, DetailRuns

LEMMA DetailStart ==
  ASSUME DetailInit
  PROVE  ProxiesInv
  BY DEF DetailInit, Opens, FreshDetail, ProxiesInv, ProxiesFollow, HasShown, ShownFields
LEMMA DetailHolds == ConsoleSpec => [](Shows("detail") => ProxiesInv)
<1>1. ConsoleInit => (Shows("detail") => ProxiesInv)
  BY StartOfPage, DetailStart
<1>2. (Shows("detail") => ProxiesInv) /\ [ConsoleNext]_pageVars
        => (Shows("detail") => ProxiesInv)'
  <2>  SUFFICES ASSUME Shows("detail") => ProxiesInv, [ConsoleNext]_pageVars, Shows("detail")'
                PROVE  ProxiesInv'
    OBVIOUS
  <2>1. focus = "detail"
    BY FocusStays DEF Shows
  <2>2. [DetailNext]_pageVars
    BY <2>1 DEF ConsoleNext, Shows
  <2>  QED  BY <2>1, <2>2, DetailStep DEF Shows
<1>  QED  BY <1>1, <1>2, PTL DEF ConsoleSpec


-----------------------------------------------------------------------------
(***************************************************************************)
(* The import of servers (ServerImport).                                   *)
(***************************************************************************)
ImportFields == {"job", "pending", "retry", "session", "mount", "submitting", "retrying",
                 "loading", "failures"}

HasImport(p) == \A f \in ImportFields : f \in DOMAIN p

Submissions == [key : Nat, of : Nat]
JobViews    == [id : Nat, state : {"none"} \cup Active \cup Terminal, failed : Nat,
                retryable : BOOLEAN]
ImportJobs  == [key : Nat, kind : {"import", "retry"}, of : Nat,
                state : Active \cup Terminal, failed : Nat, retryable : BOOLEAN]
Sessions    == [job : JobViews, pending : Submissions \cup {NoOne},
                retry : Submissions \cup {NoOne}]

Submits(r) == r.kind \in {"import", "retry"}
Looks(r)   == r.kind \in {"poll", "rows"}

IsJobOf(jobs, j, key) == j \in DOMAIN jobs /\ jobs[j].key = key

\* A view of a job shows nothing, or a job there is.
Names(jobs, v) == v.id \in 0..Len(jobs) /\ (v.id = 0 => v.state = "none")

ImportTyped(p, d) ==
  /\ HasImport(p)
  /\ d \in [jobs : Seq(ImportJobs), keys : Nat, confirmed : Nat]
  /\ p.job \in JobViews /\ Names(d.jobs, p.job)
  /\ p.session \in Sessions /\ Names(d.jobs, p.session.job)
  /\ p.pending \in Submissions \cup {NoOne} /\ p.retry \in Submissions \cup {NoOne}
  /\ p.mount \in Nat

Requests(p, w, d) ==
  \A r \in w :
    /\ {"kind", "mount", "answer", "of"} \subseteq DOMAIN r
    /\ r.mount \in 0..p.mount /\ (Submits(r) \/ Looks(r))
    /\ Submits(r) =>
         /\ "key" \in DOMAIN r /\ r.key \in Nat /\ r.of \in Nat
         /\ r.kind = "retry" => r.of \in DOMAIN d.jobs
         /\ r.answer # NoOne => r.answer \in JobViews /\ IsJobOf(d.jobs, r.answer.id, r.key)
    /\ Looks(r) => r.of \in DOMAIN d.jobs
    /\ r.kind = "poll" /\ r.answer # NoOne =>
         r.answer \in JobViews /\ r.answer.id = r.of /\ r.answer.state # "none"
    /\ r.kind = "rows" /\ ~r.append => r.from = 0

(* What was submitted under a key: the book says it, and nothing on its way, *)
(* stored or imported says otherwise.  An import has one key.               *)
Booked(book, kind, s, d) == s.key \in 1..d.keys /\ book[s.key] = <<kind, s.of>>

Book(book, p, w, d) ==
  /\ \A r \in w : Submits(r) => Booked(book, r.kind, r, d)
  /\ \A j \in DOMAIN d.jobs : Booked(book, d.jobs[j].kind, d.jobs[j], d)
  /\ p.pending # NoOne => Booked(book, "import", p.pending, d)
  /\ p.retry # NoOne => Booked(book, "retry", p.retry, d)
  /\ \A k \in 1..d.keys : book[k][1] = "import" => book[k][2] \in 1..d.confirmed
  /\ \A k, m \in 1..d.keys : book[k] = book[m] /\ book[k][1] = "import" => k = m

HasBook(p, w, d) == \E book : Book(book, p, w, d)

\* A key makes one job, and the rows that failed are older than their import.
JobsApart(d) ==
  /\ \A i, j \in DOMAIN d.jobs : d.jobs[i].key = d.jobs[j].key => i = j
  /\ \A j \in DOMAIN d.jobs : d.jobs[j].kind = "retry" => d.jobs[j].of < j

(* What the instance that is shown has on its way: one submission, the one  *)
(* it stores.                                                               *)
Pends(p, w) ==
  /\ p.session.pending \in {NoOne, p.pending} /\ p.session.retry \in {NoOne, p.retry}
  /\ p.pending = NoOne \/ p.retry = NoOne
  /\ \A r \in w : r.mount = p.mount /\ r.kind = "import" =>
        p.submitting /\ p.pending = [key |-> r.key, of |-> r.of]
  /\ \A r \in w : r.mount = p.mount /\ r.kind = "retry" =>
        p.retrying /\ p.retry = [key |-> r.key, of |-> r.of] /\ r.of = p.job.id
  /\ \A r, s \in w : r.mount = p.mount /\ s.mount = p.mount /\ Submits(r) /\ s.kind = r.kind => r = s

\* The job that an answer will show was not looked at before.
Unseen(p, w, d) ==
  /\ p.pending # NoOne =>
       \A j \in DOMAIN d.jobs : d.jobs[j].key = p.pending.key =>
          j # p.job.id /\ \A r \in w : Looks(r) => r.of # j
  /\ p.session.pending # NoOne =>
       \A j \in DOMAIN d.jobs : d.jobs[j].key = p.session.pending.key => j # p.session.job.id
  /\ p.retry # NoOne /\ p.retry.of = p.job.id =>
       \A j \in DOMAIN d.jobs : d.jobs[j].key = p.retry.key =>
          \A r \in w : Looks(r) /\ r.mount = p.mount => r.of # j

\* One page of failed rows is read at a time, and continues what is shown.
FailuresFollow(p, w) ==
  /\ p.failures \in Seq(Nat \X Nat)
  /\ \A n \in DOMAIN p.failures : p.failures[n] = <<p.job.id, n>>
  /\ \A r \in w : r.kind = "rows" /\ r.mount = p.mount =>
        /\ r.of \in p.loading
        /\ r.append /\ r.of = p.job.id => r.from = Len(p.failures)
  /\ \A r, s \in w : r.kind = "rows" /\ s.kind = "rows" /\ r.mount = p.mount /\ s.mount = p.mount
                     /\ r.of = s.of => r = s

ImportFits(p, w, d) ==
  /\ ImportTyped(p, d) /\ Requests(p, w, d) /\ JobsApart(d)
  /\ HasBook(p, w, d)
  /\ Pends(p, w) /\ Unseen(p, w, d) /\ FailuresFollow(p, w)

ImportInv == ImportFits(page, wire, world)

LEMMA ImportStart ==
  ASSUME ImportInit
  PROVE  ImportInv
<1>1. page = Mounted(Kept, 1) /\ wire = {} /\ world = [jobs |-> <<>>, keys |-> 0, confirmed |-> 0]
  BY DEF ImportInit, Opens
<1>2. NoJob \in JobViews /\ NoJob.id = 0 /\ NoJob.state = "none"
  BY DEF NoJob, JobViews
<1>3. /\ HasImport(page) /\ page.job = NoJob /\ page.session = Kept /\ page.pending = NoOne
      /\ page.retry = NoOne /\ page.mount = 1 /\ page.failures = <<>>
  BY <1>1 DEF Mounted, Kept, HasImport, ImportFields
<1>4. Kept.job = NoJob /\ Kept.pending = NoOne /\ Kept.retry = NoOne /\ Kept \in Sessions
  BY <1>2 DEF Kept, Sessions
<1>5. /\ world \in [jobs : Seq(ImportJobs), keys : Nat, confirmed : Nat]
      /\ world.jobs = <<>> /\ Len(world.jobs) = 0 /\ DOMAIN world.jobs = {} /\ world.keys = 0
  BY <1>1
<1>6. ImportTyped(page, world)
  BY <1>2, <1>3, <1>4, <1>5 DEF ImportTyped, Names
<1>7. Requests(page, wire, world) /\ JobsApart(world)
  BY <1>1, <1>5 DEF Requests, JobsApart
<1>8. Book(<<>>, page, wire, world)
  <2>1. 1..world.keys = {}
    BY <1>5
  <2>  QED  BY <1>1, <1>3, <1>5, <2>1 DEF Book
<1>9. Pends(page, wire) /\ Unseen(page, wire, world)
  BY <1>1, <1>3, <1>4, <1>5 DEF Pends, Unseen
<1>10. FailuresFollow(page, wire)
  <2>1. page.failures \in Seq(Nat \X Nat) /\ DOMAIN page.failures = {}
    BY <1>3
  <2>  QED  BY <1>1, <2>1 DEF FailuresFollow
<1>  QED  BY <1>6, <1>7, <1>8, <1>9, <1>10 DEF ImportInv, ImportFits, HasBook

-----------------------------------------------------------------------------
LEMMA AskSays ==
  ASSUME NEW kind, NEW fields, "kind" \notin DOMAIN fields, "mount" \notin DOMAIN fields,
         "answer" \notin DOMAIN fields
  PROVE  /\ Ask(kind, fields).kind = kind /\ Ask(kind, fields).mount = page.mount
         /\ Ask(kind, fields).answer = NoOne
         /\ DOMAIN Ask(kind, fields) = DOMAIN fields \cup {"kind", "mount", "answer"}
<1>  DEFINE g == [kind |-> kind, mount |-> page.mount, answer |-> NoOne]
<1>1. Ask(kind, fields) = [x \in (DOMAIN fields) \cup (DOMAIN g) |->
                              IF x \in DOMAIN fields THEN fields[x] ELSE g[x]]
  BY DEF Ask, Joined
<1>2. DOMAIN g = {"kind", "mount", "answer"} /\ g.kind = kind /\ g.mount = page.mount /\ g.answer = NoOne
  OBVIOUS
<1>  HIDE DEF g
<1>  QED  BY <1>1, <1>2

LEMMA AskKeeps ==
  ASSUME NEW kind, NEW fields, NEW f \in DOMAIN fields
  PROVE  Ask(kind, fields)[f] = fields[f]
<1>  DEFINE g == [kind |-> kind, mount |-> page.mount, answer |-> NoOne]
<1>1. Ask(kind, fields) = [x \in (DOMAIN fields) \cup (DOMAIN g) |->
                              IF x \in DOMAIN fields THEN fields[x] ELSE g[x]]
  BY DEF Ask, Joined
<1>  HIDE DEF g
<1>  QED  BY <1>1

\* A step that stores and shows the same, and hears no more than before.
LEMMA ImportLess ==
  ASSUME NEW p, NEW q, NEW v, NEW w, NEW d, ImportFits(q, w, d), HasImport(p), v \subseteq w,
         p.job = q.job, p.pending = q.pending, p.retry = q.retry, p.session = q.session,
         p.mount = q.mount, p.failures = q.failures,
         \A r \in v : r.mount = p.mount =>
            /\ r.kind = "import" => p.submitting
            /\ r.kind = "retry" => p.retrying
            /\ r.kind = "rows" => r.of \in p.loading
  PROVE  ImportFits(p, v, d)
<1>1. ImportTyped(p, d) /\ Requests(p, v, d) /\ JobsApart(d)
  BY DEF ImportFits, ImportTyped, Requests
<1>2. PICK book : Book(book, q, w, d)
  BY DEF ImportFits, HasBook
<1>3. Book(book, p, v, d)
  BY <1>2 DEF Book
<1>4. Pends(p, v)
  BY DEF ImportFits, Pends
<1>5. Unseen(p, v, d)
  BY DEF ImportFits, Unseen
<1>6. FailuresFollow(p, v)
  BY DEF ImportFits, FailuresFollow
<1>  QED  BY <1>1, <1>3, <1>4, <1>5, <1>6 DEF ImportFits, HasBook

LEMMA OpenFits == ASSUME ImportInv, OpenImport PROVE ImportInv'
<1>1. page' = [page EXCEPT !.open = ~@] /\ wire' = wire /\ world' = world
  BY DEF OpenImport
<1>2. HasImport(page)
  BY DEF ImportInv, ImportFits, ImportTyped
<1>3. /\ HasImport(page') /\ page'.job = page.job /\ page'.pending = page.pending
      /\ page'.retry = page.retry /\ page'.session = page.session /\ page'.mount = page.mount
      /\ page'.failures = page.failures /\ page'.submitting = page.submitting
      /\ page'.retrying = page.retrying /\ page'.loading = page.loading
  BY <1>1, <1>2 DEF HasImport, ImportFields
<1>4. \A r \in wire : r.mount = page.mount =>
         /\ r.kind = "import" => page.submitting
         /\ r.kind = "retry" => page.retrying
         /\ r.kind = "rows" => r.of \in page.loading
  BY DEF ImportInv, ImportFits, Pends, FailuresFollow
<1>5. \A r \in wire' : r.mount = page'.mount =>
         /\ r.kind = "import" => page'.submitting
         /\ r.kind = "retry" => page'.retrying
         /\ r.kind = "rows" => r.of \in page'.loading
  BY ONLY <1>1, <1>3, <1>4
<1>6. wire' \subseteq wire /\ world' = world /\ ImportFits(page, wire, world)
  BY <1>1 DEF ImportInv
<1>7. ImportFits(page', wire', world)
  BY ONLY <1>3, <1>5, <1>6, ImportLess
<1>  QED  BY <1>6, <1>7 DEF ImportInv

(* An answer that never comes leaves the submission where it is stored.     *)
LEMMA LostFits == ASSUME ImportInv, SubmissionLost PROVE ImportInv'
<1>1. PICK r \in wire :
        /\ Submits(r)
        /\ page' = IF r.mount # page.mount THEN page
                   ELSE IF r.kind = "import" THEN [page EXCEPT !.submitting = FALSE]
                   ELSE [page EXCEPT !.retrying = FALSE]
        /\ wire' = wire \ {r} /\ world' = world
  BY DEF SubmissionLost, Of, Submits
<1>2. HasImport(page)
  BY DEF ImportInv, ImportFits, ImportTyped
<1>3. /\ HasImport(page') /\ page'.job = page.job /\ page'.pending = page.pending
      /\ page'.retry = page.retry /\ page'.session = page.session /\ page'.mount = page.mount
      /\ page'.failures = page.failures /\ page'.loading = page.loading
      /\ page'.submitting = page.submitting \/ (r.mount = page.mount /\ r.kind = "import")
      /\ page'.retrying = page.retrying \/ (r.mount = page.mount /\ r.kind = "retry")
  BY <1>1, <1>2 DEF HasImport, ImportFields, Submits
<1>4. \A s \in wire : s.mount = page.mount =>
         /\ s.kind = "import" => page.submitting
         /\ s.kind = "retry" => page.retrying
         /\ s.kind = "rows" => s.of \in page.loading
  BY DEF ImportInv, ImportFits, Pends, FailuresFollow
<1>5. \A s \in wire \ {r} : s.mount = page.mount /\ Submits(s) =>
         s.kind # r.kind \/ r.mount # page.mount
  BY <1>1 DEF ImportInv, ImportFits, Pends
<1>6. \A s \in wire' : s.mount = page'.mount =>
         /\ s.kind = "import" => page'.submitting
         /\ s.kind = "retry" => page'.retrying
         /\ s.kind = "rows" => s.of \in page'.loading
  BY <1>1, <1>3, <1>4, <1>5 DEF Submits
<1>7. wire' \subseteq wire /\ world' = world /\ ImportFits(page, wire, world)
  BY <1>1 DEF ImportInv
<1>8. ImportFits(page', wire', world)
  BY ONLY <1>3, <1>6, <1>7, ImportLess
<1>  QED  BY <1>7, <1>8 DEF ImportInv

\* One more request that only looks.
LEMMA LooksFits ==
  ASSUME ImportInv, NEW r, world' = world, wire' = wire \cup {r}, HasImport(page'),
         page'.job = page.job, page'.pending = page.pending, page'.retry = page.retry,
         page'.session = page.session, page'.mount = page.mount, page'.failures = page.failures,
         page'.submitting = page.submitting, page'.retrying = page.retrying,
         page.loading \subseteq page'.loading,
         Looks(r), r.mount = page.mount, r.of = page.job.id, page.job.id # 0, r.answer = NoOne,
         {"kind", "mount", "answer", "of"} \subseteq DOMAIN r,
         r.kind = "rows" => /\ ~r.append => r.from = 0
                            /\ r.append => r.from = Len(page.failures)
                            /\ r.of \in page'.loading /\ r.of \notin page.loading
  PROVE  ImportInv'
<1>0. /\ ImportTyped(page, world) /\ Requests(page, wire, world) /\ JobsApart(world)
      /\ Pends(page, wire) /\ Unseen(page, wire, world) /\ FailuresFollow(page, wire)
  BY DEF ImportInv, ImportFits
<1>1. ImportTyped(page', world)
  BY <1>0 DEF ImportTyped
<1>2. r.of \in DOMAIN world.jobs
  BY <1>0 DEF ImportTyped, Names
<1>3. ~Submits(r) /\ r.kind \in {"poll", "rows"}
  BY DEF Looks, Submits
<1>4. page.mount \in Nat
  BY <1>0 DEF ImportTyped
<1>5. Requests(page', wire', world)
  BY <1>0, <1>2, <1>3, <1>4 DEF Requests
<1>6. PICK book : Book(book, page, wire, world)
  BY DEF ImportInv, ImportFits, HasBook
<1>7. Book(book, page', wire', world)
  BY <1>3, <1>6 DEF Book
<1>8. Pends(page', wire')
  BY <1>0, <1>3 DEF Pends, Submits
<1>9. Unseen(page', wire', world)
  <2>1. page.retry # NoOne /\ page.retry.of = page.job.id =>
          \A j \in DOMAIN world.jobs : world.jobs[j].key = page.retry.key => r.of # j
    <3>  SUFFICES ASSUME page.retry # NoOne, page.retry.of = page.job.id,
                         NEW j \in DOMAIN world.jobs, world.jobs[j].key = page.retry.key
                  PROVE  page.job.id # j
      OBVIOUS
    <3>1. world.jobs[j].kind = "retry" /\ world.jobs[j].of = page.retry.of
      BY <1>6 DEF Book, Booked
    <3>2. world.jobs[j].of < j /\ j \in Nat
      BY <1>0, <3>1 DEF JobsApart, ImportTyped
    <3>  QED  BY <3>1, <3>2
  <2>  QED  BY <1>0, <2>1 DEF Unseen
<1>10. FailuresFollow(page', wire')
  <2>1. \A s \in wire : s.kind = "rows" /\ s.mount = page.mount => s.of \in page.loading
    BY <1>0 DEF FailuresFollow
  <2>2. \A s \in wire' : s.kind = "rows" /\ s.mount = page.mount =>
          /\ s.of \in page'.loading
          /\ s.append /\ s.of = page.job.id => s.from = Len(page.failures)
    BY <1>0 DEF FailuresFollow
  <2>3. \A s, t \in wire' : s.kind = "rows" /\ t.kind = "rows" /\ s.mount = page.mount
                            /\ t.mount = page.mount /\ s.of = t.of => s = t
    BY <1>0, <2>1 DEF FailuresFollow
  <2>  QED  BY <1>0, <2>2, <2>3 DEF FailuresFollow
<1>  QED  BY <1>0, <1>1, <1>5, <1>7, <1>8, <1>9, <1>10 DEF ImportInv, ImportFits, HasBook

LEMMA PollFits == ASSUME ImportInv, PollImport PROVE ImportInv'
<1>  DEFINE r == Ask("poll", [of |-> page.job.id])
<1>1. /\ page.job.id # 0 /\ page' = [page EXCEPT !.polls = @ \cup {page.job.id}]
      /\ wire' = wire \cup {r} /\ world' = world
  BY DEF PollImport
<1>2. HasImport(page)
  BY DEF ImportInv, ImportFits, ImportTyped
<1>3. /\ HasImport(page') /\ page'.job = page.job /\ page'.pending = page.pending
      /\ page'.retry = page.retry /\ page'.session = page.session /\ page'.mount = page.mount
      /\ page'.failures = page.failures /\ page'.submitting = page.submitting
      /\ page'.retrying = page.retrying /\ page'.loading = page.loading
  BY <1>1, <1>2 DEF HasImport, ImportFields
<1>4. /\ r.kind = "poll" /\ r.mount = page.mount /\ r.answer = NoOne /\ r.of = page.job.id
      /\ {"kind", "mount", "answer", "of"} \subseteq DOMAIN r
  <2>  DEFINE fields == [of |-> page.job.id]
  <2>1. DOMAIN fields = {"of"} /\ fields.of = page.job.id
    OBVIOUS
  <2>  HIDE DEF fields
  <2>2. "kind" \notin DOMAIN fields /\ "mount" \notin DOMAIN fields /\ "answer" \notin DOMAIN fields
    BY <2>1
  <2>3. r = Ask("poll", fields)
    BY DEF fields
  <2>4. /\ r.kind = "poll" /\ r.mount = page.mount /\ r.answer = NoOne
        /\ DOMAIN r = DOMAIN fields \cup {"kind", "mount", "answer"}
    BY <2>2, <2>3, AskSays
  <2>5. r.of = fields.of
    BY <2>1, <2>3, AskKeeps
  <2>  QED  BY <2>1, <2>4, <2>5
<1>  HIDE DEF r
<1>5. r.kind # "rows" /\ Looks(r)
  BY <1>4 DEF Looks
<1>  QED  BY <1>1, <1>3, <1>4, <1>5, LooksFits

LEMMA LoadFits == ASSUME ImportInv, NEW append \in BOOLEAN, LoadRows(append) PROVE ImportInv'
<1>  DEFINE fields == [of |-> page.job.id, append |-> append,
                       from |-> IF append THEN Len(page.failures) ELSE 0]
            r == Ask("rows", fields)
<1>1. /\ page.job.state \in Terminal /\ page.job.id \notin page.loading
      /\ page' = [page EXCEPT !.loading = @ \cup {page.job.id}]
      /\ wire' = wire \cup {r} /\ world' = world
  BY DEF LoadRows
<1>2. HasImport(page) /\ page.job.id # 0
  BY <1>1 DEF ImportInv, ImportFits, ImportTyped, Names, Terminal
<1>3. /\ HasImport(page') /\ page'.job = page.job /\ page'.pending = page.pending
      /\ page'.retry = page.retry /\ page'.session = page.session /\ page'.mount = page.mount
      /\ page'.failures = page.failures /\ page'.submitting = page.submitting
      /\ page'.retrying = page.retrying /\ page'.loading = page.loading \cup {page.job.id}
  BY <1>1, <1>2 DEF HasImport, ImportFields
<1>4. /\ DOMAIN fields = {"of", "append", "from"} /\ fields.of = page.job.id
      /\ fields.append = append /\ fields.from = IF append THEN Len(page.failures) ELSE 0
  OBVIOUS
<1>  HIDE DEF fields
<1>5. /\ r.kind = "rows" /\ r.mount = page.mount /\ r.answer = NoOne
      /\ {"kind", "mount", "answer", "of"} \subseteq DOMAIN r
      /\ r.of = fields.of /\ r.append = fields.append /\ r.from = fields.from
  <2>1. "kind" \notin DOMAIN fields /\ "mount" \notin DOMAIN fields /\ "answer" \notin DOMAIN fields
    BY <1>4
  <2>2. /\ r.kind = "rows" /\ r.mount = page.mount /\ r.answer = NoOne
        /\ DOMAIN r = DOMAIN fields \cup {"kind", "mount", "answer"}
    BY <2>1, AskSays
  <2>3. r.of = fields.of
    BY <1>4, AskKeeps
  <2>4. r.append = fields.append
    BY <1>4, AskKeeps
  <2>5. r.from = fields.from
    BY <1>4, AskKeeps
  <2>  QED  BY <1>4, <2>2, <2>3, <2>4, <2>5
<1>6. r.of = page.job.id /\ r.append = append /\ r.from = IF append THEN Len(page.failures) ELSE 0
  BY <1>4, <1>5
<1>  HIDE DEF r
<1>7. Looks(r)
  BY <1>5 DEF Looks
<1>  QED  BY <1>1, <1>2, <1>3, <1>5, <1>6, <1>7, LooksFits

\* One more submission, under a new key or the one that is stored.
LEMMA AnotherFits ==
  ASSUME ImportInv, NEW kind \in {"import", "retry"}, NEW s \in Submissions, NEW r,
         r.kind = kind, r.mount = page.mount, r.answer = NoOne, r.key = s.key, r.of = s.of,
         {"kind", "mount", "answer", "of", "key"} \subseteq DOMAIN r,
         wire' = wire \cup {r}, world'.jobs = world.jobs, ImportTyped(page', world'),
         HasBook(page', wire', world'), Unseen(page', wire', world'),
         page'.job = page.job, page'.mount = page.mount, page'.failures = page.failures,
         page'.loading = page.loading,
         kind = "import" =>
            /\ page.retry = NoOne /\ ~page.submitting /\ page'.submitting
            /\ page'.pending = s /\ page'.session.pending \in {NoOne, s}
            /\ page'.retry = NoOne /\ page'.session.retry \in {NoOne, page.session.retry},
         kind = "retry" =>
            /\ page.pending = NoOne /\ ~page.retrying /\ page'.retrying
            /\ page'.retry = s /\ page'.session.retry \in {NoOne, s}
            /\ page'.pending = NoOne /\ page'.session.pending \in {NoOne, page.session.pending}
            /\ s.of = page.job.id /\ s.of \in DOMAIN world.jobs
  PROVE  ImportInv'
<1>0. /\ ImportTyped(page, world) /\ Requests(page, wire, world) /\ JobsApart(world)
      /\ Pends(page, wire) /\ Unseen(page, wire, world) /\ FailuresFollow(page, wire)
  BY DEF ImportInv, ImportFits
<1>1. Submits(r) /\ ~Looks(r) /\ r.kind # "poll" /\ r.kind # "rows"
  BY DEF Submits, Looks
<1>2. s.key \in Nat /\ s.of \in Nat /\ s = [key |-> r.key, of |-> r.of]
  BY DEF Submissions
<1>3. page.mount \in Nat
  BY <1>0 DEF ImportTyped
<1>4. Requests(page', wire', world')
  BY <1>0, <1>1, <1>2, <1>3 DEF Requests
<1>5. JobsApart(world')
  BY <1>0 DEF JobsApart
<1>6. \A t \in wire : t.mount = page.mount /\ Submits(t) => FALSE
  <2>  SUFFICES ASSUME NEW t \in wire, t.mount = page.mount, Submits(t)
                PROVE  FALSE
    OBVIOUS
  <2>1. t.key \in Nat /\ t.of \in Nat
    BY <1>0 DEF Requests
  <2>2. [key |-> t.key, of |-> t.of] # NoOne
    BY <2>1, ImportAssumption
  <2>3. t.kind = "import" => page.submitting /\ page.pending # NoOne
    BY <1>0, <2>2 DEF Pends
  <2>4. t.kind = "retry" => page.retrying /\ page.retry # NoOne
    BY <1>0, <2>2 DEF Pends
  <2>  QED  BY <2>3, <2>4 DEF Submits
<1>7. Pends(page', wire')
  <2>1. \A t \in wire' : t.mount = page.mount /\ Submits(t) => t = r
    BY <1>6
  <2>2. \A t \in wire' : t.mount = page.mount /\ t.kind \in {"import", "retry"} => t = r
    BY <2>1 DEF Submits
  <2>3. page'.pending = NoOne \/ page'.retry = NoOne
    OBVIOUS
  <2>4. /\ page'.session.pending \in {NoOne, page'.pending}
        /\ page'.session.retry \in {NoOne, page'.retry}
    BY <1>0 DEF Pends
  <2>5. \A t \in wire' : t.mount = page'.mount /\ t.kind = "import" =>
           page'.submitting /\ page'.pending = [key |-> t.key, of |-> t.of]
    BY <1>2, <2>2
  <2>6. \A t \in wire' : t.mount = page'.mount /\ t.kind = "retry" =>
           /\ page'.retrying /\ page'.retry = [key |-> t.key, of |-> t.of]
           /\ t.of = page'.job.id
    BY <1>2, <2>2
  <2>7. \A t, u \in wire' : t.mount = page'.mount /\ u.mount = page'.mount /\ Submits(t)
                            /\ u.kind = t.kind => t = u
    BY <2>1 DEF Submits
  <2>  QED  BY <2>3, <2>4, <2>5, <2>6, <2>7 DEF Pends
<1>8. FailuresFollow(page', wire')
  BY <1>0, <1>1 DEF FailuresFollow
<1>  QED  BY <1>4, <1>5, <1>7, <1>8 DEF ImportInv, ImportFits, HasBook

\* A submission as it is sent.
LEMMA SentSays ==
  ASSUME NEW kind, NEW s \in Submissions
  PROVE  /\ Ask(kind, s).kind = kind /\ Ask(kind, s).mount = page.mount
         /\ Ask(kind, s).answer = NoOne /\ Ask(kind, s).key = s.key /\ Ask(kind, s).of = s.of
         /\ {"kind", "mount", "answer", "of", "key"} \subseteq DOMAIN Ask(kind, s)
<1>1. DOMAIN s = {"key", "of"}
  BY DEF Submissions
<1>2. "kind" \notin DOMAIN s /\ "mount" \notin DOMAIN s /\ "answer" \notin DOMAIN s
  BY <1>1
<1>3. Ask(kind, s).kind = kind /\ Ask(kind, s).mount = page.mount /\ Ask(kind, s).answer = NoOne
      /\ DOMAIN Ask(kind, s) = DOMAIN s \cup {"kind", "mount", "answer"}
  BY <1>2, AskSays
<1>4. Ask(kind, s).key = s.key
  BY <1>1, AskKeeps
<1>5. Ask(kind, s).of = s.of
  BY <1>1, AskKeeps
<1>  QED  BY <1>1, <1>3, <1>4, <1>5

\* A key that was never used is booked.
SendsSubmission(s, r) ==
  /\ r.kind \in {"import", "retry"} /\ r.key = s.key /\ r.of = s.of
  /\ wire' = wire \cup {r} /\ s.key = world.keys + 1 /\ world'.keys = world.keys + 1
  /\ world'.jobs = world.jobs
  /\ world'.confirmed \in Nat /\ world.confirmed <= world'.confirmed
  /\ r.kind = "import" => /\ s.of = world.confirmed + 1 /\ world'.confirmed = world.confirmed + 1
                          /\ page'.pending = s /\ page'.retry = page.retry
  /\ r.kind = "retry" => page'.pending = page.pending /\ page'.retry = s

LEMMA NewKeyBooked ==
  ASSUME NEW book, NEW s \in Submissions, NEW r, SendsSubmission(s, r),
         ImportTyped(page, world), Requests(page, wire, world), Book(book, page, wire, world)
  PROVE  HasBook(page', wire', world')
<1>  USE DEF SendsSubmission
<1>  DEFINE b == [k \in 1..world'.keys |-> IF k = s.key THEN <<r.kind, s.of>> ELSE book[k]]
<1>0. world.keys \in Nat /\ world.confirmed \in Nat
  BY DEF ImportTyped
<1>1. b[s.key] = <<r.kind, s.of>> /\ s.key \in 1..world'.keys
  BY <1>0
<1>2. \A k \in 1..world.keys : k \in 1..world'.keys /\ k # s.key /\ b[k] = book[k]
  BY <1>0
<1>3. \A k \in 1..world'.keys : k = s.key \/ k \in 1..world.keys
  BY <1>0
<1>  HIDE DEF b
<1>4. \A knd, x : Booked(book, knd, x, world) => Booked(b, knd, x, world')
  BY <1>2 DEF Booked
<1>5. Booked(b, r.kind, s, world') /\ Booked(b, r.kind, r, world')
  BY <1>1 DEF Booked
<1>6. \A x \in wire' : Submits(x) => Booked(b, x.kind, x, world')
  BY <1>4, <1>5 DEF Book
<1>7. \A j \in DOMAIN world'.jobs : Booked(b, world'.jobs[j].kind, world'.jobs[j], world')
  BY <1>4 DEF Book
<1>8. page'.pending # NoOne => Booked(b, "import", page'.pending, world')
  BY <1>4, <1>5 DEF Book
<1>9. page'.retry # NoOne => Booked(b, "retry", page'.retry, world')
  BY <1>4, <1>5 DEF Book
<1>10. \A k \in 1..world.keys : book[k][1] = "import" => book[k][2] \in 1..world.confirmed
  BY DEF Book
<1>11. \A k \in 1..world'.keys : b[k][1] = "import" => b[k][2] \in 1..world'.confirmed
  <2>  SUFFICES ASSUME NEW k \in 1..world'.keys, b[k][1] = "import"
                PROVE  b[k][2] \in 1..world'.confirmed
    OBVIOUS
  <2>1. CASE k = s.key
    BY <1>0, <1>1, <2>1
  <2>2. CASE k \in 1..world.keys
    BY <1>0, <1>2, <1>10, <2>2
  <2>  QED  BY <1>3, <2>1, <2>2
<1>12. \A k, m \in 1..world'.keys : b[k] = b[m] /\ b[k][1] = "import" => k = m
  <2>  SUFFICES ASSUME NEW k \in 1..world'.keys, NEW m \in 1..world'.keys, b[k] = b[m], b[k][1] = "import"
                PROVE  k = m
    OBVIOUS
  <2>1. CASE k \in 1..world.keys /\ m \in 1..world.keys
    BY <1>2, <2>1 DEF Book
  <2>2. CASE k = s.key /\ m \in 1..world.keys
    <3>1. book[m][2] \in 1..world.confirmed /\ b[k][2] = s.of /\ r.kind = "import"
      BY <1>1, <1>2, <1>10, <2>2
    <3>  QED  BY <1>0, <1>2, <2>2, <3>1
  <2>3. CASE m = s.key /\ k \in 1..world.keys
    <3>1. book[k][2] \in 1..world.confirmed /\ b[m][2] = s.of /\ r.kind = "import"
      BY <1>1, <1>2, <1>10, <2>3
    <3>  QED  BY <1>0, <1>2, <2>3, <3>1
  <2>  QED  BY <1>3, <2>1, <2>2, <2>3
<1>13. Book(b, page', wire', world')
  BY <1>6, <1>7, <1>8, <1>9, <1>11, <1>12 DEF Book
<1>  QED  BY <1>13 DEF HasBook

LEMMA SubmitFits == ASSUME ImportInv, SubmitImport PROVE ImportInv'
<1>0. /\ ImportTyped(page, world) /\ Requests(page, wire, world) /\ JobsApart(world)
      /\ Pends(page, wire) /\ Unseen(page, wire, world) /\ FailuresFollow(page, wire)
  BY DEF ImportInv, ImportFits
<1>  DEFINE s == [key |-> world.keys + 1, of |-> world.confirmed + 1]
            r == Ask("import", s)
<1>1. /\ ~page.submitting /\ page.pending = NoOne /\ page.retry = NoOne
      /\ \/ page' = page /\ wire' = wire /\ world' = world
         \/ /\ page' = [SavePending(page, s) EXCEPT !.submitting = TRUE]
            /\ wire' = wire \cup {r}
            /\ world' = [world EXCEPT !.keys = @ + 1, !.confirmed = @ + 1]
  BY DEF SubmitImport, CanStart
<1>2. /\ HasImport(page) /\ world \in [jobs : Seq(ImportJobs), keys : Nat, confirmed : Nat]
      /\ page.session \in Sessions
  BY <1>0 DEF ImportTyped
<1>3. s \in Submissions /\ s.key = world.keys + 1 /\ s.of = world.confirmed + 1
  BY <1>2 DEF Submissions
<1>  HIDE DEF s
<1>4. CASE page' = page /\ wire' = wire /\ world' = world
  BY <1>4 DEF ImportInv
<1>5. CASE /\ page' = [SavePending(page, s) EXCEPT !.submitting = TRUE]
           /\ wire' = wire \cup {r}
           /\ world' = [world EXCEPT !.keys = @ + 1, !.confirmed = @ + 1]
  <2>1. /\ HasImport(page') /\ page'.job = page.job /\ page'.mount = page.mount
        /\ page'.failures = page.failures /\ page'.loading = page.loading
        /\ page'.pending = s /\ page'.retry = page.retry /\ page'.submitting = TRUE
        /\ page'.session = [page.session EXCEPT !.pending = s]
    BY <1>2, <1>5 DEF HasImport, ImportFields, SavePending
  <2>2. /\ page'.session \in Sessions /\ page'.session.pending = s
        /\ page'.session.retry = page.session.retry /\ page'.session.job = page.session.job
    BY <1>2, <1>3, <2>1 DEF Sessions
  <2>3. /\ world' \in [jobs : Seq(ImportJobs), keys : Nat, confirmed : Nat]
        /\ world'.jobs = world.jobs /\ world'.keys = world.keys + 1
        /\ world'.confirmed = world.confirmed + 1
    <3>1. world = [jobs |-> world.jobs, keys |-> world.keys, confirmed |-> world.confirmed]
      BY <1>2
    <3>2. world' = [jobs |-> world.jobs, keys |-> world.keys + 1, confirmed |-> world.confirmed + 1]
      BY <1>5, <3>1
    <3>  QED  BY <1>2, <3>2
  <2>4. ImportTyped(page', world')
    BY <1>0, <1>3, <2>1, <2>2, <2>3 DEF ImportTyped
  <2>5. /\ r.kind = "import" /\ r.mount = page.mount /\ r.answer = NoOne /\ r.key = s.key
        /\ r.of = s.of /\ {"kind", "mount", "answer", "of", "key"} \subseteq DOMAIN r
    BY <1>3, SentSays
  <2>  HIDE DEF r
  <2>6. PICK book : Book(book, page, wire, world)
    BY DEF ImportInv, ImportFits, HasBook
  <2>7. \A j \in DOMAIN world.jobs : world.jobs[j].key # s.key
    BY <1>2, <1>3, <2>6 DEF Book, Booked
  <2>8. Unseen(page', wire', world')
    BY <1>1, <2>1, <2>2, <2>3, <2>7 DEF Unseen
  <2>9. HasBook(page', wire', world')
    <3>1. world'.confirmed \in Nat /\ world.confirmed <= world'.confirmed
      BY <1>2, <2>3
    <3>2. wire' = wire \cup {r}
      BY <1>5
    <3>3. /\ r.kind \in {"import", "retry"} /\ r.key = s.key /\ r.of = s.of
          /\ r.kind # "retry"
          /\ r.kind = "import" => /\ s.of = world.confirmed + 1 /\ world'.confirmed = world.confirmed + 1
                              /\ page'.pending = s /\ page'.retry = page.retry
      BY <1>3, <2>1, <2>3, <2>5
    <3>4. r.kind = "retry" => page'.pending = page.pending /\ page'.retry = s
      BY <3>3
    <3>5. world'.jobs = world.jobs /\ world'.keys = world.keys + 1 /\ s.key = world.keys + 1
      BY <1>3, <2>3
    <3>6. ImportTyped(page, world) /\ Requests(page, wire, world) /\ Book(book, page, wire, world)
      BY <1>0, <2>6
    <3>7. s \in Submissions
      BY <1>3
    <3>8. SendsSubmission(s, r)
      BY ONLY <3>1, <3>2, <3>3, <3>4, <3>5 DEF SendsSubmission
    <3>  QED  BY ONLY <3>6, <3>7, <3>8, NewKeyBooked
  <2>  QED  BY <1>1, <1>3, <1>5, <2>1, <2>2, <2>3, <2>4, <2>5, <2>8, <2>9, AnotherFits
<1>  QED  BY <1>1, <1>4, <1>5

LEMMA ResubmitFits == ASSUME ImportInv, ResubmitImport PROVE ImportInv'
<1>0. /\ ImportTyped(page, world) /\ Requests(page, wire, world) /\ JobsApart(world)
      /\ Pends(page, wire) /\ Unseen(page, wire, world) /\ FailuresFollow(page, wire)
  BY DEF ImportInv, ImportFits
<1>  DEFINE r == Ask("import", page.pending)
<1>1. /\ ~page.submitting /\ page.pending # NoOne /\ page.retry = NoOne
      /\ page' = [page EXCEPT !.submitting = TRUE]
      /\ wire' = wire \cup {r} /\ world' = world
  BY DEF ResubmitImport, Again
<1>2. HasImport(page) /\ page.pending \in Submissions /\ page.session.retry \in {NoOne, page.retry}
  BY <1>0, <1>1 DEF ImportTyped, Pends
<1>3. /\ HasImport(page') /\ page'.job = page.job /\ page'.mount = page.mount
      /\ page'.failures = page.failures /\ page'.loading = page.loading
      /\ page'.pending = page.pending /\ page'.retry = page.retry /\ page'.submitting = TRUE
      /\ page'.session = page.session
  BY <1>1, <1>2 DEF HasImport, ImportFields
<1>4. ImportTyped(page', world')
  BY <1>0, <1>1, <1>3 DEF ImportTyped
<1>5. /\ r.kind = "import" /\ r.mount = page.mount /\ r.answer = NoOne /\ r.key = page.pending.key
      /\ r.of = page.pending.of /\ {"kind", "mount", "answer", "of", "key"} \subseteq DOMAIN r
  BY <1>2, SentSays
<1>  HIDE DEF r
<1>6. Unseen(page', wire', world')
  BY <1>0, <1>1, <1>3, <1>5 DEF Unseen, Looks
<1>7. HasBook(page', wire', world')
  <2>1. PICK book : Book(book, page, wire, world)
    BY DEF ImportInv, ImportFits, HasBook
  <2>2. Book(book, page', wire', world')
    BY <1>1, <1>3, <1>5, <2>1 DEF Book, Booked
  <2>  QED  BY <2>2 DEF HasBook
<1>8. page'.session.pending \in {NoOne, page.pending}
  BY <1>0, <1>3 DEF Pends
<1>  QED  BY <1>1, <1>2, <1>3, <1>4, <1>5, <1>6, <1>7, <1>8, AnotherFits

\* Without a stored submission nothing of the instance that is shown is on its way.
LEMMA NothingSent ==
  ASSUME ImportInv
  PROVE  /\ page.pending = NoOne => \A t \in wire : t.mount = page.mount => t.kind # "import"
         /\ page.retry = NoOne => \A t \in wire : t.mount = page.mount => t.kind # "retry"
<1>  SUFFICES ASSUME NEW t \in wire, t.mount = page.mount
              PROVE  /\ t.kind = "import" => page.pending # NoOne
                     /\ t.kind = "retry" => page.retry # NoOne
  OBVIOUS
<1>1. Submits(t) => t.key \in Nat /\ t.of \in Nat
  BY DEF ImportInv, ImportFits, Requests
<1>2. Submits(t) => [key |-> t.key, of |-> t.of] # NoOne
  BY <1>1, ImportAssumption
<1>  QED  BY <1>2 DEF ImportInv, ImportFits, Pends, Submits

LEMMA RetryFits == ASSUME ImportInv, RetryRows PROVE ImportInv'
<1>0. /\ ImportTyped(page, world) /\ Requests(page, wire, world) /\ JobsApart(world)
      /\ Pends(page, wire) /\ Unseen(page, wire, world) /\ FailuresFollow(page, wire)
  BY DEF ImportInv, ImportFits
<1>  DEFINE fresh == page.retry = NoOne
            s == IF fresh THEN [key |-> world.keys + 1, of |-> page.job.id] ELSE Again(page.retry)
            r == Ask("retry", s)
<1>1. /\ page.job.state \in Terminal /\ ~page.retrying /\ page.pending = NoOne
      /\ page.retry # NoOne => page.retry.of = page.job.id
      /\ page' = [SaveRetry(page, s) EXCEPT !.retrying = TRUE]
      /\ wire' = wire \cup {r}
      /\ world' = [world EXCEPT !.keys = IF fresh THEN @ + 1 ELSE @]
  BY DEF RetryRows
<1>2. /\ HasImport(page) /\ world \in [jobs : Seq(ImportJobs), keys : Nat, confirmed : Nat]
      /\ page.session \in Sessions /\ page.job.id \in DOMAIN world.jobs /\ page.job.id \in Nat
  BY <1>0, <1>1 DEF ImportTyped, Names, JobViews, Terminal
<1>4. /\ s \in Submissions /\ s.of = page.job.id
      /\ fresh => s.key = world.keys + 1
      /\ ~fresh => s = page.retry
  <2>1. CASE fresh
    <3>1. s = [key |-> world.keys + 1, of |-> page.job.id]
      BY <2>1
    <3>  QED  BY <1>2, <2>1, <3>1 DEF Submissions
  <2>2. CASE ~fresh
    BY <1>0, <1>1, <2>2 DEF Again, ImportTyped
  <2>  QED  BY <2>1, <2>2
<1>  HIDE DEF s
<1>5. /\ HasImport(page') /\ page'.job = page.job /\ page'.mount = page.mount
      /\ page'.failures = page.failures /\ page'.loading = page.loading
      /\ page'.retry = s /\ page'.pending = page.pending /\ page'.retrying = TRUE
      /\ page'.session = [page.session EXCEPT !.retry = s]
  BY <1>1, <1>2 DEF HasImport, ImportFields, SaveRetry
<1>6. /\ page'.session \in Sessions /\ page'.session.retry = s
      /\ page'.session.pending = page.session.pending /\ page'.session.job = page.session.job
  BY <1>2, <1>4, <1>5 DEF Sessions
<1>7. /\ world' \in [jobs : Seq(ImportJobs), keys : Nat, confirmed : Nat]
      /\ world'.jobs = world.jobs /\ world'.confirmed = world.confirmed
      /\ world'.keys = IF fresh THEN world.keys + 1 ELSE world.keys
  <2>1. world = [jobs |-> world.jobs, keys |-> world.keys, confirmed |-> world.confirmed]
    BY <1>2
  <2>2. world' = [jobs |-> world.jobs, keys |-> IF fresh THEN world.keys + 1 ELSE world.keys,
                  confirmed |-> world.confirmed]
    BY <1>1, <2>1
  <2>3. (IF fresh THEN world.keys + 1 ELSE world.keys) \in Nat
    BY <1>2
  <2>  HIDE DEF fresh
  <2>  QED  BY <1>2, <2>2, <2>3
<1>  HIDE DEF fresh
<1>8. ImportTyped(page', world')
  BY <1>0, <1>4, <1>5, <1>6, <1>7 DEF ImportTyped
<1>9. /\ r.kind = "retry" /\ r.mount = page.mount /\ r.answer = NoOne /\ r.key = s.key
      /\ r.of = s.of /\ {"kind", "mount", "answer", "of", "key"} \subseteq DOMAIN r
  BY <1>4, SentSays
<1>  HIDE DEF r
<1>10. PICK book : Book(book, page, wire, world)
  BY DEF ImportInv, ImportFits, HasBook
<1>11. HasBook(page', wire', world')
  <2>1. CASE fresh
    <3>1. world'.confirmed \in Nat /\ world.confirmed <= world'.confirmed
      BY <1>2, <1>7
    <3>2. /\ r.kind \in {"import", "retry"} /\ r.key = s.key /\ r.of = s.of /\ r.kind # "import"
      BY <1>9
    <3>3. page'.pending = page.pending /\ page'.retry = s
      BY <1>5
    <3>4. world'.jobs = world.jobs /\ world'.keys = world.keys + 1 /\ s.key = world.keys + 1
      BY <1>4, <1>7, <2>1
    <3>5. ImportTyped(page, world) /\ Requests(page, wire, world) /\ Book(book, page, wire, world)
      BY <1>0, <1>10
    <3>6. s \in Submissions
      BY <1>4
    <3>7. wire' = wire \cup {r}
      BY <1>1
    <3>8. SendsSubmission(s, r)
      BY ONLY <3>1, <3>2, <3>3, <3>4, <3>7 DEF SendsSubmission
    <3>  QED  BY ONLY <3>5, <3>6, <3>8, NewKeyBooked
  <2>2. CASE ~fresh
    <3>1. world'.jobs = world.jobs /\ world'.confirmed = world.confirmed /\ world'.keys = world.keys
      BY <1>7, <2>2
    <3>2. page'.pending = NoOne /\ page'.retry = page.retry /\ page.retry # NoOne
      BY <1>1, <1>4, <1>5, <2>2 DEF fresh
    <3>3. Booked(book, "retry", page.retry, world)
      BY <1>10, <3>2 DEF Book
    <3>4. Booked(book, r.kind, r, world)
      BY <1>4, <1>9, <2>2, <3>3 DEF Booked
    <3>5. \A kind, x : Booked(book, kind, x, world) <=> Booked(book, kind, x, world')
      BY <3>1 DEF Booked
    <3>6. \A x \in wire' : Submits(x) => Booked(book, x.kind, x, world')
      BY <1>1, <1>10, <3>4, <3>5 DEF Book
    <3>7. Book(book, page', wire', world')
      BY <1>10, <3>1, <3>2, <3>3, <3>5, <3>6 DEF Book
    <3>  QED  BY <3>7 DEF HasBook
  <2>  QED  BY <2>1, <2>2
<1>12. Unseen(page', wire', world')
  <2>1. page'.pending = NoOne /\ page'.session.pending = NoOne
    BY <1>0, <1>1, <1>5, <1>6 DEF Pends
  <2>2. \A j \in DOMAIN world.jobs : world.jobs[j].key = s.key =>
           \A t \in wire' : Looks(t) /\ t.mount = page.mount => t.of # j
    <3>1. CASE fresh
      BY <1>2, <1>4, <1>10, <3>1 DEF Book, Booked
    <3>2. CASE ~fresh
      <4>1. page.retry # NoOne /\ page.retry = s /\ page.retry.of = page.job.id
        BY <1>4, <3>2 DEF fresh
      <4>2. ~Looks(r)
        BY <1>9 DEF Looks
      <4>  QED  BY <1>0, <1>1, <4>1, <4>2 DEF Unseen
    <3>  QED  BY <3>1, <3>2
  <2>  QED  BY <1>5, <1>7, <2>1, <2>2 DEF Unseen
<1>13. /\ page'.session.retry \in {NoOne, s} /\ page'.pending = NoOne /\ s.of \in DOMAIN world.jobs
       /\ page'.session.pending \in {NoOne, page.session.pending} /\ wire' = wire \cup {r}
  BY <1>1, <1>2, <1>4, <1>5, <1>6
<1>14. "retry" # "import" /\ "retry" \in {"import", "retry"}
  OBVIOUS
<1>15. ~page.retrying /\ page'.retrying /\ page.pending = NoOne /\ world'.jobs = world.jobs
  BY <1>1, <1>5, <1>7
<1>  QED
  BY ONLY ImportInv, <1>4, <1>5, <1>8, <1>9, <1>11, <1>12, <1>13, <1>14, <1>15, AnotherFits

\* Another job is shown, and nothing that was submitted is left.
LEMMA ShownFits ==
  ASSUME ImportInv, NEW v \in JobViews, Names(world.jobs, v), world' = world, wire' \subseteq wire,
         HasImport(page'), page'.job = v, page'.pending = NoOne, page'.retry = NoOne,
         page'.mount = page.mount, page'.failures = <<>>, page'.loading = page.loading,
         page'.session \in Sessions, page'.session.job = v,
         page'.session.pending = NoOne, page'.session.retry = NoOne,
         \A t \in wire' : t.mount = page.mount =>
            ~Submits(t) /\ (t.kind = "rows" /\ t.append => t.of # v.id)
  PROVE  ImportInv'
<1>0. /\ ImportTyped(page, world) /\ Requests(page, wire, world) /\ JobsApart(world)
      /\ Pends(page, wire) /\ Unseen(page, wire, world) /\ FailuresFollow(page, wire)
  BY DEF ImportInv, ImportFits
<1>1. ImportTyped(page', world')
  BY <1>0 DEF ImportTyped
<1>2. Requests(page', wire', world')
  BY <1>0 DEF Requests
<1>3. HasBook(page', wire', world')
  <2>1. PICK book : Book(book, page, wire, world)
    BY DEF ImportInv, ImportFits, HasBook
  <2>2. Book(book, page', wire', world')
    BY <2>1 DEF Book
  <2>  QED  BY <2>2 DEF HasBook
<1>4. Pends(page', wire') /\ Unseen(page', wire', world')
  BY DEF Pends, Unseen, Submits
<1>5. FailuresFollow(page', wire')
  <2>1. page'.failures \in Seq(Nat \X Nat) /\ DOMAIN page'.failures = {}
    OBVIOUS
  <2>2. \A t \in wire' : t.kind = "rows" /\ t.mount = page'.mount =>
          /\ t.of \in page'.loading
          /\ t.append /\ t.of = page'.job.id => t.from = Len(page'.failures)
    BY <1>0 DEF FailuresFollow
  <2>3. \A t, u \in wire' : t.kind = "rows" /\ u.kind = "rows" /\ t.mount = page'.mount
                            /\ u.mount = page'.mount /\ t.of = u.of => t = u
    BY <1>0 DEF FailuresFollow
  <2>  QED  BY <2>1, <2>2, <2>3 DEF FailuresFollow
<1>  QED  BY <1>0, <1>1, <1>2, <1>3, <1>4, <1>5 DEF ImportInv, ImportFits

LEMMA ClearFits == ASSUME ImportInv, ClearImport PROVE ImportInv'
<1>0. /\ ImportTyped(page, world) /\ Requests(page, wire, world) /\ Pends(page, wire)
  BY DEF ImportInv, ImportFits
<1>1. /\ page.pending = NoOne /\ page.retry = NoOne /\ wire' = wire /\ world' = world
      /\ page' = [SaveJob(page, NoJob) EXCEPT !.failures = <<>>, !.more = FALSE,
                                              !.failuresOf = 0, !.completed = 0]
  BY DEF ClearImport
<1>2. HasImport(page) /\ page.session \in Sessions
  BY <1>0 DEF ImportTyped
<1>3. /\ HasImport(page') /\ page'.job = NoJob /\ page'.pending = NoOne /\ page'.retry = NoOne
      /\ page'.mount = page.mount /\ page'.failures = <<>> /\ page'.loading = page.loading
      /\ page'.session = [page.session EXCEPT !.job = NoJob]
  BY <1>1, <1>2 DEF HasImport, ImportFields, SaveJob
<1>4. NoJob \in JobViews /\ NoJob.id = 0 /\ Names(world.jobs, NoJob)
  <2>1. Len(world.jobs) \in Nat
    BY <1>0 DEF ImportTyped
  <2>  QED  BY <2>1 DEF NoJob, JobViews, Names
<1>5. /\ page'.session \in Sessions /\ page'.session.job = NoJob
      /\ page'.session.pending = NoOne /\ page'.session.retry = NoOne
  BY <1>0, <1>1, <1>2, <1>3, <1>4 DEF Sessions, Pends
<1>6. \A t \in wire' : t.mount = page.mount => ~Submits(t)
  BY <1>1, NothingSent DEF Submits
<1>7. \A t \in wire' : t.kind = "rows" => t.of # NoJob.id
  BY <1>0, <1>1, <1>4 DEF Requests, Looks, ImportTyped
<1>  QED  BY <1>1, <1>3, <1>4, <1>5, <1>6, <1>7, ShownFits

(* Another instance goes on with what the storage holds.                    *)
LEMMA RemountFits == ASSUME ImportInv, Remount PROVE ImportInv'
<1>0. /\ ImportTyped(page, world) /\ Requests(page, wire, world) /\ JobsApart(world)
      /\ Pends(page, wire) /\ Unseen(page, wire, world) /\ FailuresFollow(page, wire)
  BY DEF ImportInv, ImportFits
<1>1. page' = Mounted(page.session, page.mount + 1) /\ wire' \subseteq wire /\ world' = world
  BY DEF Remount, Follows
<1>2. /\ HasImport(page') /\ page'.job = page.session.job /\ page'.pending = page.session.pending
      /\ page'.retry = page.session.retry /\ page'.session = page.session
      /\ page'.mount = page.mount + 1 /\ page'.failures = <<>>
  BY <1>1 DEF Mounted, HasImport, ImportFields
<1>3. page.mount \in Nat /\ page'.mount \in Nat /\ page.session \in Sessions
  BY <1>0, <1>2 DEF ImportTyped
<1>4. ImportTyped(page', world')
  BY <1>0, <1>1, <1>2, <1>3 DEF ImportTyped, Sessions
<1>5. \A r \in wire' : r.mount \in 0..page'.mount /\ r.mount # page'.mount
  BY <1>0, <1>1, <1>2, <1>3 DEF Requests
<1>6. Requests(page', wire', world')
  BY <1>0, <1>1, <1>5 DEF Requests
<1>7. HasBook(page', wire', world')
  <2>1. PICK book : Book(book, page, wire, world)
    BY DEF ImportInv, ImportFits, HasBook
  <2>2. page'.pending \in {NoOne, page.pending} /\ page'.retry \in {NoOne, page.retry}
    BY <1>0, <1>2 DEF Pends
  <2>3. Book(book, page', wire', world')
    BY <1>1, <2>1, <2>2 DEF Book
  <2>  QED  BY <2>3 DEF HasBook
<1>8. Pends(page', wire')
  BY <1>0, <1>2, <1>5 DEF Pends
<1>9. Unseen(page', wire', world')
  BY <1>0, <1>1, <1>2, <1>5 DEF Unseen, Pends
<1>10. FailuresFollow(page', wire')
  <2>1. page'.failures \in Seq(Nat \X Nat) /\ DOMAIN page'.failures = {}
    BY <1>2
  <2>  QED  BY <1>5, <2>1 DEF FailuresFollow
<1>  QED  BY <1>0, <1>1, <1>4, <1>6, <1>7, <1>8, <1>9, <1>10 DEF ImportInv, ImportFits


\* The servers go on with the jobs there are, and begin what was submitted.
LEMMA WorldFits ==
  ASSUME NEW p, NEW w, NEW d, NEW e, ImportFits(p, w, d),
         e \in [jobs : Seq(ImportJobs), keys : Nat, confirmed : Nat],
         e.keys = d.keys, e.confirmed = d.confirmed, Len(d.jobs) <= Len(e.jobs), JobsApart(e),
         \A i \in DOMAIN d.jobs : /\ e.jobs[i].key = d.jobs[i].key
                                  /\ e.jobs[i].kind = d.jobs[i].kind
                                  /\ e.jobs[i].of = d.jobs[i].of,
         \A i \in DOMAIN e.jobs \ DOMAIN d.jobs :
            \E r \in w : Submits(r) /\ e.jobs[i].key = r.key /\ e.jobs[i].kind = r.kind
                         /\ e.jobs[i].of = r.of
  PROVE  ImportFits(p, w, e)
<1>0. /\ ImportTyped(p, d) /\ Requests(p, w, d)
      /\ Pends(p, w) /\ Unseen(p, w, d) /\ FailuresFollow(p, w)
  BY DEF ImportFits
<1>1. /\ d.jobs \in Seq(ImportJobs) /\ Len(d.jobs) \in Nat /\ Len(e.jobs) \in Nat
      /\ DOMAIN d.jobs = 1..Len(d.jobs) /\ DOMAIN e.jobs = 1..Len(e.jobs)
  BY <1>0 DEF ImportTyped
<1>2. DOMAIN d.jobs \subseteq DOMAIN e.jobs
  BY <1>1
<1>3. ImportTyped(p, e)
  <2>1. \A v : v.id \in 0..Len(d.jobs) => v.id \in 0..Len(e.jobs)
    BY <1>1
  <2>  QED  BY <1>0, <2>1 DEF ImportTyped, Names
<1>4. Requests(p, w, e)
  <2>1. \A id, key : IsJobOf(d.jobs, id, key) => IsJobOf(e.jobs, id, key)
    BY <1>2 DEF IsJobOf
  <2>  QED  BY <1>0, <1>2, <2>1 DEF Requests
<1>5. HasBook(p, w, e)
  <2>1. PICK book : Book(book, p, w, d)
    BY DEF ImportFits, HasBook
  <2>2. \A kind, x : Booked(book, kind, x, d) <=> Booked(book, kind, x, e)
    BY DEF Booked
  <2>3. \A j \in DOMAIN e.jobs : Booked(book, e.jobs[j].kind, e.jobs[j], e)
    <3>  SUFFICES ASSUME NEW j \in DOMAIN e.jobs
                  PROVE  Booked(book, e.jobs[j].kind, e.jobs[j], d)
      BY <2>2
    <3>1. CASE j \in DOMAIN d.jobs
      <4>1. Booked(book, d.jobs[j].kind, d.jobs[j], d)
        BY <2>1, <3>1 DEF Book
      <4>  QED  BY <3>1, <4>1 DEF Booked
    <3>2. CASE j \notin DOMAIN d.jobs
      <4>1. PICK r \in w : Submits(r) /\ e.jobs[j].key = r.key /\ e.jobs[j].kind = r.kind
                           /\ e.jobs[j].of = r.of
        BY <3>2
      <4>2. Booked(book, r.kind, r, d)
        BY <2>1, <4>1 DEF Book
      <4>  QED  BY <4>1, <4>2 DEF Booked
    <3>  QED  BY <3>1, <3>2
  <2>4. Book(book, p, w, e)
    BY <2>1, <2>2, <2>3 DEF Book
  <2>  QED  BY <2>4 DEF HasBook
<1>6. Unseen(p, w, e)
  <2>1. \A j \in DOMAIN e.jobs \ DOMAIN d.jobs :
           j # p.job.id /\ j # p.session.job.id /\ \A r \in w : Looks(r) => r.of # j
    BY <1>0, <1>1 DEF ImportTyped, Names, Requests
  <2>2. \A j \in DOMAIN d.jobs : e.jobs[j].key = d.jobs[j].key
    OBVIOUS
  <2>  QED  BY <1>0, <2>1, <2>2 DEF Unseen
<1>  QED  BY <1>0, <1>3, <1>4, <1>5, <1>6 DEF ImportFits

\* A request is answered.
LEMMA AnsweredFits ==
  ASSUME NEW p, NEW w, NEW v, NEW d, ImportFits(p, w, d), NEW r \in w, NEW s,
         v = (w \ {r}) \cup {s}, r.kind # "rows",
         DOMAIN s = DOMAIN r, s.kind = r.kind, s.mount = r.mount, s.of = r.of,
         Submits(r) => s.key = r.key /\ s.answer \in JobViews /\ IsJobOf(d.jobs, s.answer.id, r.key),
         r.kind = "poll" => s.answer \in JobViews /\ s.answer.id = r.of /\ s.answer.state # "none"
  PROVE  ImportFits(p, v, d)
<1>0. /\ ImportTyped(p, d) /\ Requests(p, w, d) /\ JobsApart(d)
      /\ Pends(p, w) /\ Unseen(p, w, d) /\ FailuresFollow(p, w)
  BY DEF ImportFits
<1>1. (Submits(s) <=> Submits(r)) /\ (Looks(s) <=> Looks(r)) /\ s.kind # "rows"
  BY DEF Submits, Looks
<1>2. Requests(p, v, d)
  <2>1. /\ {"kind", "mount", "answer", "of"} \subseteq DOMAIN s
        /\ s.mount \in 0..p.mount /\ (Submits(s) \/ Looks(s))
        /\ Submits(s) =>
             /\ "key" \in DOMAIN s /\ s.key \in Nat /\ s.of \in Nat
             /\ s.kind = "retry" => s.of \in DOMAIN d.jobs
             /\ s.answer \in JobViews /\ IsJobOf(d.jobs, s.answer.id, s.key)
        /\ Looks(s) => s.of \in DOMAIN d.jobs
    BY <1>0, <1>1 DEF Requests
  <2>  QED  BY <1>0, <1>1, <2>1 DEF Requests
<1>3. HasBook(p, v, d)
  <2>1. PICK book : Book(book, p, w, d)
    BY DEF ImportFits, HasBook
  <2>2. Submits(s) => Booked(book, s.kind, s, d)
    BY <1>1, <2>1 DEF Book, Booked
  <2>3. Book(book, p, v, d)
    BY <2>1, <2>2 DEF Book
  <2>  QED  BY <2>3 DEF HasBook
<1>4. Pends(p, v)
  <2>1. \A t \in v : t.mount = p.mount /\ t.kind = "import" =>
           p.submitting /\ p.pending = [key |-> t.key, of |-> t.of]
    BY <1>0, <1>1 DEF Pends, Submits
  <2>2. \A t \in v : t.mount = p.mount /\ t.kind = "retry" =>
           p.retrying /\ p.retry = [key |-> t.key, of |-> t.of] /\ t.of = p.job.id
    BY <1>0, <1>1 DEF Pends, Submits
  <2>3. \A t, u \in v : t.mount = p.mount /\ u.mount = p.mount /\ Submits(t) /\ u.kind = t.kind => t = u
    BY <1>0, <1>1 DEF Pends
  <2>  QED  BY <1>0, <2>1, <2>2, <2>3 DEF Pends
<1>5. Unseen(p, v, d)
  BY <1>0, <1>1 DEF Unseen
<1>6. FailuresFollow(p, v)
  BY <1>0, <1>1 DEF FailuresFollow
<1>  QED  BY <1>0, <1>2, <1>3, <1>4, <1>5, <1>6 DEF ImportFits

LEMMA PollReadFits == ASSUME ImportInv, PollRead PROVE ImportInv'
<1>1. PICK r \in wire : /\ r.kind = "poll"
                        /\ wire' = (wire \ {r}) \cup {[r EXCEPT !.answer = View(world.jobs, r.of)]}
                        /\ page' = page /\ world' = world
  BY DEF PollRead, Of
<1>  DEFINE s == [r EXCEPT !.answer = View(world.jobs, r.of)]
<1>2. /\ {"kind", "mount", "answer", "of"} \subseteq DOMAIN r /\ r.of \in DOMAIN world.jobs
      /\ world.jobs \in Seq(ImportJobs)
  BY <1>1 DEF ImportInv, ImportFits, Requests, ImportTyped, Looks
<1>3. /\ DOMAIN s = DOMAIN r /\ s.kind = r.kind /\ s.mount = r.mount /\ s.of = r.of
      /\ s.answer = View(world.jobs, r.of)
  BY <1>2
<1>4. wire' = (wire \ {r}) \cup {s}
  BY <1>1
<1>  HIDE DEF s
<1>5. world.jobs[r.of] \in ImportJobs /\ r.of \in Nat
  BY <1>2
<1>6. /\ View(world.jobs, r.of) \in JobViews /\ View(world.jobs, r.of).id = r.of
      /\ View(world.jobs, r.of).state # "none"
  BY <1>5 DEF View, JobViews, ImportJobs, Active, Terminal
<1>7. ~Submits(r)
  BY <1>1 DEF Submits
<1>8. ImportFits(page, wire', world)
  BY <1>1, <1>3, <1>4, <1>6, <1>7, AnsweredFits DEF ImportInv
<1>  QED  BY <1>1, <1>8 DEF ImportInv

\* A job changes its state.
LEMMA JobChanges ==
  ASSUME ImportInv, page' = page, wire' = wire, NEW j \in DOMAIN world.jobs, NEW job \in ImportJobs,
         job.key = world.jobs[j].key, job.kind = world.jobs[j].kind, job.of = world.jobs[j].of,
         world' = [world EXCEPT !.jobs = [world.jobs EXCEPT ![j] = job]]
  PROVE  ImportInv'
<1>0. ImportTyped(page, world) /\ JobsApart(world)
  BY DEF ImportInv, ImportFits
<1>1. /\ world.jobs \in Seq(ImportJobs)
      /\ world = [jobs |-> world.jobs, keys |-> world.keys, confirmed |-> world.confirmed]
      /\ world.keys \in Nat /\ world.confirmed \in Nat
  BY <1>0 DEF ImportTyped
<1>2. world' = [jobs |-> [world.jobs EXCEPT ![j] = job], keys |-> world.keys,
                confirmed |-> world.confirmed]
  BY <1>1
<1>3. /\ world'.jobs = [world.jobs EXCEPT ![j] = job] /\ world'.keys = world.keys
      /\ world'.confirmed = world.confirmed
  BY <1>2
<1>4. /\ world'.jobs \in Seq(ImportJobs) /\ Len(world'.jobs) = Len(world.jobs)
      /\ DOMAIN world'.jobs = DOMAIN world.jobs
  BY <1>1, <1>3
<1>5. \A i \in DOMAIN world.jobs : /\ world'.jobs[i].key = world.jobs[i].key
                                   /\ world'.jobs[i].kind = world.jobs[i].kind
                                   /\ world'.jobs[i].of = world.jobs[i].of
  BY <1>3
<1>6. JobsApart(world')
  BY <1>0, <1>4, <1>5 DEF JobsApart
<1>7. world' \in [jobs : Seq(ImportJobs), keys : Nat, confirmed : Nat]
  BY <1>1, <1>2, <1>3, <1>4
<1>8. Len(world.jobs) <= Len(world'.jobs) /\ DOMAIN world'.jobs \ DOMAIN world.jobs = {}
  BY <1>1, <1>4
<1>9. ImportFits(page, wire, world')
  BY <1>3, <1>5, <1>6, <1>7, <1>8, WorldFits DEF ImportInv
<1>  QED  BY <1>9 DEF ImportInv

Moved(job, state, rows, worth) ==
  [job EXCEPT !.state = state, !.failed = rows, !.retryable = worth]

LEMMA JobMoves ==
  ASSUME NEW job \in ImportJobs, NEW state \in Active \cup Terminal, NEW rows \in Nat,
         NEW worth \in BOOLEAN
  PROVE  /\ Moved(job, state, rows, worth) \in ImportJobs
         /\ Moved(job, state, rows, worth).key = job.key
         /\ Moved(job, state, rows, worth).kind = job.kind
         /\ Moved(job, state, rows, worth).of = job.of
  BY DEF ImportJobs, Moved

LEMMA ProceedsFits == ASSUME ImportInv, ImportProceeds PROVE ImportInv'
<1>0. world.jobs \in Seq(ImportJobs) /\ "jobs" \in DOMAIN world
  BY DEF ImportInv, ImportFits, ImportTyped
<1>1. page' = page /\ wire' = wire
  BY DEF ImportProceeds
<1>2. PICK j \in DOMAIN world.jobs :
          \/ /\ world.jobs[j].state = "queued"
             /\ world' = [world EXCEPT !.jobs[j].state = "running"]
          \/ /\ world.jobs[j].state = "running"
             /\ \E rows \in 0..2, worth \in BOOLEAN :
                   /\ rows = 0 => ~worth
                   /\ world' = [world EXCEPT
                        !.jobs[j].state = IF rows = 0 THEN "done" ELSE "partial",
                        !.jobs[j].failed = rows, !.jobs[j].retryable = worth]
  BY Zenon DEF ImportProceeds
<1>3. world.jobs[j] \in ImportJobs
  BY <1>0
<1>4. CASE world' = [world EXCEPT !.jobs[j].state = "running"]
  <2>  DEFINE job == [world.jobs[j] EXCEPT !.state = "running"]
  <2>1. /\ job \in ImportJobs /\ job.key = world.jobs[j].key /\ job.kind = world.jobs[j].kind
        /\ job.of = world.jobs[j].of
    BY <1>3 DEF ImportJobs, Active
  <2>2. world' = [world EXCEPT !.jobs = [world.jobs EXCEPT ![j] = job]]
    BY <1>0, <1>4
  <2>  HIDE DEF job
  <2>  QED  BY <1>1, <2>1, <2>2, JobChanges
<1>5. ASSUME NEW rows \in 0..2, NEW worth \in BOOLEAN,
             world' = [world EXCEPT
                        !.jobs[j].state = IF rows = 0 THEN "done" ELSE "partial",
                        !.jobs[j].failed = rows, !.jobs[j].retryable = worth]
      PROVE  ImportInv'
  <2>  DEFINE state == IF rows = 0 THEN "done" ELSE "partial"
              job == Moved(world.jobs[j], state, rows, worth)
  <2>1. state \in Active \cup Terminal /\ rows \in Nat
    BY DEF Terminal
  <2>2. world' = [world EXCEPT !.jobs = [world.jobs EXCEPT ![j] = job]]
    BY <1>0, <1>5 DEF Moved
  <2>  HIDE DEF state
  <2>3. /\ job \in ImportJobs /\ job.key = world.jobs[j].key /\ job.kind = world.jobs[j].kind
        /\ job.of = world.jobs[j].of
    BY <1>3, <2>1, JobMoves
  <2>  HIDE DEF job
  <2>  QED  BY <1>1, <2>2, <2>3, JobChanges
<1>  QED  BY <1>2, <1>4, <1>5

(* A key makes one job: a submission that arrives again finds it.           *)
LEMMA CreatedFits == ASSUME ImportInv, ImportCreated PROVE ImportInv'
<1>0. /\ ImportTyped(page, world) /\ Requests(page, wire, world) /\ JobsApart(world)
  BY DEF ImportInv, ImportFits
<1>1. PICK r \in wire :
        /\ Submits(r) /\ page' = page
        /\ LET jobs == IF Known(r.key) # {} THEN world.jobs
                       ELSE Append(world.jobs, [key |-> r.key, kind |-> r.kind, of |-> r.of,
                                state |-> "queued", failed |-> 0, retryable |-> FALSE])
               j    == CHOOSE j \in DOMAIN jobs : jobs[j].key = r.key
           IN  /\ world' = [world EXCEPT !.jobs = jobs]
               /\ wire' = (wire \ {r}) \cup {[r EXCEPT !.answer = View(jobs, j)]}
  BY DEF ImportCreated, Of, Submits
<1>  DEFINE job  == [key |-> r.key, kind |-> r.kind, of |-> r.of, state |-> "queued",
                     failed |-> 0, retryable |-> FALSE]
            jobs == IF Known(r.key) # {} THEN world.jobs ELSE Append(world.jobs, job)
            j    == CHOOSE i \in DOMAIN jobs : jobs[i].key = r.key
            s    == [r EXCEPT !.answer = View(jobs, j)]
<1>2. world' = [world EXCEPT !.jobs = jobs] /\ wire' = (wire \ {r}) \cup {s}
  BY <1>1
<1>3. /\ {"kind", "mount", "answer", "of", "key"} \subseteq DOMAIN r /\ r.key \in Nat /\ r.of \in Nat
      /\ r.kind \in {"import", "retry"}
      /\ r.kind = "retry" => r.of \in DOMAIN world.jobs
  BY <1>0, <1>1 DEF Requests, Submits
<1>4. /\ world.jobs \in Seq(ImportJobs) /\ Len(world.jobs) \in Nat
      /\ DOMAIN world.jobs = 1..Len(world.jobs)
      /\ world = [jobs |-> world.jobs, keys |-> world.keys, confirmed |-> world.confirmed]
      /\ world.keys \in Nat /\ world.confirmed \in Nat
  BY <1>0 DEF ImportTyped
<1>5. job \in ImportJobs /\ job.key = r.key /\ job.kind = r.kind /\ job.of = r.of
  BY <1>3 DEF ImportJobs, Active
<1>  HIDE DEF job
<1>6. /\ jobs \in Seq(ImportJobs) /\ Len(world.jobs) <= Len(jobs)
      /\ \A i \in DOMAIN world.jobs : i \in DOMAIN jobs /\ jobs[i] = world.jobs[i]
      /\ \A i \in DOMAIN jobs \ DOMAIN world.jobs :
            i = Len(world.jobs) + 1 /\ jobs[i] = job /\ Known(r.key) = {}
  <2>1. CASE Known(r.key) # {}
    BY <1>4, <2>1
  <2>2. CASE Known(r.key) = {}
    <3>1. jobs = Append(world.jobs, job)
      BY <2>2
    <3>2. /\ Len(jobs) = Len(world.jobs) + 1 /\ DOMAIN jobs = 1..(Len(world.jobs) + 1)
          /\ \A i \in DOMAIN world.jobs : jobs[i] = world.jobs[i]
          /\ jobs[Len(world.jobs) + 1] = job /\ jobs \in Seq(ImportJobs)
      BY <1>4, <1>5, <3>1
    <3>  HIDE DEF jobs
    <3>  QED  BY <1>4, <2>2, <3>2
  <2>  QED  BY <2>1, <2>2
<1>7. \E i \in DOMAIN jobs : jobs[i].key = r.key
  <2>1. CASE Known(r.key) # {}
    BY <2>1 DEF Known
  <2>2. CASE Known(r.key) = {}
    <3>1. jobs = Append(world.jobs, job)
      BY <2>2
    <3>2. Len(world.jobs) + 1 \in DOMAIN jobs /\ jobs[Len(world.jobs) + 1] = job
      BY <1>4, <3>1
    <3>  QED  BY <1>5, <3>2
  <2>  QED  BY <2>1, <2>2
<1>  HIDE DEF jobs
<1>8. j \in DOMAIN jobs /\ jobs[j].key = r.key
  BY <1>7
<1>  HIDE DEF j
<1>9. /\ DOMAIN s = DOMAIN r /\ s.kind = r.kind /\ s.mount = r.mount /\ s.of = r.of
      /\ s.key = r.key /\ s.answer = View(jobs, j)
  BY <1>3
<1>  HIDE DEF s
<1>10. View(jobs, j) \in JobViews /\ IsJobOf(jobs, View(jobs, j).id, r.key)
  <2>1. jobs[j] \in ImportJobs /\ j \in Nat
    BY <1>6, <1>8
  <2>  QED  BY <1>8, <2>1 DEF View, JobViews, ImportJobs, IsJobOf
<1>11. /\ world'.jobs = jobs /\ world'.keys = world.keys /\ world'.confirmed = world.confirmed
       /\ world' \in [jobs : Seq(ImportJobs), keys : Nat, confirmed : Nat]
  <2>1. world' = [jobs |-> jobs, keys |-> world.keys, confirmed |-> world.confirmed]
    BY <1>2, <1>4
  <2>  QED  BY <1>4, <1>6, <2>1
<1>12. JobsApart(world')
  <2>1. \A i \in DOMAIN world.jobs, k \in DOMAIN jobs \ DOMAIN world.jobs : jobs[i].key # jobs[k].key
    BY <1>5, <1>6 DEF Known
  <2>2. \A i, k \in DOMAIN jobs : jobs[i].key = jobs[k].key => i = k
    BY <1>0, <1>6, <2>1 DEF JobsApart
  <2>3. \A i \in DOMAIN jobs : jobs[i].kind = "retry" => jobs[i].of < i
    <3>  SUFFICES ASSUME NEW i \in DOMAIN jobs, jobs[i].kind = "retry"
                  PROVE  jobs[i].of < i
      OBVIOUS
    <3>1. CASE i \in DOMAIN world.jobs
      BY <1>0, <1>6, <3>1 DEF JobsApart
    <3>2. CASE i \notin DOMAIN world.jobs
      <4>1. i = Len(world.jobs) + 1 /\ r.of \in DOMAIN world.jobs /\ jobs[i].of = r.of
        BY <1>3, <1>5, <1>6, <3>2
      <4>  QED  BY <1>4, <4>1
    <3>  QED  BY <3>1, <3>2
  <2>  QED  BY <1>11, <2>2, <2>3 DEF JobsApart
<1>13. ImportFits(page, wire, world')
  <2>1. \A i \in DOMAIN world.jobs : /\ world'.jobs[i].key = world.jobs[i].key
                                     /\ world'.jobs[i].kind = world.jobs[i].kind
                                     /\ world'.jobs[i].of = world.jobs[i].of
    BY <1>6, <1>11
  <2>2. \A i \in DOMAIN world'.jobs \ DOMAIN world.jobs :
            \E t \in wire : Submits(t) /\ world'.jobs[i].key = t.key /\ world'.jobs[i].kind = t.kind
                            /\ world'.jobs[i].of = t.of
    BY <1>1, <1>5, <1>6, <1>11
  <2>  QED  BY <1>6, <1>11, <1>12, <2>1, <2>2, WorldFits DEF ImportInv
<1>14. r.kind # "rows" /\ r.kind # "poll"
  BY <1>3
<1>15. ImportFits(page, wire', world')
  BY <1>2, <1>9, <1>10, <1>11, <1>13, <1>14, AnsweredFits
<1>  QED  BY <1>1, <1>15 DEF ImportInv

LEMMA SubmissionAnsweredFits == ASSUME ImportInv, SubmissionAnswered PROVE ImportInv'
<1>0. /\ ImportTyped(page, world) /\ Requests(page, wire, world) /\ JobsApart(world)
      /\ Pends(page, wire) /\ Unseen(page, wire, world) /\ FailuresFollow(page, wire)
  BY DEF ImportInv, ImportFits
<1>1. PICK r \in wire :
        /\ r.kind \in {"import", "retry"} /\ r.answer # NoOne /\ world' = world
        /\ page' = IF r.mount # page.mount THEN Behind(page, r.kind, r.answer)
                   ELSE IF r.kind = "import"
                   THEN [Accepted(SavePending(page, NoOne), r.answer) EXCEPT
                            !.submitting = FALSE, !.open = FALSE]
                   ELSE [Accepted(SaveRetry(page, NoOne), r.answer) EXCEPT !.retrying = FALSE]
        /\ wire' \subseteq wire \ {r}
  BY DEF SubmissionAnswered, Of, Follows
<1>2. /\ Submits(r) /\ r.key \in Nat /\ r.of \in Nat /\ r.answer \in JobViews
      /\ r.answer.id \in DOMAIN world.jobs /\ world.jobs[r.answer.id].key = r.key
  BY <1>0, <1>1 DEF Requests, Submits, IsJobOf
<1>3. HasImport(page) /\ page.session \in Sessions /\ Names(world.jobs, r.answer)
  BY <1>0, <1>2 DEF ImportTyped, Names
<1>4. PICK book : Book(book, page, wire, world)
  BY DEF ImportInv, ImportFits, HasBook
<1>5. Booked(book, r.kind, r, world)
  BY <1>2, <1>4 DEF Book
<1>6. [key |-> r.key, of |-> r.of] # NoOne
  BY <1>2, ImportAssumption
<1>7. CASE r.mount # page.mount
  <2>1. page' = Behind(page, r.kind, r.answer)
    BY <1>1, <1>7
  <2>2. /\ HasImport(page') /\ page'.job = page.job /\ page'.pending = page.pending
        /\ page'.retry = page.retry /\ page'.mount = page.mount /\ page'.failures = page.failures
        /\ page'.loading = page.loading /\ page'.submitting = page.submitting
        /\ page'.retrying = page.retrying
        /\ page'.session = [page.session EXCEPT
                !.job = r.answer,
                !.pending = IF r.kind = "import" THEN NoOne ELSE page.session.pending,
                !.retry = IF r.kind = "retry" THEN NoOne ELSE page.session.retry]
    BY <1>3, <2>1 DEF Behind, HasImport, ImportFields
  <2>3. /\ page'.session \in Sessions /\ page'.session.job = r.answer
        /\ page'.session.pending = IF r.kind = "import" THEN NoOne ELSE page.session.pending
        /\ page'.session.retry = IF r.kind = "retry" THEN NoOne ELSE page.session.retry
    BY <1>2, <1>3, <2>2 DEF Sessions
  <2>4. ImportTyped(page', world')
    BY <1>0, <1>1, <1>3, <2>2, <2>3 DEF ImportTyped
  <2>5. Requests(page', wire', world')
    BY <1>0, <1>1, <2>2 DEF Requests
  <2>6. HasBook(page', wire', world')
    <3>1. Book(book, page', wire', world')
      BY <1>1, <1>4, <2>2 DEF Book
    <3>  QED  BY <3>1 DEF HasBook
  <2>7. /\ page'.session.pending \in {NoOne, page.session.pending}
        /\ page'.session.retry \in {NoOne, page.session.retry}
    BY <2>3
  <2>8. /\ page'.job = page.job /\ page'.pending = page.pending
        /\ page'.retry = page.retry /\ page'.mount = page.mount
        /\ page'.submitting = page.submitting /\ page'.retrying = page.retrying
    BY <2>2
  <2>9. wire' \subseteq wire /\ world' = world
    BY <1>1
  <2>10. Pends(page', wire')
    BY <1>0, <2>7, <2>8, <2>9 DEF Pends
  <2>11. page'.session.pending # NoOne =>
          \A j \in DOMAIN world.jobs : world.jobs[j].key = page'.session.pending.key => j # r.answer.id
    <3>  SUFFICES ASSUME page'.session.pending # NoOne, NEW j \in DOMAIN world.jobs,
                         world.jobs[j].key = page'.session.pending.key, j = r.answer.id
                  PROVE  FALSE
      OBVIOUS
    <3>1. r.kind = "retry" /\ page'.session.pending = page.pending /\ page.pending # NoOne
      BY <1>0, <1>1, <2>3 DEF Pends
    <3>2. Booked(book, "import", page.pending, world) /\ page.pending.key = r.key
      BY <1>2, <1>4, <3>1 DEF Book
    <3>3. "import" # "retry"
      OBVIOUS
    <3>  QED  BY <1>5, <3>1, <3>2, <3>3 DEF Booked
  <2>12. page'.session.job.id = r.answer.id
    BY <2>3
  <2>13. Unseen(page', wire', world')
    BY <1>0, <2>11, <2>12, <2>8, <2>9 DEF Unseen
  <2>14. FailuresFollow(page', wire')
    <3>1. /\ page'.failures = page.failures /\ page'.job = page.job /\ page'.mount = page.mount
          /\ page'.loading = page.loading /\ FailuresFollow(page, wire)
      BY <1>0, <2>2
    <3>  QED  BY ONLY <2>9, <3>1 DEF FailuresFollow
  <2>15. JobsApart(world')
    BY <1>0, <2>9
  <2>  QED  BY ONLY <2>4, <2>5, <2>6, <2>10, <2>13, <2>14, <2>15 DEF ImportInv, ImportFits
<1>8. CASE r.mount = page.mount
  <2>1. /\ page.pending = NoOne \/ page.retry = NoOne
        /\ r.kind = "import" => page.pending = [key |-> r.key, of |-> r.of]
        /\ r.kind = "retry" => page.retry = [key |-> r.key, of |-> r.of] /\ r.of = page.job.id
        /\ page.session.pending \in {NoOne, page.pending} /\ page.session.retry \in {NoOne, page.retry}
    BY <1>0, <1>8 DEF Pends
  <2>2. /\ HasImport(page') /\ page'.job = r.answer /\ page'.mount = page.mount
        /\ page'.failures = <<>> /\ page'.loading = page.loading
        /\ page'.pending = NoOne /\ page'.retry = NoOne
        /\ page'.session = IF r.kind = "import"
                           THEN [page.session EXCEPT !.pending = NoOne, !.job = r.answer]
                           ELSE [page.session EXCEPT !.retry = NoOne, !.job = r.answer]
    <3>1. CASE r.kind = "import"
      <4>1. page.retry = NoOne
        BY <1>6, <2>1, <3>1
      <4>2. page' = [Accepted(SavePending(page, NoOne), r.answer) EXCEPT
                            !.submitting = FALSE, !.open = FALSE]
        BY <1>1, <1>8, <3>1
      <4>3. /\ HasImport(page') /\ page'.job = r.answer /\ page'.mount = page.mount
            /\ page'.failures = <<>> /\ page'.loading = page.loading
            /\ page'.pending = NoOne /\ page'.retry = page.retry
            /\ page'.session = [page.session EXCEPT !.pending = NoOne, !.job = r.answer]
        BY <1>3, <4>2 DEF Accepted, SavePending, SaveJob, HasImport, ImportFields
      <4>  QED  BY <3>1, <4>1, <4>3
    <3>2. CASE r.kind = "retry"
      <4>1. page.pending = NoOne /\ r.kind # "import"
        BY <1>6, <2>1, <3>2
      <4>2. page' = [Accepted(SaveRetry(page, NoOne), r.answer) EXCEPT !.retrying = FALSE]
        BY <1>1, <1>8, <4>1
      <4>3. /\ HasImport(page') /\ page'.job = r.answer /\ page'.mount = page.mount
            /\ page'.failures = <<>> /\ page'.loading = page.loading
            /\ page'.pending = page.pending /\ page'.retry = NoOne
            /\ page'.session = [page.session EXCEPT !.retry = NoOne, !.job = r.answer]
        BY <1>3, <4>2 DEF Accepted, SaveRetry, SaveJob, HasImport, ImportFields
      <4>  QED  BY <4>1, <4>3
    <3>  QED  BY <1>1, <3>1, <3>2
  <2>3. /\ page'.session \in Sessions /\ page'.session.job = r.answer
        /\ page'.session.pending = NoOne /\ page'.session.retry = NoOne
    <3>1. r.kind = "import" => page.retry = NoOne
      BY <1>6, <2>1
    <3>2. r.kind # "import" => page.pending = NoOne
      BY <1>1, <1>6, <2>1
    <3>  QED  BY <1>2, <1>3, <2>1, <2>2, <3>1, <3>2 DEF Sessions
  <2>4. \A t \in wire' : t.mount = page.mount => ~Submits(t)
    <3>  SUFFICES ASSUME NEW t \in wire, t # r, t.mount = page.mount, Submits(t)
                  PROVE  FALSE
      BY <1>1
    <3>1. t.kind # r.kind
      BY <1>0, <1>2, <1>8 DEF Pends
    <3>2. t.key \in Nat /\ t.of \in Nat
      BY <1>0 DEF Requests
    <3>3. [key |-> t.key, of |-> t.of] # NoOne
      BY <3>2, ImportAssumption
    <3>4. /\ t.kind = "import" => page.pending # NoOne
          /\ t.kind = "retry" => page.retry # NoOne
      BY <1>0, <3>3 DEF Pends
    <3>  QED  BY <1>1, <1>6, <2>1, <3>1, <3>4 DEF Submits
  <2>5. \A t \in wire : t.mount = page.mount /\ Looks(t) => t.of # r.answer.id
    <3>1. CASE r.kind = "import"
      BY <1>0, <1>2, <1>6, <2>1, <3>1 DEF Unseen
    <3>2. CASE r.kind = "retry"
      BY <1>0, <1>2, <1>6, <2>1, <3>2 DEF Unseen
    <3>  QED  BY <1>1, <3>1, <3>2
  <2>6. \A t \in wire' : t.mount = page.mount =>
           ~Submits(t) /\ (t.kind = "rows" /\ t.append => t.of # r.answer.id)
    BY <1>1, <2>4, <2>5 DEF Looks
  <2>  QED  BY <1>1, <1>2, <1>3, <2>2, <2>3, <2>6, ShownFits
<1>  QED  BY <1>7, <1>8

\* The storage, and the page unless it was left, take a look at the job that was asked about.
LEMMA SavedFits ==
  ASSUME ImportInv, NEW r \in wire, Looks(r), r.answer \in JobViews, r.answer.id = r.of,
         r.answer.state # "none", r.of \in DOMAIN world.jobs, wire' = wire \ {r}, world' = world,
         HasImport(page'), page'.pending = page.pending,
         page'.job = page.job \/ (page'.job = r.answer /\ page.job.id = r.of),
         page'.retry = page.retry, page'.mount = page.mount, page'.failures = page.failures,
         page'.loading = page.loading, page'.submitting = page.submitting,
         page'.retrying = page.retrying, page'.session = [page.session EXCEPT !.job = r.answer]
  PROVE  ImportInv'
<1>0. /\ ImportTyped(page, world) /\ Requests(page, wire, world) /\ JobsApart(world)
      /\ Pends(page, wire) /\ Unseen(page, wire, world) /\ FailuresFollow(page, wire)
  BY DEF ImportInv, ImportFits
<1>1. page'.job.id = page.job.id
  OBVIOUS
<1>2. /\ page'.session \in Sessions /\ page'.session.job = r.answer
      /\ page'.session.pending = page.session.pending /\ page'.session.retry = page.session.retry
  BY <1>0 DEF ImportTyped, Sessions
<1>3. Names(world.jobs, r.answer)
  BY <1>0 DEF ImportTyped, Names
<1>4. ImportTyped(page', world')
  BY <1>0, <1>2, <1>3 DEF ImportTyped
<1>5. Requests(page', wire', world')
  BY <1>0 DEF Requests
<1>6. HasBook(page', wire', world')
  <2>1. PICK book : Book(book, page, wire, world)
    BY DEF ImportInv, ImportFits, HasBook
  <2>2. Book(book, page', wire', world')
    BY <2>1 DEF Book
  <2>  QED  BY <2>2 DEF HasBook
<1>7. Pends(page', wire')
  BY <1>0, <1>1, <1>2 DEF Pends
<1>8. Unseen(page', wire', world')
  BY <1>0, <1>1, <1>2 DEF Unseen, Pends
<1>9. FailuresFollow(page', wire')
  BY <1>0, <1>1 DEF FailuresFollow
<1>  QED  BY <1>0, <1>4, <1>5, <1>6, <1>7, <1>8, <1>9 DEF ImportInv, ImportFits

LEMMA PollAnsweredFits == ASSUME ImportInv, PollAnswered PROVE ImportInv'
<1>0. /\ ImportTyped(page, world) /\ Requests(page, wire, world) /\ JobsApart(world)
      /\ Pends(page, wire) /\ Unseen(page, wire, world) /\ FailuresFollow(page, wire)
  BY DEF ImportInv, ImportFits
<1>1. PICK r \in wire, lost \in BOOLEAN :
        /\ r.kind = "poll" /\ (lost \/ r.answer # NoOne)
        /\ IF r.mount # page.mount
           THEN page' = IF lost THEN page ELSE [page EXCEPT !.session.job = r.answer]
           ELSE LET p == [page EXCEPT !.polls = @ \ {r.of}]
                IN  page' = IF lost \/ ~IsCurrent(r) THEN p
                            ELSE [SaveJob(p, r.answer) EXCEPT
                                    !.completed = IF Completes(r.answer) THEN r.of ELSE @]
        /\ wire' = wire \ {r} /\ world' = world
  BY DEF PollAnswered, Of
<1>2. /\ Looks(r) /\ r.of \in DOMAIN world.jobs
      /\ r.answer # NoOne => /\ r.answer \in JobViews /\ r.answer.id = r.of
                             /\ r.answer.state # "none"
  BY <1>0, <1>1 DEF Requests, Looks
<1>3. HasImport(page) /\ page.session \in Sessions
  BY <1>0 DEF ImportTyped
<1>4. \A t \in wire' : t.mount = page.mount =>
         /\ t.kind = "import" => page.submitting
         /\ t.kind = "retry" => page.retrying
         /\ t.kind = "rows" => t.of \in page.loading
  BY <1>0, <1>1 DEF Pends, FailuresFollow
<1>5. CASE r.mount # page.mount /\ lost
  <2>1. page' = page
    BY <1>1, <1>5
  <2>  QED  BY <1>1, <1>3, <1>4, <2>1, ImportLess DEF ImportInv
<1>6. CASE r.mount # page.mount /\ ~lost
  <2>1. page' = [page EXCEPT !.session.job = r.answer] /\ r.answer # NoOne
    BY <1>1, <1>6
  <2>2. /\ HasImport(page') /\ page'.job = page.job /\ page'.pending = page.pending
        /\ page'.retry = page.retry /\ page'.mount = page.mount /\ page'.failures = page.failures
        /\ page'.loading = page.loading /\ page'.submitting = page.submitting
        /\ page'.retrying = page.retrying
        /\ page'.session = [page.session EXCEPT !.job = r.answer]
    BY <1>3, <2>1 DEF HasImport, ImportFields
  <2>  QED  BY <1>0, <1>1, <1>2, <2>1, <2>2, SavedFits
<1>7. CASE r.mount = page.mount /\ (lost \/ ~IsCurrent(r))
  <2>1. page' = [page EXCEPT !.polls = @ \ {r.of}]
    BY <1>1, <1>7
  <2>2. /\ HasImport(page') /\ page'.job = page.job /\ page'.pending = page.pending
        /\ page'.retry = page.retry /\ page'.session = page.session /\ page'.mount = page.mount
        /\ page'.failures = page.failures /\ page'.submitting = page.submitting
        /\ page'.retrying = page.retrying /\ page'.loading = page.loading
    BY <1>3, <2>1 DEF HasImport, ImportFields
  <2>  QED  BY <1>1, <1>4, <2>2, ImportLess DEF ImportInv
<1>8. CASE r.mount = page.mount /\ ~lost /\ IsCurrent(r)
  <2>  DEFINE c == IF Completes(r.answer) THEN r.of ELSE page.completed
              p == [page EXCEPT !.polls = @ \ {r.of}]
  <2>1. page' = [SaveJob(p, r.answer) EXCEPT !.completed = IF Completes(r.answer) THEN r.of ELSE @]
    BY <1>1, <1>8
  <2>2. /\ HasImport(page') /\ page'.job = r.answer /\ page'.pending = page.pending
        /\ page'.retry = page.retry /\ page'.mount = page.mount /\ page'.failures = page.failures
        /\ page'.loading = page.loading /\ page'.submitting = page.submitting
        /\ page'.retrying = page.retrying
        /\ page'.session = [page.session EXCEPT !.job = r.answer]
    BY <1>3, <2>1 DEF SaveJob, HasImport, ImportFields
  <2>3. r.answer # NoOne /\ page.job.id = r.of
    BY <1>1, <1>8 DEF IsCurrent
  <2>  QED  BY <1>0, <1>1, <1>2, <2>2, <2>3, SavedFits
<1>  QED  BY <1>5, <1>6, <1>7, <1>8

LEMMA RowsAnsweredFits == ASSUME ImportInv, RowsAnswered PROVE ImportInv'
<1>0. /\ ImportTyped(page, world) /\ Requests(page, wire, world) /\ JobsApart(world)
      /\ Pends(page, wire) /\ Unseen(page, wire, world) /\ FailuresFollow(page, wire)
  BY DEF ImportInv, ImportFits
<1>1. PICK r \in wire, lost \in BOOLEAN :
        /\ r.kind = "rows"
        /\ LET row == <<r.of, r.from + 1>>
               p   == [page EXCEPT !.loading = @ \ {r.of}]
           IN  page' = IF r.mount # page.mount THEN page
                       ELSE IF lost \/ ~IsCurrent(r) THEN p
                       ELSE [p EXCEPT !.failures = IF r.append THEN Append(@, row) ELSE <<row>>,
                                      !.more = r.from + 1 < world.jobs[r.of].failed,
                                      !.failuresOf = r.of]
        /\ wire' = wire \ {r} /\ world' = world
  BY DEF RowsAnswered, Of
<1>2. HasImport(page)
  BY <1>0 DEF ImportTyped
<1>3. \A t \in wire : t.mount = page.mount =>
         /\ t.kind = "import" => page.submitting
         /\ t.kind = "retry" => page.retrying
         /\ t.kind = "rows" => t.of \in page.loading
  BY <1>0 DEF Pends, FailuresFollow
<1>4. CASE r.mount # page.mount
  <2>1. page' = page
    BY <1>1, <1>4
  <2>  QED  BY <1>1, <1>2, <1>3, <2>1, ImportLess DEF ImportInv
<1>5. \A t \in wire' : t.kind = "rows" /\ t.mount = page.mount /\ r.mount = page.mount => t.of # r.of
  BY <1>0, <1>1 DEF FailuresFollow
<1>6. CASE r.mount = page.mount /\ (lost \/ ~IsCurrent(r))
  <2>1. page' = [page EXCEPT !.loading = @ \ {r.of}]
    BY <1>1, <1>6
  <2>2. /\ HasImport(page') /\ page'.job = page.job /\ page'.pending = page.pending
        /\ page'.retry = page.retry /\ page'.session = page.session /\ page'.mount = page.mount
        /\ page'.failures = page.failures /\ page'.submitting = page.submitting
        /\ page'.retrying = page.retrying /\ page'.loading = page.loading \ {r.of}
    BY <1>2, <2>1 DEF HasImport, ImportFields
  <2>3. \A t \in wire' : t.mount = page'.mount =>
         /\ t.kind = "import" => page'.submitting
         /\ t.kind = "retry" => page'.retrying
         /\ t.kind = "rows" => t.of \in page'.loading
    BY <1>1, <1>3, <1>5, <1>6, <2>2
  <2>4. wire' \subseteq wire /\ world' = world
    BY <1>1
  <2>  QED  BY <2>2, <2>3, <2>4, ImportLess DEF ImportInv
<1>7. CASE r.mount = page.mount /\ ~lost /\ IsCurrent(r)
  <2>  DEFINE row  == <<r.of, r.from + 1>>
              rows == IF r.append THEN Append(page.failures, row) ELSE <<row>>
              more == r.from + 1 < world.jobs[r.of].failed
  <2>1. page' = [page EXCEPT !.loading = @ \ {r.of}, !.failures = rows, !.more = more,
                             !.failuresOf = r.of]
    BY <1>1, <1>7
  <2>  HIDE DEF rows, more
  <2>2. /\ HasImport(page') /\ page'.job = page.job /\ page'.pending = page.pending
        /\ page'.retry = page.retry /\ page'.session = page.session /\ page'.mount = page.mount
        /\ page'.failures = rows /\ page'.submitting = page.submitting
        /\ page'.retrying = page.retrying /\ page'.loading = page.loading \ {r.of}
    BY <1>2, <2>1 DEF HasImport, ImportFields
  <2>3. page.job.id = r.of /\ r.of \in Nat /\ (~r.append => r.from = 0)
        /\ (r.append => r.from = Len(page.failures))
    BY <1>0, <1>1, <1>7 DEF IsCurrent, Requests, Looks, ImportTyped, FailuresFollow
  <2>4. rows \in Seq(Nat \X Nat) /\ \A n \in DOMAIN rows : rows[n] = <<page.job.id, n>>
    <3>1. CASE r.append
      <4>1. /\ page.failures \in Seq(Nat \X Nat) /\ Len(page.failures) \in Nat
            /\ \A n \in DOMAIN page.failures : page.failures[n] = <<page.job.id, n>>
        BY <1>0 DEF FailuresFollow
      <4>2. row = <<page.job.id, Len(page.failures) + 1>> /\ row \in Nat \X Nat
        BY <2>3, <3>1, <4>1
      <4>  HIDE DEF row
      <4>3. rows = Append(page.failures, row)
        BY <3>1 DEF rows
      <4>4. /\ rows \in Seq(Nat \X Nat) /\ DOMAIN rows = 1..(Len(page.failures) + 1)
            /\ rows[Len(page.failures) + 1] = row
            /\ \A n \in 1..Len(page.failures) : rows[n] = page.failures[n]
        BY <4>1, <4>2, <4>3
      <4>5. ASSUME NEW n \in DOMAIN rows
            PROVE  rows[n] = <<page.job.id, n>>
        <5>1. CASE n = Len(page.failures) + 1
          BY <4>2, <4>4, <5>1
        <5>2. CASE n \in 1..Len(page.failures)
          <6>1. n \in DOMAIN page.failures
            BY <4>1, <5>2
          <6>  QED  BY <4>1, <4>4, <5>2, <6>1
        <5>3. n \in 1..(Len(page.failures) + 1)
          BY <4>4
        <5>  QED  BY <4>1, <5>1, <5>2, <5>3
      <4>  QED  BY <4>4, <4>5
    <3>2. CASE ~r.append
      <4>1. row = <<page.job.id, 1>> /\ rows = <<row>>
        BY <2>3, <3>2 DEF rows
      <4>  QED  BY <2>3, <4>1
    <3>  QED  BY <3>1, <3>2
  <2>5. \A t \in wire' : t.kind = "rows" /\ t.mount = page.mount => t.of # page.job.id
    BY <1>5, <1>7, <2>3
  <2>6. ImportTyped(page', world') /\ Requests(page', wire', world')
    BY <1>0, <1>1, <2>2 DEF ImportTyped, Requests
  <2>7. HasBook(page', wire', world')
    <3>1. PICK book : Book(book, page, wire, world)
      BY DEF ImportInv, ImportFits, HasBook
    <3>2. Book(book, page', wire', world')
      BY <1>1, <2>2, <3>1 DEF Book
    <3>  QED  BY <3>2 DEF HasBook
  <2>8. Pends(page', wire')
    BY <1>0, <1>1, <2>2 DEF Pends
  <2>9. Unseen(page', wire', world')
    BY <1>0, <1>1, <2>2 DEF Unseen
  <2>10. FailuresFollow(page', wire')
    <3>1. wire' \subseteq wire
      BY <1>1
    <3>2. \A u \in wire' : u.kind = "rows" /\ u.mount = page'.mount =>
            u.of \in page'.loading /\ u.of # page'.job.id
      BY <1>0, <1>5, <1>7, <2>2, <2>5, <3>1 DEF FailuresFollow
    <3>3. \A u, v \in wire' : u.kind = "rows" /\ v.kind = "rows" /\ u.mount = page'.mount
                              /\ v.mount = page'.mount /\ u.of = v.of => u = v
      BY <1>0, <2>2, <3>1 DEF FailuresFollow
    <3>4. page'.failures \in Seq(Nat \X Nat)
          /\ \A n \in DOMAIN page'.failures : page'.failures[n] = <<page'.job.id, n>>
      BY <2>2, <2>4
    <3>  QED  BY <3>2, <3>3, <3>4 DEF FailuresFollow
  <2>  QED  BY <1>0, <1>1, <2>6, <2>7, <2>8, <2>9, <2>10 DEF ImportInv, ImportFits
<1>  QED  BY <1>4, <1>6, <1>7

LEMMA ImportStep == ASSUME ImportInv, ImportNext PROVE ImportInv'
<1>1. CASE ImportUser
  BY <1>1, OpenFits, SubmitFits, ResubmitFits, RetryFits, ClearFits, RemountFits, LoadFits
     DEF ImportUser, MoreRows
<1>2. CASE ImportRuns
  BY <1>2, CreatedFits, ProceedsFits, SubmissionAnsweredFits, LostFits, PollFits, PollReadFits,
     PollAnsweredFits, RowsAnsweredFits, LoadFits
     DEF ImportRuns, FirstRows
<1>  QED  BY <1>1, <1>2 DEF ImportNext

LEMMA ImportsApart ==
  ASSUME ImportInv, NEW i \in DOMAIN world.jobs, NEW j \in DOMAIN world.jobs,
         world.jobs[i].kind = "import", world.jobs[j].kind = "import",
         world.jobs[i].of = world.jobs[j].of
  PROVE  i = j
<1>1. PICK book : Book(book, page, wire, world)
  BY DEF ImportInv, ImportFits, HasBook
<1>2. Booked(book, "import", world.jobs[i], world) /\ Booked(book, "import", world.jobs[j], world)
  BY <1>1 DEF Book
<1>3. \A k, m \in 1..world.keys : book[k] = book[m] /\ book[k][1] = "import" => k = m
  BY <1>1 DEF Book
<1>4. world.jobs[i].key = world.jobs[j].key
  BY <1>2, <1>3 DEF Booked
<1>  QED  BY <1>4 DEF ImportInv, ImportFits, JobsApart
LEMMA ImportUnchanged == ASSUME ImportInv, UNCHANGED pageVars PROVE ImportInv'
<1>1. page' = page /\ wire' = wire /\ world' = world
  BY DEF pageVars
<1>2. ImportInv' <=> ImportFits(page', wire', world')
  BY DEF ImportInv
<1>  QED  BY <1>1, <1>2 DEF ImportInv

LEMMA ImportHolds == ConsoleSpec => [](Shows("import") => ImportInv)
<1>1. ConsoleInit => (Shows("import") => ImportInv)
  BY StartOfPage, ImportStart
<1>2. (Shows("import") => ImportInv) /\ [ConsoleNext]_pageVars
        => (Shows("import") => ImportInv)'
  <2>  SUFFICES ASSUME Shows("import") => ImportInv, [ConsoleNext]_pageVars, Shows("import")'
                PROVE  ImportInv'
    OBVIOUS
  <2>1. focus = "import"
    BY FocusStays DEF Shows
  <2>2. [ImportNext]_pageVars
    BY <2>1 DEF ConsoleNext, Shows
  <2>3. CASE ImportNext
    BY <2>1, <2>3, ImportStep DEF Shows
  <2>4. CASE UNCHANGED pageVars
    BY <2>1, <2>4, ImportUnchanged DEF Shows
  <2>  QED  BY <2>2, <2>3, <2>4
<1>  QED  BY <1>1, <1>2, PTL DEF ConsoleSpec

(* What the user submitted once is imported at most once: a submission      *)
(* that is sent again after a lost answer carries its key                   *)
(* (useServerImport.ts:123-178, bulk.py:359-389).                           *)
THEOREM ImportsOnce == ConsoleSpec => []ImportedOnce
<1>1. (Shows("import") => ImportInv) => ImportedOnce
  BY ImportsApart DEF ImportedOnce
<1>  QED  BY <1>1, ImportHolds, PTL


-----------------------------------------------------------------------------
(***************************************************************************)
(* The list of the library (ServerLibrary).                                *)
(***************************************************************************)
LibraryFields == {"q", "typed", "past", "trails", "active", "visible", "rows", "next",
                  "busy", "failed"}

LibraryTyped(p) ==
  /\ \A f \in LibraryFields : f \in DOMAIN p
  /\ p.q \in Queries /\ p.typed \in Words /\ p.past \in Seq(Queries)
  /\ p.trails \in [Keys -> Seq(Cursors) \ {<<>>}]
  /\ p.next \in Cursors
  /\ p.active \in BOOLEAN /\ p.visible \in BOOLEAN

\* What is asked for a list that is seen is its query, and so is what it shows when nothing is.
Answered(p, w) ==
  IsVisible(p) =>
    /\ \A r \in w : r.kind = "page" => r.q = p.q
    /\ "page" \notin p.busy \cup p.failed => p.rows = p.q

LibraryFits(p, w) ==
  /\ LibraryTyped(p)
  /\ \A r \in w : r.q \in Queries
  /\ Answered(p, w)

LibraryInv == LibraryFits(page, wire) /\ world \in [Keys -> Nat]

LEMMA KeyOfQuery == ASSUME NEW q \in Queries PROVE Key(q) \in Keys
  BY DEF Queries, Key, Keys

(* A render that reads again what it has to leaves the list answered.       *)
LEMMA AskingFits ==
  ASSUME NEW p, NEW kinds, NEW recover, LibraryTyped(p), Asking(p, kinds, recover),
         \A r \in wire : r.q \in Queries,
         "page" \notin kinds => Answered(p, wire)
  PROVE  LibraryFits(page', wire')
<1>  DEFINE due == IF IsVisible(p)
                   THEN kinds \ (IF p.q.sort = "ip" THEN {} ELSE {"count"}) ELSE {}
<1>1. /\ wire' = {r \in wire : r.kind \notin due} \cup {Request(p, k, recover) : k \in due}
      /\ page' = [p EXCEPT !.busy = @ \cup due, !.failed = @ \ due]
  BY DEF Asking, With
<1>2. "page" \in due <=> IsVisible(p) /\ "page" \in kinds
  OBVIOUS
<1>  HIDE DEF due
<1>3. /\ \A f \in LibraryFields : f \in DOMAIN page' /\ (f \notin {"busy", "failed"} => page'[f] = p[f])
      /\ page'.busy = p.busy \cup due /\ page'.failed = p.failed \ due
  BY <1>1 DEF LibraryTyped, LibraryFields
<1>4. /\ page'.q = p.q /\ page'.typed = p.typed /\ page'.past = p.past /\ page'.trails = p.trails
      /\ page'.active = p.active /\ page'.visible = p.visible /\ page'.rows = p.rows
      /\ page'.next = p.next
  BY <1>3 DEF LibraryFields
<1>5. LibraryTyped(page')
  BY <1>3, <1>4 DEF LibraryTyped
<1>6. \A k : Request(p, k, recover).q = p.q /\ Request(p, k, recover).kind = k
  BY DEF Request
<1>7. \A r \in wire' : r.q \in Queries
  BY <1>1, <1>6 DEF LibraryTyped
<1>8. Answered(page', wire')
  <2>1. CASE "page" \in due
    <3>1. \A r \in wire' : r.kind = "page" => r.q = p.q
      BY <1>1, <1>6, <2>1
    <3>2. "page" \in page'.busy
      BY <1>3, <2>1
    <3>  QED  BY <1>4, <3>1, <3>2 DEF Answered
  <2>2. CASE "page" \notin due
    <3>1. \A r \in wire' : r.kind = "page" => r \in wire
      BY <1>1, <1>6, <2>2
    <3>2. "page" \notin page'.busy \cup page'.failed => "page" \notin p.busy \cup p.failed
      BY <1>3, <2>2
    <3>3. IsVisible(p) => Answered(p, wire)
      BY <1>2, <2>2
    <3>  QED  BY <1>4, <3>1, <3>2, <3>3 DEF Answered, IsVisible
  <2>  QED  BY <2>1, <2>2
<1>  QED  BY <1>5, <1>7, <1>8 DEF LibraryFits

LEMMA FollowFits ==
  ASSUME LibraryInv, NEW p, LibraryTyped(p), p.visible = page.visible, p.rows = page.rows,
         p.failed = page.failed, p.busy = page.busy \/ p.q # page.q, Follow(p)
  PROVE  LibraryFits(page', wire')
<1>  DEFINE tags  == IF Key(p.q) = Key(page.q) THEN p.tagPage ELSE 1
            typed == IF p.q.word = page.q.word THEN p.typed ELSE p.q.word
            q     == [p EXCEPT !.tagPage = tags, !.typed = typed]
            shown == p.active # page.active
            kinds == (IF p.q # page.q \/ shown THEN {"page"} ELSE {})
                  \cup (IF Key(p.q) # Key(page.q) \/ q.tagPage # page.tagPage \/ shown
                        THEN {"facets"} ELSE {})
                  \cup (IF Key(p.q) # Key(page.q) \/ p.q.sort # page.q.sort \/ shown
                        THEN {"count"} ELSE {})
<1>1. Asking(q, kinds, FALSE)
  BY DEF Follow
<1>2. "page" \notin kinds => p.q = page.q /\ ~shown
  OBVIOUS
<1>3. typed \in Words
  BY DEF LibraryTyped, Queries
<1>  HIDE DEF kinds, typed, tags
<1>4. /\ \A f \in LibraryFields : f \in DOMAIN q
      /\ q.q = p.q /\ q.typed = typed /\ q.past = p.past /\ q.trails = p.trails
      /\ q.active = p.active /\ q.visible = p.visible /\ q.rows = p.rows
      /\ q.next = p.next /\ q.busy = p.busy /\ q.failed = p.failed
  BY DEF LibraryTyped, LibraryFields
<1>  HIDE DEF q
<1>5. LibraryTyped(q)
  BY <1>3, <1>4 DEF LibraryTyped
<1>6. "page" \notin kinds => Answered(q, wire)
  BY <1>2, <1>4 DEF LibraryInv, LibraryFits, Answered, IsVisible
<1>7. \A r \in wire : r.q \in Queries
  BY DEF LibraryInv, LibraryFits
<1>  QED  BY <1>1, <1>5, <1>6, <1>7, AskingFits

\* A list that nobody sees shows what it may, and asks nothing.
LEMMA HiddenFollowFits ==
  ASSUME LibraryInv, NEW p, LibraryTyped(p), ~IsVisible(p), Follow(p)
  PROVE  LibraryFits(page', wire')
<1>  DEFINE tags  == IF Key(p.q) = Key(page.q) THEN p.tagPage ELSE 1
            typed == IF p.q.word = page.q.word THEN p.typed ELSE p.q.word
            q     == [p EXCEPT !.tagPage = tags, !.typed = typed]
<1>1. \E kinds : Asking(q, kinds, FALSE)
  BY DEF Follow
<1>2. typed \in Words
  BY DEF LibraryTyped, Queries
<1>  HIDE DEF typed, tags
<1>3. /\ \A f \in LibraryFields : f \in DOMAIN q
      /\ q.q = p.q /\ q.typed = typed /\ q.past = p.past /\ q.trails = p.trails
      /\ q.active = p.active /\ q.visible = p.visible /\ q.next = p.next
  BY DEF LibraryTyped, LibraryFields
<1>  HIDE DEF q
<1>4. LibraryTyped(q) /\ ~IsVisible(q)
  BY <1>2, <1>3 DEF LibraryTyped, IsVisible
<1>5. \A r \in wire : r.q \in Queries
  BY DEF LibraryInv, LibraryFits
<1>6. Answered(q, wire)
  BY <1>4 DEF Answered
<1>  QED  BY <1>1, <1>4, <1>5, <1>6, AskingFits

\* An answer that is put where it belongs.
LEMMA ArrivedFits ==
  ASSUME LibraryInv, NEW r \in wire, NEW p, LibraryTyped(p), p.q = page.q,
         p.active = page.active, p.visible = page.visible, p.busy = page.busy,
         p.failed = page.failed \/ p.failed = page.failed \cup {r.kind},
         p.rows = page.rows \/ (r.kind = "page" /\ p.rows = r.q),
         r.kind = "page" => p.rows = r.q \/ "page" \in p.failed,
         Arrived(r, p)
  PROVE  LibraryFits(page', wire')
<1>1. page' = [p EXCEPT !.busy = @ \ {r.kind}] /\ wire' = wire \ {r}
  BY DEF Arrived
<1>2. /\ \A f \in LibraryFields : f \in DOMAIN page'
      /\ page'.q = p.q /\ page'.typed = p.typed /\ page'.past = p.past /\ page'.trails = p.trails
      /\ page'.active = p.active /\ page'.visible = p.visible /\ page'.rows = p.rows
      /\ page'.next = p.next /\ page'.busy = p.busy \ {r.kind} /\ page'.failed = p.failed
  BY <1>1 DEF LibraryTyped, LibraryFields
<1>3. LibraryTyped(page')
  BY <1>2 DEF LibraryTyped
<1>4. Answered(page, wire) /\ \A s \in wire : s.q \in Queries
  BY DEF LibraryInv, LibraryFits
<1>5. Answered(page', wire')
  <2>  SUFFICES ASSUME IsVisible(page')
                PROVE  /\ \A s \in wire' : s.kind = "page" => s.q = page'.q
                       /\ "page" \notin page'.busy \cup page'.failed => page'.rows = page'.q
    BY DEF Answered
  <2>1. \A s \in wire : s.kind = "page" => s.q = page.q
    BY <1>2, <1>4 DEF Answered, IsVisible
  <2>2. "page" \notin page.busy \cup page.failed => page.rows = page.q
    BY <1>2, <1>4 DEF Answered, IsVisible
  <2>3. CASE r.kind = "page"
    BY <1>1, <1>2, <2>1, <2>3
  <2>4. CASE r.kind # "page"
    BY <1>1, <1>2, <2>1, <2>2, <2>4
  <2>  QED  BY <2>3, <2>4
<1>  QED  BY <1>1, <1>3, <1>4, <1>5 DEF LibraryFits

LEMMA LibraryStart == ASSUME LibraryInit PROVE LibraryInv
<1>1. /\ page = [FreshLibrary EXCEPT !.busy = Kinds]
      /\ wire = {Request(FreshLibrary, k, FALSE) : k \in Kinds}
      /\ world = [k \in Keys |-> MaxPages]
  BY DEF LibraryInit
<1>2. /\ \A f \in LibraryFields : f \in DOMAIN page
      /\ page.q = FirstQuery /\ page.typed = "" /\ page.past = <<>>
      /\ page.trails = [k \in Keys |-> <<NoOne>>] /\ page.next = NoOne
      /\ page.active = TRUE /\ page.visible = TRUE /\ page.busy = Kinds
  BY <1>1 DEF FreshLibrary, LibraryFields
<1>3. FirstQuery \in Queries
  BY LibraryAssumption DEF FirstQuery, Queries, Cursors
<1>4. NoOne \in Cursors /\ <<NoOne>> \in Seq(Cursors) \ {<<>>}
  <2>1. NoOne \in Cursors
    BY DEF Cursors
  <2>2. <<NoOne>> \in Seq(Cursors) /\ Len(<<NoOne>>) = 1 /\ Len(<<>>) = 0
    BY <2>1
  <2>  QED  BY <2>1, <2>2
<1>5. LibraryTyped(page)
  <2>1. page.trails \in [Keys -> Seq(Cursors) \ {<<>>}]
    BY <1>2, <1>4
  <2>2. page.past \in Seq(Queries) /\ page.typed \in Words
    <3>1. page.typed \in Words
      BY <1>2, LibraryAssumption
    <3>2. <<>> \in Seq(Queries)
      OBVIOUS
    <3>  QED  BY <1>2, <3>1, <3>2
  <2>3. page.active \in BOOLEAN /\ page.visible \in BOOLEAN
    BY <1>2
  <2>  QED  BY <1>2, <1>3, <1>4, <2>1, <2>2, <2>3 DEF LibraryTyped
<1>6. \A r \in wire : r.q = FirstQuery
  <2>1. FreshLibrary.q = FirstQuery
    BY DEF FreshLibrary
  <2>2. \A k : Request(FreshLibrary, k, FALSE).q = FirstQuery
    BY <2>1 DEF Request
  <2>  QED  BY <1>1, <2>2
<1>7. "page" \in page.busy
  BY <1>2 DEF Kinds
<1>8. world \in [Keys -> Nat]
  BY <1>1, LibraryAssumption
<1>  QED  BY <1>2, <1>3, <1>5, <1>6, <1>7, <1>8 DEF LibraryInv, LibraryFits, Answered

\* Some numbers up to n have a greatest: the sets of the numbers of theirs that are
\* above one are well ordered by inclusion.
LEMMA GreatestExists ==
  ASSUME NEW n \in Nat, NEW T \in SUBSET (1..n), T # {}
  PROVE  \E x \in T : \A y \in T : y <= x
<1>  DEFINE Above(x) == {y \in T : x < y}
            B == {Above(x) : x \in T}
            L == StrictSubsetOrdering(1..n)
            F == FiniteSubsetsOf(1..n)
<1>1. IsFiniteSet(1..n)
  BY FS_Interval
<1>2. B \subseteq F /\ B # {}
  <2>1. \A x \in T : Above(x) \in SUBSET (1..n)
    OBVIOUS
  <2>2. \A D \in SUBSET (1..n) : IsFiniteSet(D)
    BY <1>1, FS_Subset
  <2>  QED  BY <2>1, <2>2 DEF FiniteSubsetsOf
<1>3. IsWellFoundedOn(L, F)
  BY <1>1, FS_StrictSubsetOrderingWellFounded
<1>4. \E D \in B : \A E \in B : ~(<<E, D>> \in L)
  <2>  HIDE DEF B, L, F
  <2>  QED  BY <1>2, <1>3, WFMin
<1>5. PICK x \in T : \A y \in T : ~(<<Above(y), Above(x)>> \in L)
  BY <1>4
<1>6. ASSUME NEW y \in T, x < y PROVE FALSE
  <2>1. Above(y) \in SUBSET (1..n) /\ Above(x) \in SUBSET (1..n)
    OBVIOUS
  <2>2. Above(y) \subseteq Above(x) /\ y \in Above(x) /\ y \notin Above(y)
    <3>1. T \subseteq Int /\ x \in Int /\ y \in Int
      OBVIOUS
    <3>2. ASSUME NEW z \in Above(y) PROVE z \in Above(x)
      <4>1. z \in T /\ z \in Int /\ y < z
        BY <3>1
      <4>2. x < z
        BY <1>6, <3>1, <4>1
      <4>  QED  BY <4>1, <4>2
    <3>3. ~(y < y)
      BY <3>1
    <3>  HIDE DEF B, L, F
    <3>4. y \in Above(x) /\ y \notin Above(y)
      BY <1>6, <3>3
    <3>  QED  BY <3>2, <3>4
  <2>3. <<Above(y), Above(x)>> \in L
    BY <2>1, <2>2 DEF StrictSubsetOrdering
  <2>  QED  BY <1>5, <2>3
<1>  QED  BY <1>5, <1>6

\* The last place of a trail where a cursor is, or its first place.
LEMMA LastIndexIn ==
  ASSUME NEW trail \in Seq(Cursors), trail # <<>>, NEW cursor
  PROVE  LastIndex(trail, cursor) \in DOMAIN trail
<1>  DEFINE at == {i \in DOMAIN trail : trail[i] = cursor}
<1>1. Len(trail) \in Nat /\ DOMAIN trail = 1..Len(trail) /\ 1 \in DOMAIN trail
  OBVIOUS
<1>2. CASE at = {}
  BY <1>1, <1>2 DEF LastIndex
<1>3. CASE at # {}
  <2>1. at \in SUBSET (1..Len(trail))
    BY <1>1
  <2>2. LastIndex(trail, cursor) = CHOOSE i \in at : \A j \in at : j <= i
    BY <1>3 DEF LastIndex
  <2>  HIDE DEF at
  <2>3. \E i \in at : \A j \in at : j <= i
    BY <1>1, <1>3, <2>1, GreatestExists
  <2>4. LastIndex(trail, cursor) \in at
    BY <2>2, <2>3
  <2>  QED  BY <2>4 DEF at
<1>  QED  BY <1>2, <1>3

\* The beginning of a trail is one.
LEMMA TrailCut ==
  ASSUME NEW trail \in Seq(Cursors), NEW i \in DOMAIN trail
  PROVE  SubSeq(trail, 1, i) \in Seq(Cursors) \ {<<>>}
<1>1. i \in 1..Len(trail) /\ Len(trail) \in Nat
  OBVIOUS
<1>2. SubSeq(trail, 1, i) \in Seq(Cursors) /\ Len(SubSeq(trail, 1, i)) = i
  BY <1>1
<1>  QED  BY <1>1, <1>2

LEMMA TypeSearchFits == ASSUME LibraryInv, NEW w \in Words, TypeSearch(w) PROVE LibraryInv'
<1>1. page' = [page EXCEPT !.typed = w] /\ wire' = wire /\ world' = world
  BY DEF TypeSearch
<1>2. LibraryTyped(page)
  BY DEF LibraryInv, LibraryFits
<1>3. /\ \A f \in LibraryFields : f \in DOMAIN page'
      /\ page'.q = page.q /\ page'.typed = w /\ page'.past = page.past
      /\ page'.trails = page.trails /\ page'.active = page.active
      /\ page'.visible = page.visible /\ page'.rows = page.rows /\ page'.next = page.next
      /\ page'.busy = page.busy /\ page'.failed = page.failed
  BY <1>1, <1>2 DEF LibraryTyped, LibraryFields
<1>4. LibraryTyped(page')
  BY <1>2, <1>3 DEF LibraryTyped
<1>5. Answered(page', wire')
  BY <1>1, <1>3 DEF LibraryInv, LibraryFits, Answered, IsVisible
<1>  QED  BY <1>1, <1>4, <1>5 DEF LibraryInv, LibraryFits

LEMMA RequeryFits ==
  ASSUME LibraryInv, NEW q \in Queries, Requery(q), world' = world
  PROVE  LibraryInv'
<1>1. LibraryTyped(page)
  BY DEF LibraryInv, LibraryFits
<1>  DEFINE next == [q EXCEPT !.page = 1, !.cursor = NoOne]
            past == Append(page.past, page.q)
            p    == [page EXCEPT !.q = next, !.past = past, !.tagPage = 1]
<1>2. Follow(p)
  BY DEF Requery
<1>3. next \in Queries
  BY DEF Queries, Cursors
<1>4. past \in Seq(Queries)
  BY <1>1 DEF LibraryTyped
<1>  HIDE DEF next, past
<1>5. /\ \A f \in LibraryFields : f \in DOMAIN p
      /\ p.q = next /\ p.typed = page.typed /\ p.past = past
      /\ p.trails = page.trails /\ p.active = page.active
      /\ p.visible = page.visible /\ p.rows = page.rows /\ p.next = page.next
      /\ p.busy = page.busy /\ p.failed = page.failed
  BY <1>1 DEF LibraryTyped, LibraryFields
<1>  HIDE DEF p
<1>6. LibraryTyped(p)
  BY <1>1, <1>3, <1>4, <1>5 DEF LibraryTyped
<1>7. LibraryFits(page', wire')
  BY <1>2, <1>5, <1>6, FollowFits
<1>  QED  BY <1>7 DEF LibraryInv

LEMMA FiltersFit ==
  ASSUME LibraryInv,
         SearchSettles \/ (\E f \in Narrowing : SetFilter(f)) \/ (\E s \in {"ip", "group"} : SetSort(s))
  PROVE  LibraryInv'
<1>1. page.q \in Queries /\ page.typed \in Words
  BY DEF LibraryInv, LibraryFits, LibraryTyped
<1>2. CASE SearchSettles
  <2>1. [page.q EXCEPT !.word = page.typed] \in Queries
    BY <1>1 DEF Queries
  <2>  QED  BY <1>2, <2>1, RequeryFits DEF SearchSettles
<1>3. ASSUME NEW f \in Narrowing, SetFilter(f) PROVE LibraryInv'
  <2>1. [page.q EXCEPT !.filter = f] \in Queries
    BY <1>1 DEF Queries
  <2>  QED  BY <1>3, <2>1, RequeryFits DEF SetFilter
<1>4. ASSUME NEW s \in {"ip", "group"}, SetSort(s) PROVE LibraryInv'
  <2>1. [page.q EXCEPT !.sort = s] \in Queries
    BY <1>1 DEF Queries
  <2>  QED  BY <1>4, <2>1, RequeryFits DEF SetSort
<1>  QED  BY <1>2, <1>3, <1>4

LEMMA TagPageFits == ASSUME LibraryInv, SetTagPage PROVE LibraryInv'
<1>1. LibraryTyped(page)
  BY DEF LibraryInv, LibraryFits
<1>  DEFINE p == [page EXCEPT !.tagPage = 3 - @]
<1>2. Follow(p) /\ world' = world
  BY DEF SetTagPage
<1>3. /\ \A f \in LibraryFields : f \in DOMAIN p
      /\ p.q = page.q /\ p.typed = page.typed /\ p.past = page.past
      /\ p.trails = page.trails /\ p.active = page.active
      /\ p.visible = page.visible /\ p.rows = page.rows /\ p.next = page.next
      /\ p.busy = page.busy /\ p.failed = page.failed
  BY <1>1 DEF LibraryTyped, LibraryFields
<1>  HIDE DEF p
<1>4. LibraryTyped(p)
  BY <1>1, <1>3 DEF LibraryTyped
<1>5. LibraryFits(page', wire')
  BY <1>2, <1>3, <1>4, FollowFits
<1>  QED  BY <1>2, <1>5 DEF LibraryInv

LEMMA NextPageFits == ASSUME LibraryInv, NextCursorPage PROVE LibraryInv'
<1>1. LibraryTyped(page)
  BY DEF LibraryInv, LibraryFits
<1>  DEFINE trail  == page.trails[Key(page.q)]
            kept   == SubSeq(trail, 1, LastIndex(trail, page.q.cursor))
            longer == Append(kept, page.next)
            trails == [page.trails EXCEPT ![Key(page.q)] = longer]
            q      == [page.q EXCEPT !.cursor = page.next, !.page = @ + 1]
            past   == Append(page.past, page.q)
            p      == [page EXCEPT !.trails[Key(page.q)] = longer, !.q.cursor = page.next,
                                   !.q.page = @ + 1, !.past = past]
<1>2. Follow(p) /\ world' = world
  BY DEF NextCursorPage
<1>3. Key(page.q) \in Keys /\ trail \in Seq(Cursors) /\ trail # <<>>
  BY <1>1, KeyOfQuery DEF LibraryTyped
<1>4. longer \in Seq(Cursors) \ {<<>>}
  <2>1. LastIndex(trail, page.q.cursor) \in DOMAIN trail
    BY <1>3, LastIndexIn
  <2>2. kept \in Seq(Cursors)
    <3>  HIDE DEF trail
    <3>  QED  BY <1>3, <2>1, TrailCut
  <2>  HIDE DEF kept, trail
  <2>3. longer \in Seq(Cursors) /\ Len(longer) = Len(kept) + 1 /\ Len(kept) \in Nat
    BY <1>1, <2>2 DEF LibraryTyped
  <2>  HIDE DEF longer
  <2>4. Len(longer) # 0 /\ Len(<<>>) = 0
    BY <2>3
  <2>  QED  BY <2>3, <2>4
<1>  HIDE DEF longer
<1>5. trails \in [Keys -> Seq(Cursors) \ {<<>>}]
  BY <1>1, <1>3, <1>4 DEF LibraryTyped
<1>6. q \in Queries /\ past \in Seq(Queries)
  <2>  DEFINE number == page.q.page + 1
  <2>1. number \in Nat
    BY <1>1 DEF LibraryTyped, Queries
  <2>  HIDE DEF number
  <2>2. [page.q EXCEPT !.cursor = page.next, !.page = number] \in Queries
    BY <1>1, <2>1 DEF LibraryTyped, Queries
  <2>3. past \in Seq(Queries)
    BY <1>1 DEF LibraryTyped
  <2>  QED  BY <2>2, <2>3 DEF number
<1>  HIDE DEF past
<1>7. /\ \A f \in LibraryFields : f \in DOMAIN p
      /\ p.q = q /\ p.typed = page.typed /\ p.past = past
      /\ p.trails = trails /\ p.active = page.active
      /\ p.visible = page.visible /\ p.rows = page.rows /\ p.next = page.next
      /\ p.busy = page.busy /\ p.failed = page.failed
  BY <1>1 DEF LibraryTyped, LibraryFields
<1>  HIDE DEF p, q, trails
<1>8. LibraryTyped(p)
  BY <1>1, <1>5, <1>6, <1>7 DEF LibraryTyped
<1>9. LibraryFits(page', wire')
  BY <1>2, <1>7, <1>8, FollowFits
<1>  QED  BY <1>2, <1>9 DEF LibraryInv

LEMMA PreviousPageFits == ASSUME LibraryInv, PreviousCursorPage PROVE LibraryInv'
<1>1. LibraryTyped(page)
  BY DEF LibraryInv, LibraryFits
<1>  DEFINE trail  == page.trails[Key(page.q)]
            i      == LastIndex(trail, page.q.cursor)
            cut    == SubSeq(trail, 1, i - 1)
            back   == trail[i - 1]
            trails == [page.trails EXCEPT ![Key(page.q)] = cut]
            number == IF page.q.page > 1 THEN page.q.page - 1 ELSE 1
            q      == [page.q EXCEPT !.cursor = back, !.page = number]
            past   == Append(page.past, page.q)
            p      == [page EXCEPT !.trails[Key(page.q)] = cut, !.q.cursor = back,
                                   !.q.page = IF @ > 1 THEN @ - 1 ELSE 1, !.past = past]
<1>2. Follow(p) /\ world' = world /\ i > 1
  BY DEF PreviousCursorPage
<1>3. Key(page.q) \in Keys /\ trail \in Seq(Cursors) /\ trail # <<>>
  BY <1>1, KeyOfQuery DEF LibraryTyped
<1>4. i - 1 \in DOMAIN trail
  <2>1. i \in DOMAIN trail
    BY <1>3, LastIndexIn
  <2>2. Len(trail) \in Nat /\ DOMAIN trail = 1..Len(trail)
    BY <1>3
  <2>  HIDE DEF i, trail
  <2>  QED  BY <1>2, <2>1, <2>2
<1>5. cut \in Seq(Cursors) \ {<<>>} /\ back \in Cursors
  <2>  HIDE DEF trail
  <2>1. trail[i - 1] \in Cursors
    BY <1>3, <1>4
  <2>  HIDE DEF i
  <2>  QED  BY <1>3, <1>4, <2>1, TrailCut
<1>  HIDE DEF cut, back
<1>6. trails \in [Keys -> Seq(Cursors) \ {<<>>}]
  BY <1>1, <1>3, <1>5 DEF LibraryTyped
<1>7. q \in Queries /\ past \in Seq(Queries)
  <2>1. number \in Nat
    BY <1>1 DEF LibraryTyped, Queries
  <2>  HIDE DEF number
  <2>2. q \in Queries
    BY <1>1, <1>5, <2>1 DEF LibraryTyped, Queries
  <2>  QED  BY <1>1, <2>2 DEF LibraryTyped
<1>  HIDE DEF past
<1>8. /\ \A f \in LibraryFields : f \in DOMAIN p
      /\ p.q = q /\ p.typed = page.typed /\ p.past = past
      /\ p.trails = trails /\ p.active = page.active
      /\ p.visible = page.visible /\ p.rows = page.rows /\ p.next = page.next
      /\ p.busy = page.busy /\ p.failed = page.failed
  BY <1>1 DEF LibraryTyped, LibraryFields
<1>  HIDE DEF p, q, trails
<1>9. LibraryTyped(p)
  BY <1>1, <1>6, <1>7, <1>8 DEF LibraryTyped
<1>10. LibraryFits(page', wire')
  BY <1>2, <1>8, <1>9, FollowFits
<1>  QED  BY <1>2, <1>10 DEF LibraryInv

LEMMA PageNumberFits == ASSUME LibraryInv, SetPageNumber PROVE LibraryInv'
<1>1. LibraryTyped(page)
  BY DEF LibraryInv, LibraryFits
<1>2. PICK n \in Nat : Follow([page EXCEPT !.q.page = n]) /\ world' = world
  <2>1. PICK n \in {page.rows.page - 1, page.rows.page + 1} :
          /\ n \in 1..(IF page.total = 0 THEN 1 ELSE page.total)
          /\ Follow([page EXCEPT !.q.page = n])
    BY DEF SetPageNumber
  <2>2. n \in Nat
    BY <2>1
  <2>  QED  BY <2>1, <2>2 DEF SetPageNumber
<1>  DEFINE p == [page EXCEPT !.q.page = n]
            q == [page.q EXCEPT !.page = n]
<1>3. q \in Queries
  BY <1>1 DEF LibraryTyped, Queries
<1>4. /\ \A f \in LibraryFields : f \in DOMAIN p
      /\ p.q = q /\ p.typed = page.typed /\ p.past = page.past
      /\ p.trails = page.trails /\ p.active = page.active
      /\ p.visible = page.visible /\ p.rows = page.rows /\ p.next = page.next
      /\ p.busy = page.busy /\ p.failed = page.failed
  BY <1>1 DEF LibraryTyped, LibraryFields
<1>  HIDE DEF p, q
<1>5. LibraryTyped(p)
  BY <1>1, <1>3, <1>4 DEF LibraryTyped
<1>6. LibraryFits(page', wire')
  BY <1>2, <1>4, <1>5, FollowFits DEF p
<1>  QED  BY <1>2, <1>6 DEF LibraryInv

LEMMA GoBackFits == ASSUME LibraryInv, GoBack PROVE LibraryInv'
<1>1. LibraryTyped(page)
  BY DEF LibraryInv, LibraryFits
<1>  DEFINE q    == Last(page.past)
            past == Front(page.past)
            p    == [page EXCEPT !.q = q, !.past = past]
<1>2. Follow(p) /\ world' = world /\ page.past # <<>>
  <2>1. Follow([page EXCEPT !.q = Last(page.past), !.past = Front(@)]) /\ page.past # <<>>
        /\ world' = world
    BY DEF GoBack
  <2>2. p = [page EXCEPT !.q = Last(page.past), !.past = Front(@)]
    OBVIOUS
  <2>  HIDE DEF p
  <2>  QED  BY <2>1, <2>2
<1>3. q \in Queries /\ past \in Seq(Queries)
  <2>1. page.past \in Seq(Queries) /\ Len(page.past) \in Nat /\ Len(page.past) # 0
    BY <1>1, <1>2 DEF LibraryTyped
  <2>  QED  BY <2>1 DEF Last, Front
<1>  HIDE DEF q, past
<1>4. /\ \A f \in LibraryFields : f \in DOMAIN p
      /\ p.q = q /\ p.typed = page.typed /\ p.past = past
      /\ p.trails = page.trails /\ p.active = page.active
      /\ p.visible = page.visible /\ p.rows = page.rows /\ p.next = page.next
      /\ p.busy = page.busy /\ p.failed = page.failed
  BY <1>1 DEF LibraryTyped, LibraryFields
<1>  HIDE DEF p
<1>5. LibraryTyped(p)
  BY <1>1, <1>3, <1>4 DEF LibraryTyped
<1>6. LibraryFits(page', wire')
  BY <1>2, <1>4, <1>5, FollowFits
<1>  QED  BY <1>2, <1>6 DEF LibraryInv

LEMMA LibraryTabFits == ASSUME LibraryInv, ToggleLibraryTab PROVE LibraryInv'
<1>1. LibraryTyped(page)
  BY DEF LibraryInv, LibraryFits
<1>  DEFINE active == ~page.active
            base   == IF TotalCount(page) = NoOne THEN 0 ELSE TotalCount(page)
            p      == [page EXCEPT !.active = active, !.base = base]
<1>2. Follow(p) /\ world' = world
  BY DEF ToggleLibraryTab
<1>3. active \in BOOLEAN
  BY <1>1 DEF LibraryTyped
<1>  HIDE DEF active, base
<1>4. /\ \A f \in LibraryFields : f \in DOMAIN p
      /\ p.q = page.q /\ p.typed = page.typed /\ p.past = page.past
      /\ p.trails = page.trails /\ p.active = active
      /\ p.visible = page.visible /\ p.rows = page.rows /\ p.next = page.next
      /\ p.busy = page.busy /\ p.failed = page.failed
  BY <1>1 DEF LibraryTyped, LibraryFields
<1>  HIDE DEF p
<1>5. LibraryTyped(p)
  BY <1>1, <1>3, <1>4 DEF LibraryTyped
<1>6. LibraryFits(page', wire')
  BY <1>2, <1>4, <1>5, FollowFits
<1>  QED  BY <1>2, <1>6 DEF LibraryInv

LEMMA VisibilityFits == ASSUME LibraryInv, Visibility PROVE LibraryInv'
<1>1. LibraryTyped(page) /\ \A r \in wire : r.q \in Queries
  BY DEF LibraryInv, LibraryFits
<1>2. world' = world
  BY DEF Visibility
<1>3. CASE page.visible
  <2>1. page' = [page EXCEPT !.visible = FALSE, !.busy = {}] /\ wire' = {}
    BY <1>3 DEF Visibility
  <2>2. /\ \A f \in LibraryFields : f \in DOMAIN page'
        /\ page'.q = page.q /\ page'.typed = page.typed /\ page'.past = page.past
        /\ page'.trails = page.trails /\ page'.active = page.active
        /\ page'.visible = FALSE /\ page'.next = page.next
    BY <1>1, <2>1 DEF LibraryTyped, LibraryFields
  <2>3. LibraryTyped(page')
    BY <1>1, <2>2 DEF LibraryTyped
  <2>  QED  BY <1>2, <2>1, <2>2, <2>3 DEF LibraryInv, LibraryFits, Answered, IsVisible
<1>4. CASE ~page.visible
  <2>  DEFINE p == [page EXCEPT !.visible = TRUE]
  <2>1. Asking(p, Kinds, FALSE)
    BY <1>4 DEF Visibility
  <2>2. /\ \A f \in LibraryFields : f \in DOMAIN p
        /\ p.q = page.q /\ p.typed = page.typed /\ p.past = page.past
        /\ p.trails = page.trails /\ p.active = page.active
        /\ p.visible = TRUE /\ p.next = page.next
    BY <1>1 DEF LibraryTyped, LibraryFields
  <2>  HIDE DEF p
  <2>3. LibraryTyped(p)
    BY <1>1, <2>2 DEF LibraryTyped
  <2>4. "page" \in Kinds
    BY DEF Kinds
  <2>5. LibraryFits(page', wire')
    BY <1>1, <2>1, <2>3, <2>4, AskingFits
  <2>  QED  BY <1>2, <2>5 DEF LibraryInv
<1>  QED  BY <1>3, <1>4

LEMMA RefreshFits ==
  ASSUME LibraryInv, (\E recover \in BOOLEAN : RefreshLibrary(recover)) \/ RetryList
  PROVE  LibraryInv'
<1>1. LibraryTyped(page) /\ Answered(page, wire) /\ \A r \in wire : r.q \in Queries
  BY DEF LibraryInv, LibraryFits
<1>2. world' = world /\ \E kinds, recover : Asking(page, kinds, recover)
  BY DEF RefreshLibrary, RetryList
<1>3. LibraryFits(page', wire')
  BY <1>1, <1>2, AskingFits
<1>  QED  BY <1>2, <1>3 DEF LibraryInv

(* A list that went past its last page is asked for the last one.           *)
LEMMA PageArrivedFits == ASSUME LibraryInv, PageArrived PROVE LibraryInv'
<1>1. /\ LibraryTyped(page) /\ Answered(page, wire) /\ \A s \in wire : s.q \in Queries
      /\ world \in [Keys -> Nat]
  BY DEF LibraryInv, LibraryFits
<1>2. PICK r \in wire :
        LET matches == world[Key(r.q)]
            last    == IF matches = 0 THEN 1 ELSE matches
        IN  /\ r.kind = "page" /\ world' = world
            /\ \/ /\ r.q.sort = "ip"
                  /\ Arrived(r, [page EXCEPT !.rows = r.q, !.total = page.base,
                         !.next = IF PlaceOf(r.q) < matches
                                  THEN [key |-> Key(r.q), place |-> PlaceOf(r.q) + 1]
                                  ELSE NoOne])
               \/ Arrived(r, [page EXCEPT !.rows = r.q, !.total = matches])
               \/ /\ r.q.page > last
                  /\ Follow([page EXCEPT !.q.page = last, !.busy = @ \ {"page"}])
  BY DEF PageArrived, Of
<1>  DEFINE matches == world[Key(r.q)]
            last    == IF matches = 0 THEN 1 ELSE matches
<1>3. /\ r.q \in Queries /\ Key(r.q) \in Keys /\ matches \in Nat /\ last \in Nat
      /\ r.kind = "page"
  BY <1>1, <1>2, KeyOfQuery
<1>4. CASE /\ r.q.sort = "ip"
           /\ Arrived(r, [page EXCEPT !.rows = r.q, !.total = page.base,
                         !.next = IF PlaceOf(r.q) < matches
                                  THEN [key |-> Key(r.q), place |-> PlaceOf(r.q) + 1]
                                  ELSE NoOne])
  <2>  DEFINE next == IF PlaceOf(r.q) < matches
                      THEN [key |-> Key(r.q), place |-> PlaceOf(r.q) + 1] ELSE NoOne
              p    == [page EXCEPT !.rows = r.q, !.total = page.base, !.next = next]
  <2>1. next \in Cursors
    <3>1. PlaceOf(r.q) \in Nat
      BY <1>3 DEF PlaceOf, Queries, Cursors
    <3>  QED  BY <1>3, <3>1 DEF Cursors
  <2>2. Arrived(r, p)
    BY <1>4
  <2>  HIDE DEF next
  <2>3. /\ \A f \in LibraryFields : f \in DOMAIN p
        /\ p.q = page.q /\ p.typed = page.typed /\ p.past = page.past
        /\ p.trails = page.trails /\ p.active = page.active
        /\ p.visible = page.visible /\ p.rows = r.q /\ p.next = next
        /\ p.busy = page.busy /\ p.failed = page.failed
    BY <1>1 DEF LibraryTyped, LibraryFields
  <2>  HIDE DEF p
  <2>4. LibraryTyped(p)
    BY <1>1, <2>1, <2>3 DEF LibraryTyped
  <2>5. LibraryFits(page', wire')
    BY <1>3, <2>2, <2>3, <2>4, ArrivedFits
  <2>  QED  BY <1>2, <2>5 DEF LibraryInv
<1>5. CASE Arrived(r, [page EXCEPT !.rows = r.q, !.total = matches])
  <2>  DEFINE p == [page EXCEPT !.rows = r.q, !.total = matches]
  <2>1. /\ \A f \in LibraryFields : f \in DOMAIN p
        /\ p.q = page.q /\ p.typed = page.typed /\ p.past = page.past
        /\ p.trails = page.trails /\ p.active = page.active
        /\ p.visible = page.visible /\ p.rows = r.q /\ p.next = page.next
        /\ p.busy = page.busy /\ p.failed = page.failed
    BY <1>1 DEF LibraryTyped, LibraryFields
  <2>2. Arrived(r, p)
    BY <1>5
  <2>  HIDE DEF p
  <2>3. LibraryTyped(p)
    BY <1>1, <2>1 DEF LibraryTyped
  <2>4. LibraryFits(page', wire')
    BY <1>3, <2>1, <2>2, <2>3, ArrivedFits
  <2>  QED  BY <1>2, <2>4 DEF LibraryInv
<1>6. CASE /\ r.q.page > last
           /\ Follow([page EXCEPT !.q.page = last, !.busy = @ \ {"page"}])
  <2>  DEFINE q == [page.q EXCEPT !.page = last]
              p == [page EXCEPT !.q.page = last, !.busy = @ \ {"page"}]
  <2>1. Follow(p) /\ r.q.page > last
    BY <1>6
  <2>2. last \in Nat /\ r.q.page \in Nat /\ r.q.page # last
    BY <1>3, <2>1 DEF Queries
  <2>  HIDE DEF last
  <2>3. q \in Queries /\ q.page = last
    BY <1>1, <2>2 DEF LibraryTyped, Queries
  <2>4. /\ \A f \in LibraryFields : f \in DOMAIN p
        /\ p.q = q /\ p.typed = page.typed /\ p.past = page.past
        /\ p.trails = page.trails /\ p.active = page.active
        /\ p.visible = page.visible /\ p.rows = page.rows /\ p.next = page.next
        /\ p.busy = page.busy \ {"page"} /\ p.failed = page.failed
    BY <1>1 DEF LibraryTyped, LibraryFields
  <2>  HIDE DEF p, q
  <2>5. LibraryTyped(p)
    BY <1>1, <2>3, <2>4 DEF LibraryTyped
  <2>6. CASE IsVisible(page)
    <3>1. r.q = page.q
      BY <1>1, <1>3, <2>6 DEF Answered
    <3>2. p.q # page.q
      BY <2>2, <2>3, <2>4, <3>1
    <3>3. LibraryFits(page', wire')
      BY <2>1, <2>4, <2>5, <3>2, FollowFits
    <3>  QED  BY <1>2, <3>3 DEF LibraryInv
  <2>7. CASE ~IsVisible(page)
    <3>1. ~IsVisible(p)
      BY <2>4, <2>7 DEF IsVisible
    <3>2. LibraryFits(page', wire')
      BY <1>1, <2>1, <2>5, <3>1, HiddenFollowFits
    <3>  QED  BY <1>2, <3>2 DEF LibraryInv
  <2>  QED  BY <2>6, <2>7
<1>  QED  BY <1>2, <1>4, <1>5, <1>6

LEMMA OtherAnswersFit ==
  ASSUME LibraryInv, CountArrived \/ FacetsArrived \/ LibraryReadFailed
  PROVE  LibraryInv'
<1>1. LibraryTyped(page) /\ world' = world
  BY DEF LibraryInv, LibraryFits, CountArrived, FacetsArrived, LibraryReadFailed
<1>2. CASE CountArrived
  <2>1. PICK r \in wire : /\ r.kind = "count"
                          /\ Arrived(r, [page EXCEPT !.count = [key |-> Key(r.q), total |-> world[Key(r.q)]]])
    BY <1>2 DEF CountArrived, Of
  <2>  DEFINE count == [key |-> Key(r.q), total |-> world[Key(r.q)]]
              p     == [page EXCEPT !.count = count]
  <2>2. Arrived(r, p)
    BY <2>1
  <2>  HIDE DEF count
  <2>3. /\ \A f \in LibraryFields : f \in DOMAIN p
        /\ p.q = page.q /\ p.typed = page.typed /\ p.past = page.past
        /\ p.trails = page.trails /\ p.active = page.active
        /\ p.visible = page.visible /\ p.rows = page.rows /\ p.next = page.next
        /\ p.busy = page.busy /\ p.failed = page.failed
    BY <1>1 DEF LibraryTyped, LibraryFields
  <2>  HIDE DEF p
  <2>4. LibraryTyped(p)
    BY <1>1, <2>3 DEF LibraryTyped
  <2>5. LibraryFits(page', wire')
    BY <2>1, <2>2, <2>3, <2>4, ArrivedFits
  <2>  QED  BY <1>1, <2>5 DEF LibraryInv
<1>3. CASE FacetsArrived
  <2>1. PICK r \in wire :
          /\ r.kind = "facets"
          /\ Arrived(r, IF <<Key(r.q), r.tags>> = <<Key(page.q), page.tagPage>>
                        THEN [page EXCEPT !.facets = [key |-> Key(r.q), tags |-> r.tags]]
                        ELSE page)
    BY <1>3 DEF FacetsArrived, Of
  <2>  DEFINE facets == [key |-> Key(r.q), tags |-> r.tags]
              due    == <<Key(r.q), r.tags>> = <<Key(page.q), page.tagPage>>
              p      == IF due THEN [page EXCEPT !.facets = facets] ELSE page
  <2>2. Arrived(r, p)
    BY <2>1
  <2>  HIDE DEF facets, due
  <2>3. /\ \A f \in LibraryFields : f \in DOMAIN p
        /\ p.q = page.q /\ p.typed = page.typed /\ p.past = page.past
        /\ p.trails = page.trails /\ p.active = page.active
        /\ p.visible = page.visible /\ p.rows = page.rows /\ p.next = page.next
        /\ p.busy = page.busy /\ p.failed = page.failed
    BY <1>1 DEF LibraryTyped, LibraryFields
  <2>  HIDE DEF p
  <2>4. LibraryTyped(p)
    BY <1>1, <2>3 DEF LibraryTyped
  <2>5. LibraryFits(page', wire')
    BY <2>1, <2>2, <2>3, <2>4, ArrivedFits
  <2>  QED  BY <1>1, <2>5 DEF LibraryInv
<1>4. CASE LibraryReadFailed
  <2>1. PICK r \in wire : Arrived(r, [page EXCEPT !.failed = @ \cup {r.kind}])
    BY <1>4 DEF LibraryReadFailed
  <2>  DEFINE p == [page EXCEPT !.failed = @ \cup {r.kind}]
  <2>2. Arrived(r, p)
    BY <2>1
  <2>3. /\ \A f \in LibraryFields : f \in DOMAIN p
        /\ p.q = page.q /\ p.typed = page.typed /\ p.past = page.past
        /\ p.trails = page.trails /\ p.active = page.active
        /\ p.visible = page.visible /\ p.rows = page.rows /\ p.next = page.next
        /\ p.busy = page.busy /\ p.failed = page.failed \cup {r.kind}
    BY <1>1 DEF LibraryTyped, LibraryFields
  <2>  HIDE DEF p
  <2>4. LibraryTyped(p)
    BY <1>1, <2>3 DEF LibraryTyped
  <2>5. r.kind = "page" => "page" \in p.failed
    BY <2>3
  <2>6. LibraryFits(page', wire')
    BY <2>2, <2>3, <2>4, <2>5, ArrivedFits
  <2>  QED  BY <1>1, <2>6 DEF LibraryInv
<1>  QED  BY <1>2, <1>3, <1>4

LEMMA MovesFit == ASSUME LibraryInv, LibraryMoves PROVE LibraryInv'
<1>1. PICK k \in Keys, n \in 0..MaxPages : world' = [world EXCEPT ![k] = n]
  BY DEF LibraryMoves
<1>2. n \in Nat /\ page' = page /\ wire' = wire
  <2>1. MaxPages \in Nat
    BY LibraryAssumption
  <2>2. n \in Nat
    BY <2>1
  <2>3. page' = page /\ wire' = wire
    BY DEF LibraryMoves
  <2>  QED  BY <2>2, <2>3
<1>3. world' \in [Keys -> Nat]
  BY <1>1, <1>2 DEF LibraryInv
<1>  QED  BY <1>2, <1>3 DEF LibraryInv

LEMMA LibraryStep == ASSUME LibraryInv, LibraryNext PROVE LibraryInv'
<1>1. CASE LibraryUser
  BY <1>1, TypeSearchFits, FiltersFit, RefreshFits, TagPageFits, NextPageFits, PreviousPageFits,
     PageNumberFits, GoBackFits, LibraryTabFits, VisibilityFits, MovesFit
     DEF LibraryUser
<1>2. CASE LibraryRuns
  BY <1>2, FiltersFit, PageArrivedFits, OtherAnswersFit DEF LibraryRuns
<1>  QED  BY <1>1, <1>2 DEF LibraryNext
LEMMA LibraryUnchanged == ASSUME LibraryInv, UNCHANGED pageVars PROVE LibraryInv'
<1>1. page' = page /\ wire' = wire /\ world' = world
  BY DEF pageVars
<1>  QED  BY <1>1 DEF LibraryInv

LEMMA LibraryHolds == ConsoleSpec => [](Shows("library") => LibraryInv)
<1>1. ConsoleInit => (Shows("library") => LibraryInv)
  BY StartOfPage, LibraryStart
<1>2. (Shows("library") => LibraryInv) /\ [ConsoleNext]_pageVars
        => (Shows("library") => LibraryInv)'
  <2>  SUFFICES ASSUME Shows("library") => LibraryInv, [ConsoleNext]_pageVars, Shows("library")'
                PROVE  LibraryInv'
    OBVIOUS
  <2>1. focus = "library"
    BY FocusStays DEF Shows
  <2>2. [LibraryNext]_pageVars
    BY <2>1 DEF ConsoleNext, Shows
  <2>3. CASE LibraryNext
    BY <2>1, <2>3, LibraryStep DEF Shows
  <2>4. CASE UNCHANGED pageVars
    BY <2>1, <2>4, LibraryUnchanged DEF Shows
  <2>  QED  BY <2>2, <2>3, <2>4
<1>  QED  BY <1>1, <1>2, PTL DEF ConsoleSpec

LEMMA CountsAnswer ==
  ASSUME LibraryInv
  PROVE  FreezeCountsFilter
<1>  SUFFICES ASSUME IsVisible(page), CanFreeze(page)
              PROVE  IF page.q.sort = "ip" THEN page.count.key = Key(page.q)
                     ELSE page.rows # NoOne /\ page.rows.sort # "ip" /\ Key(page.rows) = Key(page.q)
  BY DEF FreezeCountsFilter
<1>1. page.q \in Queries
  BY DEF LibraryInv, LibraryFits, LibraryTyped
<1>2. CASE page.q.sort = "ip"
  BY <1>2 DEF CanFreeze, TotalCount
<1>3. CASE page.q.sort # "ip"
  <2>1. page.rows = page.q
    BY DEF LibraryInv, LibraryFits, Answered, CanFreeze
  <2>  QED  BY <1>1, <1>3, <2>1, LibraryAssumption
<1>  QED  BY <1>2, <1>3

(* The number on the button that freezes all matches counted the filter the *)
(* button would freeze (serverBulkUi.ts:1-4, useServers.ts:386-398).       *)
THEOREM FreezeCountsItsFilter == ConsoleSpec => []FreezeCountsFilter
<1>1. (Shows("library") => LibraryInv) => FreezeCountsFilter
  <2>1. ~Shows("library") => FreezeCountsFilter
    BY DEF FreezeCountsFilter
  <2>  QED  BY <2>1, CountsAnswer
<1>  QED  BY <1>1, LibraryHolds, PTL

LEMMA PoolMarked ==
  ASSUME CandInv
  PROVE  PoolMarksAreInFlight
<1>1. /\ page.adding <=> \E r \in wire : Adder(r)
      /\ page.switching <=> \E r \in wire : Switcher(r)
      /\ page.removing # NoOne => ~page.adding /\ ~page.switching
  BY DEF CandInv, PoolFollows
<1>2. {page.removing} = IF Of("remove") = {} THEN {NoOne} ELSE {r.of : r \in Of("remove")}
  <2>1. CASE Of("remove") = {}
    BY <2>1 DEF CandInv, PoolFollows, Remover, Of
  <2>2. CASE Of("remove") # {}
    <3>1. \A r \in Of("remove") : r.of = page.removing
      BY DEF CandInv, PoolFollows, Remover, Of
    <3>  QED  BY <2>2, <3>1
  <2>  QED  BY <2>1, <2>2
<1>  QED  BY <1>1, <1>2 DEF PoolMarksAreInFlight, Adder, Switcher

(* A control that says its operation runs is right, on the list of          *)
(* instances (no mark is left over), the domains and the candidates of a    *)
(* domain (a mark neither stays longer nor goes earlier)                    *)
(* (ConsoleContext.tsx:189-204, LbPage.tsx:114-126,                         *)
(* DomainCandidatesDialog.tsx:150-209).                                     *)
THEOREM MarksTellWhatRuns == ConsoleSpec => []MarksAreInFlight
<1>1. (Shows("workspace") => WorkInv) => PendingIsInFlight
  BY DEF WorkInv, MarksFollow, PendingIsInFlight, Of
<1>2. (Shows("lb") => LbInv /\ SyncInv) => SyncingIsInFlight
  BY SyncMarked
<1>3. (Shows("candidates") => CandInv) => PoolMarksAreInFlight
  <2>1. CASE Shows("candidates")
    BY <2>1, PoolMarked
  <2>2. CASE ~Shows("candidates")
    BY <2>2 DEF PoolMarksAreInFlight
  <2>  QED  BY <2>1, <2>2
<1>4. PendingIsInFlight /\ SyncingIsInFlight /\ PoolMarksAreInFlight => MarksAreInFlight
  BY DEF MarksAreInFlight
<1>  QED  BY <1>1, <1>2, <1>3, <1>4, WorkHolds, LbHolds, CandHolds, PTL

-----------------------------------------------------------------------------
(* What is on the screen answers the question the screen asks, on the six   *)
(* pages that ask one that can change while its answer is on its way        *)
(* (Detail.tsx:199-219, useServerImport.ts:96-116, useServers.ts:175-215,   *)
(* ProbeJobsPanel.tsx:136-174, LbPage.tsx:505-517,                          *)
(* DomainCandidatesDialog.tsx:92-140).                                      *)
THEOREM AnswersToTheQuestion == ConsoleSpec => []AnswersBelong
<1>1. (Shows("detail") => ProxiesInv) => ProxiesOfShown
  BY DEF ProxiesInv, ProxiesFollow, ProxiesOfShown, ProxyPanel
<1>2. (Shows("import") => ImportInv) => RowsOfShown
  BY DEF ImportInv, ImportFits, FailuresFollow, RowsOfShown
<1>3. (Shows("library") => LibraryInv) => ListAnswersItsQuery
  BY DEF LibraryInv, LibraryFits, Answered, ListAnswersItsQuery
<1>4. (Shows("jobs") => PanelInv) => DetailOfItsFilter
  BY DEF PanelInv, PanelFollows, PanelSettled, DetailOfItsFilter, OnScreen, Of
<1>5. (Shows("lb") => LbInv /\ SyncInv) => RecordsOfInspected
  BY DEF LbInv, ShownFor, RecordsOfInspected
<1>6. (Shows("candidates") => CandInv) => RowsAnswerTheQuestion
  BY DEF CandInv, RowsFollow, RowsAnswerTheQuestion
<1>7. ProxiesOfShown /\ RowsOfShown /\ ListAnswersItsQuery /\ FreezeCountsFilter
        /\ DetailOfItsFilter /\ RecordsOfInspected /\ RowsAnswerTheQuestion => AnswersBelong
  BY DEF AnswersBelong
<1>  QED
  BY <1>1, <1>2, <1>3, <1>4, <1>5, <1>6, <1>7, FreezeCountsItsFilter, DetailHolds, ImportHolds,
     LibraryHolds, PanelHolds, LbHolds, CandHolds, PTL

=============================================================================
