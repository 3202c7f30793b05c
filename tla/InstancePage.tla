---------------------------- MODULE InstancePage ----------------------------
(***************************************************************************)
(* The page of one instance (pages/Detail.tsx): its details, logs, proxies *)
(* and audit records, each read by an effect of its own.  The context      *)
(* replaces its list of instances with every summary, so effects that      *)
(* depend on the instance run again; a tab is first selected and then      *)
(* written to the address, which resets the page.                          *)
(***************************************************************************)
EXTENDS Page

CONSTANTS Owned     \* the instances whose page is visited

Tabs == {"logs", "config", "proxies", "audit"}

FreshDetail == [at |-> NoOne, known |-> {}, tab |-> "logs", url |-> "logs", detail |-> NoOne,
                detailLoading |-> FALSE, logs |-> NoOne, logsLoading |-> FALSE,
                paused |-> FALSE, keyword |-> FALSE, audits |-> {}, drafts |-> NoOne]

\* What the servers hold: the instances, and those some audit record is about.
DetailInit == Opens("detail", FreshDetail, [insts |-> Owned, audited |-> {}])

Shown(p) == IF p.at \in p.known THEN p.at ELSE NoOne

Reads(kind, i) == [kind |-> kind, inst |-> i]

----------------------------------------------------------------------------
(* What is shown *)

LogsPanel ==
    IF page.logs # NoOne THEN "lines" ELSE IF page.keyword THEN "no match" ELSE "no logs"

ProxyPanel ==
    IF page.detailLoading THEN "loading" ELSE IF page.detail = NoOne THEN "unavailable"
    ELSE IF page.drafts = NoOne THEN "not parsed" ELSE "rows"

AuditPanel == {i \in page.audits : i = Shown(page)}

----------------------------------------------------------------------------
(* Effects: q is the state to be rendered, `again` says that the context    *)
(* has replaced its instances.                                              *)

Reset(q) ==
    IF q.url = page.url /\ Shown(q) = Shown(page) THEN q
    ELSE [q EXCEPT !.tab = q.url, !.logs = NoOne, !.keyword = FALSE, !.audits = {},
                   !.paused = FALSE, !.drafts = NoOne]

DetailRead(q) ==
    IF Shown(q) # Shown(page) /\ Shown(q) # NoOne THEN {Reads("detail", Shown(q))} ELSE {}

AuditRead(q) ==
    IF q.tab = "audit" /\ Shown(q) # NoOne /\ (page.tab # "audit" \/ Shown(q) # Shown(page))
    THEN {Reads("audit", Shown(q))} ELSE {}

LogsRead(q, again) ==
    IF /\ q.tab = "logs" /\ Shown(q) # NoOne /\ ~q.paused
       /\ \/ again \/ page.tab # "logs" \/ page.paused
          \/ q.keyword # page.keyword \/ Shown(q) # Shown(page)
    THEN {Reads("logs", Shown(q))} ELSE {}

\* Sensitivity check of ProxiesOfShown: the ended effect is not cancelled.
ProxiesReadUncancelled(q, again, w) ==
    w \cup (IF Shown(q) # NoOne /\ q.tab = "proxies" THEN {Reads("proxies", Shown(q))} ELSE {})

ProxiesRead(q, again, w) ==
    IF ~again /\ q.tab = page.tab /\ Shown(q) = Shown(page) THEN w
    ELSE {r \in w : r.kind # "proxies"} \cup
         (IF Shown(q) # NoOne /\ q.tab = "proxies" THEN {Reads("proxies", Shown(q))} ELSE {})

RendersDetail(p, again, w) ==
    LET q == Reset(p)
        reads == DetailRead(q) \cup AuditRead(q) \cup LogsRead(q, again)
    IN  /\ page' = [q EXCEPT
              !.detail = IF Shown(q) = NoOne THEN NoOne ELSE @,
              !.detailLoading = @ \/ DetailRead(q) # {},
              !.logsLoading = @ \/ LogsRead(q, again) # {}]
        /\ wire' = ProxiesRead(q, again, w) \cup reads

----------------------------------------------------------------------------
(* The user and the context *)

VisitInstance(i) ==
    /\ i # page.at /\ Room
    /\ \E t \in {"logs", "config"} :
          RendersDetail([page EXCEPT !.at = i, !.url = t], FALSE, wire)
    /\ UNCHANGED world

\* Two renders: the tab now, the address and its reset a moment later.
SelectTab(t) ==
    /\ Shown(page) # NoOne /\ t # page.tab /\ Room
    /\ RendersDetail([page EXCEPT !.tab = t], FALSE, wire \cup {Reads("address", t)})
    /\ UNCHANGED world

AddressFollows ==
    \E r \in Of("address") :
        /\ RendersDetail([page EXCEPT !.url = r.inst], FALSE, wire \ {r})
        /\ UNCHANGED world

SummaryReplaced ==
    /\ Room
    /\ RendersDetail([page EXCEPT !.known = world.insts], TRUE, wire)
    /\ UNCHANGED world

PauseLogs ==
    /\ Shown(page) # NoOne /\ page.tab = "logs"
    /\ RendersDetail([page EXCEPT !.paused = ~@], FALSE, wire)
    /\ UNCHANGED world

ClearView ==
    /\ Shown(page) # NoOne /\ page.tab = "logs" /\ LogsPanel = "lines"
    /\ page' = [page EXCEPT !.logs = NoOne]
    /\ UNCHANGED <<wire, world>>

ApplyKeyword ==
    /\ Shown(page) # NoOne /\ page.tab = "logs"
    /\ RendersDetail([page EXCEPT !.keyword = ~@], FALSE, wire)
    /\ UNCHANGED world

Refresh ==
    /\ Shown(page) # NoOne /\ Room
    /\ \/ /\ page.tab = "logs" /\ ~page.paused /\ ~page.logsLoading
          /\ wire' = wire \cup {Reads("logs", Shown(page))}
          /\ page' = [page EXCEPT !.logsLoading = TRUE]
       \/ /\ page.tab = "audit" /\ AuditPanel = {}
          /\ wire' = wire \cup {Reads("audit", Shown(page))} /\ UNCHANGED page
    /\ UNCHANGED world

----------------------------------------------------------------------------
(* Answers: only the one about proxies is dropped when its effect has ended *)

DetailArrived ==
    \E r \in Of("detail") :
        /\ page' = [page EXCEPT !.detailLoading = FALSE,
                                !.detail = IF r.inst \in world.insts THEN r.inst ELSE NoOne]
        /\ wire' = wire \ {r} /\ UNCHANGED world

LogsArrived ==
    \E r \in Of("logs"), ok \in BOOLEAN :
        /\ page' = [page EXCEPT !.logsLoading = FALSE, !.logs = IF ok THEN r.inst ELSE @]
        /\ wire' = wire \ {r} /\ UNCHANGED world

AuditArrived ==
    \E r \in Of("audit") :
        /\ page' = [page EXCEPT !.audits = world.audited]
        /\ wire' = wire \ {r} /\ UNCHANGED world

ProxiesArrived ==
    \E r \in Of("proxies"), ok \in BOOLEAN :
        /\ page' = [page EXCEPT !.drafts = IF ok THEN r.inst ELSE NoOne]
        /\ wire' = wire \ {r} /\ UNCHANGED world

ServersMove ==
    /\ \E i \in world.insts :
          world' = [insts |-> world.insts \ {i}, audited |-> world.audited \cup {i}]
    /\ UNCHANGED <<page, wire>>

DetailUser ==
    \/ \E i \in Owned : VisitInstance(i)
    \/ \E t \in Tabs : SelectTab(t)
    \/ PauseLogs \/ ClearView \/ ApplyKeyword \/ Refresh
    \/ SummaryReplaced \/ ServersMove

DetailRuns == AddressFollows \/ DetailArrived \/ LogsArrived \/ AuditArrived \/ ProxiesArrived

DetailNext == \/ UserActs /\ DetailUser
              \/ Runs /\ DetailRuns

DetailSpec == DetailInit /\ [][DetailNext]_pageVars

----------------------------------------------------------------------------
(* The proxies in the table are those of the instance in the heading, in    *)
(* whatever order instances and tabs are visited, summaries replace the    *)
(* list and configurations arrive.                                          *)
ProxiesOfShown ==
    Shows("detail") /\ page.tab = "proxies" /\ ProxyPanel = "rows" => page.drafts = Shown(page)
=============================================================================
