------------------------------- MODULE LbPage -------------------------------
(***************************************************************************)
(* The domains of the load balancer (pages/LbPage.tsx, lib/lbDomainView.ts): *)
(* a list that is read every fifteen seconds and searched in the browser,  *)
(* a dialog with the records of the domain the address names, dialogs that *)
(* create, edit and delete domains, and a sync per domain.                 *)
(*                                                                         *)
(* The address is the browser's at once and the page's with a later        *)
(* render, so what is computed from the page's address may be behind.      *)
(***************************************************************************)
EXTENDS Page

CONSTANTS
    Domains,     \* domains, named by what a search text can be; one that is
                 \* created again under its name stands for the old one
    States       \* values of the filter by state: "all", "on", "off"

\* The absence of a domain is told from a domain.
ASSUME DomainsAssumption == NoOne \notin Domains

ASSUME StatesAssumption == States \subseteq {"all", "on", "off"}

TheList == [of |-> NoOne, q |-> "", state |-> "all"]

----------------------------------------------------------------------------
(* What is shown *)

\* A text finds the domain of that name; the empty one finds all.
Found(p) ==
    {d \in p.list.there :
        /\ p.text \in {"", d}
        /\ p.at.state # "all" => (p.at.state = "off" <=> d \in p.list.off)}

Inspected(p) == IF p.at.of \in p.list.there THEN p.at.of ELSE NoOne

Overtaken(reqs) == {IF r.kind = "domains" THEN [r EXCEPT !.last = FALSE] ELSE r : r \in reqs}

\* load: only the reading that was asked for last is heard.
Loading(reqs, frees) ==
    Overtaken(reqs) \cup {[kind |-> "domains", last |-> TRUE, frees |-> frees]}

\* Sensitivity check of RecordsOfInspected: an effect that has no cleanup.
HeardBeside(reqs) == reqs

\* The effect of the records' dialog is cleaned up: late answers are dropped.
HeardHere(reqs) == {r \in reqs : r.kind \notin {"records", "logs"}}

(* The records and the logs are read when the dialog opens on a domain.    *)
Inspects(p, reqs) ==
    LET d == Inspected(p)
    IN  IF d = Inspected(page) THEN page' = p /\ wire' = reqs
        ELSE /\ page' = [p EXCEPT !.records = NoOne, !.logs = NoOne]
             /\ wire' = HeardHere(reqs) \cup
                  (IF d = NoOne THEN {} ELSE {[kind |-> k, of |-> d] : k \in {"records", "logs"}})

----------------------------------------------------------------------------
(* The address *)

\* Sensitivity check of SyncingIsInFlight: a sync is over before the list is read.
FreesEarly(p, d) == [p EXCEPT !.syncing = {}]

Frees(p, d) == [p EXCEPT !.syncing = @ \ {d}]

Goes(p, type, at) ==
    [p EXCEPT !.past = IF type = "replace" THEN Append(Front(@), at) ELSE Append(@, at),
              !.coming = Append(@, [type |-> type, at |-> at])]

\* A router's render may leave out the ones that came before.
AddressSettles ==
    \E i \in DOMAIN page.coming :
        LET to    == page.coming[i]
            again == to.type # page.type \/ to.at.q # page.at.q
            p     == [page EXCEPT !.at = to.at, !.type = to.type,
                                  !.coming = SubSeq(@, i + 1, Len(@)),
                                  !.text = IF again /\ to.type # "replace" THEN to.at.q ELSE @]
        IN  Inspects(p, wire) /\ UNCHANGED world

Steers == Len(page.coming) < MaxWire[focus]

\* A dialog covers the page: only the browser's own buttons are left.
NoDialog  == page.editing = NoOne /\ page.managing = NoOne /\ page.deleting = NoOne
NoModal == NoDialog /\ Inspected(page) = NoOne

SearchDomains ==
    /\ Steers /\ NoModal
    /\ \E w \in Domains \cup {""} :
          /\ w # page.text
          /\ page' = Goes([page EXCEPT !.text = w], "replace", [page.at EXCEPT !.q = w])
    /\ UNCHANGED <<wire, world>>

\* A filter takes the text that is typed along.
FilterDomains ==
    /\ Steers /\ NoModal
    /\ \E s \in States \ {page.at.state} :
          page' = Goes(page, "push", [page.at EXCEPT !.state = s, !.q = page.text])
    /\ UNCHANGED <<wire, world>>

ClearFilters ==
    /\ Steers /\ NoModal /\ (page.text # "" \/ page.at.state # "all")
    /\ page' = Goes([page EXCEPT !.text = ""], "push", [page.at EXCEPT !.q = "", !.state = "all"])
    /\ UNCHANGED <<wire, world>>

OpenDetails ==
    /\ Steers /\ NoModal
    /\ \E d \in Found(page) : page' = Goes(page, "push", [page.at EXCEPT !.of = d, !.q = page.text])
    /\ UNCHANGED <<wire, world>>

CloseDetails ==
    /\ Steers /\ NoDialog /\ Inspected(page) # NoOne
    /\ page' = Goes(page, "push", [page.at EXCEPT !.of = NoOne, !.q = page.text])
    /\ UNCHANGED <<wire, world>>

BackInHistory ==
    /\ Steers /\ Len(page.past) > 1
    /\ LET past == Front(page.past)
       IN  page' = [page EXCEPT !.past = past, !.coming = Append(@, [type |-> "pop", at |-> Last(past)])]
    /\ UNCHANGED <<wire, world>>

----------------------------------------------------------------------------
(* Reading *)

LoadDomains ==
    /\ Room
    /\ wire' = Loading(wire, NoOne)
    /\ page' = [page EXCEPT !.refreshing = TRUE]
    /\ UNCHANGED world

RefreshDomains == NoModal /\ ~page.refreshing /\ LoadDomains

(* A reading shows what is there when its answer comes; one that belongs to *)
(* a sync ends it, also when it is not heard.                               *)
DomainsShown ==
    \E r \in Of("domains"), lost \in BOOLEAN :
        /\ LET p == Frees(page, r.frees)
           IN  Inspects([p EXCEPT !.list = IF r.last /\ ~lost THEN world ELSE @,
                                  !.loaded = @ \/ (r.last /\ ~lost),
                                  !.error = IF r.last THEN lost ELSE @,
                                  !.refreshing = @ /\ ~r.last], wire \ {r})
        /\ UNCHANGED world

RecordsArrived ==
    \E r \in Of("records") \cup Of("logs"), lost \in BOOLEAN :
        /\ page' = IF lost THEN page
                   ELSE IF r.kind = "records" THEN [page EXCEPT !.records = r.of]
                   ELSE [page EXCEPT !.logs = r.of]
        /\ wire' = wire \ {r}
        /\ UNCHANGED world

----------------------------------------------------------------------------
(* The sync of a domain *)

SyncNow ==
    /\ Room /\ NoModal
    /\ \E d \in Found(page) \ page.syncing :
          /\ page' = [page EXCEPT !.syncing = @ \cup {d}]
          /\ wire' = wire \cup {[kind |-> "sync", of |-> d]}
    /\ UNCHANGED world

SyncAnswered ==
    \E r \in Of("sync"), lost \in BOOLEAN :
        /\ lost \/ r.of \in world.there
        /\ page' = IF lost THEN Frees(page, r.of) ELSE [page EXCEPT !.refreshing = TRUE]
        /\ wire' = IF lost THEN wire \ {r} ELSE Loading(wire \ {r}, r.of)
        /\ UNCHANGED world

----------------------------------------------------------------------------
(* The dialogs *)

OpenDomain ==
    /\ NoModal
    /\ \/ page.loaded /\ page' = [page EXCEPT !.editing = "new"]
       \/ \E d \in Found(page) : page' = [page EXCEPT !.editing = d]
       \/ \E d \in Found(page) : page' = [page EXCEPT !.managing = d]
       \/ \E d \in Found(page) : page' = [page EXCEPT !.deleting = d]
    /\ UNCHANGED <<wire, world>>

\* A dialog that is closed while it saves is not there for a failure.
Unmounted(reqs) == {IF r.kind = "save" THEN [r EXCEPT !.here = FALSE] ELSE r : r \in reqs}

CloseDomain ==
    /\ ~NoDialog
    /\ page' = [page EXCEPT !.editing = NoOne, !.managing = NoOne, !.deleting = NoOne, !.saving = FALSE]
    /\ wire' = Unmounted(wire)
    /\ UNCHANGED world

SubmitDomain ==
    /\ page.editing # NoOne /\ ~page.saving /\ Room
    /\ page' = [page EXCEPT !.saving = TRUE]
    /\ \E d \in Domains, on \in BOOLEAN :
          /\ page.editing \in {"new", d}
          /\ wire' = wire \cup {[kind |-> "save", of |-> d, new |-> page.editing = "new",
                                 on |-> on, here |-> TRUE, done |-> FALSE]}
    /\ UNCHANGED world

DomainStored ==
    \E r \in Of("save") :
        /\ ~r.done /\ (r.new <=> r.of \notin world.there)
        /\ world' = [there |-> world.there \cup {r.of},
                     off |-> IF r.on THEN world.off \ {r.of} ELSE world.off \cup {r.of}]
        /\ wire' = (wire \ {r}) \cup {[r EXCEPT !.done = TRUE]}
        /\ UNCHANGED page

\* Whichever dialog is open now is closed; a new domain gets its candidates.
DomainSaved ==
    \E r \in Of("save") :
        /\ r.done
        /\ page' = [page EXCEPT !.editing = NoOne, !.saving = FALSE, !.refreshing = TRUE,
                                !.managing = IF r.new THEN r.of ELSE @]
        /\ wire' = Loading(Unmounted(wire \ {r}), NoOne)
        /\ UNCHANGED world

DomainNotSaved ==
    \E r \in Of("save") :
        /\ page' = [page EXCEPT !.saving = @ /\ ~r.here]
        /\ wire' = wire \ {r}
        /\ UNCHANGED world

\* The question closes as it is confirmed.
ConfirmDeletion ==
    /\ page.deleting # NoOne /\ Room
    /\ page' = [page EXCEPT !.deleting = NoOne]
    /\ wire' = wire \cup {[kind |-> "delete", of |-> page.deleting, done |-> FALSE]}
    /\ UNCHANGED world

DomainDeleted ==
    \E r \in Of("delete") :
        /\ ~r.done /\ r.of \in world.there
        /\ world' = [there |-> world.there \ {r.of}, off |-> world.off \ {r.of}]
        /\ wire' = (wire \ {r}) \cup {[r EXCEPT !.done = TRUE]}
        /\ UNCHANGED page

DeletionShown ==
    \E r \in Of("delete"), lost \in BOOLEAN :
        /\ lost \/ r.done
        /\ page' = IF lost THEN page ELSE [page EXCEPT !.deleting = NoOne, !.refreshing = TRUE]
        /\ wire' = IF lost THEN wire \ {r} ELSE Loading(wire \ {r}, NoOne)
        /\ UNCHANGED world

----------------------------------------------------------------------------
FreshList(at) ==
    [list |-> [there |-> {}, off |-> {}], loaded |-> FALSE, refreshing |-> TRUE, error |-> FALSE,
     at |-> at, type |-> "pop", coming |-> <<>>, past |-> <<at>>, text |-> "",
     records |-> NoOne, logs |-> NoOne, syncing |-> {},
     editing |-> NoOne, saving |-> FALSE, managing |-> NoOne, deleting |-> NoOne]

LbInit ==
    /\ focus = "lb" /\ deeds = 0
    /\ \E d \in Domains \cup {NoOne} : page = FreshList([TheList EXCEPT !.of = d])
    /\ wire = Loading({}, NoOne)
    /\ \E there \in SUBSET Domains : world = [there |-> there, off |-> {}]

LbUser ==
    \/ SearchDomains \/ FilterDomains \/ ClearFilters \/ OpenDetails \/ CloseDetails \/ BackInHistory
    \/ RefreshDomains \/ SyncNow \/ OpenDomain \/ CloseDomain \/ SubmitDomain \/ ConfirmDeletion

LbRuns ==
    \/ AddressSettles \/ LoadDomains \/ DomainsShown \/ RecordsArrived
    \/ SyncAnswered \/ DomainStored \/ DomainSaved \/ DomainNotSaved \/ DomainDeleted
    \/ DeletionShown

LbNext == \/ UserActs /\ LbUser
          \/ Runs /\ LbRuns

LbSpec == LbInit /\ [][LbNext]_pageVars

----------------------------------------------------------------------------
(* The records and the logs that are shown are those of the domain the      *)
(* address names, however the address and the list changed since they were  *)
(* asked for.                                                               *)
RecordsOfInspected ==
    Shows("lb") => {page.records, page.logs} \subseteq {NoOne, Inspected(page)}

(* The button of a domain is taken exactly while its sync runs or the list  *)
(* is read after it: another sync, a deletion or a later reading neither    *)
(* frees it early nor leaves it taken.                                      *)
SyncingIsInFlight ==
    Shows("lb") =>
        page.syncing = {r.of : r \in Of("sync")} \cup
                       ({r.frees : r \in Of("domains")} \ {NoOne})
=============================================================================
