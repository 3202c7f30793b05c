------------------------------ MODULE DomainSync ------------------------------
(***************************************************************************)
(* DNS load balancing: one domain whose managed A record the Console keeps *)
(* on a healthy candidate, src/webui/backend/app/lb.  sync_domain and      *)
(* _finish in syncer.py, run_due_syncs in scheduler.py, the health monitor *)
(* in health.py, selection_for_domain in selection.py, the operations of   *)
(* router.py and store.py on the domain, and those of probe/store.py on    *)
(* the servers it may point to.  Other domains share only the lock.        *)
(*                                                                         *)
(* Every writer of DNS records, of the domain's row and of its candidates  *)
(* takes sync_lock first, except the creation of the row.  A step is what  *)
(* the lock's holder does between two calls of Cloudflare, or one          *)
(* transaction.  A call that fails may have been carried out: the answer   *)
(* was lost, or timed out; it has no effect later than that.  Records      *)
(* without the mark of this system are never touched and are left out.     *)
(*                                                                         *)
(* Ranking by observations is left open: any healthy candidate may be the  *)
(* best one, unless one is pinned.  Likewise when a domain is due.         *)
(*                                                                         *)
(* Variables                                                               *)
(*   library  ids in probe_servers                                         *)
(*   host     the address of each server, without its port                 *)
(*   domain   the row of lb_domains and its rows of lb_domain_servers      *)
(*   dns      addresses of the managed A records of the domain's name      *)
(*   fails    consecutive failed health checks, up to the threshold        *)
(*   call     the synchronisation each thread is about to do or is doing   *)
(*   run      progress of the thread that holds sync_lock                  *)
(*   torn     history: a deletion or a synchronisation ended in the middle *)
(*            since the last synchronisation that went well                *)
(***************************************************************************)
EXTENDS Naturals

CONSTANTS
  Servers,        \* ids of the server library
  Hosts,          \* addresses
  Requests,       \* requests of the panel; one that ended may stand for a later one
  Scheduler,      \* the scheduler's thread
  FailThreshold,  \* failed checks that make an address unhealthy (2)
  MaxDomains,     \* bound: how often a domain of this name is created
  NoOne

Calls == [id : Nat, want : Servers \cup {NoOne}]

ASSUME SyncAssumption ==
  /\ NoOne \notin Servers \cup Hosts \cup Requests \cup {Scheduler} \cup Calls
  /\ Scheduler \notin Requests
  /\ FailThreshold \in Nat \ {0} /\ MaxDomains \in Nat

VARIABLES library, host, domain, dns, fails, call, run, torn

world == <<library, host, domain, dns, fails, call, run, torn>>

Threads == Requests \cup {Scheduler}

Rows ==
  [ id : Nat, exists : BOOLEAN, enabled : BOOLEAN, scheduled : BOOLEAN, pool : SUBSET Servers,
    preferred : Servers \cup {NoOne}, current : Hosts \cup {NoOne}, ok : BOOLEAN ]

Runs ==
  [ step   : {"idle", "list", "create", "remove", "find", "wipe"},
    by     : Threads \cup {NoOne},
    want   : Servers \cup {NoOne},     \* target_server_id
    server : Servers \cup {NoOne},     \* selection["bestServerId"]
    target : Hosts \cup {NoOne},       \* target_ip
    seen   : Rows \cup {NoOne},        \* the row read under the lock
    todo   : SUBSET Hosts,             \* listed records still to be deleted
    failed : BOOLEAN ]                 \* errors

TypeOK ==
  /\ library \subseteq Servers /\ host \in [Servers -> Hosts]
  /\ domain \in Rows /\ dns \subseteq Hosts
  /\ fails \in [Hosts -> 0..FailThreshold]
  /\ call \in [Threads -> Calls \cup {NoOne}]
  /\ run \in Runs /\ torn \in BOOLEAN

Idle == [step |-> "idle", by |-> NoOne, want |-> NoOne, server |-> NoOne, target |-> NoOne,
         seen |-> NoOne, todo |-> {}, failed |-> FALSE]

Absent(id) == [id |-> id, exists |-> FALSE, enabled |-> FALSE, scheduled |-> FALSE, pool |-> {},
               preferred |-> NoOne, current |-> NoOne, ok |-> FALSE]

Init ==
  /\ library = Servers /\ host \in [Servers -> Hosts]
  /\ domain = Absent(0) /\ dns \in SUBSET Hosts
  /\ fails = [h \in Hosts |-> 0]
  /\ call = [c \in Threads |-> NoOne] /\ run = Idle /\ torn = FALSE

LockFree == run.step = "idle"

Healthy(h) == fails[h] < FailThreshold

HealthyPool == {s \in domain.pool : Healthy(host[s])}

\* The candidates that may be the best one, NoOne when none is healthy.
Best ==
  IF domain.preferred \in HealthyPool THEN {domain.preferred}
  ELSE IF HealthyPool = {} THEN {NoOne}
  ELSE HealthyPool

HostOf(s) == IF s = NoOne THEN NoOne ELSE host[s]

-----------------------------------------------------------------------------
(***************************************************************************)
(* Who asks for a synchronisation.                                         *)
(***************************************************************************)

\* The scheduler checks an address.  It does so in the thread that synchronises.
Checked(h, up) ==
  /\ call[Scheduler] = NoOne
  /\ fails' = [fails EXCEPT ![h] = IF up THEN 0 ELSE IF @ = FailThreshold THEN @ ELSE @ + 1]
  /\ UNCHANGED <<library, host, domain, dns, call, run, torn>>

\* Mutant: only a move of the best address is noted, a domain that is due is not.
SchedulerNotesMoves ==
  /\ call[Scheduler] = NoOne
  /\ domain.exists /\ domain.enabled
  /\ \E s \in Best \ {NoOne} : host[s] # domain.current
  /\ call' = [call EXCEPT ![Scheduler] = [id |-> domain.id, want |-> NoOne]]
  /\ UNCHANGED <<library, host, domain, dns, fails, run, torn>>

\* The scheduler notes an enabled domain that is due, or whose best address is
\* another one than the stored one.
SchedulerNotes ==
  /\ call[Scheduler] = NoOne
  /\ domain.exists /\ domain.enabled
  /\ domain.scheduled \/ \E s \in Best \ {NoOne} : host[s] # domain.current
  /\ call' = [call EXCEPT ![Scheduler] = [id |-> domain.id, want |-> NoOne]]
  /\ UNCHANGED <<library, host, domain, dns, fails, run, torn>>

\* A request to synchronise, or to switch to a server.
Ask(c, s) ==
  /\ call[c] = NoOne /\ domain.exists
  /\ call' = [call EXCEPT ![c] = [id |-> domain.id, want |-> s]]
  /\ UNCHANGED <<library, host, domain, dns, fails, run, torn>>

-----------------------------------------------------------------------------
(***************************************************************************)
(* A synchronisation.                                                      *)
(***************************************************************************)

\* What mark_sync_result stores of a result that is not ok.
Unsynced(row) == [domain EXCEPT !.ok = FALSE, !.current = row.current]

\* The lock is taken, and the domain is no longer there.
EnterGone(c) ==
  /\ LockFree /\ call[c] # NoOne
  /\ ~(domain.exists /\ domain.id = call[c].id)
  /\ call' = [call EXCEPT ![c] = NoOne]
  /\ UNCHANGED <<library, host, domain, dns, fails, run, torn>>

\* The requested server is not a healthy candidate.
EnterRefused(c) ==
  /\ LockFree /\ call[c] # NoOne
  /\ domain.exists /\ domain.id = call[c].id
  /\ call[c].want # NoOne /\ call[c].want \notin HealthyPool
  /\ domain' = Unsynced(domain)
  /\ call' = [call EXCEPT ![c] = NoOne]
  /\ UNCHANGED <<library, host, dns, fails, run, torn>>

\* The domain and its candidates are read again, and the target is chosen.
Enter(c) ==
  /\ LockFree /\ call[c] # NoOne
  /\ domain.exists /\ domain.id = call[c].id
  /\ call[c].want \in HealthyPool \cup {NoOne}
  /\ \E s \in IF call[c].want # NoOne THEN {call[c].want} ELSE Best :
       run' = [Idle EXCEPT !.step = "list", !.by = c, !.want = call[c].want, !.server = s,
                           !.target = HostOf(s), !.seen = domain]
  /\ UNCHANGED <<library, host, domain, dns, fails, call, torn>>

\* The lock is given back.
Leave == /\ run' = Idle
         /\ call' = [call EXCEPT ![run.by] = NoOne]

\* The records are listed.  Without candidates all of them are deleted.
Listed ==
  /\ run.step = "list"
  /\ run.target # NoOne \/ run.seen.pool = {}
  /\ run' = [run EXCEPT !.step = IF run.target \in dns \cup {NoOne} THEN "remove" ELSE "create",
                        !.todo = dns \ {run.target}]
  /\ UNCHANGED <<library, host, domain, dns, fails, call, torn>>

\* The records stay as they are.
NotChanged ==
  /\ domain' = Unsynced(run.seen)
  /\ Leave
  /\ UNCHANGED <<library, host, dns, fails, torn>>

\* No candidate is healthy.
AllUnhealthy ==
  /\ run.step = "list" /\ run.target = NoOne /\ run.seen.pool # {}
  /\ NotChanged

ListFails == run.step = "list" /\ NotChanged

Create ==
  /\ run.step = "create"
  /\ dns' = dns \cup {run.target}
  /\ run' = [run EXCEPT !.step = "remove"]
  /\ UNCHANGED <<library, host, domain, fails, call, torn>>

\* Mutant: the old records are deleted even so.
CreateFailsBlindly ==
  /\ run.step = "create"
  /\ dns' \in {dns, dns \cup {run.target}}
  /\ run' = [run EXCEPT !.step = "remove", !.failed = TRUE]
  /\ UNCHANGED <<library, host, domain, fails, call, torn>>

\* Without the new record the old ones are kept.
CreateFails ==
  /\ run.step = "create"
  /\ dns' \in {dns, dns \cup {run.target}}
  /\ run' = [run EXCEPT !.step = "remove", !.todo = {}, !.failed = TRUE]
  /\ UNCHANGED <<library, host, domain, fails, call, torn>>

Remove(h) ==
  /\ run.step = "remove" /\ h \in run.todo
  /\ dns' = dns \ {h}
  /\ run' = [run EXCEPT !.todo = @ \ {h}]
  /\ UNCHANGED <<library, host, domain, fails, call, torn>>

\* Mutant: a record that may still be there is taken for deleted.
RemoveFailsUnnoticed(h) ==
  /\ run.step = "remove" /\ h \in run.todo
  /\ dns' \in {dns, dns \ {h}}
  /\ run' = [run EXCEPT !.todo = @ \ {h}]
  /\ UNCHANGED <<library, host, domain, fails, call, torn>>

RemoveFails(h) ==
  /\ run.step = "remove" /\ h \in run.todo
  /\ dns' \in {dns, dns \ {h}}
  /\ run' = [run EXCEPT !.todo = @ \ {h}, !.failed = TRUE]
  /\ UNCHANGED <<library, host, domain, fails, call, torn>>

\* Mutants: the address is pinned instead of the server; a fallback keeps the pin.
NewPinAddress ==
  IF run.seen.pool = {} THEN NoOne
  ELSE IF run.want # NoOne THEN run.target
  ELSE IF run.seen.preferred \notin {NoOne, run.server} THEN NoOne
  ELSE domain.preferred

NewPinKept ==
  IF run.seen.pool = {} THEN NoOne
  ELSE IF run.want # NoOne THEN run.want
  ELSE domain.preferred

\* The pin after a synchronisation that went well: a switch pins its server, and
\* a fallback from a pinned server that is not healthy ends the pin.
NewPin ==
  IF run.seen.pool = {} THEN NoOne
  ELSE IF run.want # NoOne THEN run.want
  ELSE IF run.seen.preferred \notin {NoOne, run.server} THEN NoOne
  ELSE domain.preferred

\* The result is stored.  A pin on a server that is no candidate is an error.
Finish ==
  /\ run.step = "remove" /\ run.todo = {}
  /\ domain' = IF run.failed THEN Unsynced(run.seen)
               ELSE IF run.want # NoOne /\ run.want \notin domain.pool THEN domain
               ELSE [domain EXCEPT !.ok = TRUE, !.current = run.target, !.preferred = NewPin]
  /\ torn' = (torn /\ run.failed)
  /\ Leave
  /\ UNCHANGED <<library, host, dns, fails>>

-----------------------------------------------------------------------------
(***************************************************************************)
(* What the operator does to the domain and to the servers.                *)
(***************************************************************************)

\* The only writer of the row that does not take the lock; the name is unique.
CreateDomain(S, enabled, scheduled) ==
  /\ ~domain.exists /\ domain.id < MaxDomains /\ S \subseteq library
  /\ domain' = [Absent(domain.id + 1) EXCEPT !.exists = TRUE, !.enabled = enabled,
                                             !.scheduled = scheduled, !.pool = S]
  /\ UNCHANGED <<library, host, dns, fails, call, run, torn>>

UpdateDomain(enabled, scheduled) ==
  /\ LockFree /\ domain.exists
  /\ domain' = [domain EXCEPT !.enabled = enabled, !.scheduled = scheduled]
  /\ UNCHANGED <<library, host, dns, fails, call, run, torn>>

\* An edit that names a group replaces the candidates, and fails when it would
\* leave the pin without its server.
ReplaceCandidates(S) ==
  /\ LockFree /\ domain.exists
  /\ S \subseteq library /\ domain.preferred \in S \cup {NoOne}
  /\ domain' = [domain EXCEPT !.pool = S]
  /\ UNCHANGED <<library, host, dns, fails, call, run, torn>>

AddCandidates(S) ==
  /\ LockFree /\ domain.exists /\ S \subseteq library
  /\ domain' = [domain EXCEPT !.pool = @ \cup S]
  /\ UNCHANGED <<library, host, dns, fails, call, run, torn>>

\* Mutant: the pin stays behind.
WithoutButPin(S) == [domain EXCEPT !.pool = @ \ S]

\* The candidates without S, and the pin if it was one of them.
Without(S) == [domain EXCEPT !.pool = @ \ S, !.preferred = IF @ \in S THEN NoOne ELSE @]

RemoveCandidates(S) ==
  /\ LockFree /\ domain.exists /\ S \subseteq library
  /\ domain' = Without(S)
  /\ UNCHANGED <<library, host, dns, fails, call, run, torn>>

EditServer(s, h) ==
  /\ LockFree /\ s \in library
  /\ host' = [host EXCEPT ![s] = h]
  /\ UNCHANGED <<library, domain, dns, fails, call, run, torn>>

\* Mutant: servers are deleted in the middle of a synchronisation.
DeleteServersAnytime(S) ==
  /\ S \subseteq library
  /\ library' = library \ S /\ domain' = Without(S)
  /\ UNCHANGED <<host, dns, fails, call, run, torn>>

\* Candidate rows and the pin go with the server.
DeleteServers(S) ==
  /\ LockFree /\ S \subseteq library
  /\ library' = library \ S /\ domain' = Without(S)
  /\ UNCHANGED <<host, dns, fails, call, run, torn>>

DeleteDomain ==
  /\ LockFree /\ domain.exists
  /\ domain' = Absent(domain.id)
  /\ UNCHANGED <<library, host, dns, fails, call, run, torn>>

\* Deletion with the records: they are listed and deleted one by one, and the
\* first failure ends it.
StartWipe ==
  /\ LockFree /\ domain.exists
  /\ run' = [Idle EXCEPT !.step = "find"]
  /\ UNCHANGED <<library, host, domain, dns, fails, call, torn>>

Found ==
  /\ run.step = "find"
  /\ \/ run' = [run EXCEPT !.step = "wipe", !.todo = dns]
     \/ run' = Idle
  /\ UNCHANGED <<library, host, domain, dns, fails, call, torn>>

Wipe(h) ==
  /\ run.step = "wipe" /\ h \in run.todo
  /\ dns' = dns \ {h}
  /\ run' = [run EXCEPT !.todo = @ \ {h}]
  /\ UNCHANGED <<library, host, domain, fails, call, torn>>

WipeFails(h) ==
  /\ run.step = "wipe" /\ h \in run.todo
  /\ dns' \in {dns, dns \ {h}}
  /\ run' = Idle /\ torn' = TRUE
  /\ UNCHANGED <<library, host, domain, fails, call>>

Wiped ==
  /\ run.step = "wipe" /\ run.todo = {}
  /\ domain' = Absent(domain.id) /\ run' = Idle
  /\ UNCHANGED <<library, host, dns, fails, call, torn>>

-----------------------------------------------------------------------------
\* The Console restarts: threads, lock and health are gone, and the call that was
\* under way may have been carried out.
Restart ==
  /\ run' = Idle /\ call' = [c \in Threads |-> NoOne]
  /\ fails' = [h \in Hosts |-> 0]
  /\ \/ dns' = dns
     \/ run.step = "create" /\ dns' = dns \cup {run.target}
     \/ run.step \in {"remove", "wipe"} /\ \E h \in run.todo : dns' = dns \ {h}
  /\ torn' = (torn \/ run.step \in {"create", "remove", "wipe"})
  /\ UNCHANGED <<library, host, domain>>

-----------------------------------------------------------------------------
Entering(c) == EnterGone(c) \/ EnterRefused(c) \/ Enter(c)

CallFails ==
  \/ ListFails \/ CreateFails
  \/ \E h \in Hosts : RemoveFails(h)

Synchronising ==
  \/ Listed \/ AllUnhealthy \/ Create \/ Finish
  \/ \E h \in Hosts : Remove(h)

Deleting == Found \/ Wiped \/ \E h \in Hosts : Wipe(h) \/ WipeFails(h)

Checks == \E h \in Hosts, up \in BOOLEAN : Checked(h, up)

Operator ==
  \/ \E c \in Requests, s \in Servers \cup {NoOne} : Ask(c, s)
  \/ \E S \in SUBSET Servers :
       \/ \E enabled, scheduled \in BOOLEAN : CreateDomain(S, enabled, scheduled)
       \/ ReplaceCandidates(S) \/ AddCandidates(S) \/ RemoveCandidates(S) \/ DeleteServers(S)
  \/ \E enabled, scheduled \in BOOLEAN : UpdateDomain(enabled, scheduled)
  \/ \E s \in Servers, h \in Hosts : EditServer(s, h)
  \/ DeleteDomain \/ StartWipe

Next ==
  \/ SchedulerNotes
  \/ \E c \in Threads : Entering(c)
  \/ Synchronising \/ CallFails \/ Deleting
  \/ Checks \/ Operator \/ Restart

Spec == Init /\ [][Next]_world

\* The scheduler's loop looks at the domain every 30 seconds, a thread that waits
\* for a lock nobody holds gets it, and every call of Cloudflare ends, well or not,
\* within its timeout.
FairSpec ==
  /\ Spec
  /\ WF_world(SchedulerNotes)
  /\ \A c \in Threads : WF_world(Entering(c))
  /\ WF_world(Synchronising \/ CallFails) /\ WF_world(Deleting)

-----------------------------------------------------------------------------
(***************************************************************************)
(* Properties.                                                             *)
(***************************************************************************)

\* A pin names a candidate, and candidates are servers that exist, whatever is
\* removed from the domain or from the library (store.py:354).
PinIsCandidate ==
  /\ domain.preferred \in domain.pool \cup {NoOne}
  /\ domain.pool \subseteq library

\* While a synchronisation runs, everything it decided on stays what it was: the
\* row it read, the domain it was asked for, its target among the candidates and
\* the target's address (coordination.py:1).
RowHeld ==
  run.step \in {"list", "create", "remove"} =>
    /\ domain.exists /\ run.seen = domain
    /\ call[run.by] = [id |-> domain.id, want |-> run.want]
    /\ run.server # NoOne => run.server \in domain.pool /\ run.target = host[run.server]

\* What the row says of a synchronisation that went well is what is published: one
\* record, the stored address, or none.  It says so until records are deleted in
\* vain or the Console dies in the middle (syncer.py:3).
SavedIsPublished ==
  domain.ok /\ ~torn /\ run.step \in {"idle", "list", "find"} =>
    dns = {domain.current} \ {NoOne}

\* The last record is not taken from a domain that has candidates, except by the
\* deletion of the domain: the new record is there before the old one goes, and a
\* failure between the two leaves more, never less (syncer.py:126).
NeverDangling ==
  [][dns # {} /\ dns' = {} => domain.pool = {} \/ run.step = "wipe"]_world

\* A step that moves the pin or the stored address leaves the address of the pinned
\* server stored: neither a late synchronisation nor a fallback publishes one
\* server under the pin of another (syncer.py:52).
PinPublished ==
  [][domain'.preferred # NoOne /\
     (domain'.preferred # domain.preferred \/ domain'.current # domain.current)
       => domain'.current = host'[domain'.preferred]]_world

\* From some time on only the threads that synchronise or delete take steps, and no
\* call of a synchronisation fails: nobody touches the domain or its servers, no
\* server changes its health and the Console does not restart.
Calm == <>[][SchedulerNotes \/ (\E c \in Threads : Entering(c)) \/ Synchronising \/ Deleting]_world

Published == HealthyPool # {} => \E s \in HealthyPool : dns = {host[s]}

\* A domain that is synchronised on schedule comes to one record of a healthy
\* candidate, whatever was left behind before (scheduler.py:5).
Converges ==
  Calm => []<>(domain.exists /\ domain.enabled /\ domain.scheduled => Published)
=============================================================================
