--------------------------- MODULE DomainSyncProofs ---------------------------
(***************************************************************************)
(* Proofs about DomainSync, for any servers, addresses, requests,          *)
(* threshold and number of domains.                                        *)
(*                                                                         *)
(* RowHeld says that nothing under the lock's holder changes; the rest of  *)
(* the invariant says how far it has come:                                 *)
(*   TargetChosen   what it decided                                        *)
(*   RecordsKnown   what it knows of the records while it replaces them    *)
(***************************************************************************)
EXTENDS DomainSync, TLAPS

\* The target is the address of the chosen server, the requested one if there was
\* a request.  There is none only for a domain without candidates.
TargetChosen ==
  run.step \in {"list", "create", "remove"} =>
    /\ run.by \in Threads
    /\ run.target = HostOf(run.server)
    /\ run.want # NoOne => run.server = run.want
    /\ run.step # "list" /\ run.target = NoOne => run.seen.pool = {}
    /\ run.step \in {"list", "create"} => ~run.failed

\* Until a call fails the records are those still to be deleted and the target;
\* nothing is deleted unless the target is there.
RecordsKnown ==
  /\ run.step = "create" => run.target \in Hosts \ dns /\ run.todo = dns
  /\ run.step = "remove" =>
       /\ run.target \notin run.todo
       /\ ~run.failed => dns = run.todo \cup ({run.target} \ {NoOne})
       /\ run.target \notin dns \cup {NoOne} => run.todo = {}

IInv ==
  /\ TypeOK /\ PinIsCandidate /\ RowHeld
  /\ TargetChosen /\ RecordsKnown
  /\ SavedIsPublished

LEMMA NobodyFacts ==
  /\ \A s \in Servers : s # NoOne
  /\ \A h \in Hosts : h # NoOne
  /\ \A c \in Threads : c # NoOne
BY SyncAssumption DEF Threads

\* A step that leaves the run, the records and the history alone, and that changes
\* the row and the call of the lock's holder only while nobody synchronises.
LEMMA BesideTheRun ==
  ASSUME IInv, TypeOK', PinIsCandidate',
         UNCHANGED <<dns, run, torn>>,
         run.step \in {"list", "create", "remove"} =>
           UNCHANGED <<domain, host>> /\ call'[run.by] = call[run.by],
         domain'.ok => domain.ok /\ domain'.current = domain.current
  PROVE  IInv'
<1>1. RowHeld'
  BY DEF IInv, RowHeld
<1>2. TargetChosen' /\ RecordsKnown'
  BY DEF IInv, TargetChosen, RecordsKnown, HostOf
<1>3. SavedIsPublished'
  BY DEF IInv, SavedIsPublished
<1> QED BY <1>1, <1>2, <1>3 DEF IInv

\* A step that leaves the lock free, or the thread that deletes in it.
LEMMA LockGivenBack ==
  ASSUME IInv, TypeOK', PinIsCandidate', SavedIsPublished',
         run'.step \in {"idle", "find", "wipe"}
  PROVE  IInv'
<1>1. RowHeld' /\ TargetChosen' /\ RecordsKnown'
  BY DEF RowHeld, TargetChosen, RecordsKnown
<1> QED BY <1>1 DEF IInv

-----------------------------------------------------------------------------
(***************************************************************************)
(* Who asks, and what the operator does.                                   *)
(***************************************************************************)

LEMMA AskingStep ==
  ASSUME IInv,
         \/ SchedulerNotes
         \/ \E c \in Requests, s \in Servers \cup {NoOne} : Ask(c, s)
         \/ Checks
  PROVE  IInv'
<1> DEFINE Synced == run.step \in {"list", "create", "remove"}
<1>0. Synced => run.by \in Threads /\ call[run.by] # NoOne
  <2>1. Synced => call[run.by] = [id |-> domain.id, want |-> run.want]
    BY DEF IInv, RowHeld
  <2>2. [id |-> domain.id, want |-> run.want] \in Calls
    BY DEF IInv, TypeOK, Runs, Rows, Calls
  <2> QED BY <2>1, <2>2, SyncAssumption DEF IInv, TargetChosen
<1>1. ASSUME NEW c \in Threads, call[c] = NoOne, NEW r \in Calls, domain.exists,
             call' = [call EXCEPT ![c] = r],
             UNCHANGED <<library, host, domain, dns, fails, run, torn>>
      PROVE  IInv'
  <2>1. TypeOK'
    BY <1>1 DEF IInv, TypeOK
  <2>2. Synced => call'[run.by] = call[run.by]
    BY <1>0, <1>1 DEF IInv, TypeOK
  <2>3. PinIsCandidate'
    BY <1>1 DEF IInv, PinIsCandidate
  <2> QED BY <1>1, <2>1, <2>2, <2>3, BesideTheRun
<1>2. CASE SchedulerNotes
  <2>1. [id |-> domain.id, want |-> NoOne] \in Calls
    BY DEF IInv, TypeOK, Rows, Calls
  <2> QED BY <1>1, <1>2, <2>1 DEF SchedulerNotes, Threads
<1>3. ASSUME NEW c \in Requests, NEW s \in Servers \cup {NoOne}, Ask(c, s) PROVE IInv'
  <2>1. [id |-> domain.id, want |-> s] \in Calls
    BY DEF IInv, TypeOK, Rows, Calls
  <2> QED BY <1>1, <1>3, <2>1 DEF Ask, Threads
<1>4. ASSUME NEW h \in Hosts, NEW up \in BOOLEAN, Checked(h, up) PROVE IInv'
  <2>1. (IF up THEN 0 ELSE IF fails[h] = FailThreshold THEN fails[h] ELSE fails[h] + 1) \in 0..FailThreshold
    BY SyncAssumption DEF IInv, TypeOK
  <2>2. TypeOK'
    BY <1>4, <2>1 DEF Checked, IInv, TypeOK
  <2>3. PinIsCandidate'
    BY <1>4 DEF Checked, IInv, PinIsCandidate
  <2> QED BY <1>4, <2>2, <2>3, BesideTheRun DEF Checked
<1> QED BY <1>2, <1>3, <1>4 DEF Checks

\* What the operator does under the lock, and the creation of the row.
LEMMA RowStep ==
  ASSUME IInv, TypeOK', PinIsCandidate', LockFree \/ ~domain.exists,
         UNCHANGED <<dns, run, torn>>,
         domain'.ok => domain.ok /\ domain'.current = domain.current
  PROVE  IInv'
<1>1. run.step \notin {"list", "create", "remove"}
  BY DEF LockFree, IInv, RowHeld
<1> QED BY <1>1, BesideTheRun

LEMMA CreateDomainStep ==
  ASSUME IInv, NEW S \in SUBSET Servers, NEW enabled \in BOOLEAN, NEW scheduled \in BOOLEAN,
         CreateDomain(S, enabled, scheduled)
  PROVE  IInv'
<1>1. /\ domain' \in Rows /\ domain'.pool = S /\ domain'.preferred = NoOne /\ ~domain'.ok
  <2>1. Absent(domain.id + 1) \in Rows
    BY DEF Absent, Rows, IInv, TypeOK
  <2>2. /\ Absent(domain.id + 1).preferred = NoOne
        /\ Absent(domain.id + 1).ok = FALSE
    BY DEF Absent
  <2> QED BY <2>1, <2>2 DEF CreateDomain, Rows
<1>2. TypeOK' /\ PinIsCandidate'
  BY <1>1 DEF CreateDomain, IInv, TypeOK, PinIsCandidate
<1> QED BY <1>1, <1>2, RowStep DEF CreateDomain

LEMMA UpdateStep ==
  ASSUME IInv, NEW enabled \in BOOLEAN, NEW scheduled \in BOOLEAN, UpdateDomain(enabled, scheduled)
  PROVE  IInv'
<1>1. /\ domain' \in Rows /\ domain'.pool = domain.pool /\ domain'.preferred = domain.preferred
      /\ domain'.ok = domain.ok /\ domain'.current = domain.current
  BY DEF UpdateDomain, Rows, IInv, TypeOK
<1>2. TypeOK' /\ PinIsCandidate'
  BY <1>1 DEF UpdateDomain, IInv, TypeOK, PinIsCandidate
<1> QED BY <1>1, <1>2, RowStep DEF UpdateDomain

LEMMA CandidatesStep ==
  ASSUME IInv, NEW S \in SUBSET Servers, ReplaceCandidates(S) \/ AddCandidates(S)
  PROVE  IInv'
<1>1. /\ domain' \in Rows /\ domain'.pool \in {S, domain.pool \cup S}
      /\ domain'.preferred = domain.preferred /\ domain'.preferred \in domain'.pool \cup {NoOne}
      /\ domain'.ok = domain.ok /\ domain'.current = domain.current
  BY DEF ReplaceCandidates, AddCandidates, Rows, IInv, TypeOK, PinIsCandidate
<1>2. UNCHANGED <<library, host, dns, fails, call, run, torn>> /\ S \subseteq library /\ LockFree
  BY DEF ReplaceCandidates, AddCandidates
<1>3. TypeOK' /\ PinIsCandidate'
  BY <1>1, <1>2 DEF IInv, TypeOK, PinIsCandidate
<1> QED BY <1>1, <1>2, <1>3, RowStep

LEMMA WithoutStep ==
  ASSUME IInv, NEW S \in SUBSET Servers, RemoveCandidates(S) \/ DeleteServers(S)
  PROVE  IInv'
<1>1. domain' = Without(S) /\ library' \in {library, library \ S} /\ LockFree
  BY DEF RemoveCandidates, DeleteServers
<1>2. UNCHANGED <<host, dns, fails, call, run, torn>>
  BY DEF RemoveCandidates, DeleteServers
<1>3. /\ domain' \in Rows /\ domain'.pool = domain.pool \ S
      /\ domain'.preferred = IF domain.preferred \in S THEN NoOne ELSE domain.preferred
      /\ domain'.ok = domain.ok /\ domain'.current = domain.current
  BY <1>1 DEF Without, Rows, IInv, TypeOK
<1>4. TypeOK' /\ PinIsCandidate'
  BY <1>1, <1>2, <1>3 DEF IInv, TypeOK, PinIsCandidate
<1> QED BY <1>1, <1>2, <1>3, <1>4, RowStep

LEMMA EditServerStep ==
  ASSUME IInv, NEW s \in Servers, NEW h \in Hosts, EditServer(s, h)
  PROVE  IInv'
<1>1. TypeOK' /\ PinIsCandidate'
  BY DEF EditServer, IInv, TypeOK, PinIsCandidate
<1> QED BY <1>1, RowStep DEF EditServer

LEMMA AbsentRow ==
  ASSUME TypeOK
  PROVE  /\ Absent(domain.id) \in Rows /\ Absent(domain.id).pool = {}
         /\ Absent(domain.id).preferred = NoOne /\ ~Absent(domain.id).ok
BY DEF Absent, Rows, TypeOK

LEMMA DeleteDomainStep == IInv /\ DeleteDomain => IInv'
<1> SUFFICES ASSUME IInv, DeleteDomain PROVE IInv'
  OBVIOUS
<1>1. TypeOK' /\ PinIsCandidate'
  BY AbsentRow DEF DeleteDomain, IInv, TypeOK, PinIsCandidate
<1> QED BY <1>1, AbsentRow, RowStep DEF DeleteDomain, IInv

-----------------------------------------------------------------------------
(***************************************************************************)
(* The deletion of a domain with its records, and a restart.               *)
(***************************************************************************)

LEMMA DeletingStep == IInv /\ (StartWipe \/ Deleting) => IInv'
<1> SUFFICES ASSUME IInv, StartWipe \/ Deleting PROVE IInv'
  OBVIOUS
<1>1. CASE StartWipe
  <2>1. run' \in Runs /\ run'.step = "find"
    BY <1>1 DEF StartWipe, Idle, Runs
  <2>2. TypeOK' /\ PinIsCandidate' /\ SavedIsPublished'
    BY <1>1, <2>1 DEF StartWipe, LockFree, IInv, TypeOK, PinIsCandidate, SavedIsPublished
  <2> QED BY <2>1, <2>2, LockGivenBack
<1>2. CASE Found
  <2>1. CASE run' = [run EXCEPT !.step = "wipe", !.todo = dns]
    <3>1. TypeOK' /\ PinIsCandidate' /\ run'.step = "wipe"
      BY <1>2, <2>1 DEF Found, IInv, TypeOK, Runs, PinIsCandidate
    <3> QED BY <3>1, LockGivenBack DEF SavedIsPublished
  <2>2. CASE run' = Idle
    <3>1. TypeOK' /\ PinIsCandidate' /\ run'.step = "idle"
      BY <1>2, <2>2 DEF Found, IInv, TypeOK, Idle, Runs, PinIsCandidate
    <3>2. SavedIsPublished'
      BY <1>2, <2>2 DEF Found, IInv, SavedIsPublished
    <3> QED BY <3>1, <3>2, LockGivenBack
  <2> QED BY <1>2, <2>1, <2>2 DEF Found
<1>3. CASE Wiped
  <2>1. run' \in Runs /\ run'.step = "idle"
    BY <1>3 DEF Wiped, Idle, Runs
  <2>2. TypeOK' /\ PinIsCandidate' /\ SavedIsPublished'
    BY <1>3, <2>1, AbsentRow DEF Wiped, IInv, TypeOK, PinIsCandidate, SavedIsPublished
  <2> QED BY <2>1, <2>2, LockGivenBack
<1>4. ASSUME NEW h \in Hosts, Wipe(h) PROVE IInv'
  <2>1. run' \in Runs /\ run'.step = "wipe"
    BY <1>4 DEF Wipe, Runs, IInv, TypeOK
  <2>2. TypeOK' /\ PinIsCandidate' /\ SavedIsPublished'
    BY <1>4, <2>1 DEF Wipe, IInv, TypeOK, PinIsCandidate, SavedIsPublished
  <2> QED BY <2>1, <2>2, LockGivenBack
<1>5. ASSUME NEW h \in Hosts, WipeFails(h) PROVE IInv'
  <2>1. run' \in Runs /\ run'.step = "idle"
    BY <1>5 DEF WipeFails, Idle, Runs
  <2>2. TypeOK' /\ PinIsCandidate' /\ SavedIsPublished'
    BY <1>5, <2>1 DEF WipeFails, IInv, TypeOK, PinIsCandidate, SavedIsPublished
  <2> QED BY <2>1, <2>2, LockGivenBack
<1> QED BY <1>1, <1>2, <1>3, <1>4, <1>5 DEF Deleting

LEMMA RestartStep == IInv /\ Restart => IInv'
<1> SUFFICES ASSUME IInv, Restart PROVE IInv'
  OBVIOUS
<1>1. run' \in Runs /\ run'.step = "idle"
  BY DEF Restart, Idle, Runs
<1>2. dns' \subseteq Hosts
  <2>1. run.step = "create" => run.target \in Hosts
    BY DEF IInv, RecordsKnown
  <2> QED BY <2>1 DEF Restart, IInv, TypeOK, Runs
<1>3. TypeOK'
  <2>1. fails' \in [Hosts -> 0..FailThreshold]
    BY SyncAssumption DEF Restart
  <2>2. torn' \in BOOLEAN
    BY DEF Restart, IInv, TypeOK
  <2>3. call' \in [Threads -> Calls \cup {NoOne}]
    BY DEF Restart
  <2> QED BY <1>1, <1>2, <2>1, <2>2, <2>3 DEF Restart, IInv, TypeOK
<1>4. PinIsCandidate'
  BY DEF Restart, IInv, PinIsCandidate
<1>5. SavedIsPublished'
  <2>1. run.step \in {"create", "remove", "wipe"} \/ dns' = dns
    BY DEF Restart
  <2>2. run.step \in {"idle", "list", "find"} \/ torn'
    BY DEF Restart, IInv, TypeOK, Runs
  <2>3. torn \/ ~torn'  \/ run.step \in {"create", "remove", "wipe"}
    BY DEF Restart, IInv, TypeOK
  <2> QED BY <2>1, <2>2, <2>3 DEF Restart, IInv, SavedIsPublished
<1> QED BY <1>1, <1>3, <1>4, <1>5, LockGivenBack

-----------------------------------------------------------------------------
(***************************************************************************)
(* A synchronisation.                                                      *)
(***************************************************************************)

LEMMA RowsUnsynced ==
  ASSUME TypeOK, NEW r \in Rows
  PROVE  /\ Unsynced(r) \in Rows /\ ~Unsynced(r).ok
         /\ Unsynced(r).pool = domain.pool /\ Unsynced(r).preferred = domain.preferred
         /\ Unsynced(r).current = r.current
BY DEF Unsynced, Rows, TypeOK

\* The lock is given back, with the row as it is from then on.
LEMMA LeavingStep ==
  ASSUME IInv, Leave, domain' \in Rows, torn' \in BOOLEAN, UNCHANGED <<library, host, dns, fails>>,
         domain'.preferred \in domain'.pool \cup {NoOne}, domain'.pool = domain.pool,
         domain'.ok /\ ~torn' => dns = {domain'.current} \ {NoOne}
  PROVE  IInv'
<1>1. run' \in Runs /\ run'.step = "idle"
  BY DEF Leave, Idle, Runs
<1>2. call' \in [Threads -> Calls \cup {NoOne}]
  BY DEF Leave, IInv, TypeOK
<1>3. TypeOK' /\ PinIsCandidate' /\ SavedIsPublished'
  BY <1>1, <1>2 DEF IInv, TypeOK, PinIsCandidate, SavedIsPublished
<1> QED BY <1>1, <1>3, LockGivenBack

LEMMA EnteringStep ==
  ASSUME IInv, NEW c \in Threads, Entering(c)
  PROVE  IInv'
<1>1. CASE EnterGone(c)
  <2>1. TypeOK' /\ PinIsCandidate'
    BY <1>1 DEF EnterGone, IInv, TypeOK, PinIsCandidate
  <2> QED BY <1>1, <2>1, RowStep DEF EnterGone
<1>2. CASE EnterRefused(c)
  <2>1. domain' = Unsynced(domain) /\ domain \in Rows /\ TypeOK
    BY <1>2 DEF EnterRefused, IInv, TypeOK
  <2>2. TypeOK' /\ PinIsCandidate'
    BY <1>2, <2>1, RowsUnsynced DEF EnterRefused, IInv, TypeOK, PinIsCandidate
  <2> QED BY <1>2, <2>1, <2>2, RowsUnsynced, RowStep DEF EnterRefused
<1>3. CASE Enter(c)
  <2>1. PICK s \in IF call[c].want # NoOne THEN {call[c].want} ELSE Best :
          run' = [Idle EXCEPT !.step = "list", !.by = c, !.want = call[c].want, !.server = s,
                              !.target = HostOf(s), !.seen = domain]
    BY <1>3 DEF Enter
  <2>2. UNCHANGED <<library, host, domain, dns, fails, call, torn>> /\ call[c] # NoOne
        /\ domain.exists /\ domain.id = call[c].id
    BY <1>3 DEF Enter
  <2>3. call[c] \in Calls
    BY <2>2 DEF IInv, TypeOK
  <2>4. s # NoOne => s \in domain.pool
    BY <1>3, <2>1 DEF Enter, Best, HealthyPool, IInv, PinIsCandidate
  <2>5. s \in Servers \cup {NoOne} /\ HostOf(s) \in Hosts \cup {NoOne}
    BY <2>4 DEF IInv, TypeOK, Rows, HostOf
  <2>6. call[c].want # NoOne => s = call[c].want
    BY <2>1
  <2>7. /\ run' \in Runs /\ run'.step = "list" /\ run'.by = c /\ run'.want = call[c].want
        /\ run'.server = s /\ run'.target = HostOf(s) /\ run'.seen = domain /\ ~run'.failed
    BY <2>1, <2>3, <2>5 DEF Idle, Runs, Calls, IInv, TypeOK
  <2>8. TypeOK' /\ PinIsCandidate'
    BY <2>2, <2>7 DEF IInv, TypeOK, PinIsCandidate
  <2>9. RowHeld'
    <3>1. call[c] = [id |-> domain.id, want |-> call[c].want]
      BY <2>2, <2>3 DEF Calls
    <3> QED BY <2>2, <2>4, <2>7, <3>1 DEF RowHeld, HostOf
  <2>10. TargetChosen' /\ RecordsKnown'
    BY <2>2, <2>6, <2>7 DEF TargetChosen, RecordsKnown, HostOf
  <2>11. SavedIsPublished'
    BY <1>3, <2>2 DEF Enter, LockFree, IInv, SavedIsPublished
  <2> QED BY <2>8, <2>9, <2>10, <2>11 DEF IInv
<1> QED BY <1>1, <1>2, <1>3 DEF Entering

\* While a synchronisation goes on, what it decided stays.
LEMMA GoingOn ==
  ASSUME IInv, run.step \in {"list", "create", "remove"}, run'.step \in {"create", "remove"},
         run' \in Runs, dns' \subseteq Hosts,
         run' = [run EXCEPT !.step = run'.step, !.todo = run'.todo, !.failed = run'.failed],
         run'.target = NoOne => run'.seen.pool = {},
         run'.step = "create" => ~run'.failed,
         RecordsKnown',
         UNCHANGED <<library, host, domain, fails, call, torn>>
  PROVE  IInv'
<1>1. /\ run'.by = run.by /\ run'.want = run.want /\ run'.server = run.server
      /\ run'.target = run.target /\ run'.seen = run.seen
  BY DEF IInv, TypeOK, Runs
<1>2. TypeOK' /\ PinIsCandidate'
  BY DEF IInv, TypeOK, PinIsCandidate
<1>3. RowHeld'
  BY <1>1 DEF IInv, RowHeld
<1>4. TargetChosen'
  BY <1>1 DEF IInv, TargetChosen, HostOf
<1>5. SavedIsPublished'
  BY DEF SavedIsPublished
<1> QED BY <1>2, <1>3, <1>4, <1>5 DEF IInv

LEMMA ListedStep == IInv /\ Listed => IInv'
<1> SUFFICES ASSUME IInv, Listed PROVE IInv'
  OBVIOUS
<1>1. /\ run \in Runs /\ run.step = "list" /\ ~run.failed /\ dns \subseteq Hosts /\ dns' = dns
      /\ run.target # NoOne \/ run.seen.pool = {}
  BY DEF Listed, IInv, TypeOK, TargetChosen
<1>2. run' = [run EXCEPT !.step = IF run.target \in dns \cup {NoOne} THEN "remove" ELSE "create",
                         !.todo = dns \ {run.target}]
  BY DEF Listed
<1>3. /\ run' \in Runs /\ run'.todo = dns \ {run.target} /\ run'.target = run.target
      /\ run'.failed = run.failed /\ run'.seen = run.seen
      /\ run'.step = IF run.target \in dns \cup {NoOne} THEN "remove" ELSE "create"
      /\ run.target \in Hosts \cup {NoOne}
  BY <1>1, <1>2 DEF Runs
<1>4. RecordsKnown'
  <2>1. NoOne \notin dns
    BY <1>1, NobodyFacts
  <2>2. CASE run.target \in dns \cup {NoOne}
    <3>1. dns = (dns \ {run.target}) \cup ({run.target} \ {NoOne})
      BY <2>1, <2>2
    <3> QED BY <1>1, <1>3, <2>2, <3>1 DEF RecordsKnown
  <2>3. CASE run.target \notin dns \cup {NoOne}
    <3>1. dns = dns \ {run.target} /\ run.target \in Hosts \ dns
      BY <1>3, <2>3
    <3> QED BY <1>1, <1>3, <2>3, <3>1 DEF RecordsKnown
  <2> QED BY <2>2, <2>3
<1>5. run' = [run EXCEPT !.step = run'.step, !.todo = run'.todo, !.failed = run'.failed]
  BY <1>1, <1>2, <1>3 DEF Runs
<1>6. UNCHANGED <<library, host, domain, fails, call, torn>>
  BY DEF Listed
<1>7. /\ run'.step \in {"create", "remove"}
      /\ run'.target = NoOne => run'.seen.pool = {}
      /\ run'.step = "create" => ~run'.failed
  BY <1>1, <1>3
<1> QED BY <1>1, <1>3, <1>4, <1>5, <1>6, <1>7, GoingOn

LEMMA CreatingStep == IInv /\ (Create \/ CreateFails) => IInv'
<1> SUFFICES ASSUME IInv, Create \/ CreateFails PROVE IInv'
  OBVIOUS
<1>1. /\ run \in Runs /\ run.step = "create" /\ dns \subseteq Hosts
      /\ run.target \in Hosts \ dns /\ run.todo = dns
  BY DEF Create, CreateFails, IInv, TypeOK, RecordsKnown
<1>2. run.target # NoOne
  BY <1>1, NobodyFacts
<1>3. CASE Create
  <2>1. dns' = dns \cup {run.target} /\ run' = [run EXCEPT !.step = "remove"]
    BY <1>3 DEF Create
  <2>2. /\ run' \in Runs /\ run'.step = "remove" /\ run'.todo = dns /\ run'.target = run.target
        /\ run'.failed = run.failed
    BY <1>1, <2>1 DEF Runs
  <2>3. RecordsKnown'
    BY <1>1, <1>2, <2>1, <2>2 DEF RecordsKnown
  <2> QED BY <1>1, <1>2, <1>3, <2>1, <2>2, <2>3, GoingOn DEF Create
<1>4. CASE CreateFails
  <2>1. /\ dns' \in {dns, dns \cup {run.target}}
        /\ run' = [run EXCEPT !.step = "remove", !.todo = {}, !.failed = TRUE]
    BY <1>4 DEF CreateFails
  <2>2. /\ run' \in Runs /\ run'.step = "remove" /\ run'.todo = {} /\ run'.target = run.target
        /\ run'.failed = TRUE
    BY <1>1, <2>1 DEF Runs
  <2>3. RecordsKnown'
    BY <2>2 DEF RecordsKnown
  <2> QED BY <1>1, <1>2, <1>4, <2>1, <2>2, <2>3, GoingOn DEF CreateFails
<1> QED BY <1>3, <1>4

LEMMA RemovingStep ==
  ASSUME IInv, NEW h \in Hosts, Remove(h) \/ RemoveFails(h)
  PROVE  IInv'
<1>1. /\ run \in Runs /\ run.step = "remove" /\ dns \subseteq Hosts /\ h \in run.todo
      /\ run.target = NoOne => run.seen.pool = {}
  <2>1. run.step = "remove" /\ h \in run.todo
    BY DEF Remove, RemoveFails
  <2> QED BY <2>1 DEF IInv, TypeOK, TargetChosen
<1>2. /\ run.target \notin run.todo
      /\ ~run.failed => dns = run.todo \cup ({run.target} \ {NoOne})
      /\ run.target \notin dns \cup {NoOne} => run.todo = {}
  BY <1>1 DEF IInv, RecordsKnown
<1>3. CASE Remove(h)
  <2>1. dns' = dns \ {h} /\ run' = [run EXCEPT !.todo = run.todo \ {h}]
    BY <1>3 DEF Remove
  <2>2. /\ run' \in Runs /\ run'.step = "remove" /\ run'.todo = run.todo \ {h}
        /\ run'.target = run.target /\ run'.failed = run.failed /\ run'.seen = run.seen
    BY <1>1, <2>1 DEF Runs
  <2>3. RecordsKnown'
    BY <1>1, <1>2, <2>1, <2>2 DEF RecordsKnown
  <2> QED BY <1>1, <1>3, <2>1, <2>2, <2>3, GoingOn DEF Remove
<1>4. CASE RemoveFails(h)
  <2>1. /\ dns' \in {dns, dns \ {h}}
        /\ run' = [run EXCEPT !.todo = run.todo \ {h}, !.failed = TRUE]
    BY <1>4 DEF RemoveFails
  <2>2. /\ run' \in Runs /\ run'.step = "remove" /\ run'.todo = run.todo \ {h}
        /\ run'.target = run.target /\ run'.failed = TRUE /\ run'.seen = run.seen
    BY <1>1, <2>1 DEF Runs
  <2>3. RecordsKnown'
    BY <1>1, <1>2, <2>1, <2>2 DEF RecordsKnown
  <2> QED BY <1>1, <1>4, <2>1, <2>2, <2>3, GoingOn DEF RemoveFails
<1> QED BY <1>3, <1>4

LEMMA NotChangedStep == IInv /\ (ListFails \/ AllUnhealthy) => IInv'
<1> SUFFICES ASSUME IInv, ListFails \/ AllUnhealthy PROVE IInv'
  OBVIOUS
<1>1. run.step = "list" /\ NotChanged
  BY DEF ListFails, AllUnhealthy
<1>2. domain' = Unsynced(run.seen) /\ run.seen = domain /\ domain \in Rows /\ TypeOK
  BY <1>1 DEF NotChanged, IInv, RowHeld, TypeOK
<1>3. domain.preferred \in domain.pool \cup {NoOne} /\ torn' = torn /\ torn \in BOOLEAN
  BY <1>1 DEF NotChanged, IInv, PinIsCandidate, TypeOK
<1> QED BY <1>1, <1>2, <1>3, RowsUnsynced, LeavingStep DEF NotChanged

\* What a synchronisation that went well stores: the address that is published, and
\* a pin only on the server that has it.
LEMMA FinishFacts ==
  ASSUME IInv, Finish
  PROVE  \/ domain' = Unsynced(domain) /\ torn' = torn
         \/ /\ domain' = [domain EXCEPT !.ok = TRUE, !.current = run.target, !.preferred = NewPin]
            /\ dns = {run.target} \ {NoOne} /\ ~torn'
            /\ NewPin \in domain.pool \cup {NoOne}
            /\ NewPin # NoOne => run.target = host[NewPin]
<1>1. /\ run.step = "remove" /\ run.todo = {} /\ run \in Runs /\ domain \in Rows /\ torn \in BOOLEAN
      /\ run.seen = domain
  BY DEF Finish, IInv, TypeOK, RowHeld
<1>2. CASE run.failed
  BY <1>1, <1>2 DEF Finish
<1>3. CASE ~run.failed
  <2>1. /\ run.server # NoOne => run.server \in domain.pool /\ run.target = host[run.server]
        /\ run.want # NoOne => run.server = run.want
        /\ dns = run.todo \cup ({run.target} \ {NoOne})
    BY <1>1, <1>3 DEF IInv, RowHeld, TargetChosen, RecordsKnown
  <2>2. run.want # NoOne => run.want \in domain.pool
    BY <2>1
  <2>3. domain' = [domain EXCEPT !.ok = TRUE, !.current = run.target, !.preferred = NewPin] /\ ~torn'
    BY <1>1, <1>3, <2>2 DEF Finish
  <2>4. NewPin \in domain.pool \cup {NoOne} /\ (NewPin # NoOne => run.target = host[NewPin])
    <3>1. domain.preferred \in domain.pool \cup {NoOne}
      BY DEF IInv, PinIsCandidate
    <3>2. NewPin \in {NoOne, run.want} \/ (NewPin = domain.preferred /\ domain.preferred \in {NoOne, run.server})
      BY <1>1 DEF NewPin
    <3> QED BY <2>1, <3>1, <3>2
  <2> QED BY <1>1, <2>1, <2>3, <2>4
<1> QED BY <1>2, <1>3

LEMMA FinishStep == IInv /\ Finish => IInv'
<1> SUFFICES ASSUME IInv, Finish PROVE IInv'
  OBVIOUS
<1>1. Leave /\ UNCHANGED <<library, host, dns, fails>>
  BY DEF Finish
<1>2. domain \in Rows /\ TypeOK /\ torn \in BOOLEAN /\ run.target \in Hosts \cup {NoOne}
  BY DEF IInv, TypeOK, Runs
<1>3. domain.preferred \in domain.pool \cup {NoOne} /\ domain.pool \subseteq Servers
  BY <1>2 DEF IInv, PinIsCandidate, Rows
<1>4. CASE domain' = Unsynced(domain) /\ torn' = torn
  BY <1>1, <1>2, <1>3, <1>4, RowsUnsynced, LeavingStep
<1>5. CASE /\ domain' = [domain EXCEPT !.ok = TRUE, !.current = run.target, !.preferred = NewPin]
           /\ dns = {run.target} \ {NoOne} /\ ~torn'
           /\ NewPin \in domain.pool \cup {NoOne}
  <2>1. /\ domain' \in Rows /\ domain'.pool = domain.pool /\ domain'.preferred = NewPin
        /\ domain'.current = run.target
    BY <1>2, <1>3, <1>5 DEF Rows
  <2>2. torn' \in BOOLEAN
    BY <1>2 DEF Finish, IInv, TypeOK, Runs
  <2> QED BY <1>1, <1>5, <2>1, <2>2, LeavingStep
<1> QED BY <1>4, <1>5, FinishFacts

-----------------------------------------------------------------------------
(***************************************************************************)
(* The theorems.                                                           *)
(***************************************************************************)

LEMMA InitOK == Init => IInv
<1> SUFFICES ASSUME Init PROVE IInv
  OBVIOUS
<1>1. run = Idle /\ run \in Runs /\ run.step = "idle"
  BY DEF Init, Idle, Runs
<1>2. domain = Absent(0) /\ domain \in Rows /\ domain.pool = {} /\ domain.preferred = NoOne /\ ~domain.ok
  BY DEF Init, Absent, Rows
<1>3. TypeOK
  <2>1. fails \in [Hosts -> 0..FailThreshold]
    BY SyncAssumption DEF Init
  <2>2. call \in [Threads -> Calls \cup {NoOne}]
    BY DEF Init
  <2> QED BY <1>1, <1>2, <2>1, <2>2 DEF Init, TypeOK
<1>4. PinIsCandidate /\ SavedIsPublished
  BY <1>2 DEF PinIsCandidate, SavedIsPublished
<1>5. RowHeld /\ TargetChosen /\ RecordsKnown
  BY <1>1 DEF RowHeld, TargetChosen, RecordsKnown
<1> QED BY <1>3, <1>4, <1>5 DEF IInv

LEMMA OperatorStep == IInv /\ Operator => IInv'
<1> SUFFICES ASSUME IInv, Operator PROVE IInv'
  OBVIOUS
<1>1. ASSUME NEW S \in SUBSET Servers,
             \/ \E enabled, scheduled \in BOOLEAN : CreateDomain(S, enabled, scheduled)
             \/ ReplaceCandidates(S) \/ AddCandidates(S) \/ RemoveCandidates(S) \/ DeleteServers(S)
      PROVE  IInv'
  BY <1>1, CreateDomainStep, CandidatesStep, WithoutStep
<1>2. CASE \E enabled, scheduled \in BOOLEAN : UpdateDomain(enabled, scheduled)
  BY <1>2, UpdateStep
<1>3. CASE \E s \in Servers, h \in Hosts : EditServer(s, h)
  BY <1>3, EditServerStep
<1>4. CASE \E c \in Requests, s \in Servers \cup {NoOne} : Ask(c, s)
  BY <1>4, AskingStep
<1> QED BY <1>1, <1>2, <1>3, <1>4, DeleteDomainStep, DeletingStep DEF Operator

LEMMA StepOK == IInv /\ [Next]_world => IInv'
<1> SUFFICES ASSUME IInv, [Next]_world PROVE IInv'
  OBVIOUS
<1>1. CASE UNCHANGED world
  BY <1>1 DEF world, IInv, TypeOK, PinIsCandidate, RowHeld, TargetChosen, RecordsKnown, SavedIsPublished, HostOf
<1>2. CASE SchedulerNotes \/ Checks
  BY <1>2, AskingStep
<1>3. CASE \E c \in Threads : Entering(c)
  BY <1>3, EnteringStep
<1>4. CASE Synchronising \/ CallFails
  BY <1>4, ListedStep, CreatingStep, RemovingStep, NotChangedStep, FinishStep DEF Synchronising, CallFails
<1>5. CASE Deleting
  BY <1>5, DeletingStep
<1> QED BY <1>1, <1>2, <1>3, <1>4, <1>5, OperatorStep, RestartStep DEF Next

LEMMA Inductive == Spec => []IInv
BY InitOK, StepOK, PTL DEF Spec

\* Every variable keeps its type.
THEOREM Typed == Spec => []TypeOK
BY Inductive, PTL DEF IInv

\* A pin names a candidate and candidates are servers that exist, whoever is removed
\* from where.
THEOREM PinsAreCandidates == Spec => []PinIsCandidate
BY Inductive, PTL DEF IInv

\* Nothing that a synchronisation decided on changes while it runs.
THEOREM RowsAreHeld == Spec => []RowHeld
BY Inductive, PTL DEF IInv

\* A row that says ok names what is published, unless something ended in the middle
\* since.
THEOREM SavedArePublished == Spec => []SavedIsPublished
BY Inductive, PTL DEF IInv

\* While records are deleted for a target, the target is there.
LEMMA TargetStays ==
  ASSUME IInv, run.step = "remove", NEW h \in run.todo, domain.pool # {}
  PROVE  run.target \in dns \ {h}
BY DEF IInv, TargetChosen, RecordsKnown, RowHeld

\* No step takes the last record of a domain that has candidates, except its deletion.
THEOREM NeverDangles == Spec => NeverDangling
<1> DEFINE Kept == dns # {} /\ dns' = {} => domain.pool = {} \/ run.step = "wipe"
<1>1. IInv /\ [Next]_world => [Kept]_world
  <2> SUFFICES ASSUME IInv, [Next]_world PROVE Kept
    OBVIOUS
  <2>1. CASE UNCHANGED dns
    BY <2>1
  <2>2. ASSUME NEW h \in Hosts, Remove(h) \/ RemoveFails(h) PROVE Kept
    <3>1. run.step = "remove" /\ h \in run.todo /\ dns' \in {dns, dns \ {h}}
      BY <2>2 DEF Remove, RemoveFails
    <3> QED BY <3>1, TargetStays
  <2>3. CASE Create \/ CreateFails
    BY <2>3 DEF Create, CreateFails
  <2>4. ASSUME NEW h \in Hosts, Wipe(h) \/ WipeFails(h) PROVE Kept
    BY <2>4 DEF Wipe, WipeFails
  <2>5. CASE Restart
    BY <2>5, TargetStays DEF Restart
  <2> QED BY <2>1, <2>2, <2>3, <2>4, <2>5
  DEF Next, world, SchedulerNotes, Entering, EnterGone, EnterRefused, Enter, Synchronising, Listed,
      AllUnhealthy, NotChanged, Finish, CallFails, ListFails, Deleting, Found, Wiped, Checks, Checked,
      Operator, Ask, CreateDomain, ReplaceCandidates, AddCandidates, RemoveCandidates, DeleteServers,
      UpdateDomain, EditServer, DeleteDomain, StartWipe
<1> QED BY <1>1, Inductive, PTL DEF Spec, NeverDangling

\* A pin, and an address under a pin, is stored only as one: the address is that of
\* the pinned server.
THEOREM PinsArePublished == Spec => PinPublished
<1> DEFINE Fits ==
      domain'.preferred # NoOne /\ (domain'.preferred # domain.preferred \/ domain'.current # domain.current)
        => domain'.current = host'[domain'.preferred]
<1>1. IInv /\ [Next]_world => [Fits]_world
  <2> SUFFICES ASSUME IInv, [Next]_world PROVE Fits
    OBVIOUS
  <2>0. domain \in Rows /\ TypeOK
    BY DEF IInv, TypeOK
  <2>1. CASE UNCHANGED domain
    BY <2>1
  <2>2. CASE domain' = Unsynced(domain)
    BY <2>0, <2>2, RowsUnsynced
  <2>3. CASE Finish
    <3>1. host' = host
      BY <2>3 DEF Finish
    <3>2. CASE domain' = [domain EXCEPT !.ok = TRUE, !.current = run.target, !.preferred = NewPin]
               /\ (NewPin # NoOne => run.target = host[NewPin])
      <4>1. domain'.preferred = NewPin /\ domain'.current = run.target
        BY <2>0, <3>2 DEF Rows
      <4> QED BY <3>1, <3>2, <4>1
    <3> QED BY <2>2, <2>3, <3>2, FinishFacts
  <2>4. ASSUME NEW S \in SUBSET Servers, domain' = Without(S) PROVE Fits
    <3>1. domain'.current = domain.current /\ domain'.preferred \in {NoOne, domain.preferred}
      BY <2>0, <2>4 DEF Without, Rows
    <3> QED BY <3>1
  <2>5. ASSUME NEW S \in SUBSET Servers, ReplaceCandidates(S) \/ AddCandidates(S) PROVE Fits
    <3>1. domain'.current = domain.current /\ domain'.preferred = domain.preferred
      BY <2>0, <2>5 DEF ReplaceCandidates, AddCandidates, Rows
    <3> QED BY <3>1
  <2>6. ASSUME NEW enabled \in BOOLEAN, NEW scheduled \in BOOLEAN, UpdateDomain(enabled, scheduled)
        PROVE Fits
    <3>1. domain'.current = domain.current /\ domain'.preferred = domain.preferred
      BY <2>0, <2>6 DEF UpdateDomain, Rows
    <3> QED BY <3>1
  <2>7. ASSUME NEW S \in SUBSET Servers, NEW enabled \in BOOLEAN, NEW scheduled \in BOOLEAN,
               CreateDomain(S, enabled, scheduled)
        PROVE Fits
    <3>1. Absent(domain.id + 1).preferred = NoOne
      BY DEF Absent
    <3>2. domain'.preferred = Absent(domain.id + 1).preferred
      BY <2>7 DEF CreateDomain, Absent
    <3> QED BY <3>1, <3>2
  <2>8. CASE domain' = Absent(domain.id)
    BY <2>0, <2>8, AbsentRow
  <2>9. CASE NotChanged /\ run.step = "list"
    BY <2>2, <2>9 DEF NotChanged, IInv, RowHeld
  <2>10. CASE Operator
    BY <2>1, <2>4, <2>5, <2>6, <2>7, <2>8, <2>10
    DEF Operator, Ask, RemoveCandidates, DeleteServers, EditServer, DeleteDomain, StartWipe
  <2>11. CASE Synchronising \/ CallFails
    BY <2>1, <2>3, <2>9, <2>11
    DEF Synchronising, Listed, AllUnhealthy, Create, Remove, CallFails, ListFails, CreateFails, RemoveFails
  <2>12. CASE (\E c \in Threads : Entering(c)) \/ SchedulerNotes \/ Checks
    BY <2>1, <2>2, <2>12 DEF Entering, EnterGone, EnterRefused, Enter, SchedulerNotes, Checks, Checked
  <2>13. CASE Deleting \/ Restart
    BY <2>1, <2>8, <2>13 DEF Deleting, Found, Wiped, Wipe, WipeFails, Restart
  <2> QED BY <2>1, <2>10, <2>11, <2>12, <2>13 DEF Next, world
<1> QED BY <1>1, Inductive, PTL DEF Spec, PinPublished
=============================================================================
