----------------------------- MODULE ServerBulk -----------------------------
(***************************************************************************)
(* Bulk changes of servers: the ticked rows (useServers.ts), the frozen    *)
(* snapshot of all that match, and the jobs made of either one             *)
(* (pages/probe/useServerBulk.ts and its panels in pages/Probe.tsx).       *)
(*                                                                         *)
(* The snapshot, the job and a submission whose answer is missing survive  *)
(* in the session storage; what is on its way when the page is left is     *)
(* answered to nobody, but a selection made for a submission still sends   *)
(* it.                                                                     *)
(***************************************************************************)
EXTENDS Page

CONSTANTS
    Servers,     \* servers of the library
    Edits,       \* what a bulk update may change
    MaxBulk      \* bound on snapshots, jobs and keys, each

Unsettled == {"queued", "building"}
Working   == {"queued", "running"}
Ended     == {"done", "partial", "failed"}

BulkInit ==
    Opens("bulk",
          [chosen |-> {}, snap |-> NoOne, job |-> NoOne, pending |-> NoOne,
           freezing |-> FALSE, dialog |-> NoOne, saving |-> FALSE],
          [alive |-> Servers, snaps |-> <<>>, jobs |-> <<>>, keys |-> 0, confirmed |-> 0])

Sends(kind, fields) == wire' = wire \cup {Joined(fields, [kind |-> kind, here |-> TRUE])}
Leaves(r) == wire' = wire \ {r}

----------------------------------------------------------------------------
(* An open dialog covers the page.                                          *)
Uncovered == page.dialog = NoOne

(* The ticks, which stay over pages of the list: a list is old when it is   *)
(* ticked, and its rows may be gone.                                        *)

Ticked(s) == IF s \in page.chosen THEN page.chosen \ {s} ELSE page.chosen \cup {s}

Tick ==
    /\ Uncovered
    /\ \E set \in {Ticked(s) : s \in Servers} \cup {Servers, {}} :
          page' = [page EXCEPT !.chosen = set]
    /\ UNCHANGED <<wire, world>>

DeleteServer ==
    /\ Uncovered /\ Room
    /\ \E s \in Servers : Sends("deletion", [server |-> s])
    /\ UNCHANGED <<page, world>>

ServerDeleted ==
    \E r \in Of("deletion"), lost \in BOOLEAN :
        /\ world' = [world EXCEPT !.alive = @ \ {r.server}]
        /\ page' = IF lost \/ ~r.here THEN page
                   ELSE [page EXCEPT !.chosen = @ \ {r.server}]
        /\ Leaves(r)

----------------------------------------------------------------------------
(* Freezing what matches *)

Freeze ==
    /\ Uncovered /\ ~page.freezing /\ page.pending = NoOne /\ Room
    /\ page' = [page EXCEPT !.freezing = TRUE]
    /\ Sends("freeze", [answer |-> NoOne])
    /\ UNCHANGED world

NewSnap(servers, state) ==
    /\ Len(world.snaps) < MaxBulk
    /\ world' = [world EXCEPT !.snaps = Append(@, [servers |-> servers, state |-> state])]

SnapView(i) == [id |-> i, state |-> world.snaps[i].state]

SnapCreated ==
    \E r \in Of("freeze") :
        /\ r.answer = NoOne
        /\ \E set \in SUBSET world.alive : set # {} /\ NewSnap(set, "queued")
        /\ wire' = (wire \ {r}) \cup
                   {[r EXCEPT !.answer = [id |-> Len(world.snaps) + 1, state |-> "queued"]]}
        /\ UNCHANGED page

Frozen ==
    \E r \in Of("freeze"), lost \in BOOLEAN :
        /\ lost \/ r.answer # NoOne
        /\ page' = [page EXCEPT !.freezing = FALSE, !.snap = IF lost THEN @ ELSE r.answer]
        /\ Leaves(r)
        /\ UNCHANGED world

\* Built, or failed; a snapshot that is ready expires after its hours.
SnapProceeds ==
    /\ \E i \in DOMAIN world.snaps, s \in {"ready", "failed", "expired"} :
          /\ world.snaps[i].state \in IF s = "expired" THEN Unsettled \cup {"ready"} ELSE Unsettled
          /\ world' = [world EXCEPT !.snaps[i].state = s]
    /\ UNCHANGED <<page, wire>>

PollSnap ==
    /\ page.snap # NoOne /\ page.snap.state \in Unsettled /\ Room
    /\ Sends("snap", [answer |-> SnapView(page.snap.id)])
    /\ UNCHANGED <<page, world>>

\* The answer is taken as it is, and a poll may have been overtaken.
SnapPolled ==
    \E r \in Of("snap"), lost \in BOOLEAN :
        /\ page' = IF lost THEN page ELSE [page EXCEPT !.snap = r.answer]
        /\ Leaves(r)
        /\ UNCHANGED world

ClearSnap ==
    /\ Uncovered /\ page.snap # NoOne /\ page.snap.state \in {"failed", "expired"}
    /\ page' = [page EXCEPT !.snap = NoOne, !.job = NoOne, !.pending = NoOne]
    /\ UNCHANGED <<wire, world>>

----------------------------------------------------------------------------
(* Submitting *)

Busy == page.pending # NoOne \/ (page.job # NoOne /\ page.job.state \in Working)

OpenDialog ==
    /\ Uncovered /\ ~Busy
    /\ \E of \in {"chosen", "snapshot"}, op \in {"delete", "edit"} :
          /\ of = "chosen" => page.chosen # {}
          /\ of = "snapshot" => page.snap # NoOne /\ page.snap.state = "ready"
          /\ page' = [page EXCEPT !.dialog = [of |-> of, op |-> op]]
    /\ UNCHANGED <<wire, world>>

CloseDialog ==
    /\ page.dialog # NoOne
    /\ page' = [page EXCEPT !.dialog = NoOne, !.saving = FALSE]
    /\ UNCHANGED <<wire, world>>

\* Sensitivity check of ChosenChangedOnce: a pending submission is never taken for the same one.
MatchesNever(op, ids) == page.pending # NoOne /\ FALSE

\* The submission is the one whose answer is missing.
Matches(op, ids) ==
    /\ page.pending # NoOne
    /\ page.pending.of = 0 /\ page.pending.op = op /\ page.pending.ids = ids

(* submit(): the request, or first the selection of the ticked servers.     *)
(* `conf` is the user's confirmation.                                       *)
Sent(p, request) ==
    /\ page' = [p EXCEPT !.pending = request]
    /\ Sends("job", request)

NewRequest(snap, op, ids, conf) ==
    [key |-> world.keys + 1, snap |-> snap, op |-> op, ids |-> ids, of |-> 0, conf |-> conf]

SubmitChosen(p, op, ids, conf) ==
    IF Matches(op, ids)
    THEN Sent(p, page.pending) /\ UNCHANGED world
    ELSE /\ Sends("select", [op |-> op, ids |-> ids, conf |-> conf])
         /\ page' = p
         /\ world' = [world EXCEPT !.confirmed = IF conf > @ THEN conf ELSE @]

SubmitSnap(p, op, conf) ==
    /\ page.snap # NoOne /\ page.snap.state = "ready"
    /\ IF Matches(op, NoOne) /\ page.pending.snap = page.snap.id
       THEN Sent(p, page.pending) /\ UNCHANGED world
       ELSE /\ world.keys < MaxBulk
            /\ Sent(p, NewRequest(page.snap.id, op, NoOne, conf))
            /\ world' = [world EXCEPT !.keys = @ + 1,
                                      !.confirmed = IF conf > @ THEN conf ELSE @]

\* A deletion closes its dialog, an edit keeps it until it is answered.
ConfirmDialog ==
    /\ page.dialog # NoOne /\ ~page.saving /\ Room
    /\ \E op \in IF page.dialog.op = "delete" THEN {"delete"} ELSE Edits :
          LET p == IF op = "delete" THEN [page EXCEPT !.dialog = NoOne]
                   ELSE [page EXCEPT !.saving = TRUE]
          IN  IF page.dialog.of = "chosen"
              THEN SubmitChosen(p, op, page.chosen, world.confirmed + 1)
              ELSE SubmitSnap(p, op, world.confirmed + 1)

RetryPending ==
    /\ Uncovered /\ page.pending # NoOne /\ Room
    /\ IF page.pending.of # 0
       THEN Sends("job", page.pending) /\ UNCHANGED <<page, world>>
       ELSE IF page.pending.ids = NoOne THEN SubmitSnap(page, page.pending.op, page.pending.conf)
       ELSE SubmitChosen(page, page.pending.op, page.pending.ids, page.pending.conf)

RetryFailures ==
    /\ Uncovered /\ page.job # NoOne /\ page.job.state \in {"partial", "failed"} /\ page.job.failed /\ Room
    /\ IF page.pending # NoOne /\ page.pending.of = page.job.id
       THEN Sent(page, page.pending) /\ UNCHANGED world
       ELSE /\ world.keys < MaxBulk
            /\ Sent(page, [NewRequest(page.job.snap, page.job.op, NoOne, 0)
                              EXCEPT !.of = page.job.id])
            /\ world' = [world EXCEPT !.keys = @ + 1]

\* The page the selection was made for may be gone: the job is sent all the same.
SelectionMade ==
    \E r \in Of("select") :
        /\ world.keys < MaxBulk /\ Len(world.snaps) < MaxBulk
        /\ LET request == NewRequest(Len(world.snaps) + 1, r.op, r.ids, r.conf)
           IN  /\ page' = IF r.here THEN [page EXCEPT !.pending = request] ELSE page
               /\ wire' = (wire \ {r}) \cup {Joined(request, [kind |-> "job", here |-> r.here])}
        /\ world' = [world EXCEPT !.keys = @ + 1, !.snaps =
                        Append(@, [servers |-> r.ids \cap world.alive, state |-> "ready"])]

Lost ==
    \E r \in Of("select") \cup Of("job") :
        /\ page' = IF r.here THEN [page EXCEPT !.saving = FALSE] ELSE page
        /\ Leaves(r)
        /\ UNCHANGED world

----------------------------------------------------------------------------
(* Jobs *)

HasKey(key) == {j \in DOMAIN world.jobs : world.jobs[j].key = key}

JobView(jobs, j) == [id |-> j, state |-> jobs[j].state, failed |-> jobs[j].failed,
                     snap |-> jobs[j].snap, op |-> jobs[j].op]

\* Once for every key; the answer is handled, or lost and the submission stays pending.
JobCreated ==
    \E r \in Of("job"), lost \in BOOLEAN :
        LET new  == HasKey(r.key) = {}
            jobs == IF ~new THEN world.jobs
                    ELSE Append(world.jobs, [key |-> r.key, conf |-> r.conf, snap |-> r.snap,
                             op |-> r.op, chosen |-> r.ids # NoOne, state |-> "queued",
                             failed |-> FALSE])
            j    == CHOOSE j \in DOMAIN jobs : jobs[j].key = r.key
        IN  /\ new => /\ Len(world.jobs) < MaxBulk
                      /\ r.of = 0 => world.snaps[r.snap].state = "ready"
                      /\ r.of # 0 => world.jobs[r.of].failed /\ world.jobs[r.of].state \in Ended
            /\ world' = [world EXCEPT !.jobs = jobs]
            /\ page' = IF ~r.here THEN page
                       ELSE IF lost THEN [page EXCEPT !.saving = FALSE]
                       ELSE [page EXCEPT !.pending = NoOne, !.job = JobView(jobs, j),
                                         !.saving = FALSE,
                                         !.dialog = IF page.saving THEN NoOne ELSE @]
            /\ Leaves(r)

\* A deletion removes the servers of the snapshot, some of them if the job ends in part.
JobProceeds ==
    /\ \E j \in DOMAIN world.jobs :
          LET job == world.jobs[j]
          IN  \/ /\ job.state = "queued"
                 /\ world' = [world EXCEPT !.jobs[j].state = "running"]
              \/ /\ job.state = "running"
                 /\ \E done \in SUBSET world.snaps[job.snap].servers :
                       LET all == done = world.snaps[job.snap].servers
                       IN  world' = [world EXCEPT
                             !.jobs[j].state = IF all THEN "done" ELSE "partial",
                             !.jobs[j].failed = ~all,
                             !.alive = IF job.op = "delete" THEN @ \ done ELSE @]
    /\ UNCHANGED <<page, wire>>

PollJob ==
    /\ page.job # NoOne /\ page.job.state \in Working /\ Room
    /\ Sends("poll", [answer |-> JobView(world.jobs, page.job.id)])
    /\ UNCHANGED <<page, world>>

JobPolled ==
    \E r \in Of("poll"), lost \in BOOLEAN :
        /\ page' = IF lost THEN page ELSE [page EXCEPT !.job = r.answer]
        /\ Leaves(r)
        /\ UNCHANGED world

(* The tests page is opened with the snapshot or with the ticked servers,   *)
(* or the page is left in another way and entered again.                    *)
LeaveBulk ==
    /\ Uncovered
    /\ page' = [page EXCEPT !.freezing = FALSE, !.saving = FALSE]
    /\ wire' = {[r EXCEPT !.here = FALSE] :
                   r \in Of("select") \cup Of("job") \cup Of("deletion")}
    /\ UNCHANGED world

BulkUser == \/ Tick \/ DeleteServer \/ Freeze \/ ClearSnap \/ OpenDialog \/ CloseDialog
            \/ ConfirmDialog \/ RetryPending \/ RetryFailures \/ LeaveBulk

BulkRuns == \/ ServerDeleted \/ SnapCreated \/ Frozen \/ SnapProceeds \/ PollSnap \/ SnapPolled
            \/ SelectionMade \/ Lost \/ JobCreated \/ JobProceeds \/ PollJob \/ JobPolled

BulkNext == \/ UserActs /\ BulkUser
            \/ Runs /\ BulkRuns

BulkSpec == BulkInit /\ [][BulkNext]_pageVars

----------------------------------------------------------------------------
(* A confirmed change of the ticked servers is made by one job, however     *)
(* often its answer is lost and it is sent again.                           *)
ChosenChangedOnce ==
    Shows("bulk") =>
        \A i, j \in DOMAIN world.jobs :
            /\ world.jobs[i].chosen /\ world.jobs[j].chosen
            /\ world.jobs[i].conf = world.jobs[j].conf
            => i = j

(* The panel says of a submission whose answer is missing that sending it   *)
(* again reuses its idempotency key.  It does not for a frozen snapshot     *)
(* that was replaced meanwhile: the change goes to the other snapshot.      *)
RetryKeepsKey ==
    [][Shows("bulk") /\ RetryPending =>
          \A r \in wire' \ wire : r.key = page.pending.key]_pageVars
=============================================================================
