---------------------------- MODULE ServerImport ----------------------------
(***************************************************************************)
(* The import of servers (pages/probe/useServerImport.ts, ImportDialog and *)
(* ServerImportStatus of pages/Probe.tsx).  What was submitted, its        *)
(* idempotency key and the job survive in the session storage: the page    *)
(* may be left, entered again or loaded anew while an answer is still on   *)
(* its way, and every instance of it goes on with what it finds there.     *)
(***************************************************************************)
EXTENDS Page

CONSTANTS
    MaxJobs,     \* bound on import jobs
    MaxKeys      \* bound on idempotency keys

\* Nothing pending is not a submission.
ASSUME ImportAssumption == NoOne \notin [key : Nat, of : Nat]

(* `of` is the number of the user's import or the job whose failed rows are *)
(* imported again.  The servers tell submissions apart by their keys only.  *)
NoJob    == [id |-> 0, state |-> "none", failed |-> 0, retryable |-> FALSE]
Terminal == {"done", "partial", "failed"}
Active   == {"queued", "running"}

Kept == [job |-> NoJob, pending |-> NoOne, retry |-> NoOne]

(* A mount has its own locks, and what the storage held when it began.      *)
Mounted(session, mount) ==
    [job |-> session.job, pending |-> session.pending, retry |-> session.retry,
     session |-> session, mount |-> mount, open |-> FALSE,
     submitting |-> FALSE, retrying |-> FALSE, polls |-> {}, loading |-> {},
     failures |-> <<>>, more |-> FALSE, failuresOf |-> 0, completed |-> 0]

ImportInit ==
    Opens("import", Mounted(Kept, 1),
          [jobs |-> <<>>, keys |-> 0, confirmed |-> 0])

SaveJob(p, j)     == [p EXCEPT !.job = j, !.session.job = j]
SavePending(p, r) == [p EXCEPT !.pending = r, !.session.pending = r]
SaveRetry(p, r)   == [p EXCEPT !.retry = r, !.session.retry = r]

Ask(kind, fields) == Joined(fields, [kind |-> kind, mount |-> page.mount, answer |-> NoOne])

----------------------------------------------------------------------------
(* Submitting *)

OpenImport ==
    /\ page' = [page EXCEPT !.open = ~@]
    /\ UNCHANGED <<wire, world>>

CanStart == page.job.state \notin Active /\ page.pending = NoOne /\ page.retry = NoOne

(* A storage that is full refuses the pending submission: nothing is sent.  *)
SubmitImport ==
    /\ page.open /\ ~page.submitting /\ CanStart /\ Room /\ world.keys < MaxKeys
    /\ LET r == [key |-> world.keys + 1, of |-> world.confirmed + 1]
       IN  \/ UNCHANGED <<page, wire, world>>
           \/ /\ page' = [SavePending(page, r) EXCEPT !.submitting = TRUE]
              /\ wire' = wire \cup {Ask("import", r)}
              /\ world' = [world EXCEPT !.keys = @ + 1, !.confirmed = @ + 1]

\* Sensitivity check of ImportedOnce: what is sent again is sent as something new.
AgainFresh(r) == [r EXCEPT !.key = world.keys + 1]

\* The submission that is sent again: the stored one with its key.
Again(r) == r

ResubmitImport ==
    /\ page.open /\ page.pending # NoOne /\ ~page.submitting
    /\ page.job.state \notin Active /\ page.retry = NoOne /\ Room
    /\ page' = [page EXCEPT !.submitting = TRUE]
    /\ wire' = wire \cup {Ask("import", Again(page.pending))}
    /\ UNCHANGED world

RetryRows ==
    /\ page.job.state \in Terminal /\ page.job.failed > 0 /\ page.job.retryable
    /\ ~page.retrying /\ page.pending = NoOne
    /\ page.retry # NoOne => page.retry.of = page.job.id
    /\ Room
    /\ LET fresh == page.retry = NoOne
           r     == IF fresh THEN [key |-> world.keys + 1, of |-> page.job.id]
                    ELSE Again(page.retry)
       IN  /\ fresh => world.keys < MaxKeys
           /\ page' = [SaveRetry(page, r) EXCEPT !.retrying = TRUE]
           /\ wire' = wire \cup {Ask("retry", r)}
           /\ world' = [world EXCEPT !.keys = IF fresh THEN @ + 1 ELSE @]

ClearImport ==
    /\ page.job.state \in Terminal /\ page.pending = NoOne /\ page.retry = NoOne
    /\ page' = [SaveJob(page, NoJob) EXCEPT !.failures = <<>>, !.more = FALSE,
                                            !.failuresOf = 0, !.completed = 0]
    /\ UNCHANGED <<wire, world>>

\* An instance ignores what it asked about another job than its last.
Follows(asked, mount, job) ==
    {r \in asked : r.kind \in {"poll", "rows"} /\ r.mount = mount => r.of = job}

(* The page is left and entered again, or loaded anew: what is on its way   *)
(* is answered to the instance that asked.                                  *)
Remount ==
    /\ page' = Mounted(page.session, page.mount + 1)
    /\ wire' = Follows(wire, page.mount, page.job.id)
    /\ UNCHANGED world

----------------------------------------------------------------------------
(* What the servers do with a submission: once for every key *)

Known(key) == {j \in DOMAIN world.jobs : world.jobs[j].key = key}

View(jobs, j) == [id |-> j, state |-> jobs[j].state, failed |-> jobs[j].failed,
                  retryable |-> jobs[j].retryable]

ImportCreated ==
    \E r \in Of("import") \cup Of("retry") :
        /\ r.answer = NoOne
        /\ r.kind = "retry" => world.jobs[r.of].state \in Terminal
        /\ Known(r.key) = {} => Len(world.jobs) < MaxJobs
        /\ LET jobs == IF Known(r.key) # {} THEN world.jobs
                       ELSE Append(world.jobs, [key |-> r.key, kind |-> r.kind, of |-> r.of,
                                state |-> "queued", failed |-> 0, retryable |-> FALSE])
               j    == CHOOSE j \in DOMAIN jobs : jobs[j].key = r.key
           IN  /\ world' = [world EXCEPT !.jobs = jobs]
               /\ wire' = (wire \ {r}) \cup {[r EXCEPT !.answer = View(jobs, j)]}
        /\ UNCHANGED page

\* The worker's part: up to two rows fail, and they may be worth another try.
ImportProceeds ==
    /\ \E j \in DOMAIN world.jobs :
          \/ /\ world.jobs[j].state = "queued"
             /\ world' = [world EXCEPT !.jobs[j].state = "running"]
          \/ /\ world.jobs[j].state = "running"
             /\ \E rows \in 0..2, worth \in BOOLEAN :
                   /\ rows = 0 => ~worth
                   /\ world' = [world EXCEPT
                        !.jobs[j].state = IF rows = 0 THEN "done" ELSE "partial",
                        !.jobs[j].failed = rows, !.jobs[j].retryable = worth]
    /\ UNCHANGED <<page, wire>>

----------------------------------------------------------------------------
(* Answers *)

Accepted(p, j) ==
    [SaveJob(p, j) EXCEPT !.failures = <<>>, !.more = FALSE, !.failuresOf = 0, !.completed = 0]

(* An instance that was left still clears and writes the storage; what the  *)
(* page shows by then is another instance's.                                *)
Behind(p, kind, j) ==
    [p EXCEPT !.session.job = j,
              !.session.pending = IF kind = "import" THEN NoOne ELSE @,
              !.session.retry = IF kind = "retry" THEN NoOne ELSE @]

SubmissionAnswered ==
    \E r \in Of("import") \cup Of("retry") :
        /\ r.answer # NoOne
        /\ page' = IF r.mount # page.mount THEN Behind(page, r.kind, r.answer)
                   ELSE IF r.kind = "import"
                   THEN [Accepted(SavePending(page, NoOne), r.answer) EXCEPT
                            !.submitting = FALSE, !.open = FALSE]
                   ELSE [Accepted(SaveRetry(page, NoOne), r.answer) EXCEPT !.retrying = FALSE]
        /\ wire' = IF r.mount # page.mount
                   THEN Follows(wire \ {r}, r.mount, r.answer.id) ELSE wire \ {r}
        /\ UNCHANGED world

\* Refused, or lost on either way: the submission stays pending.
SubmissionLost ==
    \E r \in Of("import") \cup Of("retry") :
        /\ page' = IF r.mount # page.mount THEN page
                   ELSE IF r.kind = "import" THEN [page EXCEPT !.submitting = FALSE]
                   ELSE [page EXCEPT !.retrying = FALSE]
        /\ wire' = wire \ {r}
        /\ UNCHANGED world

(* refreshJob: at once for a new job, every second while it is active, and  *)
(* when the user asks.                                                      *)
PollImport ==
    /\ page.job.id # 0 /\ page.job.id \notin page.polls /\ Room
    /\ page' = [page EXCEPT !.polls = @ \cup {page.job.id}]
    /\ wire' = wire \cup {Ask("poll", [of |-> page.job.id])}
    /\ UNCHANGED world

PollRead ==
    \E r \in Of("poll") :
        /\ r.answer = NoOne
        /\ wire' = (wire \ {r}) \cup {[r EXCEPT !.answer = View(world.jobs, r.of)]}
        /\ UNCHANGED <<page, world>>

\* Sensitivity check of RowsOfShown: the answer is taken whatever the job is by now.
IsCurrentAlways(r) == TRUE

IsCurrent(r) == page.job.id = r.of

\* onCompleted once for every job: the library, the groups and the dashboard are read anew.
Completes(j) == j.state \in Terminal /\ page.completed # j.id

PollAnswered ==
    \E r \in Of("poll"), lost \in BOOLEAN :
        /\ lost \/ r.answer # NoOne
        /\ IF r.mount # page.mount
           THEN page' = IF lost THEN page ELSE [page EXCEPT !.session.job = r.answer]
           ELSE LET p == [page EXCEPT !.polls = @ \ {r.of}]
                IN  page' = IF lost \/ ~IsCurrent(r) THEN p
                            ELSE [SaveJob(p, r.answer) EXCEPT
                                    !.completed = IF Completes(r.answer) THEN r.of ELSE @]
        /\ wire' = wire \ {r}
        /\ UNCHANGED world

----------------------------------------------------------------------------
(* The rows that failed, in pages of one *)

LoadRows(append) ==
    /\ page.job.state \in Terminal /\ page.job.failed > 0
    /\ IF append THEN page.more ELSE page.failuresOf # page.job.id
    /\ page.job.id \notin page.loading /\ Room
    /\ page' = [page EXCEPT !.loading = @ \cup {page.job.id}]
    /\ wire' = wire \cup {Ask("rows", [of |-> page.job.id, append |-> append,
                                       from |-> IF append THEN Len(page.failures) ELSE 0])}
    /\ UNCHANGED world

FirstRows == LoadRows(FALSE)
MoreRows  == LoadRows(TRUE)

RowsAnswered ==
    \E r \in Of("rows"), lost \in BOOLEAN :
        /\ LET row == <<r.of, r.from + 1>>
               p   == [page EXCEPT !.loading = @ \ {r.of}]
           IN  page' = IF r.mount # page.mount THEN page
                       ELSE IF lost \/ ~IsCurrent(r) THEN p
                       ELSE [p EXCEPT !.failures = IF r.append THEN Append(@, row) ELSE <<row>>,
                                      !.more = r.from + 1 < world.jobs[r.of].failed,
                                      !.failuresOf = r.of]
        /\ wire' = wire \ {r}
        /\ UNCHANGED world

ImportUser == OpenImport \/ SubmitImport \/ ResubmitImport \/ RetryRows \/ ClearImport \/ Remount
              \/ MoreRows

ImportRuns == \/ ImportCreated \/ ImportProceeds \/ SubmissionAnswered \/ SubmissionLost
              \/ PollImport \/ PollRead \/ PollAnswered \/ FirstRows \/ RowsAnswered

ImportNext == \/ UserActs /\ ImportUser
              \/ Runs /\ ImportRuns

ImportSpec == ImportInit /\ [][ImportNext]_pageVars

----------------------------------------------------------------------------
(* What the user submitted once is imported at most once, over lost         *)
(* answers, repeated attempts, and instances of the page that come and go.  *)
ImportedOnce ==
    Shows("import") =>
        \A i, j \in DOMAIN world.jobs :
            /\ world.jobs[i].kind = "import" /\ world.jobs[j].kind = "import"
            /\ world.jobs[i].of = world.jobs[j].of
            => i = j

(* The rows shown as failed are rows of the job that is shown, each once    *)
(* and in order.                                                            *)
RowsOfShown ==
    Shows("import") =>
        \A n \in DOMAIN page.failures : page.failures[n] = <<page.job.id, n>>
=============================================================================
