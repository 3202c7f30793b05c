----------------------------- MODULE IntentProofs -----------------------------
(***************************************************************************)
(* Pages of the Console that carry out what the user means, for every set  *)
(* of servers, jobs, records, views and nodes and every number of requests *)
(* on their way: what is submitted is done once and is what was chosen,    *)
(* what is edited is not overwritten, and a tick is taken only by an       *)
(* answer about it.                                                        *)
(*                                                                         *)
(* As in ConsoleProofs, every part finds the inductive invariant of a page *)
(* and lifts it to ConsoleSpec.                                            *)
(***************************************************************************)
EXTENDS ConsoleProofs, FormProofs

-----------------------------------------------------------------------------
(***************************************************************************)
(* Bulk changes of servers (ServerBulk).                                   *)
(***************************************************************************)
SubmissionFields == {"key", "snap", "op", "ids", "of", "conf"}

IsRequest(q) == DOMAIN q = SubmissionFields /\ q.conf \in Nat

\* The key and the confirmation of every submission of ticked servers, sent or pending, and
\* of every job that was made of one.
OfChosen(q) == <<q.key, q.conf>>
Chosen(p, w, d) ==
  {OfChosen(q) : q \in {q \in {p.pending} : q # NoOne /\ q.ids # NoOne}}
  \cup {OfChosen(r) : r \in {r \in w : r.kind = "job" /\ r.ids # NoOne}}
  \cup {OfChosen(d.jobs[j]) : j \in {j \in DOMAIN d.jobs : d.jobs[j].chosen}}

SomeSequence(s) == \E elements : s \in Seq(elements)

BulkShaped(p, w, d) ==
  /\ "pending" \in DOMAIN p /\ (p.pending # NoOne => IsRequest(p.pending))
  /\ \A r \in w : {"kind", "here"} \subseteq DOMAIN r
  /\ \A r \in w : r.kind = "job" => SubmissionFields \subseteq DOMAIN r
  /\ \A r \in w : r.kind = "select" => {"op", "ids", "conf"} \subseteq DOMAIN r
  /\ {"jobs", "confirmed"} \subseteq DOMAIN d
  /\ d.confirmed \in Nat /\ SomeSequence(d.jobs)

\* A confirmation is a selection that is still to be made, or has one key.
ConfirmedOnce(p, w, d) ==
  /\ \A c, e \in Chosen(p, w, d) : c[2] = e[2] => c = e
  /\ \A c \in Chosen(p, w, d) : c[2] \in 1..d.confirmed
  /\ \A r \in w : r.kind = "select" => r.conf \in 1..d.confirmed
  /\ \A r \in w : r.kind = "select" => \A c \in Chosen(p, w, d) : r.conf # c[2]
  /\ \A r, s \in w : r.kind = "select" /\ s.kind = "select" /\ r.conf = s.conf => r = s

KeysApart(d) == \A i, j \in DOMAIN d.jobs : d.jobs[i].key = d.jobs[j].key => i = j

BulkFits(p, w, d) == BulkShaped(p, w, d) /\ ConfirmedOnce(p, w, d) /\ KeysApart(d)

BulkInv == BulkFits(page, wire, world)

LEMMA BulkStart ==
  ASSUME BulkInit
  PROVE  BulkInv
<1>1. /\ page = [chosen |-> {}, snap |-> NoOne, job |-> NoOne, pending |-> NoOne,
                 freezing |-> FALSE, dialog |-> NoOne, saving |-> FALSE]
      /\ world = [alive |-> Servers, snaps |-> <<>>, jobs |-> <<>>, keys |-> 0, confirmed |-> 0]
      /\ wire = {}
  BY DEF BulkInit, Opens
<1>2. /\ "pending" \in DOMAIN page /\ page.pending = NoOne
      /\ {"jobs", "confirmed"} \subseteq DOMAIN world /\ world.confirmed = 0
      /\ world.jobs = <<>>
  BY <1>1
<1>3. SomeSequence(world.jobs) /\ DOMAIN world.jobs = {}
  BY <1>2 DEF SomeSequence
<1>4. Chosen(page, wire, world) = {}
  BY <1>1, <1>2, <1>3 DEF Chosen
<1>5. BulkShaped(page, wire, world)
  BY <1>1, <1>2, <1>3 DEF BulkShaped
<1>6. ConfirmedOnce(page, wire, world)
  BY <1>1, <1>4 DEF ConfirmedOnce
<1>7. KeysApart(world)
  BY <1>3 DEF KeysApart
<1>  QED  BY <1>5, <1>6, <1>7 DEF BulkInv, BulkFits

(* A step that adds neither a submission of ticked servers, but of one that *)
(* is known, nor a selection.                                               *)
LEMMA BulkLess ==
  ASSUME BulkInv, NEW p, NEW w, NEW d,
         BulkShaped(p, w, d), KeysApart(d), d.confirmed >= world.confirmed,
         Chosen(p, w, d) \subseteq Chosen(page, wire, world),
         \A r \in w : r.kind = "select" => r \in wire
  PROVE  BulkFits(p, w, d)
<1>1. ConfirmedOnce(page, wire, world) /\ world.confirmed \in Nat /\ d.confirmed \in Nat
  BY DEF BulkInv, BulkFits, BulkShaped
<1>2. \A n : n \in 1..world.confirmed => n \in 1..d.confirmed
  BY <1>1
<1>3. ConfirmedOnce(p, w, d)
  BY ONLY <1>1, <1>2, Chosen(p, w, d) \subseteq Chosen(page, wire, world),
          \A r \in w : r.kind = "select" => r \in wire
     DEF ConfirmedOnce
<1>  QED  BY <1>3 DEF BulkFits

(* The steps that leave the submissions and the jobs alone.                 *)
LEMMA BulkAside ==
  ASSUME BulkInv, NEW p, NEW w, NEW d,
         "pending" \in DOMAIN p, p.pending \in {NoOne, page.pending},
         \A r \in w : {"kind", "here"} \subseteq DOMAIN r,
         \A r \in w : r.kind \in {"job", "select"} => r \in wire,
         {"jobs", "confirmed"} \subseteq DOMAIN d,
         d.jobs = world.jobs, d.confirmed = world.confirmed
  PROVE  BulkFits(p, w, d)
<1>0. BulkShaped(page, wire, world) /\ KeysApart(world)
  BY DEF BulkInv, BulkFits
<1>1. BulkShaped(p, w, d)
  BY <1>0 DEF BulkShaped
<1>2. Chosen(p, w, d) \subseteq Chosen(page, wire, world)
  <2>1. \A q \in {p.pending} : q # NoOne => q = page.pending
    OBVIOUS
  <2>  QED  BY <2>1 DEF Chosen
<1>3. KeysApart(d) /\ d.confirmed >= world.confirmed
  BY <1>0 DEF KeysApart, BulkShaped
<1>  QED  BY <1>1, <1>2, <1>3, BulkLess

Bare(fields) == "kind" \notin DOMAIN fields /\ "here" \notin DOMAIN fields

SentAs(r, kind, fields) ==
  /\ r.kind = kind /\ r.here = TRUE /\ DOMAIN r = DOMAIN fields \cup {"kind", "here"}
  /\ \A f \in DOMAIN fields : r[f] = fields[f]

LEMMA Sending ==
  ASSUME NEW kind, NEW fields, Bare(fields), Sends(kind, fields)
  PROVE  \E r : wire' = wire \cup {r} /\ SentAs(r, kind, fields)
<1>  DEFINE g == [kind |-> kind, here |-> TRUE]
<1>1. DOMAIN g = {"kind", "here"} /\ g.kind = kind /\ g.here = TRUE
  OBVIOUS
<1>2. PICK r : r = Joined(fields, g) /\ wire' = wire \cup {r}
  BY DEF Sends
<1>3. r = [x \in (DOMAIN fields) \cup (DOMAIN g) |-> IF x \in DOMAIN fields THEN fields[x] ELSE g[x]]
  BY <1>2 DEF Joined
<1>  HIDE DEF g
<1>4. SentAs(r, kind, fields)
  BY <1>1, <1>3 DEF SentAs, Bare
<1>  QED  BY <1>2, <1>4

\* A request that is neither a submission nor a selection.
LEMMA SendsAside ==
  ASSUME BulkInv, NEW kind, kind \notin {"job", "select"}, NEW fields,
         Bare(fields), Sends(kind, fields),
         "pending" \in DOMAIN page', page'.pending \in {NoOne, page.pending}, world' = world
  PROVE  BulkInv'
<1>1. PICK n : wire' = wire \cup {n} /\ SentAs(n, kind, fields)
  BY Sending
<1>2. n.kind = kind /\ {"kind", "here"} \subseteq DOMAIN n
  BY <1>1 DEF SentAs
<1>3. BulkShaped(page, wire, world)
  BY DEF BulkInv, BulkFits
<1>4. /\ \A r \in wire' : {"kind", "here"} \subseteq DOMAIN r
      /\ \A r \in wire' : r.kind \in {"job", "select"} => r \in wire
  BY <1>1, <1>2, <1>3 DEF BulkShaped
<1>5. {"jobs", "confirmed"} \subseteq DOMAIN world' /\ world'.jobs = world.jobs
      /\ world'.confirmed = world.confirmed
  BY <1>3 DEF BulkShaped
<1>6. BulkFits(page', wire', world')
  BY <1>4, <1>5, BulkAside
<1>  QED  BY <1>6 DEF BulkInv

\* Nothing is sent, and what the jobs came of is as before.
LEMMA NothingSentAside ==
  ASSUME BulkInv, "pending" \in DOMAIN page', page'.pending \in {NoOne, page.pending},
         wire' \subseteq wire, {"jobs", "confirmed"} \subseteq DOMAIN world',
         world'.jobs = world.jobs, world'.confirmed = world.confirmed
  PROVE  BulkInv'
<1>1. \A r \in wire' : {"kind", "here"} \subseteq DOMAIN r
  BY DEF BulkInv, BulkFits, BulkShaped
<1>2. BulkFits(page', wire', world')
  BY <1>1, BulkAside
<1>  QED  BY <1>2 DEF BulkInv

LEMMA BulkHas ==
  ASSUME BulkInv
  PROVE  /\ "pending" \in DOMAIN page /\ (page.pending # NoOne => IsRequest(page.pending))
         /\ \A r \in wire : {"kind", "here"} \subseteq DOMAIN r
         /\ {"jobs", "confirmed"} \subseteq DOMAIN world
  BY DEF BulkInv, BulkFits, BulkShaped

LEMMA AsideFits ==
  ASSUME BulkInv,
         \/ Tick \/ DeleteServer \/ ServerDeleted \/ Freeze \/ Frozen \/ SnapProceeds
         \/ PollSnap \/ SnapPolled \/ ClearSnap \/ OpenDialog \/ CloseDialog \/ Lost
         \/ PollJob \/ JobPolled
  PROVE  BulkInv'
<1>1. CASE Tick
  <2>1. "pending" \in DOMAIN page' /\ page'.pending = page.pending
    BY <1>1, BulkHas DEF Tick
  <2>  QED  BY <1>1, <2>1, BulkHas, NothingSentAside DEF Tick
<1>2. CASE DeleteServer
  <2>1. PICK s \in Servers : Sends("deletion", [server |-> s])
    BY <1>2 DEF DeleteServer
  <2>2. Bare([server |-> s])
    BY DEF Bare
  <2>  QED  BY <1>2, <2>1, <2>2, BulkHas, SendsAside DEF DeleteServer
<1>3. CASE ServerDeleted
  <2>1. PICK r \in Of("deletion"), lost \in BOOLEAN :
          /\ world' = [world EXCEPT !.alive = @ \ {r.server}]
          /\ page' = IF lost \/ ~r.here THEN page ELSE [page EXCEPT !.chosen = @ \ {r.server}]
          /\ Leaves(r)
    BY <1>3 DEF ServerDeleted
  <2>2. "pending" \in DOMAIN page' /\ page'.pending = page.pending
    BY <2>1, BulkHas
  <2>3. /\ {"jobs", "confirmed"} \subseteq DOMAIN world' /\ world'.jobs = world.jobs
        /\ world'.confirmed = world.confirmed
    BY <2>1, BulkHas
  <2>  QED  BY <2>1, <2>2, <2>3, NothingSentAside DEF Leaves
<1>4. CASE Freeze
  <2>1. "pending" \in DOMAIN page' /\ page'.pending = page.pending
    BY <1>4, BulkHas DEF Freeze
  <2>2. Bare([answer |-> NoOne])
    BY DEF Bare
  <2>  QED  BY <1>4, <2>1, <2>2, SendsAside DEF Freeze
<1>5. CASE Frozen
  <2>1. PICK r \in Of("freeze"), lost \in BOOLEAN :
          /\ page' = [page EXCEPT !.freezing = FALSE, !.snap = IF lost THEN @ ELSE r.answer]
          /\ Leaves(r) /\ world' = world
    BY <1>5 DEF Frozen
  <2>2. "pending" \in DOMAIN page' /\ page'.pending = page.pending
    BY <2>1, BulkHas
  <2>  QED  BY <2>1, <2>2, BulkHas, NothingSentAside DEF Leaves
<1>6. CASE SnapProceeds
  <2>1. PICK i, s : world' = [world EXCEPT !.snaps[i].state = s]
    BY <1>6 DEF SnapProceeds
  <2>2. page' = page /\ wire' = wire
    BY <1>6 DEF SnapProceeds
  <2>3. /\ {"jobs", "confirmed"} \subseteq DOMAIN world' /\ world'.jobs = world.jobs
        /\ world'.confirmed = world.confirmed
    BY <2>1, BulkHas
  <2>  QED  BY <2>2, <2>3, BulkHas, NothingSentAside
<1>7. CASE PollSnap
  <2>  DEFINE f == [answer |-> SnapView(page.snap.id)]
  <2>1. Bare(f) /\ Sends("snap", f) /\ page' = page /\ world' = world
    BY <1>7 DEF PollSnap, Bare
  <2>  HIDE DEF f
  <2>  QED  BY <2>1, BulkHas, SendsAside
<1>8. CASE SnapPolled
  <2>1. PICK r \in Of("snap"), lost \in BOOLEAN :
          /\ page' = IF lost THEN page ELSE [page EXCEPT !.snap = r.answer]
          /\ Leaves(r) /\ world' = world
    BY <1>8 DEF SnapPolled
  <2>2. "pending" \in DOMAIN page' /\ page'.pending = page.pending
    BY <2>1, BulkHas
  <2>  QED  BY <2>1, <2>2, BulkHas, NothingSentAside DEF Leaves
<1>9. CASE ClearSnap
  <2>1. "pending" \in DOMAIN page' /\ page'.pending = NoOne
    BY <1>9, BulkHas DEF ClearSnap
  <2>  QED  BY <1>9, <2>1, BulkHas, NothingSentAside DEF ClearSnap
<1>10. CASE OpenDialog
  <2>1. PICK of, op : page' = [page EXCEPT !.dialog = [of |-> of, op |-> op]]
    BY <1>10 DEF OpenDialog
  <2>2. "pending" \in DOMAIN page' /\ page'.pending = page.pending
    BY <2>1, BulkHas
  <2>  QED  BY <1>10, <2>2, BulkHas, NothingSentAside DEF OpenDialog
<1>11. CASE CloseDialog
  <2>1. "pending" \in DOMAIN page' /\ page'.pending = page.pending
    BY <1>11, BulkHas DEF CloseDialog
  <2>  QED  BY <1>11, <2>1, BulkHas, NothingSentAside DEF CloseDialog
<1>12. CASE Lost
  <2>1. PICK r : /\ page' = IF r.here THEN [page EXCEPT !.saving = FALSE] ELSE page
                 /\ Leaves(r) /\ world' = world
    BY <1>12 DEF Lost
  <2>2. "pending" \in DOMAIN page' /\ page'.pending = page.pending
    BY <2>1, BulkHas
  <2>  QED  BY <2>1, <2>2, BulkHas, NothingSentAside DEF Leaves
<1>13. CASE PollJob
  <2>  DEFINE f == [answer |-> JobView(world.jobs, page.job.id)]
  <2>1. Bare(f) /\ Sends("poll", f) /\ page' = page /\ world' = world
    BY <1>13 DEF PollJob, Bare
  <2>  HIDE DEF f
  <2>  QED  BY <2>1, BulkHas, SendsAside
<1>14. CASE JobPolled
  <2>1. PICK r \in Of("poll"), lost \in BOOLEAN :
          /\ page' = IF lost THEN page ELSE [page EXCEPT !.job = r.answer]
          /\ Leaves(r) /\ world' = world
    BY <1>14 DEF JobPolled
  <2>2. "pending" \in DOMAIN page' /\ page'.pending = page.pending
    BY <2>1, BulkHas
  <2>  QED  BY <2>1, <2>2, BulkHas, NothingSentAside DEF Leaves
<1>  QED
  BY <1>1, <1>2, <1>3, <1>4, <1>5, <1>6, <1>7, <1>8, <1>9, <1>10, <1>11, <1>12, <1>13, <1>14

\* A submission is sent again: the one that is pending.
LEMMA SentAgainFits ==
  ASSUME BulkInv, page.pending # NoOne, Sends("job", page.pending),
         "pending" \in DOMAIN page', page'.pending = page.pending, world' = world
  PROVE  BulkInv'
<1>1. IsRequest(page.pending) /\ BulkShaped(page, wire, world) /\ KeysApart(world)
  BY DEF BulkInv, BulkFits, BulkShaped
<1>2. Bare(page.pending)
  BY <1>1 DEF IsRequest, SubmissionFields, Bare
<1>3. PICK n : wire' = wire \cup {n} /\ SentAs(n, "job", page.pending)
  BY <1>2, Sending
<1>4. /\ n.kind = "job" /\ DOMAIN n = SubmissionFields \cup {"kind", "here"}
      /\ n.key = page.pending.key /\ n.conf = page.pending.conf /\ n.ids = page.pending.ids
  BY <1>1, <1>3 DEF SentAs, IsRequest, SubmissionFields
<1>5. BulkShaped(page', wire', world')
  BY <1>1, <1>3, <1>4 DEF BulkShaped
<1>6. Chosen(page', wire', world') \subseteq Chosen(page, wire, world)
  <2>1. OfChosen(n) = OfChosen(page.pending)
    BY <1>4 DEF OfChosen
  <2>  QED  BY <1>3, <1>4, <2>1 DEF Chosen
<1>7. \A r \in wire' : r.kind = "select" => r \in wire
  BY <1>3, <1>4
<1>8. KeysApart(world') /\ world'.confirmed >= world.confirmed
  BY <1>1 DEF BulkShaped
<1>9. BulkFits(page', wire', world')
  BY <1>5, <1>6, <1>7, <1>8, BulkLess
<1>  QED  BY <1>9 DEF BulkInv

\* A submission that is not of ticked servers is made.
LEMMA SentOtherFits ==
  ASSUME BulkInv, NEW q, IsRequest(q), q.ids = NoOne, Sends("job", q),
         "pending" \in DOMAIN page', page'.pending = q, {"jobs", "confirmed"} \subseteq DOMAIN world',
         world'.jobs = world.jobs, world'.confirmed \in Nat, world'.confirmed >= world.confirmed
  PROVE  BulkInv'
<1>1. BulkShaped(page, wire, world) /\ KeysApart(world)
  BY DEF BulkInv, BulkFits
<1>2. Bare(q)
  BY DEF IsRequest, SubmissionFields, Bare
<1>3. PICK n : wire' = wire \cup {n} /\ SentAs(n, "job", q)
  BY <1>2, Sending
<1>4. n.kind = "job" /\ DOMAIN n = SubmissionFields \cup {"kind", "here"} /\ n.ids = NoOne
  BY <1>3 DEF SentAs, IsRequest, SubmissionFields
<1>5. BulkShaped(page', wire', world')
  BY <1>1, <1>3, <1>4 DEF BulkShaped
<1>6. Chosen(page', wire', world') \subseteq Chosen(page, wire, world)
  BY <1>3, <1>4 DEF Chosen
<1>7. \A r \in wire' : r.kind = "select" => r \in wire
  BY <1>3, <1>4
<1>8. KeysApart(world')
  BY <1>1 DEF KeysApart
<1>9. BulkFits(page', wire', world')
  BY <1>5, <1>6, <1>7, <1>8, BulkLess
<1>  QED  BY <1>9 DEF BulkInv

\* A selection is asked for under a confirmation of its own.
LEMMA SelectionAskedFits ==
  ASSUME BulkInv, NEW op, NEW ids, NEW conf, conf = world.confirmed + 1,
         Sends("select", [op |-> op, ids |-> ids, conf |-> conf]),
         "pending" \in DOMAIN page', page'.pending = page.pending,
         {"jobs", "confirmed"} \subseteq DOMAIN world',
         world'.jobs = world.jobs, world'.confirmed = conf
  PROVE  BulkInv'
<1>1. BulkShaped(page, wire, world) /\ KeysApart(world) /\ ConfirmedOnce(page, wire, world)
  BY DEF BulkInv, BulkFits
<1>  DEFINE q == [op |-> op, ids |-> ids, conf |-> conf]
<1>2. Bare(q) /\ {"op", "ids", "conf"} = DOMAIN q /\ q.conf = conf
  BY DEF Bare
<1>3. PICK n : wire' = wire \cup {n} /\ SentAs(n, "select", q)
  BY <1>2, Sending
<1>  HIDE DEF q
<1>4. n.kind = "select" /\ DOMAIN n = {"op", "ids", "conf", "kind", "here"} /\ n.conf = conf
  BY <1>2, <1>3 DEF SentAs
<1>5. BulkShaped(page', wire', world')
  BY <1>1, <1>3, <1>4 DEF BulkShaped
<1>6. Chosen(page', wire', world') = Chosen(page, wire, world)
  BY <1>3, <1>4 DEF Chosen
<1>7. world.confirmed \in Nat
  BY <1>1 DEF BulkShaped
<1>8. ConfirmedOnce(page', wire', world')
  <2>1. /\ \A c, e \in Chosen(page', wire', world') : c[2] = e[2] => c = e
        /\ \A c \in Chosen(page', wire', world') : c[2] \in 1..world'.confirmed /\ c[2] # conf
    BY <1>1, <1>6, <1>7 DEF ConfirmedOnce
  <2>2. \A r \in wire : r.kind = "select" => r.conf \in 1..world'.confirmed /\ r.conf # conf
    BY <1>1, <1>7 DEF ConfirmedOnce
  <2>3. n.conf \in 1..world'.confirmed
    BY <1>4, <1>7
  <2>4. \A r \in wire' : r = n \/ r \in wire
    BY <1>3
  <2>5. \A r \in wire' : r.kind = "select" => r.conf \in 1..world'.confirmed
    BY <2>2, <2>3, <2>4
  <2>6. \A r \in wire' : r.kind = "select" => \A c \in Chosen(page', wire', world') : r.conf # c[2]
    <3>1. \A r \in wire : r.kind = "select" => \A c \in Chosen(page', wire', world') : r.conf # c[2]
      BY <1>1, <1>6 DEF ConfirmedOnce
    <3>  QED  BY <1>4, <2>1, <2>4, <3>1
  <2>7. \A r, s \in wire' : r.kind = "select" /\ s.kind = "select" /\ r.conf = s.conf => r = s
    <3>1. \A r, s \in wire : r.kind = "select" /\ s.kind = "select" /\ r.conf = s.conf => r = s
      BY <1>1 DEF ConfirmedOnce
    <3>  QED  BY <1>4, <2>2, <2>4, <3>1
  <2>  QED  BY <2>1, <2>5, <2>6, <2>7 DEF ConfirmedOnce
<1>9. KeysApart(world')
  BY <1>1 DEF KeysApart
<1>  QED  BY <1>5, <1>8, <1>9 DEF BulkInv, BulkFits

LEMMA NewRequestSays ==
  ASSUME NEW snap, NEW op, NEW ids, NEW conf \in Nat
  PROVE  LET q == NewRequest(snap, op, ids, conf)
         IN  IsRequest(q) /\ q.ids = ids /\ q.conf = conf /\ q.key = world.keys + 1
  BY DEF NewRequest, IsRequest, SubmissionFields

LEMMA SubmitSnapFits ==
  ASSUME BulkInv, NEW p, "pending" \in DOMAIN p, p.pending = page.pending,
         NEW op, NEW conf \in Nat, SubmitSnap(p, op, conf)
  PROVE  BulkInv'
<1>1. CASE Matches(op, NoOne) /\ page.pending.snap = page.snap.id
  <2>1. Sends("job", page.pending) /\ page' = [p EXCEPT !.pending = page.pending] /\ world' = world
    BY <1>1 DEF SubmitSnap, Sent
  <2>2. "pending" \in DOMAIN page' /\ page'.pending = page.pending
    BY <2>1
  <2>  QED  BY <1>1, <2>1, <2>2, SentAgainFits DEF Matches
<1>2. CASE ~(Matches(op, NoOne) /\ page.pending.snap = page.snap.id)
  <2>1. PICK q : q = NewRequest(page.snap.id, op, NoOne, conf) /\ Sent(p, q)
    BY <1>2 DEF SubmitSnap
  <2>2. IsRequest(q) /\ q.ids = NoOne
    BY <2>1, NewRequestSays
  <2>3. Sends("job", q) /\ page' = [p EXCEPT !.pending = q]
    BY <2>1 DEF Sent
  <2>4. "pending" \in DOMAIN page' /\ page'.pending = q
    BY <2>3
  <2>5. world' = [world EXCEPT !.keys = @ + 1,
                               !.confirmed = IF conf > @ THEN conf ELSE @]
    BY <1>2 DEF SubmitSnap
  <2>6. {"jobs", "confirmed"} \subseteq DOMAIN world /\ world.confirmed \in Nat
    BY DEF BulkInv, BulkFits, BulkShaped
  <2>7. /\ {"jobs", "confirmed"} \subseteq DOMAIN world' /\ world'.jobs = world.jobs
        /\ world'.confirmed = IF conf > world.confirmed THEN conf ELSE world.confirmed
    BY <2>5, <2>6
  <2>8. world'.confirmed \in Nat /\ world'.confirmed >= world.confirmed
    BY <2>6, <2>7
  <2>  QED  BY <2>2, <2>3, <2>4, <2>7, <2>8, SentOtherFits
<1>  QED  BY <1>1, <1>2

\* A confirmation is new, or that of the submission which is sent again.
LEMMA SubmitChosenFits ==
  ASSUME BulkInv, NEW p, "pending" \in DOMAIN p, p.pending = page.pending,
         NEW op, NEW ids, NEW conf, conf = world.confirmed + 1 \/ Matches(op, ids),
         SubmitChosen(p, op, ids, conf)
  PROVE  BulkInv'
<1>1. CASE Matches(op, ids)
  <2>1. Sends("job", page.pending) /\ page' = [p EXCEPT !.pending = page.pending] /\ world' = world
    BY <1>1 DEF SubmitChosen, Sent
  <2>2. "pending" \in DOMAIN page' /\ page'.pending = page.pending
    BY <2>1
  <2>  QED  BY <1>1, <2>1, <2>2, SentAgainFits DEF Matches
<1>2. CASE ~Matches(op, ids)
  <2>1. /\ Sends("select", [op |-> op, ids |-> ids, conf |-> conf]) /\ page' = p
        /\ world' = [world EXCEPT !.confirmed = IF conf > @ THEN conf ELSE @]
    BY <1>2 DEF SubmitChosen
  <2>2. {"jobs", "confirmed"} \subseteq DOMAIN world /\ world.confirmed \in Nat
    BY DEF BulkInv, BulkFits, BulkShaped
  <2>3. conf = world.confirmed + 1
    BY <1>2
  <2>4. /\ {"jobs", "confirmed"} \subseteq DOMAIN world' /\ world'.jobs = world.jobs
        /\ world'.confirmed = conf
    BY <2>1, <2>2, <2>3
  <2>  QED  BY <2>1, <2>3, <2>4, SelectionAskedFits
<1>  QED  BY <1>1, <1>2

LEMMA ConfirmFits == ASSUME BulkInv, ConfirmDialog PROVE BulkInv'
<1>1. PICK op, p :
        /\ p = IF op = "delete" THEN [page EXCEPT !.dialog = NoOne] ELSE [page EXCEPT !.saving = TRUE]
        /\ \/ SubmitChosen(p, op, page.chosen, world.confirmed + 1)
           \/ SubmitSnap(p, op, world.confirmed + 1)
  BY DEF ConfirmDialog
<1>2. "pending" \in DOMAIN p /\ p.pending = page.pending
  BY <1>1, BulkHas
<1>3. world.confirmed + 1 \in Nat
  BY DEF BulkInv, BulkFits, BulkShaped
<1>  QED  BY <1>1, <1>2, <1>3, SubmitChosenFits, SubmitSnapFits

LEMMA RetryPendingFits == ASSUME BulkInv, RetryPending PROVE BulkInv'
<1>  DEFINE q == page.pending
<1>1. q # NoOne /\ IsRequest(q) /\ "pending" \in DOMAIN page
  BY BulkHas DEF RetryPending
<1>2. CASE q.of # 0
  <2>1. Sends("job", q) /\ page' = page /\ world' = world
    BY <1>2 DEF RetryPending
  <2>  QED  BY <1>1, <2>1, SentAgainFits
<1>3. CASE q.of = 0 /\ q.ids # NoOne
  <2>1. SubmitChosen(page, q.op, q.ids, q.conf)
    BY <1>3 DEF RetryPending
  <2>2. Matches(q.op, q.ids)
    BY <1>1, <1>3 DEF Matches
  <2>  QED  BY <1>1, <2>1, <2>2, SubmitChosenFits
<1>4. CASE q.of = 0 /\ q.ids = NoOne
  <2>1. SubmitSnap(page, q.op, q.conf)
    BY <1>4 DEF RetryPending
  <2>2. q.conf \in Nat
    BY <1>1 DEF IsRequest
  <2>  QED  BY <1>1, <2>1, <2>2, SubmitSnapFits
<1>  QED  BY <1>2, <1>3, <1>4

LEMMA RetryFailuresFits == ASSUME BulkInv, RetryFailures PROVE BulkInv'
<1>1. "pending" \in DOMAIN page /\ BulkShaped(page, wire, world)
  BY DEF BulkInv, BulkFits, BulkShaped
<1>2. CASE page.pending # NoOne /\ page.pending.of = page.job.id
  <2>1. Sends("job", page.pending) /\ page' = [page EXCEPT !.pending = page.pending] /\ world' = world
    BY <1>2 DEF RetryFailures, Sent
  <2>2. "pending" \in DOMAIN page' /\ page'.pending = page.pending
    BY <1>1, <2>1
  <2>  QED  BY <1>2, <2>1, <2>2, SentAgainFits
<1>3. CASE ~(page.pending # NoOne /\ page.pending.of = page.job.id)
  <2>1. PICK q, n : /\ n = NewRequest(page.job.snap, page.job.op, NoOne, 0)
                    /\ q = [n EXCEPT !.of = page.job.id] /\ Sent(page, q)
    BY <1>3 DEF RetryFailures
  <2>2. IsRequest(n) /\ n.ids = NoOne
    BY <2>1, NewRequestSays
  <2>3. IsRequest(q) /\ q.ids = NoOne
    BY <2>1, <2>2 DEF IsRequest, SubmissionFields
  <2>4. Sends("job", q) /\ page' = [page EXCEPT !.pending = q]
    BY <2>1 DEF Sent
  <2>5. "pending" \in DOMAIN page' /\ page'.pending = q
    BY <1>1, <2>4
  <2>6. world' = [world EXCEPT !.keys = @ + 1]
    BY <1>3 DEF RetryFailures
  <2>7. /\ {"jobs", "confirmed"} \subseteq DOMAIN world' /\ world'.jobs = world.jobs
        /\ world'.confirmed = world.confirmed /\ world.confirmed \in Nat
    BY <1>1, <2>6 DEF BulkShaped
  <2>8. world'.confirmed >= world.confirmed
    BY <2>7
  <2>  QED  BY <2>3, <2>4, <2>5, <2>7, <2>8, SentOtherFits
<1>  QED  BY <1>2, <1>3

\* A selection that is made becomes the one submission of its confirmation.
LEMMA SelectionFits == ASSUME BulkInv, SelectionMade PROVE BulkInv'
<1>1. BulkShaped(page, wire, world) /\ KeysApart(world) /\ ConfirmedOnce(page, wire, world)
  BY DEF BulkInv, BulkFits
<1>  DEFINE Makes(r, q, made) ==
              /\ q = NewRequest(Len(world.snaps) + 1, r.op, r.ids, r.conf)
              /\ page' = IF r.here THEN [page EXCEPT !.pending = q] ELSE page
              /\ wire' = (wire \ {r}) \cup {Joined(q, [kind |-> "job", here |-> r.here])}
              /\ world' = [world EXCEPT !.keys = @ + 1, !.snaps = Append(@, made)]
<1>2. PICK r \in Of("select") : \E q, made : Makes(r, q, made)
  <2>1. PICK r \in Of("select") :
          Makes(r, NewRequest(Len(world.snaps) + 1, r.op, r.ids, r.conf),
                [servers |-> r.ids \cap world.alive, state |-> "ready"])
    BY DEF SelectionMade
  <2>  QED  BY <2>1
<1>0. PICK q, made : Makes(r, q, made)
  BY <1>2
<1>3. r \in wire /\ r.kind = "select" /\ r.conf \in Nat
  BY <1>1, <1>2 DEF Of, ConfirmedOnce
<1>4. IsRequest(q) /\ q.ids = r.ids /\ q.conf = r.conf
  BY <1>0, <1>3, NewRequestSays
<1>  DEFINE g == [kind |-> "job", here |-> r.here]
<1>5. PICK n : n = Joined(q, g) /\ wire' = (wire \ {r}) \cup {n}
  BY <1>0
<1>6. /\ n.kind = "job" /\ DOMAIN n = SubmissionFields \cup {"kind", "here"}
      /\ n.key = q.key /\ n.conf = q.conf /\ n.ids = q.ids
  <2>1. DOMAIN g = {"kind", "here"} /\ g.kind = "job"
    OBVIOUS
  <2>2. n = [x \in (DOMAIN q) \cup (DOMAIN g) |-> IF x \in DOMAIN q THEN q[x] ELSE g[x]]
    BY <1>5 DEF Joined
  <2>  HIDE DEF g
  <2>  QED  BY <1>4, <2>1, <2>2 DEF IsRequest, SubmissionFields
<1>  HIDE DEF g
<1>7. "pending" \in DOMAIN page' /\ page'.pending \in {q, page.pending}
  BY <1>0, <1>1 DEF BulkShaped
<1>8. /\ {"jobs", "confirmed"} \subseteq DOMAIN world' /\ world'.jobs = world.jobs
      /\ world'.confirmed = world.confirmed
  BY <1>0, <1>1 DEF BulkShaped
<1>9. BulkShaped(page', wire', world')
  BY <1>1, <1>4, <1>5, <1>6, <1>7, <1>8 DEF BulkShaped
<1>10. \A c \in Chosen(page', wire', world') : c = OfChosen(q) \/ c \in Chosen(page, wire, world)
  <2>1. OfChosen(n) = OfChosen(q)
    BY <1>6 DEF OfChosen
  <2>  QED  BY <1>5, <1>6, <1>7, <1>8, <2>1 DEF Chosen
<1>11. /\ \A c, e \in Chosen(page, wire, world) : c[2] = e[2] => c = e
       /\ \A c \in Chosen(page, wire, world) : c[2] \in 1..world.confirmed /\ c[2] # r.conf
       /\ \A s \in wire : s.kind = "select" => s.conf \in 1..world.confirmed
       /\ \A s \in wire : s.kind = "select" => \A c \in Chosen(page, wire, world) : s.conf # c[2]
       /\ \A s, t \in wire : s.kind = "select" /\ t.kind = "select" /\ s.conf = t.conf => s = t
  BY <1>1, <1>3 DEF ConfirmedOnce
<1>12. OfChosen(q)[2] = r.conf
  BY <1>4 DEF OfChosen
<1>13. \A s \in wire' : s.kind = "select" => s \in wire /\ s.conf # r.conf
  BY <1>3, <1>5, <1>6, <1>11
<1>14. ConfirmedOnce(page', wire', world')
  <2>1. \A c, e \in Chosen(page', wire', world') : c[2] = e[2] => c = e
    BY <1>10, <1>11, <1>12
  <2>2. \A c \in Chosen(page', wire', world') : c[2] \in 1..world'.confirmed
    BY <1>3, <1>8, <1>10, <1>11, <1>12
  <2>3. \A s \in wire' : s.kind = "select" => s.conf \in 1..world'.confirmed
    BY <1>8, <1>11, <1>13
  <2>4. \A s \in wire' : s.kind = "select" => \A c \in Chosen(page', wire', world') : s.conf # c[2]
    BY <1>10, <1>11, <1>12, <1>13
  <2>5. \A s, t \in wire' : s.kind = "select" /\ t.kind = "select" /\ s.conf = t.conf => s = t
    BY <1>11, <1>13
  <2>  QED  BY <2>1, <2>2, <2>3, <2>4, <2>5 DEF ConfirmedOnce
<1>15. KeysApart(world')
  BY <1>1, <1>8 DEF KeysApart
<1>  QED  BY <1>9, <1>14, <1>15 DEF BulkInv, BulkFits

\* What is answered to nobody is the same submission, selection or deletion.
LEMMA LeaveBulkFits == ASSUME BulkInv, LeaveBulk PROVE BulkInv'
<1>1. BulkShaped(page, wire, world) /\ KeysApart(world) /\ ConfirmedOnce(page, wire, world)
  BY DEF BulkInv, BulkFits
<1>2. world' = world /\ "pending" \in DOMAIN page' /\ page'.pending = page.pending
  BY <1>1 DEF BulkShaped, LeaveBulk
<1>  DEFINE quiet(r) == [r EXCEPT !.here = FALSE]
<1>3. \A r \in wire : /\ DOMAIN quiet(r) = DOMAIN r /\ quiet(r).kind = r.kind
                      /\ \A f \in DOMAIN r : f # "here" => quiet(r)[f] = r[f]
  BY <1>1 DEF BulkShaped
<1>4. \A s \in wire' : \E r \in wire : s = quiet(r)
  BY DEF LeaveBulk, Of
<1>  HIDE DEF quiet
<1>5. \A s \in wire' : {"kind", "here"} \subseteq DOMAIN s
  BY <1>1, <1>3, <1>4 DEF BulkShaped
<1>6. \A r \in wire : r.kind = "job" =>
        SubmissionFields \subseteq DOMAIN quiet(r) /\ OfChosen(quiet(r)) = OfChosen(r) /\ quiet(r).ids = r.ids
  BY <1>1, <1>3 DEF BulkShaped, SubmissionFields, OfChosen
<1>7. \A r \in wire : r.kind = "select" =>
        {"op", "ids", "conf"} \subseteq DOMAIN quiet(r) /\ quiet(r).conf = r.conf
  BY <1>1, <1>3 DEF BulkShaped
<1>8. BulkShaped(page', wire', world')
  <2>1. \A s \in wire' : s.kind = "job" => SubmissionFields \subseteq DOMAIN s
    BY <1>3, <1>4, <1>6
  <2>2. \A s \in wire' : s.kind = "select" => {"op", "ids", "conf"} \subseteq DOMAIN s
    BY <1>3, <1>4, <1>7
  <2>  QED  BY <1>1, <1>2, <1>5, <2>1, <2>2 DEF BulkShaped
<1>9. Chosen(page', wire', world') \subseteq Chosen(page, wire, world)
  <2>1. \A s \in wire' : s.kind = "job" /\ s.ids # NoOne =>
          \E r \in wire : r.kind = "job" /\ r.ids # NoOne /\ OfChosen(s) = OfChosen(r)
    BY <1>3, <1>4, <1>6
  <2>  QED  BY <1>2, <2>1 DEF Chosen
<1>10. \A s \in wire' : s.kind = "select" =>
          \E r \in wire : r.kind = "select" /\ s = quiet(r) /\ s.conf = r.conf
  BY <1>3, <1>4, <1>7
<1>11. ConfirmedOnce(page', wire', world')
  <2>1. /\ \A c, e \in Chosen(page, wire, world) : c[2] = e[2] => c = e
        /\ \A c \in Chosen(page, wire, world) : c[2] \in 1..world.confirmed
        /\ \A r \in wire : r.kind = "select" => r.conf \in 1..world.confirmed
        /\ \A r \in wire : r.kind = "select" => \A c \in Chosen(page, wire, world) : r.conf # c[2]
        /\ \A r, s \in wire : r.kind = "select" /\ s.kind = "select" /\ r.conf = s.conf => r = s
    BY <1>1 DEF ConfirmedOnce
  <2>2. \A r, s \in wire' : r.kind = "select" /\ s.kind = "select" /\ r.conf = s.conf => r = s
    BY <1>10, <2>1
  <2>3. /\ \A r \in wire' : r.kind = "select" => r.conf \in 1..world'.confirmed
        /\ \A r \in wire' : r.kind = "select" => \A c \in Chosen(page', wire', world') : r.conf # c[2]
    BY <1>2, <1>9, <1>10, <2>1
  <2>4. /\ \A c, e \in Chosen(page', wire', world') : c[2] = e[2] => c = e
        /\ \A c \in Chosen(page', wire', world') : c[2] \in 1..world'.confirmed
    BY <1>2, <1>9, <2>1
  <2>  QED  BY <2>2, <2>3, <2>4 DEF ConfirmedOnce
<1>12. KeysApart(world')
  BY <1>1, <1>2
<1>  QED  BY <1>8, <1>11, <1>12 DEF BulkInv, BulkFits

LEMMA SnapCreatedFits == ASSUME BulkInv, SnapCreated PROVE BulkInv'
<1>1. BulkShaped(page, wire, world)
  BY DEF BulkInv, BulkFits
<1>2. PICK r \in Of("freeze") :
        /\ \E a : wire' = (wire \ {r}) \cup {[r EXCEPT !.answer = a]}
        /\ page' = page
        /\ \E set : world' = [world EXCEPT !.snaps = Append(@, [servers |-> set, state |-> "queued"])]
  BY DEF SnapCreated, NewSnap
<1>3. /\ {"jobs", "confirmed"} \subseteq DOMAIN world' /\ world'.jobs = world.jobs
      /\ world'.confirmed = world.confirmed
  BY <1>1, <1>2 DEF BulkShaped
<1>9. PICK a : wire' = (wire \ {r}) \cup {[r EXCEPT !.answer = a]}
  BY <1>2
<1>  DEFINE n == [r EXCEPT !.answer = a]
<1>4. DOMAIN n = DOMAIN r /\ n.kind = r.kind /\ r.kind = "freeze" /\ {"kind", "here"} \subseteq DOMAIN r
  BY <1>1, <1>2 DEF BulkShaped, Of
<1>5. wire' = (wire \ {r}) \cup {n}
  BY <1>9
<1>  HIDE DEF n
<1>6. /\ \A s \in wire' : {"kind", "here"} \subseteq DOMAIN s
      /\ \A s \in wire' : s.kind \in {"job", "select"} => s \in wire
  BY <1>1, <1>4, <1>5 DEF BulkShaped
<1>7. "pending" \in DOMAIN page' /\ page'.pending = page.pending
  BY <1>1, <1>2 DEF BulkShaped
<1>8. BulkFits(page', wire', world')
  BY <1>3, <1>6, <1>7, BulkAside
<1>  QED  BY <1>8 DEF BulkInv

\* The submission that made a job is one of those that were made.
LEMMA JobCreatedFits == ASSUME BulkInv, JobCreated PROVE BulkInv'
<1>1. BulkShaped(page, wire, world) /\ KeysApart(world) /\ ConfirmedOnce(page, wire, world)
  BY DEF BulkInv, BulkFits
<1>  DEFINE Made(r) == [key |-> r.key, conf |-> r.conf, snap |-> r.snap, op |-> r.op,
                        chosen |-> r.ids # NoOne, state |-> "queued", failed |-> FALSE]
<1>2. PICK r \in Of("job") :
        /\ \/ page' = page
           \/ page' = [page EXCEPT !.saving = FALSE]
           \/ \E view, dialog : page' = [page EXCEPT !.pending = NoOne, !.job = view,
                                                     !.saving = FALSE, !.dialog = dialog]
        /\ Leaves(r)
        /\ \/ HasKey(r.key) # {} /\ world' = [world EXCEPT !.jobs = world.jobs]
           \/ HasKey(r.key) = {} /\ world' = [world EXCEPT !.jobs = Append(world.jobs, Made(r))]
  <2>  DEFINE Jobs(r) == IF HasKey(r.key) # {} THEN world.jobs ELSE Append(world.jobs, Made(r))
              j(r)    == CHOOSE j \in DOMAIN Jobs(r) : Jobs(r)[j].key = r.key
  <2>1. PICK r \in Of("job"), lost \in BOOLEAN :
          /\ world' = [world EXCEPT !.jobs = Jobs(r)]
          /\ page' = IF ~r.here THEN page
                     ELSE IF lost THEN [page EXCEPT !.saving = FALSE]
                     ELSE [page EXCEPT !.pending = NoOne, !.job = JobView(Jobs(r), j(r)),
                                       !.saving = FALSE,
                                       !.dialog = IF page.saving THEN NoOne ELSE @]
          /\ Leaves(r)
    BY DEF JobCreated
  <2>2. \/ HasKey(r.key) # {} /\ world' = [world EXCEPT !.jobs = world.jobs]
        \/ HasKey(r.key) = {} /\ world' = [world EXCEPT !.jobs = Append(world.jobs, Made(r))]
    BY <2>1
  <2>3. \/ page' = page
        \/ page' = [page EXCEPT !.saving = FALSE]
        \/ \E view, dialog : page' = [page EXCEPT !.pending = NoOne, !.job = view,
                                                  !.saving = FALSE, !.dialog = dialog]
    BY <2>1
  <2>  QED  BY <2>1, <2>2, <2>3
<1>3. r \in wire /\ r.kind = "job" /\ SubmissionFields \subseteq DOMAIN r /\ wire' \subseteq wire
  BY <1>1, <1>2 DEF Of, BulkShaped, Leaves
<1>4. "pending" \in DOMAIN page' /\ page'.pending \in {NoOne, page.pending}
  BY <1>1, <1>2 DEF BulkShaped
<1>5. CASE HasKey(r.key) # {}
  <2>1. world' = [world EXCEPT !.jobs = world.jobs]
    BY <1>2, <1>5
  <2>2. /\ {"jobs", "confirmed"} \subseteq DOMAIN world' /\ world'.jobs = world.jobs
        /\ world'.confirmed = world.confirmed
    BY <1>1, <2>1 DEF BulkShaped
  <2>  QED  BY <1>3, <1>4, <2>2, NothingSentAside
<1>6. CASE HasKey(r.key) = {}
  <2>  DEFINE n == Made(r)
  <2>1. n.key = r.key /\ n.conf = r.conf /\ (n.chosen <=> r.ids # NoOne)
    OBVIOUS
  <2>2. world' = [world EXCEPT !.jobs = Append(world.jobs, n)]
    BY <1>2, <1>6
  <2>  HIDE DEF n
  <2>3. /\ {"jobs", "confirmed"} \subseteq DOMAIN world' /\ world'.jobs = Append(world.jobs, n)
        /\ world'.confirmed = world.confirmed
    BY <1>1, <2>2 DEF BulkShaped
  <2>4. PICK kinds : world.jobs \in Seq(kinds)
    BY <1>1 DEF BulkShaped, SomeSequence
  <2>5. world.jobs \in Seq(kinds \cup {n})
    BY <2>4
  <2>6. /\ Append(world.jobs, n) \in Seq(kinds \cup {n})
        /\ Len(Append(world.jobs, n)) = Len(world.jobs) + 1
        /\ \A i \in 1..Len(world.jobs) : Append(world.jobs, n)[i] = world.jobs[i]
        /\ Append(world.jobs, n)[Len(world.jobs) + 1] = n
    BY <2>5
  <2>7. DOMAIN world.jobs = 1..Len(world.jobs) /\ Len(world.jobs) \in Nat
        /\ DOMAIN Append(world.jobs, n) = 1..(Len(world.jobs) + 1)
    BY <2>5, <2>6
  <2>8. \A i \in DOMAIN world'.jobs :
          \/ i \in DOMAIN world.jobs /\ world'.jobs[i] = world.jobs[i]
          \/ i = Len(world.jobs) + 1 /\ world'.jobs[i] = n
    BY <2>3, <2>6, <2>7
  <2>9. BulkShaped(page', wire', world')
    BY <1>1, <1>3, <1>4, <2>3, <2>6 DEF BulkShaped, SomeSequence
  <2>10. Chosen(page', wire', world') \subseteq Chosen(page, wire, world)
    <3>1. OfChosen(n) = OfChosen(r)
      BY <2>1 DEF OfChosen
    <3>  QED  BY <1>3, <1>4, <2>1, <2>8, <3>1 DEF Chosen
  <2>11. KeysApart(world')
    <3>1. \A i \in DOMAIN world.jobs : world.jobs[i].key # n.key
      BY <1>6, <2>1 DEF HasKey
    <3>  QED  BY <1>1, <2>8, <3>1 DEF KeysApart
  <2>12. \A s \in wire' : s.kind = "select" => s \in wire
    BY <1>3
  <2>13. world'.confirmed >= world.confirmed
    BY <1>1, <2>3 DEF BulkShaped
  <2>14. BulkFits(page', wire', world')
    BY <2>9, <2>10, <2>11, <2>12, <2>13, BulkLess
  <2>  QED  BY <2>14 DEF BulkInv
<1>  QED  BY <1>5, <1>6

\* A job that proceeds keeps its key and its confirmation.
LEMMA JobProceedsFits == ASSUME BulkInv, JobProceeds PROVE BulkInv'
<1>1. BulkShaped(page, wire, world) /\ KeysApart(world)
  BY DEF BulkInv, BulkFits
<1>2. page' = page /\ wire' = wire
  BY DEF JobProceeds
<1>0. "jobs" \in DOMAIN world /\ "confirmed" \in DOMAIN world
  BY <1>1 DEF BulkShaped
<1>3. PICK j \in DOMAIN world.jobs :
          \/ /\ world.jobs[j].state = "queued"
             /\ world' = [world EXCEPT !.jobs[j].state = "running"]
          \/ /\ world.jobs[j].state = "running"
             /\ \E done \in SUBSET world.snaps[world.jobs[j].snap].servers :
                   world' = [world EXCEPT
                     !.jobs[j].state = IF done = world.snaps[world.jobs[j].snap].servers
                                       THEN "done" ELSE "partial",
                     !.jobs[j].failed = ~(done = world.snaps[world.jobs[j].snap].servers),
                     !.alive = IF world.jobs[j].op = "delete" THEN @ \ done ELSE @]
  BY Zenon DEF JobProceeds
<1>  DEFINE KeptOf(n) == /\ n.key = world.jobs[j].key /\ n.conf = world.jobs[j].conf
                       /\ n.chosen = world.jobs[j].chosen
                       /\ world'.jobs = [world.jobs EXCEPT ![j] = n]
                       /\ "jobs" \in DOMAIN world' /\ "confirmed" \in DOMAIN world'
                       /\ world'.confirmed = world.confirmed
<1>4. \E n : KeptOf(n)
  <2>1. CASE world' = [world EXCEPT !.jobs[j].state = "running"]
    <3>  DEFINE n == [world.jobs[j] EXCEPT !.state = "running"]
    <3>1. n.key = world.jobs[j].key /\ n.conf = world.jobs[j].conf /\ n.chosen = world.jobs[j].chosen
      OBVIOUS
    <3>2. world' = [world EXCEPT !.jobs = [world.jobs EXCEPT ![j] = n]]
      BY <1>0, <2>1
    <3>  HIDE DEF n
    <3>  QED  BY <1>0, <3>1, <3>2
  <2>2. ASSUME NEW done,
               world' = [world EXCEPT
                     !.jobs[j].state = IF done = world.snaps[world.jobs[j].snap].servers
                                       THEN "done" ELSE "partial",
                     !.jobs[j].failed = ~(done = world.snaps[world.jobs[j].snap].servers),
                     !.alive = IF world.jobs[j].op = "delete" THEN @ \ done ELSE @]
        PROVE  \E n : KeptOf(n)
    <3>  DEFINE all == done = world.snaps[world.jobs[j].snap].servers
                state == IF all THEN "done" ELSE "partial"
                alive == IF world.jobs[j].op = "delete" THEN world.alive \ done ELSE world.alive
                n == [world.jobs[j] EXCEPT !.state = state, !.failed = ~all]
    <3>1. n.key = world.jobs[j].key /\ n.conf = world.jobs[j].conf /\ n.chosen = world.jobs[j].chosen
      OBVIOUS
    <3>2. world' = [world EXCEPT !.jobs = [world.jobs EXCEPT ![j] = n], !.alive = alive]
      BY <1>0, <2>2
    <3>  HIDE DEF n, alive
    <3>  QED  BY <1>0, <3>1, <3>2
  <2>  QED  BY <1>3, <2>1, <2>2
<1>5. PICK n : KeptOf(n)
  BY <1>4
<1>6. PICK kinds : world.jobs \in Seq(kinds)
  BY <1>1 DEF BulkShaped, SomeSequence
<1>7. world'.jobs \in Seq(kinds \cup {n}) /\ DOMAIN world'.jobs = DOMAIN world.jobs
  <2>1. world.jobs \in Seq(kinds \cup {n})
    BY <1>6
  <2>  QED  BY <1>5, <2>1
<1>8. \A i \in DOMAIN world.jobs :
        /\ world'.jobs[i].key = world.jobs[i].key /\ world'.jobs[i].conf = world.jobs[i].conf
        /\ world'.jobs[i].chosen = world.jobs[i].chosen
  BY <1>5
<1>9. BulkShaped(page', wire', world')
  BY <1>1, <1>2, <1>5, <1>7 DEF BulkShaped, SomeSequence
<1>10. Chosen(page', wire', world') \subseteq Chosen(page, wire, world)
  BY <1>2, <1>7, <1>8 DEF Chosen, OfChosen
<1>11. KeysApart(world')
  BY <1>1, <1>7, <1>8 DEF KeysApart
<1>12. world'.confirmed >= world.confirmed
  BY <1>1, <1>5 DEF BulkShaped
<1>13. BulkFits(page', wire', world')
  BY <1>2, <1>9, <1>10, <1>11, <1>12, BulkLess
<1>  QED  BY <1>13 DEF BulkInv

LEMMA BulkStep == ASSUME BulkInv, BulkNext PROVE BulkInv'
<1>1. CASE BulkUser
  BY <1>1, AsideFits, ConfirmFits, RetryPendingFits, RetryFailuresFits, LeaveBulkFits DEF BulkUser
<1>2. CASE BulkRuns
  BY <1>2, AsideFits, SnapCreatedFits, SelectionFits, JobCreatedFits, JobProceedsFits DEF BulkRuns
<1>  QED  BY <1>1, <1>2 DEF BulkNext

LEMMA BulkApart ==
  ASSUME BulkInv, NEW i \in DOMAIN world.jobs, NEW j \in DOMAIN world.jobs,
         world.jobs[i].chosen, world.jobs[j].chosen, world.jobs[i].conf = world.jobs[j].conf
  PROVE  i = j
<1>1. OfChosen(world.jobs[i]) \in Chosen(page, wire, world)
      /\ OfChosen(world.jobs[j]) \in Chosen(page, wire, world)
  BY DEF Chosen
<1>2. OfChosen(world.jobs[i]) = OfChosen(world.jobs[j])
  BY <1>1 DEF BulkInv, BulkFits, ConfirmedOnce, OfChosen
<1>3. world.jobs[i].key = world.jobs[j].key
  BY <1>2 DEF OfChosen
<1>  QED  BY <1>3 DEF BulkInv, BulkFits, KeysApart
LEMMA BulkUnchanged == ASSUME BulkInv, UNCHANGED pageVars PROVE BulkInv'
<1>1. page' = page /\ wire' = wire /\ world' = world
  BY DEF pageVars
<1>2. BulkInv' <=> BulkFits(page', wire', world')
  BY DEF BulkInv
<1>  QED  BY <1>1, <1>2 DEF BulkInv

LEMMA BulkHolds == ConsoleSpec => [](Shows("bulk") => BulkInv)
<1>1. ConsoleInit => (Shows("bulk") => BulkInv)
  BY StartOfPage, BulkStart
<1>2. (Shows("bulk") => BulkInv) /\ [ConsoleNext]_pageVars
        => (Shows("bulk") => BulkInv)'
  <2>  SUFFICES ASSUME Shows("bulk") => BulkInv, [ConsoleNext]_pageVars, Shows("bulk")'
                PROVE  BulkInv'
    OBVIOUS
  <2>1. focus = "bulk"
    BY FocusStays DEF Shows
  <2>2. [BulkNext]_pageVars
    BY <2>1 DEF ConsoleNext, Shows
  <2>3. CASE BulkNext
    BY <2>1, <2>3, BulkStep DEF Shows
  <2>4. CASE UNCHANGED pageVars
    BY <2>1, <2>4, BulkUnchanged DEF Shows
  <2>  QED  BY <2>2, <2>3, <2>4
<1>  QED  BY <1>1, <1>2, PTL DEF ConsoleSpec

-----------------------------------------------------------------------------
(***************************************************************************)
(* A new test (TestCreate).                                                *)
(***************************************************************************)
TestFields == {"url", "past", "sel", "made", "session", "choice"}
UrlFields  == {"scope", "group", "sel", "picked", "mode"}

(* An address that names a selection says what the selection is of.         *)
UrlFits(u, d) ==
  /\ DOMAIN u = UrlFields
  /\ u.sel # NoOne => /\ u.sel \in DOMAIN d.snaps /\ OfSelection(u)
                      /\ ScopeOf(u) # "selection" => d.snaps[u.sel].of = CreationKey(u)

IsKey(k) == k = [sel |-> k.sel, mode |-> k.mode, key |-> k.key]

MadeFits(m, d) ==
  m # NoOne => /\ {"key", "id"} \subseteq DOMAIN m
               /\ m.id # NoOne => m.id \in DOMAIN d.snaps /\ d.snaps[m.id].of = m.key

TestRequest(r) ==
  /\ "kind" \in DOMAIN r
  /\ r.kind = "freeze" => {"key", "wait", "cached", "id"} \subseteq DOMAIN r
  /\ r.kind = "selection" => "id" \in DOMAIN r
  /\ r.kind = "job" => /\ {"pending", "choice", "here", "done"} \subseteq DOMAIN r
                       /\ r.pending # NoOne => IsKey(r.pending)

FreezeFits(r, p, d) ==
  /\ r.id # NoOne => r.id \in DOMAIN d.snaps /\ d.snaps[r.id].of = r.key
  /\ r.cached => p.made.key = r.key

\* The tests of selections that were sent and not answered, or made.
TestOf(k, choice) == <<k.sel, k.mode, k.key, choice>>
Tests(w, d) ==
  {TestOf(r.pending, r.choice) : r \in {r \in w : r.kind = "job" /\ r.pending # NoOne}}
  \cup {TestOf(d.jobs[j], d.jobs[j].choice) : j \in DOMAIN d.jobs}

\* The test of this choice is that of the address, and its key is in the session.
OfThisChoice(t, p) ==
  /\ p.url.sel # NoOne /\ p.url.sel = t[1] /\ p.url.mode = t[2]
  /\ p.session # NoOne /\ p.session = [sel |-> t[1], mode |-> t[2], key |-> t[3]]

ChosenOnce(p, w, d) ==
  /\ \A t \in Tests(w, d) : t[4] \in 0..p.choice
  /\ \A t \in Tests(w, d) : t[4] = p.choice => OfThisChoice(t, p)
  /\ \A s, t \in Tests(w, d) : s[4] = t[4] => s = t

TestsApart(d) == \A i, j \in DOMAIN d.jobs : d.jobs[i].key = d.jobs[j].key => i = j

TestBase(p, w, d) ==
  /\ TestFields \subseteq DOMAIN p /\ p.choice \in Nat
  /\ UrlFits(p.url, d) /\ (p.past # NoOne => UrlFits(p.past, d))
  /\ p.session # NoOne => IsKey(p.session)
  /\ MadeFits(p.made, d)
  /\ {"snaps", "jobs", "keys"} \subseteq DOMAIN d
  /\ SomeSequence(d.snaps) /\ SomeSequence(d.jobs) /\ TestsApart(d)
  /\ \A r \in w : TestRequest(r)
  /\ \A r \in w : r.kind = "freeze" => FreezeFits(r, p, d)
  /\ ChosenOnce(p, w, d)

\* What is awaited is the selection of the address.
Awaited(r, p) ==
  /\ r.kind = "selection" => p.url.sel # NoOne /\ r.id = p.url.sel
  /\ r.kind = "freeze" /\ r.wait =>
       p.url.sel = NoOne /\ r.key = CreationKey(p.url) /\ ScopeOf(p.url) \in {"group", "all"}

TestNow(p, w) ==
  /\ p.sel # NoOne => p.url.sel # NoOne /\ p.sel.id = p.url.sel
  /\ \A r \in w : Awaited(r, p)

TestInv == TestBase(page, wire, world) /\ TestNow(page, wire)

-----------------------------------------------------------------------------
\* Requests that ask for no more than others do.
Echo(r, s) ==
  /\ DOMAIN r = DOMAIN s /\ r.kind = s.kind
  /\ r.kind = "freeze" => r.key = s.key /\ r.id = s.id /\ (r.cached => s.cached)
  /\ r.kind = "selection" => r.id = s.id
  /\ r.kind = "job" => r.pending = s.pending /\ r.choice = s.choice

Echoes(v, w) == \A r \in v : \E s \in w : Echo(r, s)

\* And that are awaited where the others are.
Quieter(v, w) == \A r \in v : \E s \in w : Echo(r, s) /\ (r.kind = "freeze" /\ r.wait => s.wait)

LEMMA EchoesSome == ASSUME NEW v, NEW w, v \subseteq w PROVE Echoes(v, w)
  BY DEF Echoes, Echo

LEMMA EchoesTwice == ASSUME NEW u, NEW v, NEW w, Echoes(u, v), Echoes(v, w) PROVE Echoes(u, w)
<1>1. ASSUME NEW r, NEW s, NEW t, Echo(r, s), Echo(s, t) PROVE Echo(r, t)
  BY <1>1 DEF Echo
<1>  QED  BY <1>1 DEF Echoes

LEMMA UnawaitedEchoes ==
  ASSUME NEW w, \A r \in w : TestRequest(r)
  PROVE  /\ Echoes(Unawaited(w), w)
         /\ \A r \in Unawaited(w) : r.kind # "selection" /\ (r.kind = "freeze" => ~r.wait)
<1>1. ASSUME NEW r \in Unawaited(w)
      PROVE  /\ \E s \in w : Echo(r, s)
             /\ r.kind # "selection" /\ (r.kind = "freeze" => ~r.wait)
  <2>1. PICK s \in w : /\ s.kind # "selection"
                       /\ r = IF s.kind = "freeze" THEN [s EXCEPT !.wait = FALSE] ELSE s
    BY <1>1 DEF Unawaited
  <2>2. CASE s.kind = "freeze"
    <3>1. r = [s EXCEPT !.wait = FALSE]
      BY <2>1, <2>2
    <3>2. /\ DOMAIN r = DOMAIN s /\ r.kind = s.kind /\ r.key = s.key /\ r.id = s.id
          /\ r.wait = FALSE /\ r.cached = s.cached
      BY <2>1, <2>2, <3>1 DEF TestRequest
    <3>  QED  BY <2>1, <2>2, <3>2 DEF Echo
  <2>3. CASE s.kind # "freeze"
    BY <2>1, <2>3 DEF Echo
  <2>  QED  BY <2>2, <2>3
<1>  QED  BY <1>1 DEF Echoes

LEMMA UncachedEchoes ==
  ASSUME NEW w, \A r \in w : TestRequest(r)
  PROVE  /\ Echoes(Uncached(w), w) /\ Quieter(Uncached(w), w)
         /\ \A r \in Uncached(w) : r.kind = "freeze" => ~r.cached
<1>1. ASSUME NEW r \in Uncached(w)
      PROVE  /\ \E s \in w : Echo(r, s) /\ (r.kind = "freeze" /\ r.wait => s.wait)
             /\ r.kind = "freeze" => ~r.cached
  <2>1. PICK s \in w : r = IF s.kind = "freeze" THEN [s EXCEPT !.cached = FALSE] ELSE s
    BY <1>1 DEF Uncached
  <2>2. CASE s.kind = "freeze"
    <3>1. r = [s EXCEPT !.cached = FALSE]
      BY <2>1, <2>2
    <3>2. /\ DOMAIN r = DOMAIN s /\ r.kind = s.kind /\ r.key = s.key /\ r.id = s.id
          /\ r.wait = s.wait /\ r.cached = FALSE
      BY <2>1, <2>2, <3>1 DEF TestRequest
    <3>  QED  BY <2>1, <2>2, <3>2 DEF Echo
  <2>3. CASE s.kind # "freeze"
    BY <2>1, <2>3 DEF Echo
  <2>  QED  BY <2>2, <2>3
<1>  QED  BY <1>1 DEF Echoes, Quieter

LEMMA EchoesAreRequests ==
  ASSUME NEW v, NEW w, Echoes(v, w), \A r \in w : TestRequest(r)
  PROVE  \A r \in v : TestRequest(r)
<1>1. ASSUME NEW r, NEW s, Echo(r, s), TestRequest(s) PROVE TestRequest(r)
  BY <1>1 DEF Echo, TestRequest
<1>  QED  BY <1>1 DEF Echoes

\* The requests of a page that was left.
LEMMA ElsewhereEchoes ==
  ASSUME NEW w, \A r \in w : TestRequest(r)
  PROVE  /\ Echoes(Elsewhere(w), w)
         /\ \A r \in Elsewhere(w) : r.kind = "freeze" => ~r.cached
<1>  DEFINE v == Uncached(Unawaited(w))
<1>1. Echoes(Unawaited(w), w) /\ \A r \in Unawaited(w) : TestRequest(r)
  BY UnawaitedEchoes, EchoesAreRequests
<1>2. /\ Echoes(v, Unawaited(w)) /\ \A r \in v : r.kind = "freeze" => ~r.cached
  BY <1>1, UncachedEchoes
<1>3. \A r \in v : TestRequest(r)
  BY <1>1, <1>2, EchoesAreRequests
<1>4. Echoes(v, w)
  BY <1>1, <1>2, EchoesTwice
<1>5. Elsewhere(w) = {IF r.kind = "job" THEN [r EXCEPT !.here = FALSE] ELSE r :
                        r \in {r \in v : r.kind # "options"}}
  BY DEF Elsewhere
<1>  HIDE DEF v
<1>6. ASSUME NEW r \in Elsewhere(w)
      PROVE  (\E s \in v : Echo(r, s)) /\ (r.kind = "freeze" => ~r.cached)
  <2>1. PICK s \in v : r = IF s.kind = "job" THEN [s EXCEPT !.here = FALSE] ELSE s
    BY <1>5, <1>6
  <2>2. CASE s.kind = "job"
    <3>1. r = [s EXCEPT !.here = FALSE]
      BY <2>1, <2>2
    <3>2. /\ DOMAIN r = DOMAIN s /\ r.kind = s.kind /\ r.pending = s.pending
          /\ r.choice = s.choice
      BY <1>3, <2>2, <3>1 DEF TestRequest
    <3>  QED  BY <2>1, <2>2, <3>2 DEF Echo
  <2>3. CASE s.kind # "job"
    BY <1>2, <2>1, <2>3 DEF Echo
  <2>  QED  BY <2>2, <2>3
<1>7. Echoes(Elsewhere(w), v)
  BY <1>6 DEF Echoes
<1>  QED  BY <1>4, <1>6, <1>7, EchoesTwice

LEMMA TestsEcho ==
  ASSUME NEW v, NEW w, NEW d, Echoes(v, w)
  PROVE  Tests(v, d) \subseteq Tests(w, d)
<1>1. ASSUME NEW r \in v, r.kind = "job", r.pending # NoOne
      PROVE  \E s \in w : s.kind = "job" /\ s.pending # NoOne
                          /\ TestOf(r.pending, r.choice) = TestOf(s.pending, s.choice)
  BY <1>1 DEF Echoes, Echo
<1>  QED  BY <1>1 DEF Tests

\* A page with the same address, session and promise, and requests that ask for no more.
LEMMA BaseEchoes ==
  ASSUME NEW p, NEW q, NEW v, NEW w, NEW d, TestBase(p, w, d), Echoes(v, w),
         TestFields \subseteq DOMAIN q, q.url = p.url, q.past = p.past, q.choice = p.choice,
         q.session = p.session,
         \/ q.made = p.made
         \/ MadeFits(q.made, d) /\ \A r \in v : r.kind = "freeze" => ~r.cached
  PROVE  TestBase(q, v, d)
<1>1. \A r \in v : TestRequest(r)
  BY EchoesAreRequests DEF TestBase
<1>2. \A r \in v : r.kind = "freeze" => FreezeFits(r, q, d)
  <2>1. ASSUME NEW r \in v, r.kind = "freeze" PROVE FreezeFits(r, q, d)
    <3>1. PICK s \in w : Echo(r, s)
      BY DEF Echoes
    <3>2. FreezeFits(s, p, d)
      BY <2>1, <3>1 DEF TestBase, Echo
    <3>  QED  BY <2>1, <3>1, <3>2 DEF FreezeFits, Echo
  <2>  QED  BY <2>1
<1>3. Tests(v, d) \subseteq Tests(w, d)
  BY TestsEcho
<1>4. ChosenOnce(q, v, d)
  BY <1>3 DEF TestBase, ChosenOnce, OfThisChoice
<1>5. MadeFits(q.made, d)
  BY DEF TestBase
<1>  QED  BY <1>1, <1>2, <1>4, <1>5 DEF TestBase

\* A request is sent that is no test.
LEMMA BaseSends ==
  ASSUME NEW p, NEW w, NEW d, TestBase(p, w, d), NEW r, TestRequest(r), r.kind # "job",
         r.kind = "freeze" => FreezeFits(r, p, d)
  PROVE  TestBase(p, w \cup {r}, d)
<1>1. Tests(w \cup {r}, d) = Tests(w, d)
  BY DEF Tests
<1>2. ChosenOnce(p, w \cup {r}, d)
  BY <1>1 DEF TestBase, ChosenOnce
<1>  QED  BY <1>2 DEF TestBase

LEMMA ReadingFits ==
  ASSUME NEW p, NEW w, NEW d, TestBase(p, w, d), NEW id, id = p.url.sel, id # NoOne,
         Reading(p, id, w)
  PROVE  TestBase(page', wire', d) /\ TestNow(page', wire')
<1>  DEFINE n == [kind |-> "selection", id |-> id]
<1>1. /\ page' = [p EXCEPT !.sel = NoOne, !.loading = TRUE, !.failed = FALSE]
      /\ wire' = Unawaited(w) \cup {n}
  BY DEF Reading
<1>2. /\ TestFields \subseteq DOMAIN page' /\ page'.url = p.url /\ page'.past = p.past
      /\ page'.choice = p.choice /\ page'.session = p.session /\ page'.made = p.made
      /\ page'.sel = NoOne
  BY <1>1 DEF TestBase, TestFields
<1>3. Echoes(Unawaited(w), w)
      /\ \A r \in Unawaited(w) : r.kind # "selection" /\ (r.kind = "freeze" => ~r.wait)
  BY UnawaitedEchoes DEF TestBase
<1>4. TestBase(page', Unawaited(w), d)
  BY <1>2, <1>3, BaseEchoes
<1>5. TestRequest(n) /\ n.kind = "selection" /\ n.id = id
  BY DEF TestRequest
<1>  HIDE DEF n
<1>6. TestBase(page', wire', d)
  BY <1>1, <1>4, <1>5, BaseSends
<1>7. TestNow(page', wire')
  BY <1>1, <1>2, <1>3, <1>5 DEF TestNow, Awaited
<1>  QED  BY <1>6, <1>7

\* Nothing is read, and nothing is awaited.
LEMMA IdleFits ==
  ASSUME NEW p, NEW w, NEW d, TestBase(p, w, d), NEW failed,
         page' = [p EXCEPT !.sel = NoOne, !.loading = FALSE, !.failed = failed],
         wire' = Unawaited(w)
  PROVE  TestBase(page', wire', d) /\ TestNow(page', wire')
<1>1. /\ TestFields \subseteq DOMAIN page' /\ page'.url = p.url /\ page'.past = p.past
      /\ page'.choice = p.choice /\ page'.session = p.session /\ page'.made = p.made
      /\ page'.sel = NoOne
  BY DEF TestBase, TestFields
<1>2. Echoes(Unawaited(w), w)
      /\ \A r \in Unawaited(w) : r.kind # "selection" /\ (r.kind = "freeze" => ~r.wait)
  BY UnawaitedEchoes DEF TestBase
<1>3. TestBase(page', wire', d)
  BY <1>1, <1>2, BaseEchoes
<1>4. TestNow(page', wire')
  BY <1>1, <1>2 DEF TestNow, Awaited
<1>  QED  BY <1>3, <1>4

\* A scope for which a selection is made.
Creates(u) == u.sel = NoOne /\ ScopeOf(u) \in {"group", "all"}

\* Its address once it is made is one of the same scope and group.
Addressed(u, key, id) == [u EXCEPT !.sel = id, !.scope = key.scope]

LEMMA AddressedFits ==
  ASSUME NEW u, NEW d, UrlFits(u, d), Creates(u), NEW id, id # NoOne, id \in DOMAIN d.snaps,
         d.snaps[id].of = CreationKey(u)
  PROVE  /\ UrlFits(Addressed(u, CreationKey(u), id), d)
         /\ Addressed(u, CreationKey(u), id).sel = id
<1>  DEFINE key == CreationKey(u)
            a == Addressed(u, key, id)
<1>1. key.scope = ScopeOf(u) /\ key.group = IF ScopeOf(u) = "group" THEN u.group ELSE NoOne
  BY DEF CreationKey
<1>2. /\ DOMAIN a = UrlFields /\ a.sel = id /\ a.scope = key.scope /\ a.group = u.group
  BY DEF Addressed, UrlFits, UrlFields
<1>  HIDE DEF a
<1>3. ScopeOf(a) = ScopeOf(u)
  BY <1>1, <1>2 DEF Creates, ScopeOf
<1>4. CreationKey(a) = CreationKey(u)
  BY <1>2, <1>3 DEF CreationKey
<1>5. OfSelection(a)
  BY <1>3 DEF Creates, OfSelection
<1>6. UrlFits(a, d)
  BY <1>2, <1>4, <1>5 DEF UrlFits
<1>  QED  BY <1>2, <1>6 DEF a

\* No test is of this choice.
Untested(p, w, d) == \A t \in Tests(w, d) : t[4] # p.choice

LEMMA AddressedBase ==
  ASSUME NEW p, NEW w, NEW d, TestBase(p, w, d), Creates(p.url), NEW id, id # NoOne,
         id \in DOMAIN d.snaps, d.snaps[id].of = CreationKey(p.url), NEW q,
         TestFields \subseteq DOMAIN q, q.url = Addressed(p.url, CreationKey(p.url), id),
         q.past = p.past, q.choice = p.choice, q.session = p.session, q.made = p.made
  PROVE  TestBase(q, w, d) /\ q.url.sel = id /\ Untested(q, w, d)
<1>1. UrlFits(q.url, d) /\ q.url.sel = id
  BY AddressedFits DEF TestBase
<1>2. \A t \in Tests(w, d) : t[4] # p.choice
  BY DEF TestBase, ChosenOnce, OfThisChoice, Creates
<1>3. ChosenOnce(q, w, d)
  BY <1>2 DEF TestBase, ChosenOnce
<1>4. \A r \in w : r.kind = "freeze" => FreezeFits(r, q, d)
  BY DEF TestBase, FreezeFits
<1>5. TestBase(q, w, d)
  BY <1>1, <1>3, <1>4 DEF TestBase
<1>  QED  BY <1>1, <1>2, <1>5 DEF Untested

\* A selection is asked for, and is the one the page keeps.
LEMMA PromiseFits ==
  ASSUME NEW p, NEW w, NEW d, TestBase(p, w, d), Creates(p.url), NEW key, key = CreationKey(p.url),
         page' = [p EXCEPT !.sel = NoOne, !.loading = TRUE, !.failed = FALSE,
                           !.made = [key |-> key, id |-> NoOne]],
         wire' = Uncached(Unawaited(w)) \cup
                   {[kind |-> "freeze", key |-> key, wait |-> TRUE, cached |-> TRUE, id |-> NoOne]}
  PROVE  TestBase(page', wire', d) /\ TestNow(page', wire')
<1>  DEFINE n == [kind |-> "freeze", key |-> key, wait |-> TRUE, cached |-> TRUE, id |-> NoOne]
            m == [key |-> key, id |-> NoOne]
            v == Uncached(Unawaited(w))
<1>1. DOMAIN m = {"key", "id"} /\ m.key = key /\ m.id = NoOne
  OBVIOUS
<1>2. TestRequest(n) /\ n.kind = "freeze" /\ n.key = key /\ n.id = NoOne
  BY DEF TestRequest
<1>3. page' = [p EXCEPT !.sel = NoOne, !.loading = TRUE, !.failed = FALSE, !.made = m]
      /\ wire' = v \cup {n}
  OBVIOUS
<1>  HIDE DEF m, n
<1>4. /\ TestFields \subseteq DOMAIN page' /\ page'.url = p.url /\ page'.past = p.past
      /\ page'.choice = p.choice /\ page'.session = p.session /\ page'.made = m
      /\ page'.sel = NoOne
  BY <1>3 DEF TestBase, TestFields
<1>5. /\ Echoes(Unawaited(w), w) /\ \A r \in Unawaited(w) : TestRequest(r)
      /\ \A r \in Unawaited(w) : r.kind # "selection" /\ (r.kind = "freeze" => ~r.wait)
  BY UnawaitedEchoes, EchoesAreRequests DEF TestBase
<1>6. /\ Echoes(v, Unawaited(w)) /\ Quieter(v, Unawaited(w))
      /\ \A r \in v : r.kind = "freeze" => ~r.cached
  BY <1>5, UncachedEchoes
<1>  HIDE DEF v
<1>7. Echoes(v, w)
  BY <1>5, <1>6, EchoesTwice
<1>8. \A r \in v : r.kind # "selection" /\ (r.kind = "freeze" => ~r.wait)
  BY <1>5, <1>6 DEF Quieter, Echo
<1>9. MadeFits(m, d)
  BY <1>1 DEF MadeFits
<1>10. TestBase(page', v, d)
  BY <1>4, <1>6, <1>7, <1>9, BaseEchoes
<1>11. FreezeFits(n, page', d)
  BY <1>1, <1>2, <1>4 DEF FreezeFits
<1>12. TestBase(page', wire', d)
  BY <1>2, <1>3, <1>10, <1>11, BaseSends
<1>13. TestNow(page', wire')
  BY <1>2, <1>3, <1>4, <1>8 DEF TestNow, Awaited, Creates
<1>  QED  BY <1>12, <1>13

\* The selection that is on its way is waited for.
LEMMA WaitingFits ==
  ASSUME NEW p, NEW w, NEW d, TestBase(p, w, d), Creates(p.url), p.made.key = CreationKey(p.url),
         page' = [p EXCEPT !.sel = NoOne, !.loading = TRUE, !.failed = FALSE],
         wire' = {IF r.kind = "freeze" THEN [r EXCEPT !.wait = r.cached] ELSE r : r \in Unawaited(w)}
  PROVE  TestBase(page', wire', d) /\ TestNow(page', wire')
<1>  DEFINE v == Unawaited(w)
<1>1. /\ TestFields \subseteq DOMAIN page' /\ page'.url = p.url /\ page'.past = p.past
      /\ page'.choice = p.choice /\ page'.session = p.session /\ page'.made = p.made
      /\ page'.sel = NoOne
  BY DEF TestBase, TestFields
<1>2. /\ Echoes(v, w) /\ \A r \in v : TestRequest(r)
      /\ \A r \in v : r.kind # "selection" /\ (r.kind = "freeze" => ~r.wait)
  BY UnawaitedEchoes, EchoesAreRequests DEF TestBase
<1>3. wire' = {IF r.kind = "freeze" THEN [r EXCEPT !.wait = r.cached] ELSE r : r \in v}
  OBVIOUS
<1>  HIDE DEF v
<1>4. ASSUME NEW r \in wire'
      PROVE  /\ \E s \in v : Echo(r, s)
             /\ r.kind # "selection" /\ (r.kind = "freeze" /\ r.wait => r.cached)
  <2>1. PICK s \in v : r = IF s.kind = "freeze" THEN [s EXCEPT !.wait = s.cached] ELSE s
    BY <1>3, <1>4
  <2>2. CASE s.kind = "freeze"
    <3>1. r = [s EXCEPT !.wait = s.cached]
      BY <2>1, <2>2
    <3>2. /\ DOMAIN r = DOMAIN s /\ r.kind = s.kind /\ r.key = s.key /\ r.id = s.id
          /\ r.wait = s.cached /\ r.cached = s.cached
      BY <1>2, <2>2, <3>1 DEF TestRequest
    <3>  QED  BY <2>2, <3>2 DEF Echo
  <2>3. CASE s.kind # "freeze"
    BY <1>2, <2>1, <2>3 DEF Echo
  <2>  QED  BY <2>2, <2>3
<1>9. Echoes(wire', v)
  BY <1>4 DEF Echoes
<1>5. Echoes(wire', w)
  BY <1>2, <1>9, EchoesTwice
<1>6. TestBase(page', wire', d)
  BY <1>1, <1>5, BaseEchoes
<1>7. \A r \in wire' : r.kind = "freeze" /\ r.wait => r.key = CreationKey(page'.url)
  BY <1>1, <1>4, <1>6 DEF TestBase, FreezeFits
<1>8. TestNow(page', wire')
  BY <1>1, <1>4, <1>7 DEF TestNow, Awaited, Creates
<1>  QED  BY <1>6, <1>8

LEMMA ResolvesFromFits ==
  ASSUME NEW p, NEW w, NEW d, TestBase(p, w, d), ResolvesFrom(p, w)
  PROVE  TestBase(page', wire', d) /\ TestNow(page', wire')
<1>  DEFINE key == CreationKey(p.url)
            idle == ~OfSelection(p.url) \/ (ScopeOf(p.url) = "group" /\ p.url.group = NoOne)
<1>1. CASE idle
  <2>1. /\ page' = [p EXCEPT !.sel = NoOne, !.loading = FALSE, !.failed = FALSE]
        /\ wire' = Unawaited(w)
    BY <1>1 DEF ResolvesFrom, OfSelection
  <2>  QED  BY <2>1, IdleFits
<1>2. CASE ~idle /\ p.url.sel # NoOne
  <2>1. Reading(p, p.url.sel, w)
    BY <1>2 DEF ResolvesFrom
  <2>  QED  BY <1>2, <2>1, ReadingFits
<1>3. CASE ~idle /\ p.url.sel = NoOne /\ ScopeOf(p.url) = "selection"
  <2>1. /\ page' = [p EXCEPT !.sel = NoOne, !.loading = FALSE, !.failed = TRUE]
        /\ wire' = Unawaited(w)
    BY <1>3 DEF ResolvesFrom
  <2>  QED  BY <2>1, IdleFits
<1>4. CASE ~idle /\ p.url.sel = NoOne /\ ScopeOf(p.url) # "selection"
  <2>1. Creates(p.url)
    BY <1>4 DEF Creates, OfSelection
  <2>2. IF p.made = NoOne \/ p.made.key # key
        THEN /\ page' = [p EXCEPT !.sel = NoOne, !.loading = TRUE, !.failed = FALSE,
                                  !.made = [key |-> key, id |-> NoOne]]
             /\ wire' = Uncached(Unawaited(w)) \cup
                        {[kind |-> "freeze", key |-> key, wait |-> TRUE, cached |-> TRUE, id |-> NoOne]}
        ELSE IF p.made.id # NoOne
        THEN Reading([p EXCEPT !.url.sel = p.made.id, !.url.scope = key.scope], p.made.id, w)
        ELSE /\ page' = [p EXCEPT !.sel = NoOne, !.loading = TRUE, !.failed = FALSE]
             /\ wire' = {IF r.kind = "freeze" THEN [r EXCEPT !.wait = r.cached] ELSE r :
                            r \in Unawaited(w)}
    BY <1>4 DEF ResolvesFrom
  <2>3. CASE p.made = NoOne \/ p.made.key # key
    BY <2>1, <2>2, <2>3, PromiseFits
  <2>4. CASE p.made # NoOne /\ p.made.key = key /\ p.made.id # NoOne
    <3>  DEFINE q == [p EXCEPT !.url.sel = p.made.id, !.url.scope = key.scope]
    <3>1. Reading(q, p.made.id, w)
      BY <2>2, <2>4
    <3>2. q = [p EXCEPT !.url = Addressed(p.url, key, p.made.id)]
      BY DEF Addressed, TestBase, TestFields
    <3>3. /\ TestFields \subseteq DOMAIN q /\ q.url = Addressed(p.url, key, p.made.id)
          /\ q.past = p.past /\ q.choice = p.choice /\ q.session = p.session /\ q.made = p.made
      BY <3>2 DEF TestBase, TestFields
    <3>  HIDE DEF q
    <3>4. p.made.id \in DOMAIN d.snaps /\ d.snaps[p.made.id].of = CreationKey(p.url)
      BY <2>4 DEF TestBase, MadeFits
    <3>5. TestBase(q, w, d) /\ q.url.sel = p.made.id
      BY <2>1, <2>4, <3>3, <3>4, AddressedBase
    <3>  QED  BY <2>4, <3>1, <3>5, ReadingFits
  <2>5. CASE p.made # NoOne /\ p.made.key = key /\ p.made.id = NoOne
    BY <2>1, <2>2, <2>5, WaitingFits
  <2>  QED  BY <2>3, <2>4, <2>5
<1>  QED  BY <1>1, <1>2, <1>3, <1>4

(* Where no test is of this choice, or nothing was chosen yet, the key in   *)
(* the session is the right one.                                            *)
LEMMA ResolvesFits ==
  ASSUME NEW p, NEW w, NEW d, TestBase(p, w, d), "sel" \in DOMAIN p,
         p.sel = NoOne \/ Untested(p, w, d),
         Resolves(p, w)
  PROVE  TestBase(page', wire', d) /\ TestNow(page', wire')
<1>  DEFINE s == IF OfSelection(p.url) THEN RotatedFor(p.session, p.sel, p.url.mode) ELSE p.session
            q == [p EXCEPT !.session = s]
<1>1. ResolvesFrom(q, w)
  BY DEF Resolves
<1>2. s \in {NoOne, p.session} /\ (p.sel = NoOne => s = p.session)
  BY DEF RotatedFor
<1>  HIDE DEF s
<1>3. /\ TestFields \subseteq DOMAIN q /\ q.url = p.url /\ q.past = p.past /\ q.choice = p.choice
      /\ q.session = s /\ q.made = p.made
  BY DEF TestBase, TestFields
<1>  HIDE DEF q
<1>4. ChosenOnce(q, w, d)
  BY <1>2, <1>3 DEF TestBase, ChosenOnce, OfThisChoice, Untested
<1>5. TestBase(q, w, d)
  BY <1>2, <1>3, <1>4 DEF TestBase, FreezeFits
<1>  QED  BY <1>1, <1>5, ResolvesFromFits

\* Another choice, by an address that fits.
LEMMA ChosenAnewFits ==
  ASSUME TestInv, NEW p, NEW w, Echoes(w, wire), TestFields \subseteq DOMAIN p,
         UrlFits(p.url, world), p.past # NoOne => UrlFits(p.past, world),
         p.choice = page.choice + 1, p.session \in {NoOne, page.session},
         p.made = page.made \/ (p.made = NoOne /\ \A r \in w : r.kind = "freeze" => ~r.cached),
         Resolves(p, w), world' = world
  PROVE  TestInv'
<1>  DEFINE q == [f \in DOMAIN p |-> IF f \in TestFields /\ f # "made" THEN page[f] ELSE p[f]]
<1>1. TestBase(page, wire, world)
  BY DEF TestInv
<1>2. /\ TestFields \subseteq DOMAIN q /\ q.url = page.url /\ q.past = page.past
      /\ q.choice = page.choice /\ q.session = page.session /\ q.made = p.made
  BY DEF TestFields
<1>  HIDE DEF q
<1>3. MadeFits(NoOne, world)
  BY DEF MadeFits
<1>4. TestBase(q, w, world)
  BY <1>1, <1>2, <1>3, BaseEchoes
<1>5. page.choice \in Nat
  BY <1>1 DEF TestBase
<1>6. \A t \in Tests(w, world) : t[4] \in 0..page.choice
  BY <1>2, <1>4 DEF TestBase, ChosenOnce
<1>7. \A t \in Tests(w, world) : t[4] \in 0..p.choice /\ t[4] # p.choice
  BY <1>5, <1>6
<1>8. ChosenOnce(p, w, world)
  BY <1>4, <1>7 DEF TestBase, ChosenOnce
<1>9. \A r \in w : r.kind = "freeze" => FreezeFits(r, p, world)
  BY <1>2, <1>4 DEF TestBase, FreezeFits
<1>10. p.session # NoOne => IsKey(p.session)
  BY <1>1 DEF TestBase
<1>11. TestBase(p, w, world)
  BY <1>2, <1>4, <1>5, <1>8, <1>9, <1>10 DEF TestBase
<1>12. "sel" \in DOMAIN p
  BY DEF TestFields
<1>13. Untested(p, w, world)
  BY <1>7 DEF Untested
<1>14. TestBase(page', wire', world) /\ TestNow(page', wire')
  BY <1>11, <1>12, <1>13, ResolvesFits
<1>  QED  BY <1>14 DEF TestInv

\* A step that changes neither what is chosen nor what is asked.
LEMMA TestAside ==
  ASSUME TestInv, TestFields \subseteq DOMAIN page', page'.url = page.url, page'.past = page.past,
         page'.choice = page.choice, page'.session = page.session, page'.made = page.made,
         page'.sel = page.sel, wire' \subseteq wire, world' = world
  PROVE  TestInv'
<1>1. TestBase(page', wire', world)
  BY EchoesSome, BaseEchoes DEF TestInv
<1>2. TestNow(page', wire')
  BY DEF TestInv, TestNow, Awaited
<1>  QED  BY <1>1, <1>2 DEF TestInv

\* So is a request that asks for neither a selection nor a test.
LEMMA TestSendsAside ==
  ASSUME TestInv, TestFields \subseteq DOMAIN page', page'.url = page.url, page'.past = page.past,
         page'.choice = page.choice, page'.session = page.session, page'.made = page.made,
         page'.sel = page.sel, world' = world,
         NEW r, "kind" \in DOMAIN r, r.kind \notin {"job", "freeze"},
         r.kind = "selection" => "id" \in DOMAIN r /\ page.url.sel # NoOne /\ r.id = page.url.sel,
         NEW w, w \subseteq wire, wire' = w \cup {r}
  PROVE  TestInv'
<1>1. TestBase(page', w, world)
  BY EchoesSome, BaseEchoes DEF TestInv
<1>2. TestRequest(r)
  BY DEF TestRequest
<1>3. TestBase(page', wire', world)
  BY <1>1, <1>2, BaseSends
<1>4. TestNow(page', wire')
  BY DEF TestInv, TestNow, Awaited
<1>  QED  BY <1>3, <1>4 DEF TestInv

LEMMA TestHas ==
  ASSUME TestInv
  PROVE  /\ TestFields \subseteq DOMAIN page /\ DOMAIN page.url = UrlFields
         /\ UrlFits(page.url, world) /\ (page.past # NoOne => UrlFits(page.past, world))
         /\ \A r \in wire : TestRequest(r)
         /\ "snaps" \in DOMAIN world /\ "jobs" \in DOMAIN world /\ "keys" \in DOMAIN world
  BY DEF TestInv, TestBase, UrlFits

\* An address without a selection fits.
LEMMA PlainUrlFits == ASSUME NEW u, DOMAIN u = UrlFields, u.sel = NoOne PROVE UrlFits(u, world)
  BY DEF UrlFits

LEMMA PushesFits ==
  ASSUME TestInv, NEW u, UrlFits(u, world), Pushes(u), world' = world
  PROVE  TestInv'
<1>1. CASE u = page.url
  <2>1. page' = page /\ wire' = wire
    BY <1>1 DEF Pushes
  <2>  QED  BY <2>1, TestHas, TestAside
<1>2. CASE u # page.url
  <2>  DEFINE p == [page EXCEPT !.url = u, !.past = page.url, !.choice = @ + 1]
  <2>1. Resolves(p, wire)
    BY <1>2 DEF Pushes
  <2>2. /\ TestFields \subseteq DOMAIN p /\ p.url = u /\ p.past = page.url
        /\ p.choice = page.choice + 1 /\ p.session = page.session /\ p.made = page.made
    BY TestHas DEF TestFields
  <2>  HIDE DEF p
  <2>3. UrlFits(p.past, world) /\ Echoes(wire, wire)
    BY <2>2, TestHas, EchoesSome
  <2>  QED  BY <2>1, <2>2, <2>3, ChosenAnewFits
<1>  QED  BY <1>1, <1>2

\* Another scope or group forgets the promise.
LEMMA RechosenFits ==
  ASSUME TestInv, NEW u, DOMAIN u = UrlFields, u.sel = NoOne, world' = world,
         Resolves([page EXCEPT !.url = u, !.past = page.url, !.made = NoOne, !.choice = @ + 1],
                  Uncached(wire))
  PROVE  TestInv'
<1>  DEFINE p == [page EXCEPT !.url = u, !.past = page.url, !.made = NoOne, !.choice = @ + 1]
<1>1. Resolves(p, Uncached(wire))
  OBVIOUS
<1>2. /\ TestFields \subseteq DOMAIN p /\ p.url = u /\ p.past = page.url
      /\ p.choice = page.choice + 1 /\ p.session = page.session /\ p.made = NoOne
  BY TestHas DEF TestFields
<1>  HIDE DEF p
<1>3. UrlFits(p.past, world) /\ UrlFits(u, world)
  BY <1>2, TestHas, PlainUrlFits
<1>4. Echoes(Uncached(wire), wire) /\ \A r \in Uncached(wire) : r.kind = "freeze" => ~r.cached
  BY TestHas, UncachedEchoes
<1>  QED  BY <1>1, <1>2, <1>3, <1>4, ChosenAnewFits

LEMMA ChangesFit ==
  ASSUME TestInv, ChangeScope \/ ChangeGroup \/ ChangeMode \/ BrowseTest
  PROVE  TestInv'
<1>1. CASE ChangeScope
  <2>1. PICK s : LET u == [page.url EXCEPT !.sel = NoOne, !.scope = s,
                                          !.group = IF s = "group" THEN @ ELSE NoOne]
                 IN  Resolves([page EXCEPT !.url = u, !.past = page.url, !.made = NoOne,
                                           !.choice = @ + 1], Uncached(wire))
    BY <1>1 DEF ChangeScope
  <2>  DEFINE u == [page.url EXCEPT !.sel = NoOne, !.scope = s,
                                    !.group = IF s = "group" THEN @ ELSE NoOne]
  <2>2. DOMAIN u = UrlFields /\ u.sel = NoOne
    BY TestHas DEF UrlFields
  <2>3. Resolves([page EXCEPT !.url = u, !.past = page.url, !.made = NoOne, !.choice = @ + 1],
                 Uncached(wire))
    BY <2>1
  <2>4. world' = world
    BY <1>1 DEF ChangeScope
  <2>  HIDE DEF u
  <2>  QED  BY <2>2, <2>3, <2>4, RechosenFits
<1>2. CASE ChangeGroup
  <2>1. PICK g : Resolves([page EXCEPT !.url = Grouped(@, g), !.past = page.url, !.made = NoOne,
                                       !.choice = @ + 1], Uncached(wire))
    BY <1>2 DEF ChangeGroup
  <2>  DEFINE u == Grouped(page.url, g)
  <2>2. DOMAIN u = UrlFields /\ u.sel = NoOne
    BY TestHas DEF UrlFields, Grouped
  <2>3. Resolves([page EXCEPT !.url = u, !.past = page.url, !.made = NoOne, !.choice = @ + 1],
                 Uncached(wire))
    BY <2>1
  <2>4. world' = world
    BY <1>2 DEF ChangeGroup
  <2>  HIDE DEF u
  <2>  QED  BY <2>2, <2>3, <2>4, RechosenFits
<1>3. CASE ChangeMode
  <2>1. PICK m \in TestModes : Pushes([page.url EXCEPT !.mode = m])
    BY <1>3 DEF ChangeMode
  <2>  DEFINE u == [page.url EXCEPT !.mode = m]
  <2>2. /\ DOMAIN u = UrlFields /\ u.sel = page.url.sel /\ u.scope = page.url.scope
        /\ u.group = page.url.group /\ u.picked = page.url.picked
    BY TestHas DEF UrlFields
  <2>3. Pushes(u)
    BY <2>1
  <2>  HIDE DEF u
  <2>4. ScopeOf(u) = ScopeOf(page.url) /\ CreationKey(u) = CreationKey(page.url)
    BY <2>2 DEF ScopeOf, CreationKey
  <2>5. UrlFits(u, world)
    BY <2>2, <2>4, TestHas DEF UrlFits, OfSelection
  <2>6. world' = world
    BY <1>3 DEF ChangeMode
  <2>  QED  BY <2>3, <2>5, <2>6, PushesFits
<1>4. CASE BrowseTest
  <2>1. page.past # NoOne /\ Pushes(page.past) /\ world' = world
    BY <1>4 DEF BrowseTest
  <2>  QED  BY <2>1, TestHas, PushesFits
<1>  QED  BY <1>1, <1>2, <1>3, <1>4

LEMMA TestAsideFits ==
  ASSUME TestInv,
         \/ TypeTargets \/ SelectionLost \/ LoadOptions \/ OptionsShown \/ NextStep
         \/ PreviousStep \/ TestLost \/ PollSelection
  PROVE  TestInv'
<1>0. /\ TestFields \subseteq DOMAIN page
      /\ \A r \in wire : "kind" \in DOMAIN r
  BY TestHas DEF TestRequest
<1>1. CASE TypeTargets
  <2>1. PICK text : page' = [page EXCEPT !.manual = text]
    BY <1>1 DEF TypeTargets
  <2>2. /\ TestFields \subseteq DOMAIN page' /\ page'.url = page.url /\ page'.past = page.past
        /\ page'.choice = page.choice /\ page'.session = page.session /\ page'.made = page.made
        /\ page'.sel = page.sel
    BY <1>0, <2>1 DEF TestFields
  <2>  QED  BY <1>1, <2>2, TestAside DEF TypeTargets
<1>2. CASE SelectionLost
  <2>1. PICK r : page' = [page EXCEPT !.failed = TRUE, !.loading = FALSE] /\ wire' = wire \ {r}
    BY <1>2 DEF SelectionLost
  <2>2. /\ TestFields \subseteq DOMAIN page' /\ page'.url = page.url /\ page'.past = page.past
        /\ page'.choice = page.choice /\ page'.session = page.session /\ page'.made = page.made
        /\ page'.sel = page.sel
    BY <1>0, <2>1 DEF TestFields
  <2>3. wire' \subseteq wire /\ world' = world
    BY <1>2, <2>1 DEF SelectionLost
  <2>  QED  BY <2>2, <2>3, TestAside
<1>3. CASE LoadOptions
  <2>  DEFINE w == wire \ Of("options")
  <2>1. page' = [page EXCEPT !.options = "loading"] /\ wire' = w \cup {AskOptions} /\ world' = world
    BY <1>3 DEF LoadOptions
  <2>2. /\ TestFields \subseteq DOMAIN page' /\ page'.url = page.url /\ page'.past = page.past
        /\ page'.choice = page.choice /\ page'.session = page.session /\ page'.made = page.made
        /\ page'.sel = page.sel
    BY <1>0, <2>1 DEF TestFields
  <2>3. /\ "kind" \in DOMAIN AskOptions /\ AskOptions.kind = "options" /\ w \subseteq wire
    BY DEF AskOptions
  <2>  HIDE DEF w
  <2>4. AskOptions.kind \notin {"job", "freeze"} /\ AskOptions.kind # "selection"
    BY <2>3
  <2>  QED  BY <2>1, <2>2, <2>3, <2>4, TestSendsAside
<1>4. CASE OptionsShown
  <2>1. PICK r, o : page' = [page EXCEPT !.options = o] /\ wire' = wire \ {r}
    BY <1>4 DEF OptionsShown
  <2>2. /\ TestFields \subseteq DOMAIN page' /\ page'.url = page.url /\ page'.past = page.past
        /\ page'.choice = page.choice /\ page'.session = page.session /\ page'.made = page.made
        /\ page'.sel = page.sel
    BY <1>0, <2>1 DEF TestFields
  <2>3. wire' \subseteq wire /\ world' = world
    BY <1>4, <2>1 DEF OptionsShown
  <2>  QED  BY <2>2, <2>3, TestAside
<1>5. CASE NextStep \/ PreviousStep
  <2>1. \E n : page' = [page EXCEPT !.step = n]
    BY <1>5 DEF NextStep, PreviousStep
  <2>2. /\ TestFields \subseteq DOMAIN page' /\ page'.url = page.url /\ page'.past = page.past
        /\ page'.choice = page.choice /\ page'.session = page.session /\ page'.made = page.made
        /\ page'.sel = page.sel
    BY <1>0, <2>1 DEF TestFields
  <2>3. wire' \subseteq wire /\ world' = world
    BY <1>5 DEF NextStep, PreviousStep
  <2>  QED  BY <2>2, <2>3, TestAside
<1>6. CASE TestLost
  <2>1. PICK r : /\ page' = IF r.here THEN [page EXCEPT !.submitting = FALSE] ELSE page
                 /\ wire' = wire \ {r}
    BY <1>6 DEF TestLost
  <2>2. /\ TestFields \subseteq DOMAIN page' /\ page'.url = page.url /\ page'.past = page.past
        /\ page'.choice = page.choice /\ page'.session = page.session /\ page'.made = page.made
        /\ page'.sel = page.sel
    BY <1>0, <2>1 DEF TestFields
  <2>3. wire' \subseteq wire /\ world' = world
    BY <1>6, <2>1 DEF TestLost
  <2>  QED  BY <2>2, <2>3, TestAside
<1>7. CASE PollSelection
  <2>  DEFINE r == [kind |-> "selection", id |-> page.sel.id]
  <2>1. page.sel # NoOne /\ wire' = wire \cup {r} /\ page' = page /\ world' = world
    BY <1>7 DEF PollSelection
  <2>2. page.url.sel # NoOne /\ page.sel.id = page.url.sel
    BY <2>1 DEF TestInv, TestNow
  <2>3. r.kind = "selection" /\ "kind" \in DOMAIN r /\ "id" \in DOMAIN r /\ r.id = page.url.sel
    BY <2>2
  <2>  HIDE DEF r
  <2>4. r.kind \notin {"job", "freeze"} /\ wire \subseteq wire
    BY <2>3
  <2>  QED  BY <1>0, <2>1, <2>2, <2>3, <2>4, TestSendsAside
<1>  QED  BY <1>1, <1>2, <1>3, <1>4, <1>5, <1>6, <1>7

\* What the key in the session is for stays chosen when the selection is shown.
LEMMA SelectionShownFits == ASSUME TestInv, SelectionShown PROVE TestInv'
<1>1. PICK r \in Of("selection") : \E s, loading :
        /\ page' = [page EXCEPT !.sel = [id |-> r.id, state |-> s], !.loading = loading,
                                !.session = RotatedFor(@, [id |-> r.id], page.url.mode)]
        /\ wire' = wire \ {r} /\ world' = world
  <2>1. PICK r \in Of("selection") :
          /\ page' = [page EXCEPT !.sel = [id |-> r.id, state |-> world.snaps[r.id].state],
                                  !.loading = world.snaps[r.id].state = "queued",
                                  !.session = RotatedFor(@, [id |-> r.id], page.url.mode)]
          /\ wire' = wire \ {r} /\ world' = world
    BY DEF SelectionShown
  <2>  QED  BY <2>1
<1>2. r \in wire /\ page.url.sel # NoOne /\ r.id = page.url.sel
  BY <1>1 DEF Of, TestInv, TestNow, Awaited
<1>  DEFINE shown == [id |-> r.id]
            session == RotatedFor(page.session, shown, page.url.mode)
<1>3. /\ TestFields \subseteq DOMAIN page' /\ page'.url = page.url /\ page'.past = page.past
      /\ page'.choice = page.choice /\ page'.session = session /\ page'.made = page.made
      /\ page'.sel.id = r.id /\ wire' = wire \ {r} /\ world' = world
  BY <1>1, TestHas DEF TestFields
<1>4. shown.id = page.url.sel
  BY <1>2
<1>  HIDE DEF shown
<1>5. session \in {NoOne, page.session}
  BY DEF RotatedFor
<1>6. page.session.sel = page.url.sel /\ page.session.mode = page.url.mode => session = page.session
  BY <1>4 DEF RotatedFor
<1>  HIDE DEF session
<1>  DEFINE q == [page' EXCEPT !.session = page.session]
<1>7. /\ TestFields \subseteq DOMAIN q /\ q.url = page.url /\ q.past = page.past
      /\ q.choice = page.choice /\ q.session = page.session /\ q.made = page.made
  BY <1>3 DEF TestFields
<1>  HIDE DEF q
<1>8. Echoes(wire', wire)
  BY <1>3, EchoesSome
<1>9. TestBase(q, wire', world)
  BY <1>7, <1>8, BaseEchoes DEF TestInv
<1>10. ChosenOnce(page', wire', world)
  <2>1. ASSUME NEW t, OfThisChoice(t, q) PROVE OfThisChoice(t, page')
    <3>1. page.session.sel = page.url.sel /\ page.session.mode = page.url.mode
      BY <1>7, <2>1 DEF OfThisChoice
    <3>  QED  BY <1>3, <1>6, <1>7, <2>1, <3>1 DEF OfThisChoice
  <2>  QED  BY <1>3, <1>7, <1>9, <2>1 DEF TestBase, ChosenOnce
<1>11. page'.session # NoOne => IsKey(page'.session)
  BY <1>3, <1>5, <1>7, <1>9 DEF TestBase
<1>12. \A s \in wire' : s.kind = "freeze" => FreezeFits(s, page', world)
  BY <1>3, <1>7, <1>9 DEF TestBase, FreezeFits
<1>13. TestBase(page', wire', world)
  BY <1>3, <1>7, <1>9, <1>10, <1>11, <1>12 DEF TestBase
<1>14. TestNow(page', wire')
  BY <1>2, <1>3 DEF TestInv, TestNow, Awaited
<1>  QED  BY <1>3, <1>13, <1>14 DEF TestInv

-----------------------------------------------------------------------------
\* Selections are added and settle, and stay what they were made for.
LEMMA SnapsGrow ==
  ASSUME NEW p, NEW w, NEW d, NEW e, TestBase(p, w, d),
         {"snaps", "jobs", "keys"} \subseteq DOMAIN e, e.jobs = d.jobs, SomeSequence(e.snaps),
         \A i \in DOMAIN d.snaps : i \in DOMAIN e.snaps /\ e.snaps[i].of = d.snaps[i].of
  PROVE  TestBase(p, w, e)
<1>1. \A u : UrlFits(u, d) => UrlFits(u, e)
  BY DEF UrlFits
<1>2. MadeFits(p.made, e)
  BY DEF TestBase, MadeFits
<1>3. \A r \in w : r.kind = "freeze" => FreezeFits(r, p, e)
  BY DEF TestBase, FreezeFits
<1>4. Tests(w, e) = Tests(w, d)
  BY DEF Tests
<1>5. ChosenOnce(p, w, e)
  BY <1>4 DEF TestBase, ChosenOnce
<1>6. TestsApart(e)
  BY DEF TestBase, TestsApart
<1>  QED  BY <1>1, <1>2, <1>3, <1>5, <1>6 DEF TestBase

LEMMA SelectionProceedsFits == ASSUME TestInv, SelectionProceeds PROVE TestInv'
<1>0. /\ "snaps" \in DOMAIN world /\ {"snaps", "jobs", "keys"} \subseteq DOMAIN world
      /\ SomeSequence(world.snaps)
  BY DEF TestInv, TestBase
<1>1. PICK i \in DOMAIN world.snaps, s \in {"ready", "failed"} : world' = [world EXCEPT !.snaps[i].state = s]
  BY DEF SelectionProceeds
<1>2. page' = page /\ wire' = wire
  BY DEF SelectionProceeds
<1>  DEFINE n == [world.snaps[i] EXCEPT !.state = s]
<1>3. world' = [world EXCEPT !.snaps = [world.snaps EXCEPT ![i] = n]]
  BY <1>0, <1>1
<1>4. n.of = world.snaps[i].of
  OBVIOUS
<1>  HIDE DEF n
<1>5. /\ {"snaps", "jobs", "keys"} \subseteq DOMAIN world' /\ world'.jobs = world.jobs
      /\ world'.snaps = [world.snaps EXCEPT ![i] = n]
  BY <1>0, <1>3
<1>6. PICK kinds : world.snaps \in Seq(kinds)
  BY <1>0 DEF SomeSequence
<1>7. world'.snaps \in Seq(kinds \cup {n})
  <2>1. world.snaps \in Seq(kinds \cup {n})
    BY <1>6
  <2>  QED  BY <1>5, <2>1
<1>8. \A j \in DOMAIN world.snaps : j \in DOMAIN world'.snaps /\ world'.snaps[j].of = world.snaps[j].of
  BY <1>4, <1>5
<1>9. SomeSequence(world'.snaps)
  BY <1>7 DEF SomeSequence
<1>10. TestBase(page, wire, world')
  BY <1>5, <1>8, <1>9, SnapsGrow DEF TestInv
<1>  QED  BY <1>2, <1>10 DEF TestInv

LEMMA SelectionCreatedFits == ASSUME TestInv, SelectionCreated PROVE TestInv'
<1>0. /\ {"snaps", "jobs", "keys"} \subseteq DOMAIN world /\ SomeSequence(world.snaps)
      /\ \A r \in wire : TestRequest(r)
  BY DEF TestInv, TestBase
<1>1. PICK r \in Of("freeze") :
        /\ r.id = NoOne
        /\ world' = [world EXCEPT !.snaps = Append(@, [of |-> r.key, state |-> "queued"])]
        /\ wire' = (wire \ {r}) \cup {[r EXCEPT !.id = Len(world.snaps) + 1]}
  BY DEF SelectionCreated
<1>2. page' = page
  BY DEF SelectionCreated
<1>  DEFINE n == [of |-> r.key, state |-> "queued"]
            m == [r EXCEPT !.id = Len(world.snaps) + 1]
<1>3. n.of = r.key
  OBVIOUS
<1>4. r \in wire /\ r.kind = "freeze" /\ {"kind", "key", "wait", "cached", "id"} \subseteq DOMAIN r
  BY <1>0, <1>1 DEF Of, TestRequest
<1>5. /\ DOMAIN m = DOMAIN r /\ m.kind = "freeze" /\ m.key = r.key /\ m.wait = r.wait
      /\ m.cached = r.cached /\ m.id = Len(world.snaps) + 1
  BY <1>4
<1>6. world' = [world EXCEPT !.snaps = Append(world.snaps, n)] /\ wire' = (wire \ {r}) \cup {m}
  BY <1>1
<1>  HIDE DEF n, m
<1>7. /\ {"snaps", "jobs", "keys"} \subseteq DOMAIN world' /\ world'.jobs = world.jobs
      /\ world'.snaps = Append(world.snaps, n)
  BY <1>0, <1>6
<1>8. PICK kinds : world.snaps \in Seq(kinds)
  BY <1>0 DEF SomeSequence
<1>9. world.snaps \in Seq(kinds \cup {n})
  BY <1>8
<1>10. /\ world'.snaps \in Seq(kinds \cup {n})
       /\ \A i \in DOMAIN world.snaps : i \in DOMAIN world'.snaps /\ world'.snaps[i] = world.snaps[i]
       /\ Len(world.snaps) + 1 \in DOMAIN world'.snaps
       /\ world'.snaps[Len(world.snaps) + 1] = n
  BY <1>7, <1>9
<1>11. SomeSequence(world'.snaps)
  BY <1>10 DEF SomeSequence
<1>12. TestBase(page, wire, world')
  BY <1>7, <1>10, <1>11, SnapsGrow DEF TestInv
<1>13. TestBase(page, wire \ {r}, world')
  BY <1>12, EchoesSome, BaseEchoes DEF TestBase
<1>14. TestRequest(m) /\ m.kind # "job"
  BY <1>4, <1>5 DEF TestRequest
<1>15. FreezeFits(m, page, world')
  <2>1. FreezeFits(r, page, world')
    BY <1>4, <1>12 DEF TestBase
  <2>  QED  BY <1>3, <1>5, <1>10, <2>1 DEF FreezeFits
<1>16. TestBase(page, wire', world')
  BY <1>6, <1>13, <1>14, <1>15, BaseSends
<1>17. TestNow(page', wire')
  BY <1>2, <1>4, <1>5, <1>6 DEF TestInv, TestNow, Awaited
<1>  QED  BY <1>2, <1>16, <1>17 DEF TestInv

\* The address takes the selection that was made for it, where it is awaited.
LEMMA CreationArrivedFits == ASSUME TestInv, CreationArrived PROVE TestInv'
<1>0. TestBase(page, wire, world) /\ TestNow(page, wire) /\ TestFields \subseteq DOMAIN page
  BY DEF TestInv, TestBase
<1>  DEFINE P(r) == [page EXCEPT !.made = IF r.cached THEN [key |-> r.key, id |-> r.id] ELSE @]
<1>1. PICK r \in Of("freeze") :
        /\ r.id # NoOne
        /\ IF r.wait
           THEN Resolves([P(r) EXCEPT !.url.sel = r.id, !.url.scope = r.key.scope], wire \ {r})
           ELSE page' = P(r) /\ wire' = wire \ {r}
        /\ world' = world
  BY DEF CreationArrived
<1>2. r \in wire /\ r.kind = "freeze" /\ TestRequest(r) /\ FreezeFits(r, page, world) /\ Awaited(r, page)
  BY <1>0, <1>1 DEF Of, TestBase, TestNow
<1>  DEFINE m == IF r.cached THEN [key |-> r.key, id |-> r.id] ELSE page.made
            p == P(r)
<1>3. /\ TestFields \subseteq DOMAIN p /\ p.url = page.url /\ p.past = page.past
      /\ p.choice = page.choice /\ p.session = page.session /\ p.made = m /\ p.sel = page.sel
  BY <1>0 DEF TestFields
<1>4. MadeFits(m, world) /\ (r.cached => m.key = r.key) /\ (~r.cached => m = page.made)
  BY <1>0, <1>1, <1>2 DEF TestBase, MadeFits, FreezeFits
<1>  HIDE DEF m, P
<1>5. \A s \in wire : s.kind = "freeze" => FreezeFits(s, p, world)
  BY <1>0, <1>2, <1>3, <1>4 DEF TestBase, FreezeFits
<1>6. ChosenOnce(p, wire, world)
  BY <1>0, <1>3 DEF TestBase, ChosenOnce, OfThisChoice
<1>7. TestBase(p, wire, world)
  BY <1>0, <1>3, <1>4, <1>5, <1>6 DEF TestBase
<1>8. TestBase(p, wire \ {r}, world)
  BY <1>3, <1>7, EchoesSome, BaseEchoes
<1>9. CASE r.wait
  <2>  DEFINE q == [p EXCEPT !.url.sel = r.id, !.url.scope = r.key.scope]
  <2>1. /\ page.url.sel = NoOne /\ r.key = CreationKey(page.url)
        /\ ScopeOf(page.url) \in {"group", "all"}
    BY <1>2, <1>9 DEF Awaited
  <2>2. Creates(p.url) /\ r.key = CreationKey(p.url)
    BY <1>3, <2>1 DEF Creates
  <2>3. Resolves(q, wire \ {r})
    BY <1>1, <1>9
  <2>4. q = [p EXCEPT !.url = Addressed(p.url, CreationKey(p.url), r.id)]
    BY <1>3, <2>2 DEF Addressed, TestFields
  <2>5. /\ TestFields \subseteq DOMAIN q /\ q.url = Addressed(p.url, CreationKey(p.url), r.id)
        /\ q.past = p.past /\ q.choice = p.choice /\ q.session = p.session /\ q.made = p.made
        /\ q.sel = p.sel
    BY <1>3, <2>4 DEF TestFields
  <2>  HIDE DEF q
  <2>6. r.id \in DOMAIN world.snaps /\ world.snaps[r.id].of = CreationKey(p.url)
    BY <1>1, <1>2, <2>2 DEF FreezeFits
  <2>7. TestBase(q, wire \ {r}, world) /\ Untested(q, wire \ {r}, world)
    <3>  DEFINE w  == wire \ {r}
                id == r.id
    <3>1. id # NoOne /\ id \in DOMAIN world.snaps /\ world.snaps[id].of = CreationKey(p.url)
      BY <1>1, <2>6
    <3>2. Creates(p.url) /\ TestBase(p, w, world)
      BY <1>8, <2>2
    <3>3. /\ TestFields \subseteq DOMAIN q /\ q.url = Addressed(p.url, CreationKey(p.url), id)
          /\ q.past = p.past /\ q.choice = p.choice /\ q.session = p.session /\ q.made = p.made
      BY <2>5
    <3>  HIDE DEF p, w, id
    <3>4. TestBase(q, w, world) /\ q.url.sel = id /\ Untested(q, w, world)
      BY <3>1, <3>2, <3>3, AddressedBase
    <3>  QED  BY <3>4 DEF w
  <2>8. "sel" \in DOMAIN q
    BY <2>5 DEF TestFields
  <2>9. TestBase(page', wire', world) /\ TestNow(page', wire')
    BY <2>3, <2>7, <2>8, ResolvesFits
  <2>  QED  BY <1>1, <2>9 DEF TestInv
<1>10. CASE ~r.wait
  <2>1. page' = p /\ wire' = wire \ {r} /\ world' = world
    BY <1>1, <1>10
  <2>  HIDE DEF p
  <2>2. TestNow(page', wire')
    BY <1>0, <1>3, <2>1 DEF TestNow, Awaited
  <2>  QED  BY <1>8, <2>1, <2>2 DEF TestInv
<1>  QED  BY <1>9, <1>10

LEMMA CreationLostFits == ASSUME TestInv, CreationLost PROVE TestInv'
<1>0. TestBase(page, wire, world) /\ TestNow(page, wire) /\ TestFields \subseteq DOMAIN page
  BY DEF TestInv, TestBase
<1>1. PICK r \in Of("freeze") :
        LET same == page.made # NoOne /\ page.made.key = r.key
        IN  /\ page' = [page EXCEPT !.made = IF same THEN NoOne ELSE @,
                                    !.failed = @ \/ r.wait, !.loading = @ /\ ~r.wait]
            /\ wire' = IF same THEN Uncached(wire \ {r}) ELSE wire \ {r}
            /\ world' = world
  BY DEF CreationLost
<1>2. /\ TestFields \subseteq DOMAIN page' /\ page'.url = page.url /\ page'.past = page.past
      /\ page'.choice = page.choice /\ page'.session = page.session /\ page'.sel = page.sel
  BY <1>0, <1>1 DEF TestFields
<1>3. CASE page.made # NoOne /\ page.made.key = r.key
  <2>1. page'.made = NoOne /\ wire' = Uncached(wire \ {r})
    BY <1>0, <1>1, <1>3 DEF TestFields
  <2>2. \A s \in wire \ {r} : TestRequest(s)
    BY TestHas
  <2>3. /\ Echoes(wire', wire \ {r}) /\ Quieter(wire', wire \ {r})
        /\ \A s \in wire' : s.kind = "freeze" => ~s.cached
    BY <2>1, <2>2, UncachedEchoes
  <2>4. Echoes(wire', wire) /\ Quieter(wire', wire)
    BY <2>3 DEF Echoes, Quieter
  <2>5. MadeFits(page'.made, world)
    BY <2>1 DEF MadeFits
  <2>6. TestBase(page', wire', world)
    BY <1>0, <1>2, <2>3, <2>4, <2>5, BaseEchoes
  <2>7. TestNow(page', wire')
    BY <1>0, <1>2, <2>4 DEF TestNow, Awaited, Quieter, Echo
  <2>  QED  BY <1>1, <2>6, <2>7 DEF TestInv
<1>4. CASE ~(page.made # NoOne /\ page.made.key = r.key)
  <2>1. page'.made = page.made /\ wire' = wire \ {r}
    BY <1>0, <1>1, <1>4 DEF TestFields
  <2>2. wire' \subseteq wire /\ world' = world
    BY <1>1, <2>1
  <2>  QED  BY <1>2, <2>1, <2>2, TestAside
<1>  QED  BY <1>3, <1>4

-----------------------------------------------------------------------------
\* The key of a submission is the one the session has for its selection and mode, or new.
LEMMA SubmitTestFits == ASSUME TestInv, SubmitTest PROVE TestInv'
<1>0. /\ TestBase(page, wire, world) /\ TestNow(page, wire) /\ TestFields \subseteq DOMAIN page
      /\ {"snaps", "jobs", "keys"} \subseteq DOMAIN world /\ page.choice \in Nat
  BY DEF TestInv, TestBase
<1>  DEFINE pending == SelectionKey(page.session, page.sel.id, page.url.mode)
            keyed   == OfSelection(page.url)
            sent    == IF keyed THEN pending ELSE NoOne
            n == [kind |-> "job", pending |-> sent, choice |-> page.choice, here |-> TRUE,
                  done |-> FALSE]
<1>1. /\ page' = [page EXCEPT !.submitting = TRUE, !.session = IF keyed THEN pending ELSE @]
      /\ \E k : world' = [world EXCEPT !.keys = k]
      /\ wire' = wire \cup {n}
      /\ TargetsReady
  BY DEF SubmitTest
<1>2. keyed => page.sel # NoOne /\ page.url.sel # NoOne /\ page.sel.id = page.url.sel
  BY <1>0, <1>1 DEF TargetsReady, OfSelection, TestNow
<1>3. IsKey(pending) /\ pending.sel = page.sel.id /\ pending.mode = page.url.mode
  <2>1. CASE page.session # NoOne /\ page.session.sel = page.sel.id /\ page.session.mode = page.url.mode
    <3>1. pending = page.session
      BY <2>1 DEF SelectionKey
    <3>  HIDE DEF pending
    <3>  QED  BY <1>0, <2>1, <3>1 DEF TestBase
  <2>2. CASE ~(page.session # NoOne /\ page.session.sel = page.sel.id /\ page.session.mode = page.url.mode)
    BY <2>2 DEF SelectionKey, IsKey
  <2>  QED  BY <2>1, <2>2
<1>4. keyed => \A t \in Tests(wire, world) : t[4] = page.choice =>
                  pending = page.session /\ t = TestOf(pending, page.choice)
  <2>1. ASSUME keyed, NEW t \in Tests(wire, world), t[4] = page.choice
        PROVE  pending = page.session /\ t = TestOf(pending, page.choice)
    <3>1. OfThisChoice(t, page)
      BY <1>0, <2>1 DEF TestBase, ChosenOnce
    <3>2. page.session.sel = t[1] /\ page.session.mode = t[2] /\ page.session.key = t[3]
      BY <3>1 DEF OfThisChoice
    <3>3. pending = page.session
      BY <1>2, <2>1, <3>1, <3>2 DEF OfThisChoice, SelectionKey
    <3>4. t = <<t[1], t[2], t[3], t[4]>>
      BY <2>1 DEF Tests, TestOf
    <3>  HIDE DEF pending
    <3>  QED  BY <2>1, <3>2, <3>3, <3>4 DEF TestOf
  <2>  QED  BY <2>1
<1>  HIDE DEF pending
<1>5. TestRequest(n) /\ n.kind = "job" /\ n.pending = sent /\ n.choice = page.choice
  BY <1>3 DEF TestRequest
<1>6. \A t \in Tests(wire \cup {n}, world) :
        t \in Tests(wire, world) \/ (keyed /\ pending # NoOne /\ t = TestOf(pending, page.choice))
  BY <1>5 DEF Tests
<1>7. /\ TestFields \subseteq DOMAIN page' /\ page'.url = page.url /\ page'.past = page.past
      /\ page'.choice = page.choice /\ page'.session = (IF keyed THEN pending ELSE page.session)
      /\ page'.made = page.made /\ page'.sel = page.sel
  BY <1>0, <1>1 DEF TestFields
<1>  HIDE DEF n
<1>8. /\ {"snaps", "jobs", "keys"} \subseteq DOMAIN world' /\ world'.snaps = world.snaps
      /\ world'.jobs = world.jobs
  BY <1>0, <1>1
<1>9. ChosenOnce(page', wire \cup {n}, world)
  <2>1. OfThisChoice(TestOf(pending, page.choice), page') \/ ~keyed \/ pending = NoOne
    BY <1>2, <1>3, <1>7 DEF OfThisChoice, TestOf, IsKey
  <2>2. \A t \in Tests(wire, world) :
          /\ t[4] \in 0..page.choice
          /\ t[4] = page.choice => OfThisChoice(t, page)
    BY <1>0 DEF TestBase, ChosenOnce
  <2>3. \A t \in Tests(wire, world) : t[4] = page.choice => OfThisChoice(t, page')
    <3>1. ASSUME NEW t \in Tests(wire, world), t[4] = page.choice PROVE OfThisChoice(t, page')
      <4>1. page'.session = page.session
        BY <1>4, <1>7, <3>1
      <4>  QED  BY <1>7, <2>2, <3>1, <4>1 DEF OfThisChoice
    <3>  QED  BY <3>1
  <2>4. TestOf(pending, page.choice)[4] = page.choice
    BY DEF TestOf
  <2>5. \A s, t \in Tests(wire, world) : s[4] = t[4] => s = t
    BY <1>0 DEF TestBase, ChosenOnce
  <2>6. \A t \in Tests(wire \cup {n}, world) : t[4] \in 0..page'.choice
    BY <1>0, <1>6, <1>7, <2>2, <2>4
  <2>7. \A t \in Tests(wire \cup {n}, world) : t[4] = page'.choice => OfThisChoice(t, page')
    BY <1>6, <1>7, <2>1, <2>3
  <2>8. \A s, t \in Tests(wire \cup {n}, world) : s[4] = t[4] => s = t
    BY <1>4, <1>6, <2>4, <2>5
  <2>  QED  BY <2>6, <2>7, <2>8 DEF ChosenOnce
<1>10. \A r \in wire \cup {n} : r.kind = "freeze" => FreezeFits(r, page', world)
  BY <1>0, <1>5, <1>7 DEF TestBase, FreezeFits
<1>11. page'.session # NoOne => IsKey(page'.session)
  BY <1>0, <1>3, <1>7 DEF TestBase
<1>12. TestBase(page', wire \cup {n}, world)
  BY <1>0, <1>5, <1>7, <1>9, <1>10, <1>11 DEF TestBase
<1>13. TestBase(page', wire \cup {n}, world')
  BY <1>8, <1>12, SnapsGrow DEF TestBase
<1>14. TestNow(page', wire \cup {n})
  BY <1>0, <1>5, <1>7 DEF TestNow, Awaited
<1>15. wire' = wire \cup {n}
  BY <1>1 DEF n
<1>  QED  BY <1>13, <1>14, <1>15 DEF TestInv

\* A key makes one job.
LEMMA TestServedFits == ASSUME TestInv, TestServed PROVE TestInv'
<1>0. /\ TestBase(page, wire, world) /\ TestNow(page, wire)
      /\ {"snaps", "jobs", "keys"} \subseteq DOMAIN world
  BY DEF TestInv, TestBase
<1>1. PICK r \in Of("job") :
        /\ world' = IF r.pending = NoOne \/ \E j \in DOMAIN world.jobs : world.jobs[j].key = r.pending.key
                    THEN world
                    ELSE [world EXCEPT !.jobs = Append(@, Joined(r.pending, [choice |-> r.choice]))]
        /\ wire' = (wire \ {r}) \cup {[r EXCEPT !.done = TRUE]}
        /\ page' = page
  BY DEF TestServed
<1>2. r \in wire /\ r.kind = "job" /\ TestRequest(r)
      /\ {"kind", "pending", "choice", "here", "done"} \subseteq DOMAIN r
  BY <1>0, <1>1 DEF Of, TestBase, TestRequest
<1>3. Echoes(wire', wire)
  <2>  DEFINE m == [r EXCEPT !.done = TRUE]
  <2>1. DOMAIN m = DOMAIN r /\ m.kind = r.kind /\ m.pending = r.pending /\ m.choice = r.choice
    BY <1>2
  <2>2. wire' = (wire \ {r}) \cup {m}
    BY <1>1
  <2>  HIDE DEF m
  <2>3. Echo(m, r)
    BY <1>2, <2>1 DEF Echo
  <2>4. \A s \in wire : Echo(s, s)
    BY DEF Echo
  <2>  QED  BY <1>2, <2>2, <2>3, <2>4 DEF Echoes
<1>4. TestBase(page, wire', world)
  BY <1>0, <1>3, BaseEchoes DEF TestBase
<1>5. TestNow(page, wire')
  <2>  DEFINE m == [r EXCEPT !.done = TRUE]
  <2>1. m.kind = "job"
    BY <1>2
  <2>2. wire' = (wire \ {r}) \cup {m}
    BY <1>1
  <2>  HIDE DEF m
  <2>  QED  BY <1>0, <2>1, <2>2 DEF TestNow, Awaited
<1>6. CASE r.pending = NoOne \/ \E j \in DOMAIN world.jobs : world.jobs[j].key = r.pending.key
  BY <1>1, <1>4, <1>5, <1>6 DEF TestInv
<1>7. CASE r.pending # NoOne /\ \A j \in DOMAIN world.jobs : world.jobs[j].key # r.pending.key
  <2>  DEFINE g == [choice |-> r.choice]
              n == Joined(r.pending, g)
  <2>1. IsKey(r.pending)
    BY <1>2, <1>7 DEF TestRequest
  <2>2. /\ n.sel = r.pending.sel /\ n.mode = r.pending.mode /\ n.key = r.pending.key
        /\ n.choice = r.choice
    <3>0. DOMAIN r.pending = {"sel", "mode", "key"}
      BY <2>1 DEF IsKey
    <3>1. DOMAIN g = {"choice"} /\ g.choice = r.choice
      OBVIOUS
    <3>2. n = [x \in (DOMAIN r.pending) \cup (DOMAIN g) |-> IF x \in DOMAIN r.pending THEN r.pending[x] ELSE g[x]]
      BY DEF Joined
    <3>  HIDE DEF g
    <3>  QED  BY <3>0, <3>1, <3>2
  <2>3. world' = [world EXCEPT !.jobs = Append(world.jobs, n)]
    BY <1>1, <1>7
  <2>  HIDE DEF n
  <2>4. /\ {"snaps", "jobs", "keys"} \subseteq DOMAIN world' /\ world'.snaps = world.snaps
        /\ world'.jobs = Append(world.jobs, n)
    BY <1>0, <2>3
  <2>5. PICK kinds : world.jobs \in Seq(kinds)
    BY <1>0 DEF TestBase, SomeSequence
  <2>6. world.jobs \in Seq(kinds \cup {n})
    BY <2>5
  <2>7. /\ world'.jobs \in Seq(kinds \cup {n})
        /\ \A i \in DOMAIN world'.jobs :
              \/ i \in DOMAIN world.jobs /\ world'.jobs[i] = world.jobs[i]
              \/ i = Len(world.jobs) + 1 /\ world'.jobs[i] = n
    BY <2>4, <2>6
  <2>8. TestOf(n, n.choice) = TestOf(r.pending, r.choice)
    BY <2>2 DEF TestOf
  <2>9. Tests(wire', world) \subseteq Tests(wire, world)
    BY <1>3, TestsEcho
  <2>10. TestOf(r.pending, r.choice) \in Tests(wire, world)
    BY <1>2, <1>7 DEF Tests
  <2>11. Tests(wire', world') \subseteq Tests(wire, world)
    <3>1. \A j \in DOMAIN world'.jobs :
            TestOf(world'.jobs[j], world'.jobs[j].choice) \in Tests(wire, world)
      BY <2>7, <2>8, <2>10 DEF Tests
    <3>2. \A t \in Tests(wire', world') :
            \/ t \in Tests(wire', world)
            \/ \E j \in DOMAIN world'.jobs : t = TestOf(world'.jobs[j], world'.jobs[j].choice)
      BY DEF Tests
    <3>  QED  BY <2>9, <3>1, <3>2
  <2>12. ChosenOnce(page, wire', world')
    BY <1>0, <2>11 DEF TestBase, ChosenOnce
  <2>13. TestsApart(world')
    BY <1>0, <1>7, <2>2, <2>7 DEF TestBase, TestsApart
  <2>14. SomeSequence(world'.jobs)
    BY <2>7 DEF SomeSequence
  <2>15. /\ \A u : UrlFits(u, world) => UrlFits(u, world')
         /\ \A q : MadeFits(q, world) => MadeFits(q, world')
         /\ \A s : FreezeFits(s, page, world) => FreezeFits(s, page, world')
    BY <2>4 DEF UrlFits, MadeFits, FreezeFits
  <2>16. TestBase(page, wire', world')
    BY <1>4, <2>4, <2>12, <2>13, <2>14, <2>15 DEF TestBase
  <2>  QED  BY <1>1, <1>5, <2>16 DEF TestInv
<1>  QED  BY <1>6, <1>7

-----------------------------------------------------------------------------
LEMMA LinksFit == ASSUME NEW u \in Links PROVE UrlFits(u, world)
<1>1. DOMAIN Link = UrlFields /\ Link.sel = NoOne /\ Link.scope = ""
  BY DEF Link, UrlFields
<1>2. CASE u.sel = NoOne
  <2>1. DOMAIN u = UrlFields
    BY <1>1 DEF Links
  <2>  QED  BY <1>2, <2>1, PlainUrlFits
<1>3. CASE u.sel # NoOne
  <2>1. PICK i \in DOMAIN world.snaps : u = [Link EXCEPT !.sel = i]
    <3>1. u # Link /\ u # [Link EXCEPT !.picked = TRUE] /\ \A g : u # [Link EXCEPT !.group = g]
      BY <1>1, <1>3 DEF UrlFields
    <3>  QED  BY <3>1 DEF Links
  <2>2. DOMAIN u = UrlFields /\ u.sel = i /\ u.scope = ""
    BY <1>1, <2>1 DEF UrlFields
  <2>3. ScopeOf(u) = "selection"
    BY <1>3, <2>2 DEF ScopeOf
  <2>  QED  BY <2>2, <2>3 DEF UrlFits, OfSelection
<1>  QED  BY <1>2, <1>3

LEMMA NewPageSays ==
  ASSUME NEW u, NEW session, NEW choice
  PROVE  LET p == NewPage(u, session, choice)
         IN  /\ TestFields \subseteq DOMAIN p /\ p.url = u /\ p.past = NoOne /\ p.sel = NoOne
             /\ p.made = NoOne /\ p.session = session /\ p.choice = choice
  BY DEF NewPage, TestFields

\* The page is entered: with its address, or with another choice.
LEMMA EntersFits ==
  ASSUME TestInv, NEW u, UrlFits(u, world), NEW session, session \in {NoOne, page.session},
         NEW choice, \/ choice = page.choice + 1
                     \/ u = page.url /\ choice = page.choice /\ session = page.session,
         NEW reqs, reqs \subseteq wire, Enters(u, session, choice, reqs), world' = world
  PROVE  TestInv'
<1>  DEFINE p == NewPage(u, session, choice)
            w == Elsewhere(reqs) \cup {AskOptions}
<1>1. Resolves(p, w)
  BY DEF Enters
<1>2. /\ TestFields \subseteq DOMAIN p /\ p.url = u /\ p.past = NoOne /\ p.sel = NoOne
      /\ p.made = NoOne /\ p.session = session /\ p.choice = choice
  BY NewPageSays
<1>  HIDE DEF p
<1>3. /\ TestBase(page, wire, world) /\ page.choice \in Nat
  BY DEF TestInv, TestBase
<1>4. Echoes(Elsewhere(reqs), reqs) /\ \A r \in Elsewhere(reqs) : r.kind = "freeze" => ~r.cached
  BY <1>3, ElsewhereEchoes DEF TestBase
<1>5. Echoes(Elsewhere(reqs), wire)
  BY <1>4, EchoesSome, EchoesTwice
<1>  DEFINE q == [f \in TestFields |-> IF f = "made" THEN NoOne ELSE page[f]]
<1>6. /\ TestFields \subseteq DOMAIN q /\ q.url = page.url /\ q.past = page.past
      /\ q.choice = page.choice /\ q.session = page.session /\ q.made = NoOne
  BY DEF TestFields
<1>  HIDE DEF q
<1>7. MadeFits(NoOne, world)
  BY DEF MadeFits
<1>8. TestBase(q, Elsewhere(reqs), world)
  BY <1>3, <1>4, <1>5, <1>6, <1>7, BaseEchoes
<1>9. AskOptions.kind = "options" /\ TestRequest(AskOptions)
  BY DEF AskOptions, TestRequest
<1>10. TestBase(q, w, world)
  BY <1>8, <1>9, BaseSends
<1>  HIDE DEF w
<1>11. \A t \in Tests(w, world) : t[4] \in 0..page.choice
  BY <1>6, <1>10 DEF TestBase, ChosenOnce
<1>12. ChosenOnce(p, w, world)
  <2>1. CASE choice = page.choice + 1
    <3>1. \A t \in Tests(w, world) : t[4] \in 0..p.choice /\ t[4] # p.choice
      BY <1>2, <1>3, <1>11, <2>1
    <3>  QED  BY <1>10, <3>1 DEF TestBase, ChosenOnce
  <2>2. CASE u = page.url /\ choice = page.choice /\ session = page.session
    BY <1>2, <1>6, <1>10, <2>2 DEF TestBase, ChosenOnce, OfThisChoice
  <2>  QED  BY <2>1, <2>2
<1>13. TestBase(p, w, world)
  <2>1. p.choice \in Nat
    BY <1>2, <1>3
  <2>2. p.session # NoOne => IsKey(p.session)
    BY <1>2, <1>3 DEF TestBase
  <2>3. \A r \in w : r.kind = "freeze" => FreezeFits(r, p, world)
    BY <1>2, <1>6, <1>10 DEF TestBase, FreezeFits
  <2>  QED  BY <1>2, <1>7, <1>10, <1>12, <2>1, <2>2, <2>3 DEF TestBase
<1>14. "sel" \in DOMAIN p
  BY <1>2 DEF TestFields
<1>15. TestBase(page', wire', world) /\ TestNow(page', wire')
  BY <1>1, <1>2, <1>13, <1>14, ResolvesFits
<1>  QED  BY <1>15 DEF TestInv

LEMMA TestAnsweredFits == ASSUME TestInv, TestAnswered PROVE TestInv'
<1>1. PICK r \in Of("job"), u \in Links :
        Enters(u, IF page.session = r.pending THEN NoOne ELSE page.session, page.choice + 1, wire \ {r})
  BY DEF TestAnswered
<1>2. world' = world
  BY DEF TestAnswered
<1>  QED  BY <1>1, <1>2, LinksFit, EntersFits

LEMMA LeaveTestFits == ASSUME TestInv, LeaveTest PROVE TestInv'
<1>1. PICK u \in Links \cup {page.url} :
        Enters(u, page.session, IF u = page.url THEN page.choice ELSE page.choice + 1, wire)
  BY DEF LeaveTest
<1>2. world' = world
  BY DEF LeaveTest
<1>3. UrlFits(u, world)
  BY LinksFit, TestHas
<1>4. CASE u = page.url
  <2>1. Enters(u, page.session, page.choice, wire)
    BY <1>1, <1>4
  <2>  QED  BY <1>2, <1>3, <1>4, <2>1, EntersFits
<1>5. CASE u # page.url
  <2>1. Enters(u, page.session, page.choice + 1, wire)
    BY <1>1, <1>5
  <2>  QED  BY <1>2, <1>3, <2>1, EntersFits
<1>  QED  BY <1>4, <1>5

LEMMA TestStep == ASSUME TestInv, TestCreateNext PROVE TestInv'
<1>1. CASE TestCreateUser
  BY <1>1, ChangesFit, TestAsideFits, SubmitTestFits, LeaveTestFits DEF TestCreateUser
<1>2. CASE TestCreateRuns
  BY <1>2, SelectionCreatedFits, CreationArrivedFits, CreationLostFits, SelectionShownFits,
     TestAsideFits, SelectionProceedsFits, TestServedFits, TestAnsweredFits
     DEF TestCreateRuns
<1>  QED  BY <1>1, <1>2 DEF TestCreateNext

LEMMA TestStart == ASSUME TestCreateInit PROVE TestInv
<1>1. page = NewPage(Link, NoOne, 0) /\ wire = {} /\ world = [snaps |-> <<>>, jobs |-> <<>>, keys |-> 0]
  BY DEF TestCreateInit, Opens
<1>2. /\ TestFields \subseteq DOMAIN page /\ page.url = Link /\ page.past = NoOne /\ page.sel = NoOne
      /\ page.made = NoOne /\ page.session = NoOne /\ page.choice = 0
  BY <1>1, NewPageSays
<1>3. {"snaps", "jobs", "keys"} \subseteq DOMAIN world /\ world.jobs = <<>> /\ world.snaps = <<>>
  BY <1>1
<1>4. SomeSequence(world.jobs) /\ SomeSequence(world.snaps) /\ DOMAIN world.jobs = {}
  BY <1>3 DEF SomeSequence
<1>5. Tests(wire, world) = {}
  BY <1>1, <1>4 DEF Tests
<1>6. DOMAIN Link = UrlFields /\ Link.sel = NoOne
  BY DEF Link, UrlFields
<1>7. UrlFits(page.url, world) /\ MadeFits(page.made, world)
  BY <1>2, <1>6, PlainUrlFits DEF MadeFits
<1>8. ChosenOnce(page, wire, world) /\ TestsApart(world)
  BY <1>4, <1>5 DEF ChosenOnce, TestsApart
<1>9. TestBase(page, wire, world)
  BY <1>1, <1>2, <1>3, <1>4, <1>7, <1>8 DEF TestBase
<1>10. TestNow(page, wire)
  BY <1>1, <1>2 DEF TestNow
<1>  QED  BY <1>9, <1>10 DEF TestInv

LEMMA TestedApart ==
  ASSUME TestInv, NEW i \in DOMAIN world.jobs, NEW j \in DOMAIN world.jobs,
         world.jobs[i].choice = world.jobs[j].choice
  PROVE  i = j
<1>  DEFINE s == TestOf(world.jobs[i], world.jobs[i].choice)
            t == TestOf(world.jobs[j], world.jobs[j].choice)
<1>1. s \in Tests(wire, world) /\ t \in Tests(wire, world)
  BY DEF Tests
<1>2. s[4] = t[4] /\ s[3] = world.jobs[i].key /\ t[3] = world.jobs[j].key
  BY DEF TestOf
<1>  HIDE DEF s, t
<1>3. s = t
  BY <1>1, <1>2 DEF TestInv, TestBase, ChosenOnce
<1>  QED  BY <1>2, <1>3 DEF TestInv, TestBase, TestsApart

LEMMA ChosenIsOfUrl == ASSUME TestInv, page.sel # NoOne
  PROVE  /\ OfSelection(page.url) /\ page.url.sel = page.sel.id
         /\ ScopeOf(page.url) # "selection" => world.snaps[page.sel.id].of = CreationKey(page.url)
  BY DEF TestInv, TestBase, TestNow, UrlFits
LEMMA TestUnchanged == ASSUME TestInv, UNCHANGED pageVars PROVE TestInv'
<1>1. page' = page /\ wire' = wire /\ world' = world
  BY DEF pageVars
<1>2. TestInv' <=> TestBase(page', wire', world') /\ TestNow(page', wire')
  BY DEF TestInv
<1>  QED  BY <1>1, <1>2 DEF TestInv

LEMMA TestHolds == ConsoleSpec => [](Shows("test") => TestInv)
<1>1. ConsoleInit => (Shows("test") => TestInv)
  BY StartOfPage, TestStart
<1>2. (Shows("test") => TestInv) /\ [ConsoleNext]_pageVars
        => (Shows("test") => TestInv)'
  <2>  SUFFICES ASSUME Shows("test") => TestInv, [ConsoleNext]_pageVars, Shows("test")'
                PROVE  TestInv'
    OBVIOUS
  <2>1. focus = "test"
    BY FocusStays DEF Shows
  <2>2. [TestCreateNext]_pageVars
    BY <2>1 DEF ConsoleNext, Shows
  <2>3. CASE TestCreateNext
    BY <2>1, <2>3, TestStep DEF Shows
  <2>4. CASE UNCHANGED pageVars
    BY <2>1, <2>4, TestUnchanged DEF Shows
  <2>  QED  BY <2>2, <2>3, <2>4
<1>  QED  BY <1>1, <1>2, PTL DEF ConsoleSpec

(* The selection a new test shows and submits was made for the scope and    *)
(* the group that its address says are tested, through the history of the   *)
(* browser, changes of mind and answers that come late                      *)
(* (TestCreatePage.tsx:114-161).                                            *)
THEOREM TestsWhatIsChosen == ConsoleSpec => []ChosenIsTested
<1>1. (Shows("test") => TestInv) => ChosenIsTested
  BY ChosenIsOfUrl DEF ChosenIsTested
<1>  QED  BY <1>1, TestHolds, PTL

-----------------------------------------------------------------------------
(* What the user submitted once is done at most once, by an import, by a    *)
(* change of chosen servers and by a test of a selection: what is sent      *)
(* again after a lost answer, or from a page that was left and entered      *)
(* again, carries the key it had (useServerImport.ts:123-178,               *)
(* useServerBulk.ts:86-131, TestCreatePage.tsx:16-36 and 185-199).          *)
THEOREM SubmittedAtMostOnce == ConsoleSpec => []SubmittedOnce
<1>1. ImportedOnce /\ (Shows("bulk") => BulkInv) /\ (Shows("test") => TestInv) => SubmittedOnce
  <2>1. (Shows("bulk") => BulkInv) => ChosenChangedOnce
    BY BulkApart DEF ChosenChangedOnce
  <2>2. (Shows("test") => TestInv) => TestedOnce
    BY TestedApart DEF TestedOnce
  <2>  QED  BY <2>1, <2>2 DEF SubmittedOnce
<1>  QED  BY <1>1, ImportsOnce, BulkHolds, TestHolds, PTL

-----------------------------------------------------------------------------
(***************************************************************************)
(* The saved views (SavedViews).                                           *)
(***************************************************************************)
SavedFields   == {"draft", "list", "current", "loading", "locks", "reads", "changes", "renaming",
                 "asked", "tab", "kept", "gone"}
FilterFields == {"group", "groups", "tag", "include", "exclude", "columns"}

SoundFilters(f) ==
  DOMAIN f = FilterFields /\ f.exclude \subseteq TagIds /\ NotContradictory(f)

IsView(v) == DOMAIN v = {"name", "filters"} /\ SoundFilters(v.filters)

AreViews(x) == \A v \in DOMAIN x : IsView(x[v])

\* The changes that were confirmed are those of a list.
KeptIn(kept, gone, x) ==
  /\ \A v \in DOMAIN kept : v \in DOMAIN x /\ x[v] = kept[v]
  /\ gone \cap DOMAIN x = {}

ViewsRequest(r, p) ==
  /\ "kind" \in DOMAIN r
  /\ r.kind = "create" => "view" \in DOMAIN r /\ IsView(r.view)
  /\ r.kind = "views" => /\ {"read", "change", "items"} \subseteq DOMAIN r
                         /\ r.read \in 0..p.reads
                         /\ r.items # NoOne => AreViews(r.items)

\* A list that would be shown was read after the last change.
ReadAfterChanges(r, p) ==
  r.kind = "views" /\ r.items # NoOne /\ r.read = p.reads => KeptIn(p.kept, p.gone, r.items)

ViewsFit(p, w, d) ==
  /\ SavedFields \subseteq DOMAIN p /\ p.reads \in Nat
  /\ SoundFilters(p.draft) /\ AreViews(p.list) /\ AreViews(d)
  /\ KeptIn(p.kept, p.gone, p.list) /\ KeptIn(p.kept, p.gone, d)
  /\ \A r \in w : ViewsRequest(r, p) /\ ReadAfterChanges(r, p)

ViewsInv == ViewsFit(page, wire, world)

-----------------------------------------------------------------------------
(* The filters                                                              *)

LEMMA EmptyIsSound == SoundFilters(EmptyFilters)
  BY ViewsAssumption DEF SoundFilters, EmptyFilters, FilterFields, NotContradictory

\* No control of the filters makes them contradictory.
LEMMA GroupsAreSound ==
  ASSUME NEW f, SoundFilters(f), NEW x
  PROVE  SoundFilters(WithGroup(f, x)) /\ SoundFilters(WithGroups(f, x))
<1>1. ASSUME NEW g, DOMAIN g = FilterFields, g.include = f.include, g.tag = f.tag,
             g.exclude = f.exclude, g.group # NoOne => g.groups = {}
      PROVE  SoundFilters(g)
  BY <1>1 DEF SoundFilters, NotContradictory
<1>2. SoundFilters(WithGroup(f, x))
  BY <1>1 DEF WithGroup, SoundFilters, FilterFields
<1>3. SoundFilters(WithGroups(f, x))
  BY <1>1 DEF WithGroups, SoundFilters, FilterFields
<1>  QED  BY <1>2, <1>3

LEMMA TagIsSound ==
  ASSUME NEW f, SoundFilters(f), NEW t
  PROVE  SoundFilters(WithTag(f, t))
<1>1. CASE t = NoOne
  BY <1>1, ViewsAssumption DEF SoundFilters, NotContradictory, WithTag, FilterFields
<1>2. CASE t # NoOne
  BY <1>2 DEF SoundFilters, NotContradictory, WithTag, FilterFields
<1>  QED  BY <1>1, <1>2

LEMMA IncludedSays ==
  ASSUME NEW f, DOMAIN f = FilterFields, NEW s
  PROVE  LET g == WithIncluded(f, s)
         IN  /\ DOMAIN g = FilterFields /\ g.tag = NoOne /\ g.include = s
             /\ g.exclude = f.exclude /\ g.group = f.group /\ g.groups = f.groups
  BY DEF WithIncluded, FilterFields

LEMMA ExcludedSays ==
  ASSUME NEW f, DOMAIN f = FilterFields, NEW s
  PROVE  LET g == WithExcluded(f, s)
         IN  /\ DOMAIN g = FilterFields /\ g.tag = f.tag /\ g.include = f.include
             /\ g.exclude = s /\ g.group = f.group /\ g.groups = f.groups
  BY DEF WithExcluded, FilterFields

LEMMA BoxesAreSound ==
  ASSUME NEW f, SoundFilters(f), NEW t \in TagIds
  PROVE  SoundFilters(IncludeBox(f, t)) /\ SoundFilters(ExcludeBox(f, t))
<1>0. DOMAIN f = FilterFields /\ f.exclude \subseteq TagIds /\ NotContradictory(f)
  BY DEF SoundFilters
<1>1. SoundFilters(IncludeBox(f, t))
  <2>  DEFINE s == Toggle(f.include, t)
              g == WithIncluded(f, s)
              h == WithExcluded(g, f.exclude \ {t})
  <2>1. IncludeBox(f, t) = IF t \in s THEN h ELSE g
    BY DEF IncludeBox
  <2>2. s \subseteq f.include \cup {t} /\ (t \notin s => s \subseteq f.include)
    BY DEF Toggle
  <2>  HIDE DEF s
  <2>3. /\ DOMAIN g = FilterFields /\ g.tag = NoOne /\ g.include = s
        /\ g.exclude = f.exclude /\ g.group = f.group /\ g.groups = f.groups
    BY <1>0, IncludedSays
  <2>  HIDE DEF g
  <2>4. /\ DOMAIN h = FilterFields /\ h.tag = NoOne /\ h.include = s
        /\ h.exclude = f.exclude \ {t} /\ h.group = f.group /\ h.groups = f.groups
    BY <2>3, ExcludedSays
  <2>  HIDE DEF h
  <2>5. CASE t \in s
    BY <1>0, <2>1, <2>2, <2>4, <2>5, ViewsAssumption DEF SoundFilters, NotContradictory
  <2>6. CASE t \notin s
    BY <1>0, <2>1, <2>2, <2>3, <2>6, ViewsAssumption DEF SoundFilters, NotContradictory
  <2>  QED  BY <2>5, <2>6
<1>2. SoundFilters(ExcludeBox(f, t))
  <2>  DEFINE s == Toggle(f.exclude, t)
              g == WithExcluded(f, s)
              h == WithIncluded(g, f.include \ {t})
  <2>1. ExcludeBox(f, t) = IF t \in s THEN WithIncluded(g, g.include \ {t}) ELSE g
    BY <1>0, ExcludedSays DEF ExcludeBox
  <2>2. s \subseteq f.exclude \cup {t} /\ (t \notin s => s \subseteq f.exclude)
    BY DEF Toggle
  <2>  HIDE DEF s
  <2>3. /\ DOMAIN g = FilterFields /\ g.tag = f.tag /\ g.include = f.include
        /\ g.exclude = s /\ g.group = f.group /\ g.groups = f.groups
    BY <1>0, ExcludedSays
  <2>  HIDE DEF g
  <2>4. /\ DOMAIN h = FilterFields /\ h.tag = NoOne /\ h.include = f.include \ {t}
        /\ h.exclude = s /\ h.group = f.group /\ h.groups = f.groups
    BY <2>3, IncludedSays
  <2>7. ExcludeBox(f, t) = IF t \in s THEN h ELSE g
    BY <2>1, <2>3
  <2>  HIDE DEF h
  <2>5. CASE t \in s
    BY <1>0, <2>2, <2>4, <2>5, <2>7, ViewsAssumption DEF SoundFilters, NotContradictory
  <2>6. CASE t \notin s
    BY <1>0, <2>2, <2>3, <2>6, <2>7 DEF SoundFilters, NotContradictory
  <2>  QED  BY <2>5, <2>6
<1>  QED  BY <1>1, <1>2

-----------------------------------------------------------------------------
(* Lists of views                                                           *)

LEMMA IncludingKeeps ==
  ASSUME NEW kept, NEW gone, NEW x, KeptIn(kept, gone, x), NEW id, id \notin gone, NEW v
  PROVE  /\ KeptIn(Including(kept, id, v), gone, Including(x, id, v))
         /\ id \notin DOMAIN kept => KeptIn(kept, gone, Including(x, id, v))
         /\ IsView(v) /\ AreViews(x) => AreViews(Including(x, id, v))
<1>1. ASSUME NEW z
      PROVE  /\ DOMAIN Including(z, id, v) = {id} \cup DOMAIN z
             /\ \A i \in DOMAIN Including(z, id, v) :
                  Including(z, id, v)[i] = IF i = id THEN v ELSE z[i]
  BY DEF Including, Joined
<1>2. KeptIn(Including(kept, id, v), gone, Including(x, id, v))
  BY <1>1 DEF KeptIn
<1>3. id \notin DOMAIN kept => KeptIn(kept, gone, Including(x, id, v))
  BY <1>1 DEF KeptIn
<1>4. IsView(v) /\ AreViews(x) => AreViews(Including(x, id, v))
  BY <1>1 DEF AreViews
<1>  QED  BY <1>2, <1>3, <1>4

LEMMA RenamedKeeps ==
  ASSUME NEW kept, NEW gone, NEW x, KeptIn(kept, gone, x), NEW id, NEW v
  PROVE  /\ KeptIn(Renamed(kept, id, v), gone, Renamed(x, id, v))
         /\ id \notin DOMAIN kept => KeptIn(kept, gone, Renamed(x, id, v))
         /\ IsView(v) /\ AreViews(x) => AreViews(Renamed(x, id, v))
<1>1. KeptIn(Renamed(kept, id, v), gone, Renamed(x, id, v))
  BY DEF KeptIn, Renamed
<1>2. id \notin DOMAIN kept => KeptIn(kept, gone, Renamed(x, id, v))
  BY DEF KeptIn, Renamed
<1>3. IsView(v) /\ AreViews(x) => AreViews(Renamed(x, id, v))
  BY DEF AreViews, Renamed
<1>  QED  BY <1>1, <1>2, <1>3

Less(x, id) == [i \in DOMAIN x \ {id} |-> x[i]]

LEMMA WithoutKeeps ==
  ASSUME NEW kept, NEW gone, NEW x, KeptIn(kept, gone, x), NEW id
  PROVE  /\ KeptIn(Less(kept, id), gone, x)
         /\ KeptIn(Less(kept, id), gone, Less(x, id))
         /\ KeptIn(Less(kept, id), gone \cup {id}, Less(x, id))
         /\ AreViews(x) => AreViews(Less(x, id))
         /\ id \notin DOMAIN Less(kept, id)
  BY DEF KeptIn, Less, AreViews

-----------------------------------------------------------------------------
(* Steps                                                                    *)

\* What a change ends or begins outdates every list that was asked for.
LEMMA ViewsLater ==
  ASSUME ViewsInv, NEW p, NEW w, w \subseteq wire, NEW d, SavedFields \subseteq DOMAIN p,
         SoundFilters(p.draft), AreViews(p.list), AreViews(d),
         KeptIn(p.kept, p.gone, p.list), KeptIn(p.kept, p.gone, d),
         \/ p.reads = page.reads + 1
         \/ p.reads = page.reads /\ p.kept = page.kept /\ p.gone = page.gone
  PROVE  ViewsFit(p, w, d)
<1>1. page.reads \in Nat /\ \A r \in w : ViewsRequest(r, page) /\ ReadAfterChanges(r, page)
  BY DEF ViewsInv, ViewsFit
<1>2. CASE p.reads = page.reads + 1
  <2>1. p.reads \in Nat /\ \A n \in 0..page.reads : n \in 0..p.reads /\ n # p.reads
    BY <1>1, <1>2
  <2>2. \A r \in w : ViewsRequest(r, p) /\ ReadAfterChanges(r, p)
    BY <1>1, <2>1 DEF ViewsRequest, ReadAfterChanges
  <2>  QED  BY <2>1, <2>2 DEF ViewsFit
<1>3. CASE p.reads = page.reads /\ p.kept = page.kept /\ p.gone = page.gone
  <2>1. \A r \in w : ViewsRequest(r, p) /\ ReadAfterChanges(r, p)
    BY <1>1, <1>3 DEF ViewsRequest, ReadAfterChanges
  <2>  QED  BY <1>1, <1>3, <2>1 DEF ViewsFit
<1>  QED  BY <1>2, <1>3

LEMMA ViewsSends ==
  ASSUME NEW p, NEW w, NEW d, ViewsFit(p, w, d), NEW r, ViewsRequest(r, p), ReadAfterChanges(r, p)
  PROVE  ViewsFit(p, w \cup {r}, d)
  BY DEF ViewsFit

\* A step that leaves the lists alone.
LEMMA ViewsAside ==
  ASSUME ViewsInv, SavedFields \subseteq DOMAIN page', SoundFilters(page'.draft),
         page'.list = page.list, page'.kept = page.kept, page'.gone = page.gone,
         page'.reads = page.reads, wire' \subseteq wire, world' = world
  PROVE  ViewsInv'
<1>1. /\ AreViews(page'.list) /\ AreViews(world')
      /\ KeptIn(page'.kept, page'.gone, page'.list) /\ KeptIn(page'.kept, page'.gone, world')
  BY DEF ViewsInv, ViewsFit
<1>2. ViewsFit(page', wire', world')
  BY <1>1, ViewsLater
<1>  QED  BY <1>2 DEF ViewsInv

LEMMA ViewsHas ==
  ASSUME ViewsInv
  PROVE  /\ SavedFields \subseteq DOMAIN page /\ page.reads \in Nat /\ SoundFilters(page.draft)
         /\ AreViews(page.list) /\ AreViews(world)
         /\ KeptIn(page.kept, page.gone, page.list) /\ KeptIn(page.kept, page.gone, world)
         /\ \A r \in wire : ViewsRequest(r, page) /\ ReadAfterChanges(r, page)
  BY DEF ViewsInv, ViewsFit

LEMMA EditDraftFits == ASSUME ViewsInv, EditDraft PROVE ViewsInv'
<1>0. SavedFields \subseteq DOMAIN page /\ SoundFilters(page.draft)
  BY ViewsHas
<1>1. PICK f : /\ page' = [page EXCEPT !.draft = f]
               /\ \/ \E g : f = WithGroup(page.draft, g)
                  \/ \E s : f = WithGroups(page.draft, s)
                  \/ \E t : f = WithTag(page.draft, t)
                  \/ \E t \in TagIds : f = IncludeBox(page.draft, t)
                  \/ \E t \in TagIds : f = ExcludeBox(page.draft, t)
                  \/ \E s : f = [page.draft EXCEPT !.columns = s]
  BY DEF EditDraft
<1>2. ASSUME NEW s PROVE SoundFilters([page.draft EXCEPT !.columns = s])
  <2>  DEFINE g == [page.draft EXCEPT !.columns = s]
  <2>1. /\ DOMAIN g = FilterFields /\ g.tag = page.draft.tag /\ g.include = page.draft.include
        /\ g.exclude = page.draft.exclude /\ g.group = page.draft.group
        /\ g.groups = page.draft.groups
    BY <1>0 DEF SoundFilters, FilterFields
  <2>  HIDE DEF g
  <2>2. SoundFilters(g)
    BY <1>0, <2>1 DEF SoundFilters, NotContradictory
  <2>  QED  BY <2>2 DEF g
<1>3. SoundFilters(f)
  BY <1>0, <1>1, <1>2, GroupsAreSound, TagIsSound, BoxesAreSound
<1>4. /\ SavedFields \subseteq DOMAIN page' /\ page'.draft = f /\ page'.list = page.list
      /\ page'.kept = page.kept /\ page'.gone = page.gone /\ page'.reads = page.reads
  BY <1>0, <1>1 DEF SavedFields
<1>5. wire' \subseteq wire /\ world' = world
  BY DEF EditDraft
<1>  QED  BY <1>3, <1>4, <1>5, ViewsAside

LEMMA ApplyViewFits == ASSUME ViewsInv, ApplyView PROVE ViewsInv'
<1>0. SavedFields \subseteq DOMAIN page /\ SoundFilters(page.draft) /\ AreViews(page.list)
  BY ViewsHas
<1>1. PICK v \in DOMAIN page.list \cup {0} :
        page' = [page EXCEPT !.current = v,
                             !.draft = IF v = 0 THEN @ ELSE page.list[v].filters]
  BY DEF ApplyView
<1>  DEFINE f == IF v = 0 THEN page.draft ELSE page.list[v].filters
<1>2. SoundFilters(f)
  BY <1>0 DEF AreViews, IsView
<1>3. /\ SavedFields \subseteq DOMAIN page' /\ page'.draft = f /\ page'.list = page.list
      /\ page'.kept = page.kept /\ page'.gone = page.gone /\ page'.reads = page.reads
  BY <1>0, <1>1 DEF SavedFields
<1>4. wire' \subseteq wire /\ world' = world
  BY DEF ApplyView
<1>  HIDE DEF f
<1>  QED  BY <1>2, <1>3, <1>4, ViewsAside

LEMMA DialogsFit == ASSUME ViewsInv, StartRename \/ AskDelete PROVE ViewsInv'
<1>1. PICK n : page' = [page EXCEPT !.renaming = n] \/ page' = [page EXCEPT !.asked = n]
  BY DEF StartRename, AskDelete
<1>2. /\ SavedFields \subseteq DOMAIN page' /\ page'.draft = page.draft /\ page'.list = page.list
      /\ page'.kept = page.kept /\ page'.gone = page.gone /\ page'.reads = page.reads
  BY <1>1, ViewsHas DEF SavedFields
<1>3. wire' \subseteq wire /\ world' = world
  BY DEF StartRename, AskDelete
<1>  QED  BY <1>2, <1>3, ViewsHas, ViewsAside

LEMMA VisitViewsFits == ASSUME ViewsInv, VisitViews PROVE ViewsInv'
<1>0. SavedFields \subseteq DOMAIN page /\ page.reads \in Nat
  BY ViewsHas
<1>1. CASE page.tab
  <2>1. /\ SavedFields \subseteq DOMAIN page' /\ page'.draft = page.draft /\ page'.list = page.list
        /\ page'.kept = page.kept /\ page'.gone = page.gone /\ page'.reads = page.reads
    BY <1>0, <1>1 DEF SavedFields, VisitViews
  <2>2. wire' \subseteq wire /\ world' = world
    BY <1>1 DEF VisitViews
  <2>  QED  BY <2>1, <2>2, ViewsHas, ViewsAside
<1>2. CASE ~page.tab
  <2>  DEFINE r == [kind |-> "views", read |-> page.reads + 1, change |-> page.changes,
                    items |-> NoOne]
  <2>1. /\ SavedFields \subseteq DOMAIN page' /\ page'.draft = page.draft /\ page'.list = page.list
        /\ page'.kept = page.kept /\ page'.gone = page.gone /\ page'.reads = page.reads + 1
    BY <1>0, <1>2 DEF SavedFields, VisitViews
  <2>2. wire' = wire \cup {r} /\ world' = world
    BY <1>2 DEF VisitViews
  <2>3. ViewsFit(page', wire, world)
    BY <2>1, ViewsHas, ViewsLater
  <2>4. ViewsRequest(r, page') /\ ReadAfterChanges(r, page')
    BY <1>0, <2>1 DEF ViewsRequest, ReadAfterChanges
  <2>  HIDE DEF r
  <2>5. ViewsFit(page', wire \cup {r}, world)
    BY <2>3, <2>4, ViewsSends
  <2>  QED  BY <2>2, <2>5 DEF ViewsInv
<1>  QED  BY <1>1, <1>2

LEMMA BeginSays ==
  ASSUME NEW p, SavedFields \subseteq DOMAIN p, NEW lock
  PROVE  LET q == Begin(p, lock)
         IN  /\ SavedFields \subseteq DOMAIN q /\ q.draft = p.draft /\ q.list = p.list
             /\ q.kept = p.kept /\ q.gone = p.gone /\ q.reads = p.reads + 1
  BY DEF Begin, SavedFields

LEMMA FinishSays ==
  ASSUME NEW p, SavedFields \subseteq DOMAIN p, NEW lock
  PROVE  LET q == Finish(p, lock)
         IN  /\ SavedFields \subseteq DOMAIN q /\ q.draft = p.draft /\ q.list = p.list
             /\ q.kept = p.kept /\ q.gone = p.gone /\ q.reads = p.reads + 1
  BY DEF Finish, SavedFields

\* A change is asked for.
LEMMA BeginsFit ==
  ASSUME ViewsInv, CreateView \/ RenameView \/ DeleteView PROVE ViewsInv'
<1>1. PICK lock : page' = Begin(page, lock)
  BY DEF CreateView, RenameView, DeleteView
<1>2. /\ SavedFields \subseteq DOMAIN page' /\ page'.draft = page.draft /\ page'.list = page.list
      /\ page'.kept = page.kept /\ page'.gone = page.gone /\ page'.reads = page.reads + 1
  BY <1>1, ViewsHas, BeginSays
<1>3. ViewsFit(page', wire, world)
  BY <1>2, ViewsHas, ViewsLater
<1>4. PICK r : /\ wire' = wire \cup {r}
               /\ ViewsRequest(r, page') /\ ReadAfterChanges(r, page')
  <2>1. CASE CreateView
    <3>1. PICK n : wire' = wire \cup {[kind |-> "create", view |-> [name |-> n, filters |-> page.draft]]}
      BY <2>1 DEF CreateView
    <3>  DEFINE v == [name |-> n, filters |-> page.draft]
                r == [kind |-> "create", view |-> v]
    <3>2. IsView(v)
      BY ViewsHas DEF IsView
    <3>  HIDE DEF v
    <3>3. ViewsRequest(r, page') /\ ReadAfterChanges(r, page')
      BY <3>2 DEF ViewsRequest, ReadAfterChanges
    <3>4. wire' = wire \cup {r}
      BY <3>1 DEF v
    <3>  QED  BY <3>3, <3>4
  <2>2. CASE RenameView
    <3>1. PICK n : wire' = wire \cup {[kind |-> "rename", id |-> page.current, name |-> n]}
      BY <2>2 DEF RenameView
    <3>  DEFINE r == [kind |-> "rename", id |-> page.current, name |-> n]
    <3>2. ViewsRequest(r, page') /\ ReadAfterChanges(r, page')
      BY DEF ViewsRequest, ReadAfterChanges
    <3>3. wire' = wire \cup {r}
      BY <3>1
    <3>  QED  BY <3>2, <3>3
  <2>3. CASE DeleteView
    <3>  DEFINE r == [kind |-> "delete", id |-> page.asked]
    <3>2. ViewsRequest(r, page') /\ ReadAfterChanges(r, page')
      BY DEF ViewsRequest, ReadAfterChanges
    <3>3. wire' = wire \cup {r}
      BY <2>3 DEF DeleteView
    <3>  QED  BY <3>2, <3>3
  <2>  QED  BY <2>1, <2>2, <2>3
<1>5. world' = world
  BY DEF CreateView, RenameView, DeleteView
<1>6. ViewsFit(page', wire \cup {r}, world)
  BY <1>3, <1>4, ViewsSends
<1>  QED  BY <1>4, <1>5, <1>6 DEF ViewsInv

LEMMA ViewsReadFits == ASSUME ViewsInv, ViewsRead PROVE ViewsInv'
<1>1. PICK r \in Of("views") : wire' = (wire \ {r}) \cup {[r EXCEPT !.items = world]}
  BY DEF ViewsRead
<1>2. page' = page /\ world' = world
  BY DEF ViewsRead
<1>  DEFINE n == [r EXCEPT !.items = world]
<1>3. r \in wire /\ r.kind = "views" /\ ViewsRequest(r, page)
  BY <1>1, ViewsHas DEF Of
<1>4. /\ DOMAIN n = DOMAIN r /\ n.kind = "views" /\ n.read = r.read /\ n.items = world
  BY <1>3 DEF ViewsRequest
<1>5. wire' = (wire \ {r}) \cup {n}
  BY <1>1
<1>  HIDE DEF n
<1>6. ViewsRequest(n, page) /\ ReadAfterChanges(n, page)
  BY <1>3, <1>4, ViewsHas DEF ViewsRequest, ReadAfterChanges
<1>7. ViewsFit(page, wire \ {r}, world)
  BY ViewsHas, ViewsLater
<1>8. ViewsFit(page, (wire \ {r}) \cup {n}, world)
  BY <1>6, <1>7, ViewsSends
<1>  QED  BY <1>2, <1>5, <1>8 DEF ViewsInv

LEMMA ViewsArrivedFits == ASSUME ViewsInv, ViewsArrived PROVE ViewsInv'
<1>0. SavedFields \subseteq DOMAIN page
  BY ViewsHas
<1>1. PICK r \in Of("views"), failed \in BOOLEAN :
        /\ r.items # NoOne \/ failed
        /\ page' = [page EXCEPT
              !.list = IF ~failed /\ r.read = page.reads /\ r.change = page.changes
                       THEN r.items ELSE @,
              !.loading = IF r.read = page.reads THEN FALSE ELSE @]
        /\ wire' = wire \ {r}
        /\ world' = world
  BY DEF ViewsArrived
<1>  DEFINE x == IF ~failed /\ r.read = page.reads /\ r.change = page.changes THEN r.items ELSE page.list
<1>2. r \in wire /\ r.kind = "views" /\ ViewsRequest(r, page) /\ ReadAfterChanges(r, page)
  BY <1>1, ViewsHas DEF Of
<1>3. AreViews(x) /\ KeptIn(page.kept, page.gone, x)
  BY <1>1, <1>2, ViewsHas DEF ViewsRequest, ReadAfterChanges
<1>4. /\ SavedFields \subseteq DOMAIN page' /\ page'.draft = page.draft /\ page'.list = x
      /\ page'.kept = page.kept /\ page'.gone = page.gone /\ page'.reads = page.reads
  BY <1>0, <1>1 DEF SavedFields
<1>  HIDE DEF x
<1>5. /\ SoundFilters(page'.draft) /\ AreViews(page'.list) /\ AreViews(world')
      /\ KeptIn(page'.kept, page'.gone, page'.list) /\ KeptIn(page'.kept, page'.gone, world')
  BY <1>1, <1>3, <1>4, ViewsHas
<1>6. wire' \subseteq wire
  BY <1>1
<1>7. ViewsFit(page', wire', world')
  BY <1>4, <1>5, <1>6, ViewsLater
<1>  QED  BY <1>7 DEF ViewsInv

LEMMA ChangeRejectedFits == ASSUME ViewsInv, ChangeRejected PROVE ViewsInv'
<1>1. PICK lock : page' = Finish(page, lock)
  BY DEF ChangeRejected
<1>2. wire' \subseteq wire /\ world' = world
  BY DEF ChangeRejected
<1>3. /\ SavedFields \subseteq DOMAIN page' /\ page'.draft = page.draft /\ page'.list = page.list
      /\ page'.kept = page.kept /\ page'.gone = page.gone /\ page'.reads = page.reads + 1
  BY <1>1, ViewsHas, FinishSays
<1>4. ViewsFit(page', wire', world')
  BY <1>2, <1>3, ViewsHas, ViewsLater
<1>  QED  BY <1>4 DEF ViewsInv

\* A change ends: its answer is lost, or brings what the server made of it.
LEMMA FinishFits ==
  ASSUME ViewsInv, NEW p, NEW lock, page' = Finish(p, lock), NEW r, wire' = wire \ {r},
         SavedFields \subseteq DOMAIN p, SoundFilters(p.draft), AreViews(p.list), AreViews(world'),
         KeptIn(p.kept, p.gone, p.list), KeptIn(p.kept, p.gone, world'), p.reads = page.reads
  PROVE  ViewsInv'
<1>1. /\ SavedFields \subseteq DOMAIN page' /\ page'.draft = p.draft /\ page'.list = p.list
      /\ page'.kept = p.kept /\ page'.gone = p.gone /\ page'.reads = page.reads + 1
  BY FinishSays
<1>2. wire' \subseteq wire
  OBVIOUS
<1>3. ViewsFit(page', wire', world')
  BY <1>1, <1>2, ViewsLater
<1>  QED  BY <1>3 DEF ViewsInv

LEMMA ShownAfterSays ==
  ASSUME NEW p, SavedFields \subseteq DOMAIN p, NEW id, NEW v
  PROVE  LET q == ShownAfter(p, id, v)
         IN  /\ SavedFields \subseteq DOMAIN q /\ q.draft = p.draft /\ q.list = p.list
             /\ q.kept = p.kept /\ q.gone = p.gone /\ q.reads = p.reads
  BY DEF ShownAfter, SavedFields

LEMMA ViewCreatedFits == ASSUME ViewsInv, ViewCreated PROVE ViewsInv'
<1>0. SavedFields \subseteq DOMAIN page
  BY ViewsHas
<1>1. PICK r \in Of("create"), lost \in BOOLEAN :
        /\ FreeViews # {}
        /\ world' = Including(world, NextView, r.view)
        /\ page' = Finish(IF lost THEN page
                          ELSE ShownAfter([page EXCEPT !.list = Including(@, NextView, r.view),
                                                       !.kept = Including(@, NextView, r.view)],
                                          NextView, r.view), "create")
        /\ wire' = wire \ {r}
  BY DEF ViewCreated
<1>  DEFINE id == NextView
            v  == r.view
<1>2. id \notin DOMAIN world /\ id \notin page.gone
  BY <1>1 DEF NextView, FreeViews
<1>3. IsView(v)
  BY <1>1, ViewsHas DEF Of, ViewsRequest
<1>  HIDE DEF id, v
<1>4. id \notin DOMAIN page.kept
  BY <1>2, ViewsHas DEF KeptIn
<1>5. world' = Including(world, id, v)
  BY <1>1 DEF id, v
<1>6. /\ AreViews(world') /\ KeptIn(page.kept, page.gone, world')
      /\ KeptIn(Including(page.kept, id, v), page.gone, world')
  BY <1>2, <1>3, <1>4, <1>5, ViewsHas, IncludingKeeps
<1>7. CASE lost
  <2>1. page' = Finish(page, "create") /\ wire' = wire \ {r}
    BY <1>1, <1>7
  <2>  QED  BY <1>6, <2>1, ViewsHas, FinishFits
<1>8. CASE ~lost
  <2>  DEFINE q == [page EXCEPT !.list = Including(@, id, v), !.kept = Including(@, id, v)]
              p == ShownAfter(q, id, v)
  <2>1. page' = Finish(p, "create") /\ wire' = wire \ {r}
    BY <1>1, <1>8 DEF id, v
  <2>2. /\ SavedFields \subseteq DOMAIN q /\ q.draft = page.draft
        /\ q.list = Including(page.list, id, v) /\ q.kept = Including(page.kept, id, v)
        /\ q.gone = page.gone /\ q.reads = page.reads
    BY <1>0 DEF SavedFields
  <2>  HIDE DEF q
  <2>3. /\ SavedFields \subseteq DOMAIN p /\ p.draft = q.draft /\ p.list = q.list
        /\ p.kept = q.kept /\ p.gone = q.gone /\ p.reads = q.reads
    BY <2>2, ShownAfterSays
  <2>  HIDE DEF p
  <2>4. AreViews(p.list) /\ KeptIn(p.kept, p.gone, p.list)
    BY <1>2, <1>3, <2>2, <2>3, ViewsHas, IncludingKeeps
  <2>5. SoundFilters(p.draft) /\ KeptIn(p.kept, p.gone, world') /\ p.reads = page.reads
    BY <1>6, <2>2, <2>3, ViewsHas
  <2>  QED  BY <1>6, <2>1, <2>3, <2>2, <2>4, <2>5, FinishFits
<1>  QED  BY <1>7, <1>8

LEMMA ViewRenamedFits == ASSUME ViewsInv, ViewRenamed PROVE ViewsInv'
<1>0. SavedFields \subseteq DOMAIN page
  BY ViewsHas
<1>1. PICK r \in Of("rename"), lost \in BOOLEAN :
        LET v == [world[r.id] EXCEPT !.name = r.name]
        IN  /\ r.id \in DOMAIN world
            /\ world' = Renamed(world, r.id, v)
            /\ page' = Finish(IF lost THEN [page EXCEPT !.kept = [i \in DOMAIN @ \ {r.id} |-> @[i]]]
                              ELSE [page EXCEPT !.list = Renamed(@, r.id, v),
                                                !.kept = Renamed(@, r.id, v),
                                                !.renaming = FALSE], "rename")
            /\ wire' = wire \ {r}
  BY DEF ViewRenamed
<1>  DEFINE id == r.id
            v  == [world[id] EXCEPT !.name = r.name]
<1>2. IsView(world[id])
  BY <1>1, ViewsHas DEF AreViews
<1>3. IsView(v)
  <2>1. DOMAIN v = DOMAIN world[id] /\ v.filters = world[id].filters
    BY <1>2 DEF IsView
  <2>  HIDE DEF v
  <2>  QED  BY <1>2, <2>1 DEF IsView
<1>4. world' = Renamed(world, id, v)
  BY <1>1
<1>5. CASE lost
  <2>  DEFINE p == [page EXCEPT !.kept = Less(page.kept, id)]
  <2>1. page' = Finish(p, "rename") /\ wire' = wire \ {r}
    BY <1>1, <1>5 DEF Less
  <2>2. /\ SavedFields \subseteq DOMAIN p /\ p.draft = page.draft /\ p.list = page.list
        /\ p.kept = Less(page.kept, id) /\ p.gone = page.gone /\ p.reads = page.reads
    BY <1>0 DEF SavedFields
  <2>  HIDE DEF id, v, p
  <2>3. /\ KeptIn(p.kept, p.gone, p.list) /\ KeptIn(p.kept, p.gone, world)
        /\ id \notin DOMAIN p.kept
    BY <2>2, ViewsHas, WithoutKeeps
  <2>4. KeptIn(p.kept, p.gone, world') /\ AreViews(world')
    BY <1>3, <1>4, <2>3, ViewsHas, RenamedKeeps
  <2>5. SoundFilters(p.draft) /\ AreViews(p.list)
    BY <2>2, ViewsHas
  <2>  QED  BY <2>1, <2>2, <2>3, <2>4, <2>5, FinishFits
<1>6. CASE ~lost
  <2>  DEFINE p == [page EXCEPT !.list = Renamed(@, id, v), !.kept = Renamed(@, id, v),
                                !.renaming = FALSE]
  <2>1. page' = Finish(p, "rename") /\ wire' = wire \ {r}
    BY <1>1, <1>6
  <2>  HIDE DEF id, v
  <2>2. /\ SavedFields \subseteq DOMAIN p /\ p.draft = page.draft
        /\ p.list = Renamed(page.list, id, v) /\ p.kept = Renamed(page.kept, id, v)
        /\ p.gone = page.gone /\ p.reads = page.reads
    BY <1>0 DEF SavedFields
  <2>  HIDE DEF p
  <2>3. /\ KeptIn(p.kept, p.gone, p.list) /\ KeptIn(p.kept, p.gone, world')
        /\ AreViews(p.list) /\ AreViews(world')
    BY <1>3, <1>4, <2>2, ViewsHas, RenamedKeeps
  <2>4. SoundFilters(p.draft)
    BY <2>2, ViewsHas
  <2>  QED  BY <2>1, <2>2, <2>3, <2>4, FinishFits
<1>  QED  BY <1>5, <1>6

LEMMA ViewDeletedFits == ASSUME ViewsInv, ViewDeleted PROVE ViewsInv'
<1>0. SavedFields \subseteq DOMAIN page
  BY ViewsHas
<1>1. PICK r \in Of("delete"), lost \in BOOLEAN :
        LET rest == [page EXCEPT !.kept = [i \in DOMAIN @ \ {r.id} |-> @[i]]]
        IN  /\ world' = [i \in DOMAIN world \ {r.id} |-> world[i]]
            /\ page' = Finish(IF lost THEN rest
                              ELSE [rest EXCEPT
                                 !.list = [i \in DOMAIN @ \ {r.id} |-> @[i]],
                                 !.current = IF @ = r.id THEN 0 ELSE @,
                                 !.asked = 0, !.gone = @ \cup {r.id}], "delete")
            /\ wire' = wire \ {r}
  BY DEF ViewDeleted
<1>  DEFINE id   == r.id
            rest == [page EXCEPT !.kept = Less(page.kept, id)]
<1>2. world' = Less(world, id) /\ wire' = wire \ {r}
  BY <1>1 DEF Less
<1>3. /\ SavedFields \subseteq DOMAIN rest /\ rest.draft = page.draft /\ rest.list = page.list
      /\ rest.kept = Less(page.kept, id) /\ rest.gone = page.gone /\ rest.reads = page.reads
  BY <1>0 DEF SavedFields
<1>4. CASE lost
  <2>1. page' = Finish(rest, "delete")
    BY <1>1, <1>4 DEF Less
  <2>  HIDE DEF id, rest
  <2>2. /\ KeptIn(rest.kept, rest.gone, rest.list) /\ KeptIn(rest.kept, rest.gone, world')
        /\ AreViews(world') /\ AreViews(rest.list) /\ SoundFilters(rest.draft)
    BY <1>2, <1>3, ViewsHas, WithoutKeeps
  <2>  QED  BY <1>2, <1>3, <2>1, <2>2, FinishFits
<1>5. CASE ~lost
  <2>  DEFINE p == [rest EXCEPT !.list = Less(rest.list, id),
                                !.current = IF @ = id THEN 0 ELSE @,
                                !.asked = 0, !.gone = @ \cup {id}]
  <2>1. page' = Finish(p, "delete")
    BY <1>1, <1>5 DEF Less
  <2>  HIDE DEF id, rest
  <2>2. /\ SavedFields \subseteq DOMAIN p /\ p.draft = page.draft
        /\ p.list = Less(page.list, id) /\ p.kept = Less(page.kept, id)
        /\ p.gone = page.gone \cup {id} /\ p.reads = page.reads
    BY <1>3 DEF SavedFields
  <2>  HIDE DEF p
  <2>3. /\ KeptIn(p.kept, p.gone, p.list) /\ KeptIn(p.kept, p.gone, world')
        /\ AreViews(world') /\ AreViews(p.list) /\ SoundFilters(p.draft)
    BY <1>2, <2>2, ViewsHas, WithoutKeeps
  <2>  QED  BY <1>2, <2>1, <2>2, <2>3, FinishFits
<1>  QED  BY <1>4, <1>5

LEMMA ViewsStep == ASSUME ViewsInv, ViewsNext PROVE ViewsInv'
<1>1. CASE ViewsUser
  BY <1>1, EditDraftFits, VisitViewsFits, ApplyViewFits, BeginsFit, DialogsFit DEF ViewsUser
<1>2. CASE ViewsRuns
  BY <1>2, ViewsReadFits, ViewsArrivedFits, ViewCreatedFits, ChangeRejectedFits, ViewRenamedFits,
     ViewDeletedFits DEF ViewsRuns
<1>  QED  BY <1>1, <1>2 DEF ViewsNext

LEMMA ViewsStart == ASSUME ViewsInit PROVE ViewsInv
<1>  DEFINE r == [kind |-> "views", read |-> 1, change |-> 0, items |-> NoOne]
<1>1. page = FreshViews /\ wire = {r} /\ world = FirstViews
  BY DEF ViewsInit
<1>2. /\ SavedFields \subseteq DOMAIN page /\ page.reads = 1 /\ page.draft = EmptyFilters
      /\ page.list = <<>> /\ page.kept = <<>> /\ page.gone = {}
  BY <1>1 DEF FreshViews, SavedFields
<1>3. DOMAIN page.list = {} /\ DOMAIN page.kept = {}
  BY <1>2
<1>4. AreViews(page.list) /\ KeptIn(page.kept, page.gone, page.list)
      /\ KeptIn(page.kept, page.gone, world)
  BY <1>2, <1>3 DEF AreViews, KeptIn
<1>5. DOMAIN EmptyFilters = FilterFields
  BY DEF EmptyFilters, FilterFields
<1>6. AreViews(world)
  BY <1>1, <1>5, ViewsAssumption DEF AreViews, IsView, SoundFilters
<1>7. ViewsRequest(r, page) /\ ReadAfterChanges(r, page)
  BY <1>2 DEF ViewsRequest, ReadAfterChanges
<1>  HIDE DEF r
<1>8. ViewsFit(page, wire, world)
  BY <1>1, <1>2, <1>4, <1>6, <1>7, EmptyIsSound DEF ViewsFit
<1>  QED  BY <1>8 DEF ViewsInv

LEMMA ViewsUnchanged == ASSUME ViewsInv, UNCHANGED pageVars PROVE ViewsInv'
<1>1. page' = page /\ wire' = wire /\ world' = world
  BY DEF pageVars
<1>2. ViewsInv' <=> ViewsFit(page', wire', world')
  BY DEF ViewsInv
<1>  QED  BY <1>1, <1>2 DEF ViewsInv

LEMMA ViewsHolds == ConsoleSpec => [](Shows("views") => ViewsInv)
<1>1. ConsoleInit => (Shows("views") => ViewsInv)
  BY StartOfPage, ViewsStart
<1>2. (Shows("views") => ViewsInv) /\ [ConsoleNext]_pageVars
        => (Shows("views") => ViewsInv)'
  <2>  SUFFICES ASSUME Shows("views") => ViewsInv, [ConsoleNext]_pageVars, Shows("views")'
                PROVE  ViewsInv'
    OBVIOUS
  <2>1. focus = "views"
    BY FocusStays DEF Shows
  <2>2. [ViewsNext]_pageVars
    BY <2>1 DEF ConsoleNext, Shows
  <2>3. CASE ViewsNext
    BY <2>1, <2>3, ViewsStep DEF Shows
  <2>4. CASE UNCHANGED pageVars
    BY <2>1, <2>4, ViewsUnchanged DEF Shows
  <2>  QED  BY <2>2, <2>3, <2>4
<1>  QED  BY <1>1, <1>2, PTL DEF ConsoleSpec

(* What this console changed and was told so is what its list says, while   *)
(* lists that were read before are still on their way                       *)
(* (Probe.tsx:169-265).                                                     *)
THEOREM OwnChangesShown == ConsoleSpec => []OwnChangesStay
<1>1. (Shows("views") => ViewsInv) => OwnChangesStay
  BY ViewsHas DEF OwnChangesStay, KeptIn
<1>  QED  BY <1>1, ViewsHolds, PTL

(* The filters of the draft and of every view do not ask for and against    *)
(* the same, over every sequence of clicks, views and answers from a page   *)
(* opened without filters (Probe.tsx:1933-2001).  No address that was typed *)
(* is meant: it is taken as it is (useServers.ts:23-43).                    *)
THEOREM FiltersNotContradictory == ConsoleSpec => []TagsNotContradictory
<1>1. (Shows("views") => ViewsInv) => TagsNotContradictory
  <2>  SUFFICES ASSUME Shows("views"), ViewsInv,
                       NEW f \in {page.draft} \cup {page.list[v].filters : v \in DOMAIN page.list}
                PROVE  NotContradictory(f)
    BY DEF TagsNotContradictory
  <2>  QED  BY ViewsHas DEF SoundFilters, AreViews, IsView
<1>  QED  BY <1>1, ViewsHolds, PTL

-----------------------------------------------------------------------------
(***************************************************************************)
(* The test nodes (TestNodes).                                             *)
(***************************************************************************)
NodesFields == {"nodes", "primary", "backups", "dirty", "loaded", "error", "saving", "dialog",
                "deleting", "busy"}

\* A request whose answer takes the place of the draft, and does not ask whether it may.
Overwrites(r) == r.kind = "save" \/ (r.kind = "policy" /\ ~r.keep)

NodesRequest(r) ==
  /\ "kind" \in DOMAIN r
  /\ r.kind = "policy" => {"keep", "after"} \subseteq DOMAIN r /\ (r.after => ~r.keep)

\* There is one while a saving goes on, and none else.
SavesAlone(p, w) ==
  /\ (\E r \in w : Overwrites(r)) => p.saving
  /\ \A r, s \in w : Overwrites(r) /\ Overwrites(s) => r = s

NodesFit(p, w) ==
  /\ NodesFields \subseteq DOMAIN p
  /\ \A r \in w : NodesRequest(r)
  /\ SavesAlone(p, w)

NodesInv == NodesFit(page, wire)

\* Of what would overwrite the draft there is not more than before.
NoMoreSaves(v, w) == \A r \in v : Overwrites(r) => r \in w

LEMMA NodesCarry ==
  ASSUME NodesInv, NEW p, NEW w, NodesFields \subseteq DOMAIN p, \A r \in w : NodesRequest(r),
         NoMoreSaves(w, wire), page.saving => p.saving
  PROVE  NodesFit(p, w)
<1>1. SavesAlone(page, wire)
  BY DEF NodesInv, NodesFit
<1>2. SavesAlone(p, w)
  BY <1>1 DEF SavesAlone, NoMoreSaves
<1>  QED  BY <1>2 DEF NodesFit

\* A request that would overwrite the draft becomes another, or ends.
LEMMA SaveGoesOn ==
  ASSUME NodesInv, NEW p, NodesFields \subseteq DOMAIN p, NEW r \in wire, NEW s, NodesRequest(s),
         Overwrites(s) => Overwrites(r), page.saving => p.saving
  PROVE  NodesFit(p, (wire \ {r}) \cup {s})
<1>1. SavesAlone(page, wire) /\ \A x \in wire : NodesRequest(x)
  BY DEF NodesInv, NodesFit
<1>2. \A x \in (wire \ {r}) \cup {s} : NodesRequest(x)
  BY <1>1
<1>3. SavesAlone(p, (wire \ {r}) \cup {s})
  <2>1. (\E x \in (wire \ {r}) \cup {s} : Overwrites(x)) => p.saving
    BY <1>1 DEF SavesAlone
  <2>2. \A x, y \in (wire \ {r}) \cup {s} : Overwrites(x) /\ Overwrites(y) => x = y
    BY <1>1 DEF SavesAlone
  <2>  QED  BY <2>1, <2>2 DEF SavesAlone
<1>  QED  BY <1>2, <1>3 DEF NodesFit

LEMMA SaveEnds ==
  ASSUME NodesInv, NEW p, NodesFields \subseteq DOMAIN p, NEW r \in wire, Overwrites(r)
  PROVE  NodesFit(p, wire \ {r})
<1>1. SavesAlone(page, wire) /\ \A x \in wire : NodesRequest(x)
  BY DEF NodesInv, NodesFit
<1>2. \A x \in wire \ {r} : ~Overwrites(x)
  BY <1>1 DEF SavesAlone
<1>3. SavesAlone(p, wire \ {r})
  BY <1>2 DEF SavesAlone
<1>  QED  BY <1>1, <1>3 DEF NodesFit

LEMMA NodesHas ==
  ASSUME NodesInv
  PROVE  /\ NodesFields \subseteq DOMAIN page
         /\ \A r \in wire : NodesRequest(r)
         /\ SavesAlone(page, wire)
  BY DEF NodesInv, NodesFit

\* A step on what is no part of the saving.
LEMMA NodesAside ==
  ASSUME NodesInv, NodesFields \subseteq DOMAIN page', page'.saving = page.saving,
         \A r \in wire' : NodesRequest(r), NoMoreSaves(wire', wire)
  PROVE  NodesInv'
<1>1. NodesFit(page', wire')
  BY NodesCarry
<1>  QED  BY <1>1 DEF NodesInv

LEMMA NodesUserStep ==
  ASSUME NodesInv, TestNodesUser
  PROVE  NodesInv'
<1>0. /\ NodesFields \subseteq DOMAIN page /\ \A r \in wire : NodesRequest(r)
      /\ SavesAlone(page, wire)
  BY NodesHas
<1>1. ASSUME NodesFields \subseteq DOMAIN page', page'.saving = page.saving, wire' = wire
      PROVE  NodesInv'
  BY <1>0, <1>1, NodesAside DEF NoMoreSaves
<1>2. CASE ChoosePrimary
  <2>1. NodesFields \subseteq DOMAIN page' /\ page'.saving = page.saving /\ wire' = wire
    BY <1>0, <1>2 DEF ChoosePrimary, NodesFields
  <2>  QED  BY <1>1, <2>1
<1>3. CASE MoveBackup
  <2>1. NodesFields \subseteq DOMAIN page' /\ page'.saving = page.saving /\ wire' = wire
    BY <1>0, <1>3 DEF MoveBackup, NodesFields
  <2>  QED  BY <1>1, <2>1
<1>4. CASE OpenNodes
  <2>1. NodesFields \subseteq DOMAIN page' /\ page'.saving = page.saving /\ wire' = wire
    BY <1>0, <1>4 DEF OpenNodes, NodesFields
  <2>  QED  BY <1>1, <2>1
<1>5. CASE AskRemoval
  <2>1. NodesFields \subseteq DOMAIN page' /\ page'.saving = page.saving /\ wire' = wire
    BY <1>0, <1>5 DEF AskRemoval, NodesFields
  <2>  QED  BY <1>1, <2>1
<1>6. CASE AbilityChanges
  BY <1>0, <1>1, <1>6 DEF AbilityChanges
<1>7. CASE SavePolicy
  <2>1. PICK q : wire' = (wire \ Of("policy")) \cup {[kind |-> "save", policy |-> q, answer |-> NoOne]}
    BY <1>7 DEF SavePolicy
  <2>  DEFINE s == [kind |-> "save", policy |-> q, answer |-> NoOne]
  <2>2. wire' = (wire \ Of("policy")) \cup {s} /\ NodesRequest(s)
    BY <2>1 DEF NodesRequest
  <2>  HIDE DEF s
  <2>3. NodesFields \subseteq DOMAIN page' /\ page'.saving
    BY <1>0, <1>7 DEF SavePolicy, NodesFields
  <2>4. \A r \in wire : ~Overwrites(r)
    BY <1>0, <1>7 DEF SavesAlone, SavePolicy, Editable
  <2>5. NodesFit(page', wire')
    BY <1>0, <2>2, <2>3, <2>4 DEF NodesFit, SavesAlone
  <2>  QED  BY <2>5 DEF NodesInv
<1>8. CASE CloseNodes
  <2>1. NodesFields \subseteq DOMAIN page' /\ page'.saving = page.saving
    BY <1>0, <1>8 DEF CloseNodes, NodesFields
  <2>2. CASE wire' = wire
    BY <1>1, <2>1, <2>2
  <2>3. CASE wire' = Alone(wire)
    <3>1. ASSUME NEW s \in wire' PROVE NodesRequest(s) /\ (Overwrites(s) => s \in wire)
      <4>1. PICK r \in wire : s = CASE r.kind = "remove" -> [r EXCEPT !.here = FALSE]
                                    [] r.kind = "nodes"  -> [r EXCEPT !.frees = FALSE]
                                    [] OTHER             -> r
        BY <2>3 DEF Alone
      <4>2. CASE r.kind \in {"remove", "nodes"}
        <5>1. "kind" \in DOMAIN s /\ s.kind = r.kind
          BY <1>0, <4>1, <4>2 DEF NodesRequest
        <5>  QED  BY <4>2, <5>1 DEF NodesRequest, Overwrites
      <4>3. CASE r.kind \notin {"remove", "nodes"}
        <5>1. s = r
          BY <4>1, <4>3
        <5>  QED  BY <1>0, <5>1
      <4>  QED  BY <4>2, <4>3
    <3>  QED  BY <2>1, <3>1, NodesAside DEF NoMoreSaves
  <2>  QED  BY <1>8, <2>2, <2>3 DEF CloseNodes
<1>9. CASE RemoveNode
  <2>  DEFINE s == [kind |-> "remove", node |-> page.deleting, here |-> TRUE, done |-> FALSE]
  <2>1. NodesFields \subseteq DOMAIN page' /\ page'.saving = page.saving
    BY <1>0, <1>9 DEF RemoveNode, NodesFields
  <2>2. wire' = wire \cup {s} /\ NodesRequest(s) /\ ~Overwrites(s)
    BY <1>9 DEF RemoveNode, NodesRequest, Overwrites
  <2>  HIDE DEF s
  <2>  QED  BY <1>0, <2>1, <2>2, NodesAside DEF NoMoreSaves
<1>  QED  BY <1>2, <1>3, <1>4, <1>5, <1>6, <1>7, <1>8, <1>9 DEF TestNodesUser

LEMMA NodesRunStep ==
  ASSUME NodesInv, TestNodesRuns
  PROVE  NodesInv'
<1>0. /\ NodesFields \subseteq DOMAIN page /\ \A r \in wire : NodesRequest(r)
      /\ SavesAlone(page, wire)
  BY NodesHas
<1>1. CASE PollNodes
  <2>  DEFINE s == [kind |-> "nodes", frees |-> FALSE, answer |-> NoOne]
  <2>1. page' = page /\ wire' = wire \cup {s} /\ NodesRequest(s) /\ ~Overwrites(s)
    BY <1>1 DEF PollNodes, NodesRequest, Overwrites
  <2>  HIDE DEF s
  <2>  QED  BY <1>0, <2>1, NodesAside DEF NoMoreSaves
<1>  DEFINE Answered1(r, a) == [r EXCEPT !.answer = a]
<1>2. ASSUME NEW r \in wire, NEW a
      PROVE  NodesRequest(Answered1(r, a)) /\ (Overwrites(Answered1(r, a)) => Overwrites(r))
  BY <1>0 DEF NodesRequest, Overwrites
<1>3. CASE NodesServed
  <2>1. PICK r \in wire : wire' = (wire \ {r}) \cup
               {[r EXCEPT !.answer = IF r.kind = "nodes" THEN [set |-> Usable] ELSE Policy(world.policy)]}
    BY <1>3 DEF NodesServed
  <2>  DEFINE a == IF r.kind = "nodes" THEN [set |-> Usable] ELSE Policy(world.policy)
  <2>2. wire' = (wire \ {r}) \cup {Answered1(r, a)}
    BY <2>1
  <2>3. page' = page
    BY <1>3 DEF NodesServed
  <2>  HIDE DEF a, Answered1
  <2>4. NodesFit(page, (wire \ {r}) \cup {Answered1(r, a)})
    BY <1>0, <1>2, SaveGoesOn
  <2>  QED  BY <2>2, <2>3, <2>4 DEF NodesInv
<1>4. CASE PolicySaved
  <2>1. PICK r \in Of("save") : wire' = (wire \ {r}) \cup {[r EXCEPT !.answer = Policy(r.policy)]}
    BY <1>4 DEF PolicySaved
  <2>  DEFINE a == Policy(r.policy)
  <2>2. wire' = (wire \ {r}) \cup {Answered1(r, a)} /\ r \in wire
    BY <2>1 DEF Of
  <2>3. page' = page
    BY <1>4 DEF PolicySaved
  <2>  HIDE DEF a, Answered1
  <2>4. NodesFit(page, (wire \ {r}) \cup {Answered1(r, a)})
    BY <1>0, <1>2, <2>2, SaveGoesOn
  <2>  QED  BY <2>2, <2>3, <2>4 DEF NodesInv
<1>5. CASE NodesShown
  <2>1. NodesFields \subseteq DOMAIN page' /\ page'.saving = page.saving
    BY <1>0, <1>5 DEF NodesShown, NodesFields
  <2>2. wire' \subseteq wire
    BY <1>5 DEF NodesShown
  <2>  QED  BY <1>0, <2>1, <2>2, NodesAside DEF NoMoreSaves
<1>6. CASE PolicyShown
  <2>1. PICK r \in Of("policy"), lost \in BOOLEAN :
          /\ LET p == [page EXCEPT !.saving = @ /\ ~r.after]
             IN  page' = IF lost \/ ~r.answer.ok THEN [p EXCEPT !.loaded = TRUE, !.error = TRUE]
                         ELSE AppliedTo(p, r.answer, r.keep)
          /\ wire' = wire \ {r}
    BY <1>6 DEF PolicyShown
  <2>  DEFINE p == [page EXCEPT !.saving = @ /\ ~r.after]
  <2>2. NodesFields \subseteq DOMAIN p /\ p.saving = (page.saving /\ ~r.after)
    BY <1>0 DEF NodesFields
  <2>3. page' = IF lost \/ ~r.answer.ok THEN [p EXCEPT !.loaded = TRUE, !.error = TRUE]
                ELSE AppliedTo(p, r.answer, r.keep)
    BY <2>1
  <2>  HIDE DEF p
  <2>4. NodesFields \subseteq DOMAIN page' /\ page'.saving = p.saving
    BY <2>2, <2>3 DEF AppliedTo, Applied, NodesFields
  <2>5. r \in wire /\ r.kind = "policy" /\ NodesRequest(r)
    BY <1>0 DEF Of
  <2>6. CASE r.after
    <3>1. Overwrites(r)
      BY <2>5, <2>6 DEF NodesRequest, Overwrites
    <3>2. NodesFit(page', wire \ {r})
      BY <2>4, <2>5, <3>1, SaveEnds
    <3>  QED  BY <2>1, <3>2 DEF NodesInv
  <2>7. CASE ~r.after
    <3>1. page.saving => page'.saving
      BY <2>2, <2>4, <2>7
    <3>2. NodesFit(page', wire \ {r})
      BY <1>0, <2>4, <3>1, NodesCarry DEF NoMoreSaves
    <3>  QED  BY <2>1, <3>2 DEF NodesInv
  <2>  QED  BY <2>6, <2>7
<1>7. CASE SaveShown
  <2>1. PICK r \in Of("save") :
          /\ page' = Applied(page, r.answer)
          /\ wire' = (wire \ {r}) \cup
                     {[kind |-> "policy", keep |-> FALSE, after |-> TRUE, answer |-> NoOne]}
    BY <1>7 DEF SaveShown
  <2>  DEFINE s == [kind |-> "policy", keep |-> FALSE, after |-> TRUE, answer |-> NoOne]
  <2>2. r \in wire /\ Overwrites(r)
    BY DEF Of, Overwrites
  <2>3. NodesFields \subseteq DOMAIN page' /\ page'.saving = page.saving
    BY <1>0, <2>1 DEF Applied, NodesFields
  <2>4. NodesRequest(s) /\ wire' = (wire \ {r}) \cup {s}
    BY <2>1 DEF NodesRequest
  <2>  HIDE DEF s
  <2>5. NodesFit(page', (wire \ {r}) \cup {s})
    BY <2>2, <2>3, <2>4, SaveGoesOn
  <2>  QED  BY <2>4, <2>5 DEF NodesInv
<1>8. CASE SaveLost
  <2>1. PICK r \in Of("save") : /\ page' = [page EXCEPT !.saving = FALSE, !.error = TRUE]
                                /\ wire' = wire \ {r}
    BY <1>8 DEF SaveLost
  <2>2. r \in wire /\ Overwrites(r)
    BY DEF Of, Overwrites
  <2>3. NodesFields \subseteq DOMAIN page'
    BY <1>0, <2>1 DEF NodesFields
  <2>4. NodesFit(page', wire \ {r})
    BY <2>2, <2>3, SaveEnds
  <2>  QED  BY <2>1, <2>4 DEF NodesInv
<1>9. CASE NodeRemoved
  <2>1. PICK r \in Of("remove") : wire' = (wire \ {r}) \cup {[r EXCEPT !.done = TRUE]}
    BY <1>9 DEF NodeRemoved
  <2>  DEFINE s == [r EXCEPT !.done = TRUE]
  <2>2. r \in wire /\ r.kind = "remove" /\ NodesRequest(r)
    BY <1>0 DEF Of
  <2>3. "kind" \in DOMAIN s /\ s.kind = "remove"
    BY <2>2 DEF NodesRequest
  <2>4. wire' = (wire \ {r}) \cup {s} /\ page' = page
    BY <1>9, <2>1 DEF NodeRemoved
  <2>  HIDE DEF s
  <2>5. NodesRequest(s) /\ ~Overwrites(s)
    BY <2>3 DEF NodesRequest, Overwrites
  <2>  QED  BY <1>0, <2>4, <2>5, NodesAside DEF NoMoreSaves
<1>10. CASE RemovalShown
  <2>1. PICK r \in Of("remove"), lost \in BOOLEAN :
          wire' = (wire \ {r}) \cup
                  (IF lost THEN {} ELSE {[kind |-> "nodes", frees |-> r.here, answer |-> NoOne]})
    BY <1>10 DEF RemovalShown
  <2>2. NodesFields \subseteq DOMAIN page' /\ page'.saving = page.saving
    BY <1>0, <1>10 DEF RemovalShown, NodesFields
  <2>  DEFINE s == [kind |-> "nodes", frees |-> r.here, answer |-> NoOne]
  <2>3. wire' \subseteq wire \cup {s} /\ NodesRequest(s) /\ ~Overwrites(s)
    BY <2>1 DEF NodesRequest, Overwrites
  <2>  HIDE DEF s
  <2>  QED  BY <1>0, <2>2, <2>3, NodesAside DEF NoMoreSaves
<1>  QED
  BY <1>1, <1>3, <1>4, <1>5, <1>6, <1>7, <1>8, <1>9, <1>10 DEF TestNodesRuns

LEMMA NodesStep == ASSUME NodesInv, TestNodesNext PROVE NodesInv'
  BY NodesUserStep, NodesRunStep DEF TestNodesNext

LEMMA NodesStart == ASSUME TestNodesInit PROVE NodesInv
<1>1. NodesFields \subseteq DOMAIN page
  BY DEF TestNodesInit, NodesFields
<1>  DEFINE a == [kind |-> "nodes", frees |-> FALSE, answer |-> NoOne]
            b == [kind |-> "policy", keep |-> TRUE, after |-> FALSE, answer |-> NoOne]
<1>2. wire = {a, b}
  BY DEF TestNodesInit
<1>3. NodesRequest(a) /\ ~Overwrites(a) /\ NodesRequest(b) /\ ~Overwrites(b)
  BY DEF NodesRequest, Overwrites
<1>  HIDE DEF a, b
<1>  QED  BY <1>1, <1>2, <1>3 DEF NodesInv, NodesFit, SavesAlone

LEMMA NodesUnchanged == ASSUME NodesInv, UNCHANGED pageVars PROVE NodesInv'
<1>1. page' = page /\ wire' = wire
  BY DEF pageVars
<1>2. NodesInv' <=> NodesFit(page', wire')
  BY DEF NodesInv
<1>  QED  BY <1>1, <1>2 DEF NodesInv

\* What is read while nothing is saved does not touch a draft.
LEMMA DraftIsKept ==
  ASSUME NodesInv, page.dirty, ~page.saving, TestNodesRuns
  PROVE  page'.primary = page.primary /\ page'.backups = page.backups
<1>0. /\ NodesFields \subseteq DOMAIN page /\ \A r \in wire : NodesRequest(r)
      /\ \A r \in wire : ~Overwrites(r)
  BY NodesHas DEF SavesAlone
<1>1. CASE PollNodes \/ NodesServed \/ PolicySaved \/ NodeRemoved
  <2>1. page' = page
    BY <1>1 DEF PollNodes, NodesServed, PolicySaved, NodeRemoved
  <2>  QED  BY <2>1
<1>2. CASE NodesShown
  BY <1>0, <1>2 DEF NodesShown, NodesFields
<1>3. CASE SaveShown \/ SaveLost
  BY <1>0, <1>3 DEF SaveShown, SaveLost, Of, Overwrites
<1>4. CASE RemovalShown
  BY <1>0, <1>4 DEF RemovalShown, NodesFields
<1>5. CASE PolicyShown
  <2>1. PICK r \in Of("policy"), lost \in BOOLEAN :
          LET p == [page EXCEPT !.saving = @ /\ ~r.after]
          IN  page' = IF lost \/ ~r.answer.ok THEN [p EXCEPT !.loaded = TRUE, !.error = TRUE]
                      ELSE AppliedTo(p, r.answer, r.keep)
    BY <1>5 DEF PolicyShown
  <2>  DEFINE p == [page EXCEPT !.saving = @ /\ ~r.after]
  <2>2. /\ NodesFields \subseteq DOMAIN p /\ p.dirty = page.dirty
        /\ p.primary = page.primary /\ p.backups = page.backups
    BY <1>0 DEF NodesFields
  <2>3. page' = IF lost \/ ~r.answer.ok THEN [p EXCEPT !.loaded = TRUE, !.error = TRUE]
                ELSE AppliedTo(p, r.answer, r.keep)
    BY <2>1
  <2>  HIDE DEF p
  <2>4. r.keep
    BY <1>0 DEF Of, Overwrites
  <2>5. page' = [p EXCEPT !.loaded = TRUE, !.error = TRUE]
        \/ page' = [p EXCEPT !.loaded = TRUE, !.error = FALSE]
    BY <2>2, <2>3, <2>4 DEF AppliedTo
  <2>  QED  BY <2>2, <2>5 DEF NodesFields
<1>  QED  BY <1>1, <1>2, <1>3, <1>4, <1>5 DEF TestNodesRuns

LEMMA NodesHolds == ConsoleSpec => [](Shows("nodes") => NodesInv)
<1>1. ConsoleInit => (Shows("nodes") => NodesInv)
  BY StartOfPage, NodesStart
<1>2. (Shows("nodes") => NodesInv) /\ [ConsoleNext]_pageVars
        => (Shows("nodes") => NodesInv)'
  <2>  SUFFICES ASSUME Shows("nodes") => NodesInv, [ConsoleNext]_pageVars, Shows("nodes")'
                PROVE  NodesInv'
    OBVIOUS
  <2>1. focus = "nodes"
    BY FocusStays DEF Shows
  <2>2. [TestNodesNext]_pageVars
    BY <2>1 DEF ConsoleNext, Shows
  <2>3. CASE TestNodesNext
    BY <2>1, <2>3, NodesStep DEF Shows
  <2>4. CASE UNCHANGED pageVars
    BY <2>1, <2>4, NodesUnchanged DEF Shows
  <2>  QED  BY <2>2, <2>3, <2>4
<1>  QED  BY <1>1, <1>2, PTL DEF ConsoleSpec

\* The answer of a creation leaves the draft as it is, and shows its view or not.
LEMMA CreationLeavesDraft ==
  ASSUME ViewsInv, ViewCreated
  PROVE  page'.draft = page.draft
<1>0. SavedFields \subseteq DOMAIN page
  BY ViewsHas
<1>1. PICK r \in Of("create"), lost \in BOOLEAN :
        page' = Finish(IF lost THEN page
                       ELSE ShownAfter([page EXCEPT
                                !.list = Including(@, NextView, r.view),
                                !.kept = Including(@, NextView, r.view)],
                            NextView, r.view), "create")
  BY DEF ViewCreated
<1>  DEFINE p == [page EXCEPT !.list = Including(@, NextView, r.view),
                              !.kept = Including(@, NextView, r.view)]
<1>2. SavedFields \subseteq DOMAIN p /\ p.draft = page.draft
  BY <1>0 DEF SavedFields
<1>3. page' = Finish(IF lost THEN page ELSE ShownAfter(p, NextView, r.view), "create")
  BY <1>1
<1>  HIDE DEF p
<1>4. SavedFields \subseteq DOMAIN ShownAfter(p, NextView, r.view)
      /\ ShownAfter(p, NextView, r.view).draft = page.draft
  BY <1>2, ShownAfterSays
<1>  QED  BY <1>0, <1>3, <1>4, FinishSays

(* What the user edits while an answer is on its way is not overwritten by  *)
(* it: neither the filters while a view of them is created, nor the order   *)
(* of the test nodes while the policy is read for the first time            *)
(* (Probe.tsx:211-223, TestNodesPage.tsx:36-62).                            *)
THEOREM EditsAreKept == ConsoleSpec => DraftsKept
<1>1. /\ Shows("views") => ViewsInv
      /\ Shows("nodes") => NodesInv
      => EditsSurviveCreate /\ PolicyDraftKept
  <2>1. (Shows("views") => ViewsInv) => EditsSurviveCreate
    BY CreationLeavesDraft DEF EditsSurviveCreate
  <2>2. (Shows("nodes") => NodesInv) => PolicyDraftKept
    BY DraftIsKept DEF PolicyDraftKept
  <2>  QED  BY <2>1, <2>2
<1>  QED  BY <1>1, ViewsHolds, NodesHolds, PTL DEF DraftsKept

-----------------------------------------------------------------------------
(***************************************************************************)
(* What the scans found (Discovery).                                       *)
(***************************************************************************)
RecordFields == {"q", "typed", "rows", "at", "total", "tab", "seen", "chosen", "targets", "handed",
                 "dialog", "saving"}

RecordDialogs == {NoOne, "import", "edit", "delete"}

IdsOf(rows) == {row[1] : row \in rows}

FoundOnce(d) ==
  /\ DOMAIN d = {"found", "imported", "last"}
  /\ d.last \in 0..MaxFound /\ d.found \subseteq 1..d.last

\* What is on the screen or ticked was found once, and has a target.
TicksFit(p, d) ==
  /\ RecordFields \subseteq DOMAIN p /\ p.dialog \in RecordDialogs
  /\ IdsOf(p.rows) \subseteq 1..d.last /\ IdsOf(p.rows) \subseteq p.targets
  /\ p.chosen \subseteq 1..d.last /\ p.chosen \subseteq p.targets

\* An import or a deletion that is done leaves nothing to import among its records.
RecordRequest(r, d) ==
  /\ "kind" \in DOMAIN r /\ r.kind \in {"results", "import", "edit", "delete"}
  /\ r.kind = "results" =>
        /\ {"q", "recover", "answer"} \subseteq DOMAIN r
        /\ r.answer # NoOne => IdsOf(r.answer.rows) \subseteq 1..d.last
  /\ r.kind # "results" =>
        /\ {"ids", "own", "here", "done"} \subseteq DOMAIN r
        /\ r.ids \subseteq 1..d.last
        /\ r.done /\ r.kind # "edit" => r.ids \cap d.found \subseteq d.imported

FoundFit(p, w, d) == FoundOnce(d) /\ TicksFit(p, d) /\ \A r \in w : RecordRequest(r, d)

FoundInv == FoundFit(page, wire, world)

LEMMA FoundHas ==
  ASSUME FoundInv
  PROVE  /\ FoundOnce(world) /\ TicksFit(page, world)
         /\ RecordFields \subseteq DOMAIN page /\ page.dialog \in RecordDialogs
         /\ \A r \in wire : RecordRequest(r, world)
         /\ \A r \in Acts : r \in wire /\ r.kind # "results"
         /\ \A r \in Of("results") : r \in wire /\ r.kind = "results"
  BY DEF FoundInv, FoundFit, TicksFit, Acts, Of

LEMMA AskRowsFits ==
  ASSUME NEW q, NEW recover, NEW d
  PROVE  RecordRequest(AskRows(q, recover), d)
  BY DEF AskRows, RecordRequest

LEMMA DisownedFits ==
  ASSUME NEW r, NEW d, RecordRequest(r, d), r.kind # "results"
  PROVE  /\ RecordRequest([r EXCEPT !.own = FALSE], d)
         /\ RecordRequest([r EXCEPT !.here = FALSE, !.own = FALSE], d)
  BY DEF RecordRequest

\* The page and its requests change, the records do not.
LEMMA FoundPage ==
  ASSUME FoundInv, world' = world, TicksFit(page', world),
         \A r \in wire' : RecordRequest(r, world)
  PROVE  FoundInv'
<1>1. FoundFit(page', wire', world')
  BY FoundHas DEF FoundFit
<1>  QED  BY <1>1 DEF FoundInv

LEMMA RowsForFits ==
  ASSUME FoundInv, NEW p, TicksFit(p, world), NEW acts, acts \subseteq wire, NEW recover,
         RowsFor(p, acts, recover), world' = world
  PROVE  FoundInv'
<1>1. page' = p
  BY DEF RowsFor
<1>2. \A r \in wire' : r \in wire \/ r = AskRows(p.q, recover)
  BY DEF RowsFor, Of
<1>3. \A r \in wire' : RecordRequest(r, world)
  BY <1>2, AskRowsFits, FoundHas
<1>  QED  BY <1>1, <1>3, FoundPage

\* The ticks, the targets and the rows stay.
SameTicks(p, q) ==
  /\ RecordFields \subseteq DOMAIN p /\ p.dialog \in RecordDialogs
  /\ p.rows = q.rows /\ p.chosen = q.chosen /\ p.targets = q.targets

LEMMA SameTicksFit ==
  ASSUME FoundInv, NEW p, SameTicks(p, page)
  PROVE  TicksFit(p, world)
  BY FoundHas DEF SameTicks, TicksFit

-----------------------------------------------------------------------------
(* Reading                                                                  *)

LEMMA AnswerFits ==
  ASSUME FoundInv, NEW q, NEW n
  PROVE  IdsOf({<<i, i \in world.imported>> :
                   i \in NthOf(Matching(world.found, world.imported, q), n)}) \subseteq 1..world.last
<1>  DEFINE all == Matching(world.found, world.imported, q)
<1>1. NthOf(all, n) \subseteq world.found
  BY DEF NthOf, Matching
<1>  HIDE DEF all
<1>2. IdsOf({<<i, i \in world.imported>> : i \in NthOf(all, n)}) \subseteq NthOf(all, n)
  BY DEF IdsOf
<1>3. world.found \subseteq 1..world.last
  BY FoundHas DEF FoundOnce
<1>  QED  BY <1>1, <1>2, <1>3 DEF all

LEMMA RowsReadFits == ASSUME FoundInv, RowsRead PROVE FoundInv'
<1>1. PICK r \in Of("results") : LET all == Matching(world.found, world.imported, r.q)
           IN  wire' = Acts \cup {[r EXCEPT !.answer =
                          [rows |-> {<<i, i \in world.imported>> : i \in NthOf(all, r.q.page)},
                           total |-> Cardinality(all)]]}
  BY DEF RowsRead
<1>  DEFINE all  == Matching(world.found, world.imported, r.q)
            rows == {<<i, i \in world.imported>> : i \in NthOf(all, r.q.page)}
            a    == [rows |-> rows, total |-> Cardinality(all)]
            s    == [r EXCEPT !.answer = a]
<1>2. wire' = Acts \cup {s}
  BY <1>1
<1>3. IdsOf(rows) \subseteq 1..world.last
  BY AnswerFits
<1>  HIDE DEF rows, all
<1>4. IdsOf(a.rows) \subseteq 1..world.last
  BY <1>3
<1>  HIDE DEF a
<1>5. r \in wire /\ r.kind = "results" /\ RecordRequest(r, world)
  BY FoundHas
<1>6. DOMAIN s = DOMAIN r /\ s.kind = "results" /\ s.answer = a
  BY <1>5 DEF RecordRequest
<1>  HIDE DEF s
<1>7. RecordRequest(s, world)
  BY <1>4, <1>5, <1>6 DEF RecordRequest
<1>8. \A x \in wire' : RecordRequest(x, world)
  BY <1>2, <1>7, FoundHas
<1>9. page' = page /\ world' = world
  BY DEF RowsRead
<1>  QED  BY <1>8, <1>9, FoundHas, FoundPage

LEMMA RowsShownFits == ASSUME FoundInv, RowsShown PROVE FoundInv'
<1>1. PICK r \in Of("results") :
        /\ r.answer # NoOne
        /\ \/ \E n : ShowQuery([page.q EXCEPT !.page = n])
           \/ /\ page' = [page EXCEPT !.rows = r.answer.rows, !.at = r.q.page,
                                      !.total = r.answer.total,
                                      !.targets = Learned(@, r.answer.rows)]
              /\ wire' = Acts
  BY DEF RowsShown
<1>2. world' = world
  BY DEF RowsShown
<1>3. CASE \E n : ShowQuery([page.q EXCEPT !.page = n])
  <2>1. PICK n : ShowQuery([page.q EXCEPT !.page = n])
    BY <1>3
  <2>  DEFINE p == [page EXCEPT !.q = [page.q EXCEPT !.page = n]]
  <2>2. RowsFor(p, Acts, FALSE)
    BY <2>1 DEF ShowQuery
  <2>3. SameTicks(p, page)
    BY FoundHas DEF SameTicks, RecordFields
  <2>  HIDE DEF p
  <2>4. TicksFit(p, world) /\ Acts \subseteq wire
    BY <2>3, SameTicksFit, FoundHas
  <2>  QED  BY <1>2, <2>2, <2>4, RowsForFits
<1>4. CASE /\ page' = [page EXCEPT !.rows = r.answer.rows, !.at = r.q.page,
                                   !.total = r.answer.total,
                                   !.targets = Learned(@, r.answer.rows)]
           /\ wire' = Acts
  <2>1. IdsOf(r.answer.rows) \subseteq 1..world.last
    BY <1>1, FoundHas DEF RecordRequest
  <2>2. /\ RecordFields \subseteq DOMAIN page' /\ page'.rows = r.answer.rows
        /\ page'.targets = page.targets \cup IdsOf(r.answer.rows)
        /\ page'.chosen = page.chosen /\ page'.dialog = page.dialog
    BY <1>4, FoundHas DEF RecordFields, Learned, IdsOf
  <2>3. TicksFit(page', world)
    BY <2>1, <2>2, FoundHas DEF TicksFit
  <2>  QED  BY <1>2, <1>4, <2>3, FoundHas, FoundPage
<1>  QED  BY <1>1, <1>3, <1>4

\* Another query of the same page, or the same query again.
LEMMA QueryFits ==
  ASSUME FoundInv, PollRows \/ RecordSearchSettles \/ SetRecordFilter \/ TurnPage \/ ToggleDiscovery
                   \/ ToggleWindow \/ RowsLost
  PROVE  FoundInv'
<1>1. world' = world
  BY DEF PollRows, RecordSearchSettles, SetRecordFilter, TurnPage, ToggleDiscovery, ToggleWindow, RowsLost
<1>2. \/ page' = page /\ wire' = Acts
      \/ page' = [page EXCEPT !.tab = ~@] /\ wire' = Acts
      \/ RowsFor(page, Acts, TRUE)
      \/ \E q : RowsFor([page EXCEPT !.q = q], Acts, FALSE)
      \/ RowsFor([page EXCEPT !.tab = ~@], Acts, TRUE)
      \/ RowsFor([page EXCEPT !.seen = ~@], Acts, TRUE)
  BY DEF PollRows, RecordSearchSettles, SetRecordFilter, TurnPage, ToggleDiscovery, ToggleWindow,
         RowsLost, ShowQuery
<1>3. /\ SameTicks(page, page) /\ SameTicks([page EXCEPT !.tab = ~@], page)
      /\ \A q : SameTicks([page EXCEPT !.q = q], page)
      /\ SameTicks([page EXCEPT !.seen = ~@], page)
  BY FoundHas DEF SameTicks, RecordFields
<1>4. CASE page' = page /\ wire' = Acts
  BY <1>1, <1>4, FoundHas, FoundPage
<1>5. CASE page' = [page EXCEPT !.tab = ~@] /\ wire' = Acts
  <2>1. TicksFit(page', world)
    BY <1>3, <1>5, SameTicksFit
  <2>  QED  BY <1>1, <1>5, <2>1, FoundHas, FoundPage
<1>6. Acts \subseteq wire
  BY FoundHas
<1>7. CASE RowsFor(page, Acts, TRUE)
  BY <1>1, <1>3, <1>6, <1>7, SameTicksFit, RowsForFits
<1>8. CASE \E q : RowsFor([page EXCEPT !.q = q], Acts, FALSE)
  <2>1. PICK q : RowsFor([page EXCEPT !.q = q], Acts, FALSE)
    BY <1>8
  <2>2. TicksFit([page EXCEPT !.q = q], world)
    BY <1>3, SameTicksFit
  <2>  QED  BY <1>1, <1>6, <2>1, <2>2, RowsForFits
<1>9. CASE RowsFor([page EXCEPT !.tab = ~@], Acts, TRUE)
  <2>1. TicksFit([page EXCEPT !.tab = ~@], world)
    BY <1>3, SameTicksFit
  <2>  QED  BY <1>1, <1>6, <1>9, <2>1, RowsForFits
<1>10. CASE RowsFor([page EXCEPT !.seen = ~@], Acts, TRUE)
  <2>1. TicksFit([page EXCEPT !.seen = ~@], world)
    BY <1>3, SameTicksFit
  <2>  QED  BY <1>1, <1>6, <1>10, <2>1, RowsForFits
<1>  QED  BY <1>2, <1>4, <1>5, <1>7, <1>8, <1>9, <1>10

-----------------------------------------------------------------------------
(* Ticks and dialogs                                                        *)

LEMMA TicksOfScreenFit ==
  ASSUME FoundInv, TypeRecord \/ TickRecord \/ TickPage \/ OpenRecordDialog
  PROVE  FoundInv'
<1>1. wire' = wire /\ world' = world
  BY DEF TypeRecord, TickRecord, TickPage, OpenRecordDialog
<1>2. Tickable \subseteq IdsOf(page.rows)
  BY DEF Tickable, IdsOf
<1>3. PICK t, c, d : /\ page' = [page EXCEPT !.typed = t] \/ page' = [page EXCEPT !.chosen = c]
                          \/ page' = [page EXCEPT !.dialog = d]
                          \/ page' = [page EXCEPT !.dialog = d, !.chosen = c]
                     /\ c \subseteq page.chosen \cup Tickable
                     /\ d \in RecordDialogs
  <2>1. CASE TypeRecord
    <3>1. PICK t : page' = [page EXCEPT !.typed = t]
      BY <2>1 DEF TypeRecord
    <3>  QED  BY <3>1 DEF RecordDialogs
  <2>2. CASE TickRecord
    <3>1. PICK i \in Tickable :
            page' = [page EXCEPT !.chosen = IF i \in @ THEN @ \ {i} ELSE @ \cup {i}]
      BY <2>2 DEF TickRecord
    <3>  DEFINE c == IF i \in page.chosen THEN page.chosen \ {i} ELSE page.chosen \cup {i}
    <3>2. page' = [page EXCEPT !.chosen = c] /\ c \subseteq page.chosen \cup Tickable
      BY <3>1
    <3>  HIDE DEF c
    <3>  QED  BY <3>2 DEF RecordDialogs
  <2>3. CASE TickPage
    <3>  DEFINE c == IF Tickable \subseteq page.chosen THEN page.chosen \ Tickable
                     ELSE page.chosen \cup Tickable
    <3>1. page' = [page EXCEPT !.chosen = c] /\ c \subseteq page.chosen \cup Tickable
      BY <2>3 DEF TickPage
    <3>  HIDE DEF c
    <3>  QED  BY <3>1 DEF RecordDialogs
  <2>4. CASE OpenRecordDialog
    <3>1. CASE \E d \in {"import", "edit", "delete"} : page' = [page EXCEPT !.dialog = d]
      BY <3>1 DEF RecordDialogs
    <3>2. CASE \E i \in Tickable : page' = [page EXCEPT !.dialog = "import", !.chosen = {i}]
      <4>1. PICK i \in Tickable : page' = [page EXCEPT !.dialog = "import", !.chosen = {i}]
        BY <3>2
      <4>  DEFINE c == {i}
                  d == "import"
      <4>2. page' = [page EXCEPT !.dialog = d, !.chosen = c] /\ c \subseteq page.chosen \cup Tickable
        BY <4>1
      <4>3. d \in RecordDialogs
        BY DEF RecordDialogs
      <4>  HIDE DEF c, d
      <4>  QED  BY <4>2, <4>3
    <3>  QED  BY <2>4, <3>1, <3>2 DEF OpenRecordDialog
  <2>  QED  BY <2>1, <2>2, <2>3, <2>4
<1>4. /\ RecordFields \subseteq DOMAIN page' /\ page'.dialog \in RecordDialogs
      /\ page'.rows = page.rows /\ page'.targets = page.targets
      /\ page'.chosen = page.chosen \/ page'.chosen = c
  BY <1>3, FoundHas DEF RecordFields
<1>5. TicksFit(page', world)
  BY <1>2, <1>3, <1>4, FoundHas DEF TicksFit
<1>  QED  BY <1>1, <1>5, FoundHas, FoundPage

LEMMA ClosedSays ==
  ASSUME NEW p, RecordFields \subseteq DOMAIN p
  PROVE  /\ RecordFields \subseteq DOMAIN Closed(p) /\ Closed(p).dialog = NoOne
         /\ Closed(p).rows = p.rows /\ Closed(p).chosen = p.chosen /\ Closed(p).targets = p.targets
  BY DEF Closed, RecordFields

LEMMA CloseRecordDialogFits == ASSUME FoundInv, CloseRecordDialog PROVE FoundInv'
<1>1. page' = Closed(page) /\ wire' = Disowned \cup Of("results") /\ world' = world
  BY DEF CloseRecordDialog
<1>2. TicksFit(page', world)
  BY <1>1, FoundHas, ClosedSays, SameTicksFit DEF SameTicks, RecordDialogs
<1>3. \A r \in Disowned : RecordRequest(r, world)
  BY FoundHas, DisownedFits DEF Disowned
<1>  QED  BY <1>1, <1>2, <1>3, FoundHas, FoundPage

LEMMA ConfirmRecordsFits == ASSUME FoundInv, ConfirmRecords PROVE FoundInv'
<1>  DEFINE own == page.dialog # "delete"
            r   == [kind |-> page.dialog, ids |-> page.chosen, own |-> own,
                    here |-> TRUE, done |-> FALSE]
<1>1. /\ page' = IF own THEN [page EXCEPT !.saving = TRUE] ELSE Closed(page)
      /\ wire' = wire \cup {r} /\ world' = world /\ page.dialog # NoOne
  BY DEF ConfirmRecords
<1>  HIDE DEF own
<1>2. SameTicks([page EXCEPT !.saving = TRUE], page) /\ SameTicks(Closed(page), page)
  BY FoundHas, ClosedSays DEF SameTicks, RecordFields, RecordDialogs
<1>3. TicksFit(page', world)
  BY <1>1, <1>2, SameTicksFit
<1>4. RecordRequest(r, world)
  BY <1>1, FoundHas DEF RecordRequest, TicksFit, RecordDialogs
<1>  HIDE DEF r
<1>  QED  BY <1>1, <1>3, <1>4, FoundHas, FoundPage

LEMMA VisitedFits ==
  ASSUME FoundInv, NEW q, NEW handed
  PROVE  TicksFit(Visited(q, page.chosen, page.targets, handed), world)
<1>  DEFINE p == Visited(q, page.chosen, page.targets, handed)
<1>1. /\ RecordFields \subseteq DOMAIN p /\ p.dialog = NoOne /\ p.rows = {}
      /\ p.chosen = page.chosen /\ p.targets = page.targets \cap page.chosen
  BY DEF Visited, RecordFields
<1>  HIDE DEF p
<1>2. IdsOf(p.rows) = {}
  BY <1>1 DEF IdsOf
<1>3. TicksFit(p, world)
  BY <1>1, <1>2, FoundHas DEF TicksFit, RecordDialogs
<1>  QED  BY <1>3 DEF p

LEMMA LeavingFits == ASSUME FoundInv, RouteTest \/ LeaveDiscovery PROVE FoundInv'
<1>1. PICK q, handed :
        /\ page' = Visited(q, page.chosen, page.targets, handed)
        /\ wire' = {[r EXCEPT !.here = FALSE, !.own = FALSE] : r \in Acts} \cup {AskRows(q, TRUE)}
  BY DEF RouteTest, LeaveDiscovery
<1>2. world' = world
  BY DEF RouteTest, LeaveDiscovery
<1>3. \A r \in wire' : RecordRequest(r, world)
  BY <1>1, FoundHas, DisownedFits, AskRowsFits
<1>  QED  BY <1>1, <1>2, <1>3, VisitedFits, FoundPage

-----------------------------------------------------------------------------
(* The records move                                                         *)

\* What was there before has not become a thing to import.
Drifted(d, e) ==
  /\ FoundOnce(e) /\ d.last <= e.last
  /\ e.found \cap (1..d.last) \subseteq d.found
  /\ \A i \in d.found : i \in d.imported /\ i \in e.found => i \in e.imported

LEMMA MovedFits ==
  ASSUME FoundInv, NEW e, Drifted(world, e)
  PROVE  TicksFit(page, e) /\ \A r \in wire : RecordRequest(r, e)
<1>1. 1..world.last \subseteq 1..e.last
  BY FoundHas, FoundAssumption DEF Drifted, FoundOnce
<1>2. TicksFit(page, e)
  BY <1>1, FoundHas DEF TicksFit
<1>3. ASSUME NEW r \in wire PROVE RecordRequest(r, e)
  <2>1. RecordRequest(r, world)
    BY FoundHas
  <2>2. r.kind # "results" => (r.done /\ r.kind # "edit" => r.ids \cap e.found \subseteq e.imported)
    BY <2>1 DEF RecordRequest, Drifted
  <2>  QED  BY <1>1, <2>1, <2>2 DEF RecordRequest
<1>  QED  BY <1>2, <1>3

LEMMA MovesAre ==
  ASSUME FoundInv
  PROVE  /\ Drifted(world, world)
         /\ \A ids : Drifted(world, Without(ids))
         /\ \A ids \in SUBSET world.found : Drifted(world, [world EXCEPT !.imported = @ \cup ids])
         /\ \A i \in world.found : Drifted(world, [world EXCEPT !.imported = @ \cup {i}])
<1>0. FoundOnce(world) /\ world.last \in Nat
  BY FoundHas, FoundAssumption DEF FoundOnce
<1>1. ASSUME NEW e, DOMAIN e = DOMAIN world, e.last = world.last, e.found = world.found,
             world.imported \subseteq e.imported
      PROVE  Drifted(world, e)
  BY <1>0, <1>1 DEF FoundOnce, Drifted
<1>2. ASSUME NEW ids PROVE Drifted(world, Without(ids))
  <2>  DEFINE e == Without(ids)
  <2>1. /\ DOMAIN e = DOMAIN world /\ e.last = world.last /\ e.found = world.found \ ids
        /\ e.imported = world.imported \ ids
    BY <1>0 DEF Without, FoundOnce
  <2>  HIDE DEF e
  <2>2. Drifted(world, e)
    BY <1>0, <2>1 DEF FoundOnce, Drifted
  <2>  QED  BY <2>2 DEF e
<1>3. ASSUME NEW ids PROVE Drifted(world, [world EXCEPT !.imported = @ \cup ids])
  <2>  DEFINE e == [world EXCEPT !.imported = @ \cup ids]
  <2>1. /\ DOMAIN e = DOMAIN world /\ e.last = world.last /\ e.found = world.found
        /\ world.imported \subseteq e.imported
    BY <1>0 DEF FoundOnce
  <2>  HIDE DEF e
  <2>2. Drifted(world, e)
    BY <1>1, <2>1
  <2>  QED  BY <2>2 DEF e
<1>4. Drifted(world, world)
  BY <1>1
<1>  QED  BY <1>2, <1>3, <1>4

LEMMA RecordsMoveFits == ASSUME FoundInv, RecordsMove PROVE FoundInv'
<1>1. page' = page /\ wire' = wire
  BY DEF RecordsMove
<1>2. Drifted(world, world')
  <2>1. CASE /\ world.last < MaxFound
             /\ world' = [world EXCEPT !.found = @ \cup {world.last + 1}, !.last = @ + 1]
    <3>1. /\ DOMAIN world' = DOMAIN world /\ world'.last = world.last + 1
          /\ world'.found = world.found \cup {world.last + 1} /\ world'.imported = world.imported
      BY <2>1, FoundHas DEF FoundOnce
    <3>2. /\ world.last \in 0..MaxFound /\ world.found \subseteq 1..world.last
          /\ DOMAIN world = {"found", "imported", "last"}
      BY FoundHas DEF FoundOnce
    <3>3. /\ world'.last \in 0..MaxFound /\ world'.found \subseteq 1..world'.last
          /\ world.last <= world'.last
      BY <2>1, <3>1, <3>2, FoundAssumption
    <3>4. world'.found \cap (1..world.last) \subseteq world.found
      BY <3>1, <3>2, FoundAssumption
    <3>  QED  BY <3>1, <3>2, <3>3, <3>4 DEF FoundOnce, Drifted
  <2>2. CASE \E i \in world.found :
               world' \in {[world EXCEPT !.imported = @ \cup {i}], Without({i})}
    BY <2>2, MovesAre
  <2>  QED  BY <2>1, <2>2 DEF RecordsMove
<1>3. FoundFit(page', wire', world')
  BY <1>1, <1>2, MovedFits DEF FoundFit, Drifted
<1>  QED  BY <1>3 DEF FoundInv

LEMMA RecordsServedFits == ASSUME FoundInv, RecordsServed PROVE FoundInv'
<1>1. PICK r \in Acts :
        /\ world' = CASE r.kind = "import" -> [world EXCEPT !.imported = @ \cup (r.ids \cap world.found)]
                      [] r.kind = "delete" -> Without(r.ids)
                      [] OTHER -> world
        /\ wire' = (wire \ {r}) \cup {[r EXCEPT !.done = TRUE]}
  BY DEF RecordsServed
<1>2. page' = page
  BY DEF RecordsServed
<1>3. r \in wire /\ r.kind # "results" /\ RecordRequest(r, world)
  BY FoundHas
<1>4. Drifted(world, world')
  BY <1>1, MovesAre
<1>  DEFINE s == [r EXCEPT !.done = TRUE]
<1>5. wire' = (wire \ {r}) \cup {s}
  BY <1>1
<1>6. DOMAIN s = DOMAIN r /\ s.kind = r.kind /\ s.ids = r.ids
  BY <1>3 DEF RecordRequest
<1>  HIDE DEF s
<1>7. RecordRequest(r, world')
  BY <1>3, <1>4, MovedFits
<1>8. CASE r.kind = "edit"
  <2>1. RecordRequest(s, world')
    BY <1>3, <1>6, <1>7, <1>8 DEF RecordRequest
  <2>  QED  BY <1>2, <1>4, <1>5, <2>1, MovedFits DEF FoundInv, FoundFit, Drifted
<1>9. CASE r.kind = "import"
  <2>1. world'.found = world.found /\ r.ids \cap world.found \subseteq world'.imported
    BY <1>1, <1>9, FoundHas DEF FoundOnce
  <2>2. RecordRequest(s, world')
    BY <1>3, <1>6, <1>7, <1>9, <2>1 DEF RecordRequest
  <2>  QED  BY <1>2, <1>4, <1>5, <2>2, MovedFits DEF FoundInv, FoundFit, Drifted
<1>10. CASE r.kind = "delete"
  <2>1. world'.found = world.found \ r.ids
    BY <1>1, <1>10, FoundHas DEF FoundOnce, Without
  <2>2. RecordRequest(s, world')
    BY <1>3, <1>6, <1>7, <1>10, <2>1 DEF RecordRequest
  <2>  QED  BY <1>2, <1>4, <1>5, <2>2, MovedFits DEF FoundInv, FoundFit, Drifted
<1>  QED  BY <1>3, <1>8, <1>9, <1>10 DEF RecordRequest

-----------------------------------------------------------------------------
(* The answers of what is done with records                                 *)

LEMMA UntickedSays ==
  ASSUME NEW p, RecordFields \subseteq DOMAIN p, NEW r
  PROVE  /\ RecordFields \subseteq DOMAIN Unticked(p, r) /\ Unticked(p, r).dialog = p.dialog
         /\ Unticked(p, r).rows = p.rows /\ Unticked(p, r).targets = p.targets
         /\ Unticked(p, r).chosen = IF r.kind = "edit" THEN p.chosen ELSE p.chosen \ r.ids
  BY DEF Unticked, RecordFields

\* The ticks after an answer.
LEMMA AnsweredTicks ==
  ASSUME FoundInv, NEW r, r \in Acts,
         \/ page' = page
         \/ page' = Unticked(page, r)
         \/ page' = Closed(Unticked(page, r))
  PROVE  /\ TicksFit(page', world)
         /\ page.chosen \ page'.chosen \subseteq r.ids
         /\ r.kind = "edit" => page'.chosen = page.chosen
<1>  DEFINE p == Unticked(page, r)
<1>2. /\ RecordFields \subseteq DOMAIN p /\ p.dialog = page.dialog
      /\ p.rows = page.rows /\ p.targets = page.targets
      /\ p.chosen = IF r.kind = "edit" THEN page.chosen ELSE page.chosen \ r.ids
  BY FoundHas, UntickedSays
<1>3. \/ page' = page \/ page' = p \/ page' = Closed(p)
  OBVIOUS
<1>  HIDE DEF p
<1>4. /\ RecordFields \subseteq DOMAIN Closed(p) /\ Closed(p).dialog = NoOne
      /\ Closed(p).rows = p.rows /\ Closed(p).chosen = p.chosen /\ Closed(p).targets = p.targets
  BY <1>2, ClosedSays
<1>1. /\ RecordFields \subseteq DOMAIN page' /\ page'.dialog \in RecordDialogs
      /\ page'.rows = page.rows /\ page'.targets = page.targets
      /\ \/ page'.chosen = page.chosen
         \/ r.kind # "edit" /\ page'.chosen = page.chosen \ r.ids
  BY <1>2, <1>3, <1>4, FoundHas DEF RecordDialogs
<1>  QED  BY <1>1, FoundHas DEF TicksFit

LEMMA RecordsAnsweredFits == ASSUME FoundInv, RecordsAnswered PROVE FoundInv'
<1>1. PICK r \in Acts :
        IF ~r.here THEN page' = page /\ wire' = wire \ {r}
        ELSE LET p == Unticked(page, r)
                 q == IF page.dialog = r.kind THEN Closed(p) ELSE p
             IN  /\ page' = q
                 /\ wire' = (IF page.dialog = r.kind THEN {[a EXCEPT !.own = FALSE] : a \in Acts \ {r}}
                             ELSE Acts \ {r})
                            \cup (IF page.seen THEN {AskRows(page.q, TRUE)} ELSE Of("results"))
  BY DEF RecordsAnswered
<1>2. world' = world
  BY DEF RecordsAnswered
<1>3. TicksFit(page', world)
  BY <1>1, AnsweredTicks
<1>4. \A a \in Acts : RecordRequest(a, world) /\ RecordRequest([a EXCEPT !.own = FALSE], world)
  BY FoundHas, DisownedFits
<1>5. \A a \in wire' : RecordRequest(a, world)
  <2>1. CASE ~r.here
    BY <1>1, <2>1, FoundHas
  <2>2. CASE r.here
    <3>1. \A a \in wire' : \/ a \in wire
                           \/ a = AskRows(page.q, TRUE)
                           \/ \E b \in Acts : a = [b EXCEPT !.own = FALSE]
      BY <1>1, <2>2, FoundHas
    <3>2. RecordRequest(AskRows(page.q, TRUE), world)
      BY AskRowsFits
    <3>3. \A a \in wire : RecordRequest(a, world)
      BY FoundHas
    <3>  SUFFICES ASSUME NEW a \in wire' PROVE RecordRequest(a, world)
      OBVIOUS
    <3>4. CASE \E b \in Acts : a = [b EXCEPT !.own = FALSE]
      BY <1>4, <3>4
    <3>  QED  BY <3>1, <3>2, <3>3, <3>4
  <2>  QED  BY <2>1, <2>2
<1>  QED  BY <1>2, <1>3, <1>5, FoundPage

LEMMA RecordsFailedFits == ASSUME FoundInv, RecordsFailed PROVE FoundInv'
<1>1. world' = world /\ wire' \subseteq wire
  BY DEF RecordsFailed
<1>2. page' = page \/ page' = [page EXCEPT !.saving = FALSE]
  BY DEF RecordsFailed
<1>3. SameTicks(page', page)
  BY <1>2, FoundHas DEF SameTicks, RecordFields
<1>  QED  BY <1>1, <1>3, SameTicksFit, FoundHas, FoundPage

LEMMA FoundStep == ASSUME FoundInv, DiscoveryNext PROVE FoundInv'
<1>1. CASE DiscoveryUser
  BY <1>1, QueryFits, TicksOfScreenFit, CloseRecordDialogFits, ConfirmRecordsFits, LeavingFits,
     RecordsMoveFits DEF DiscoveryUser
<1>2. CASE DiscoveryRuns
  BY <1>2, QueryFits, RowsReadFits, RowsShownFits, RecordsServedFits, RecordsAnsweredFits,
     RecordsFailedFits DEF DiscoveryRuns
<1>  QED  BY <1>1, <1>2 DEF DiscoveryNext

LEMMA FoundStart == ASSUME DiscoveryInit PROVE FoundInv
<1>1. page = Visited(FirstPage, {}, {}, {}) /\ wire = {AskRows(FirstPage, TRUE)}
  BY DEF DiscoveryInit
<1>2. PICK n \in Records : world = [found |-> 1..n, imported |-> {}, last |-> n]
  BY DEF DiscoveryInit
<1>3. FoundOnce(world)
  BY <1>2, FoundAssumption DEF FoundOnce, Records
<1>4. /\ RecordFields \subseteq DOMAIN page /\ page.dialog = NoOne /\ page.rows = {}
      /\ page.chosen = {} /\ page.targets = {}
  BY <1>1 DEF Visited, RecordFields
<1>5. IdsOf(page.rows) = {}
  BY <1>4 DEF IdsOf
<1>6. TicksFit(page, world)
  BY <1>4, <1>5 DEF TicksFit, RecordDialogs
<1>  QED  BY <1>1, <1>3, <1>6, AskRowsFits DEF FoundInv, FoundFit

LEMMA FoundUnchanged == ASSUME FoundInv, UNCHANGED pageVars PROVE FoundInv'
<1>1. page' = page /\ wire' = wire /\ world' = world
  BY DEF pageVars
<1>2. FoundInv' <=> FoundFit(page', wire', world')
  BY DEF FoundInv
<1>  QED  BY <1>1, <1>2 DEF FoundInv

LEMMA RecordTicksStay ==
  ASSUME FoundInv, RecordsAnswered
  PROVE  page.chosen \ page'.chosen \subseteq world.imported \cup (Records \ world.found)
<1>1. PICK r \in Acts :
        /\ r.done
        /\ \/ page' = page
           \/ page' = Unticked(page, r)
           \/ page' = Closed(Unticked(page, r))
  BY DEF RecordsAnswered
<1>2. RecordRequest(r, world) /\ r.kind # "results"
  BY FoundHas
<1>3. /\ page.chosen \ page'.chosen \subseteq r.ids
      /\ r.kind = "edit" => page'.chosen = page.chosen
  BY <1>1, AnsweredTicks
<1>4. r.ids \subseteq Records
  <2>1. 1..world.last \subseteq Records
    BY FoundHas, FoundAssumption DEF FoundOnce, Records
  <2>  QED  BY <1>2, <2>1 DEF RecordRequest
<1>  QED  BY <1>1, <1>2, <1>3, <1>4 DEF RecordRequest

-----------------------------------------------------------------------------
(***************************************************************************)
(* The ticks of the test jobs and of the candidates.                       *)
(***************************************************************************)
LEMMA PanelTicks ==
  ASSUME NEW job, NEW filter, NEW home
  PROVE  "ticks" \in DOMAIN Panel(job, filter, home)
  BY DEF Panel

LEMMA TicksAreThere ==
  ASSUME "ticks" \in DOMAIN page, [JobsPanelNext]_pageVars
  PROVE  "ticks" \in DOMAIN page'
<1>1. ASSUME NEW job, NEW filter, ToJob(job, filter) PROVE "ticks" \in DOMAIN page'
  BY <1>1, PanelTicks DEF ToJob, Reselects, Reloads
<1>2. ASSUME NEW verb, NEW ids, Act(verb, ids) PROVE "ticks" \in DOMAIN page'
  BY <1>2 DEF Act
<1>3. CASE OpenJob \/ BrowseJobs
  BY <1>1, <1>3 DEF OpenJob, BrowseJobs
<1>4. CASE ConfirmStop \/ RetryJob \/ ActOnTicked
  BY <1>2, <1>4 DEF ConfirmStop, RetryJob, ActOnTicked
<1>5. CASE LeaveJobs
  BY <1>5, PanelTicks DEF LeaveJobs
<1>6. CASE PollJobs \/ JobsListed \/ JobDetailRead \/ JobDetailArrived \/ JobsLost
  BY <1>6 DEF PollJobs, JobsListed, JobDetailRead, JobDetailArrived, JobsLost, Reloads, Reselects
<1>7. CASE ChangeFilter \/ TurnTasks \/ RefreshJobs \/ ToggleSeen
  BY <1>7 DEF ChangeFilter, TurnTasks, RefreshJobs, ToggleSeen, Reloads, Reselects
<1>8. CASE TickTask \/ TickTasks \/ AskStop \/ CancelStop
  BY <1>8 DEF TickTask, TickTasks, AskStop, CancelStop
<1>9. CASE ActAnswered
  <2>  DEFINE free(r) == IF r.here THEN [page EXCEPT !.acting = FALSE] ELSE page
  <2>1. PICK r \in JobActs : page' = [free(r) EXCEPT !.ticks = {}] \/ page' = free(r)
    BY <1>9 DEF ActAnswered, Reloads
  <2>2. "ticks" \in DOMAIN free(r)
    OBVIOUS
  <2>  HIDE DEF free
  <2>  QED  BY <2>1, <2>2
<1>10. CASE ActServed \/ TaskEnds \/ UNCHANGED pageVars
  BY <1>10 DEF ActServed, TaskEnds, pageVars
<1>11. CASE ActLost
  BY <1>11 DEF ActLost
<1>  QED
  BY <1>3, <1>4, <1>5, <1>6, <1>7, <1>8, <1>9, <1>10, <1>11
     DEF JobsPanelNext, JobsPanelUser, JobsPanelRuns

LEMMA JobTicksStay ==
  ASSUME "ticks" \in DOMAIN page, ActAnswered, NEW r \in wire \ wire', r.kind = "act", ~r.own
  PROVE  page'.ticks = page.ticks
<1>1. PICK q \in JobActs :
        LET free == IF q.here THEN [page EXCEPT !.acting = FALSE] ELSE page
        IN  IF OwnAct(q) THEN Reloads([free EXCEPT !.ticks = {}], JobActs \ {q})
            ELSE page' = free /\ wire' = wire \ {q}
  BY DEF ActAnswered
<1>2. CASE OwnAct(q)
  <2>1. JobActs \ {q} \subseteq wire'
    BY <1>1, <1>2 DEF Reloads
  <2>2. r \in JobActs
    BY DEF JobActs
  <2>  QED  BY <1>2, <2>1, <2>2 DEF OwnAct
<1>3. CASE ~OwnAct(q)
  BY <1>1, <1>3
<1>  QED  BY <1>2, <1>3

-----------------------------------------------------------------------------
\* While servers are added, none is ticked that is not sent or a member.
SentTicks(p, w) == \A r \in w : r.kind = "add" => p.ticked \subseteq r.ids \cup r.members

\* Nothing is added that was not added before.
NoNewAdds(v, w) == \A r \in v : r.kind = "add" => r \in w

LEMMA SentCarry ==
  ASSUME SentTicks(page, wire), NEW p, NEW w, p.ticked \subseteq page.ticked, NoNewAdds(w, wire)
  PROVE  SentTicks(p, w)
  BY DEF SentTicks, NoNewAdds

LEMMA AskedTicks ==
  ASSUME NEW p, "ticked" \in DOMAIN p, NEW w, NEW kinds \in SUBSET PoolAndLibrary, Asked(p, w, kinds)
  PROVE  /\ page'.ticked = p.ticked
         /\ \A r \in wire' : r \in w \/ r.kind \in PoolAndLibrary
<1>1. page'.ticked = p.ticked
  BY DEF Asked
<1>2. \A r \in wire' : r \in w \/ r \in ReadsOf(p, kinds)
  BY DEF Asked
<1>  QED  BY <1>1, <1>2, ReadsAreReads

LEMMA RedrawnTicks ==
  ASSUME NEW p, "ticked" \in DOMAIN p, NEW w, Redrawn(p, w)
  PROVE  /\ page'.ticked = p.ticked
         /\ \A r \in wire' : r \in w \/ r.kind \in PoolAndLibrary
<1>  DEFINE kinds == (IF p.at # page.at THEN {"members"} ELSE {})
                     \cup (IF <<Question(p), p.trail>> # <<Question(page), page.trail>> THEN {"rows"} ELSE {})
<1>1. Asked(p, w, kinds)
  BY DEF Redrawn
<1>2. kinds \in SUBSET PoolAndLibrary
  BY DEF PoolAndLibrary
<1>  HIDE DEF kinds
<1>  QED  BY <1>1, <1>2, AskedTicks

\* A redrawing of a page with the ticks of this one.
LEMMA RedrawnKeepsTicks ==
  ASSUME NEW p, "ticked" \in DOMAIN p, p.ticked = page.ticked, NEW w, w \subseteq wire, Redrawn(p, w)
  PROVE  page'.ticked = page.ticked /\ NoNewAdds(wire', wire)
  BY RedrawnTicks DEF NoNewAdds, PoolAndLibrary

\* What an answer or a timer does with the ticks.
LEMMA RunsLeaveTicks ==
  ASSUME CandInv, CandidatesRuns
  PROVE  /\ NoNewAdds(wire', wire)
         /\ \/ page'.ticked = page.ticked
            \/ \E r \in Of("add") \ wire' : page'.ticked = {}
            \/ \E r \in Of("remove") \ wire' : page'.ticked = page.ticked \ {r.of}
<1>0. "ticked" \in DOMAIN page
  BY DEF CandInv, HasCand, CandFields
<1>1. ASSUME page'.ticked = page.ticked, wire' \subseteq wire
      PROVE  page'.ticked = page.ticked /\ NoNewAdds(wire', wire)
  BY <1>1 DEF NoNewAdds
<1>2. CASE MembersTick
  <2>1. page'.ticked = page.ticked /\ NoNewAdds(wire', wire)
    BY <1>0, <1>2, AskedTicks DEF MembersTick, NoNewAdds, PoolAndLibrary
  <2>  QED  BY <2>1
<1>3. CASE TextSettles
  <2>  DEFINE p == Anew([page EXCEPT !.word = page.text])
  <2>1. "ticked" \in DOMAIN p /\ p.ticked = page.ticked
    BY <1>0 DEF Anew
  <2>2. Redrawn(p, wire)
    BY <1>3 DEF TextSettles
  <2>  HIDE DEF p
  <2>  QED  BY <2>1, <2>2, RedrawnKeepsTicks
<1>4. CASE MachinesRead
  <2>1. PICK r \in Of("rows") :
          LET rows == NthOf(Answers(r.q), 1)
              p    == [page EXCEPT !.reading = @ \ {"rows"}, !.rows = rows, !.answers = r.q,
                         !.next = IF Cardinality(Answers(r.q)) > 1
                                  THEN [word |-> r.q.word, conn |-> r.q.conn, after |-> CHOOSE m \in rows : TRUE]
                                  ELSE NoOne]
          IN  Redrawn(IF page.cursor # NoOne /\ rows = {} /\ Len(page.trail) > 1 THEN Before(p) ELSE p,
                      wire \ {r})
    BY <1>4 DEF MachinesRead
  <2>  DEFINE rows == NthOf(Answers(r.q), 1)
              m    == IF Cardinality(Answers(r.q)) > 1
                      THEN [word |-> r.q.word, conn |-> r.q.conn, after |-> CHOOSE i \in rows : TRUE]
                      ELSE NoOne
              p    == [page EXCEPT !.reading = @ \ {"rows"}, !.rows = rows, !.answers = r.q, !.next = m]
              q    == IF page.cursor # NoOne /\ rows = {} /\ Len(page.trail) > 1 THEN Before(p) ELSE p
  <2>2. Redrawn(q, wire \ {r})
    BY <2>1
  <2>3. "ticked" \in DOMAIN p /\ p.ticked = page.ticked
    BY <1>0
  <2>  HIDE DEF p, rows, m
  <2>4. "ticked" \in DOMAIN q /\ q.ticked = page.ticked
    BY <2>3 DEF Before
  <2>  HIDE DEF q
  <2>  QED  BY <2>2, <2>4, RedrawnKeepsTicks
<1>5. CASE ReadingFailed
  <2>1. page'.ticked = page.ticked /\ wire' \subseteq wire
    BY <1>0, <1>5 DEF ReadingFailed
  <2>  QED  BY <1>1, <2>1
<1>6. ASSUME NEW at
      PROVE  "ticked" \in DOMAIN MembersAs(page, at) /\ MembersAs(page, at).ticked = page.ticked
  BY <1>0 DEF MembersAs
<1>7. CASE MembersRead
  <2>1. PICK r : page' = [MembersAs(page, r.at) EXCEPT !.reading = @ \ {"members"}] /\ wire' = wire \ {r}
    BY <1>7 DEF MembersRead
  <2>2. page'.ticked = page.ticked
    BY <1>6, <2>1
  <2>  QED  BY <1>1, <2>1, <2>2
<1>8. CASE RereadShown
  <2>1. PICK r, p : /\ p = page \/ p = MembersAs(page, r.at)
                    /\ page' = [p EXCEPT !.adding = FALSE] \/ page' = [p EXCEPT !.switching = FALSE]
                    /\ wire' = wire \ {r}
    <3>1. PICK r \in Of("reread"), lost \in BOOLEAN :
            /\ LET p == IF lost THEN page ELSE MembersAs(page, r.at)
               IN  page' = IF r.for = "add" THEN [p EXCEPT !.adding = FALSE]
                           ELSE [p EXCEPT !.switching = FALSE]
            /\ wire' = wire \ {r}
      BY <1>8 DEF RereadShown
    <3>  DEFINE p == IF lost THEN page ELSE MembersAs(page, r.at)
    <3>2. p = page \/ p = MembersAs(page, r.at)
      OBVIOUS
    <3>3. page' = [p EXCEPT !.adding = FALSE] \/ page' = [p EXCEPT !.switching = FALSE]
      BY <3>1
    <3>  HIDE DEF p
    <3>  QED  BY <3>1, <3>2, <3>3
  <2>2. "ticked" \in DOMAIN p /\ p.ticked = page.ticked
    BY <1>0, <1>6, <2>1
  <2>3. page'.ticked = page.ticked
    BY <2>1, <2>2
  <2>  QED  BY <1>1, <2>1, <2>3
<1>9. CASE Added
  <2>1. PICK r \in Of("add") :
          Redrawn([page EXCEPT !.ticked = {}, !.at = 1], (wire \ {r}) \cup {Reread("add", 1)})
    BY <1>9 DEF Added
  <2>  DEFINE p == [page EXCEPT !.ticked = {}, !.at = 1]
              s == Reread("add", 1)
              w == (wire \ {r}) \cup {s}
  <2>2. "ticked" \in DOMAIN p /\ p.ticked = {}
    BY <1>0
  <2>3. Redrawn(p, w)
    BY <2>1
  <2>4. s.kind = "reread" /\ r.kind = "add" /\ r \in wire
    BY DEF Reread, Of
  <2>  HIDE DEF p, s, w
  <2>5. page'.ticked = {} /\ \A x \in wire' : x \in w \/ x.kind \in PoolAndLibrary
    BY <2>2, <2>3, RedrawnTicks
  <2>6. r \notin wire' /\ NoNewAdds(wire', wire)
    BY <2>4, <2>5 DEF w, NoNewAdds, PoolAndLibrary
  <2>  QED  BY <2>5, <2>6
<1>10. CASE AddLost
  <2>1. page'.ticked = page.ticked /\ wire' \subseteq wire
    BY <1>0, <1>10 DEF AddLost
  <2>  QED  BY <1>1, <2>1
<1>11. CASE Removed
  <2>1. PICK r \in Of("remove") :
           /\ page' = [page EXCEPT !.shown = @ \ {r.of}, !.total = IF @ = 0 THEN 0 ELSE @ - 1,
                                   !.ticked = @ \ {r.of}, !.asked = NoOne, !.removing = NoOne]
           /\ wire' = wire \ {r}
    BY <1>11 DEF Removed
  <2>2. page'.ticked = page.ticked \ {r.of}
    BY <1>0, <2>1
  <2>  QED  BY <2>1, <2>2 DEF NoNewAdds
<1>12. CASE RemovalLost
  <2>1. page'.ticked = page.ticked /\ wire' \subseteq wire
    BY <1>0, <1>12 DEF RemovalLost
  <2>  QED  BY <1>1, <2>1
<1>13. CASE Switched
  <2>1. PICK r : page' = [page EXCEPT !.target = NoOne]
                 /\ wire' = (wire \ {r}) \cup {Reread("switch", r.at)}
    BY <1>13 DEF Switched
  <2>2. page'.ticked = page.ticked /\ NoNewAdds(wire', wire)
    BY <1>0, <2>1 DEF NoNewAdds, Reread
  <2>  QED  BY <2>2
<1>14. CASE SwitchLost
  <2>1. page'.ticked = page.ticked /\ wire' \subseteq wire
    BY <1>0, <1>14 DEF SwitchLost
  <2>  QED  BY <1>1, <2>1
<1>  QED
  BY <1>2, <1>3, <1>4, <1>5, <1>7, <1>8, <1>9, <1>10, <1>11, <1>12, <1>13, <1>14 DEF CandidatesRuns

\* What the user does with the ticks while servers are added.
LEMMA UserLeavesSent ==
  ASSUME CandInv, SentTicks(page, wire), CandidatesUser
  PROVE  SentTicks(page', wire')
<1>0. "ticked" \in DOMAIN page /\ PoolFollows(page, wire) /\ "adding" \in DOMAIN page
  BY DEF CandInv, HasCand, CandFields
<1>1. ASSUME page'.ticked = page.ticked, NoNewAdds(wire', wire)
      PROVE  SentTicks(page', wire')
  BY <1>1, SentCarry
<1>2. NoNewAdds(wire, wire)
  BY DEF NoNewAdds
<1>3. ~page.adding => \A r \in wire : r.kind # "add"
  BY <1>0 DEF PoolFollows, Adder
<1>4. CASE TypeMachine \/ AskSwitch \/ Decline \/ PoolMoves
  <2>1. page'.ticked = page.ticked /\ wire' = wire
    BY <1>0, <1>4 DEF TypeMachine, AskSwitch, Decline, PoolMoves
  <2>  QED  BY <1>1, <1>2, <2>1
<1>5. CASE ChooseConnectivity
  <2>1. PICK c : Redrawn(Anew([page EXCEPT !.conn = c]), wire)
    BY <1>5 DEF ChooseConnectivity
  <2>  DEFINE p == Anew([page EXCEPT !.conn = c])
  <2>2. "ticked" \in DOMAIN p /\ p.ticked = page.ticked
    BY <1>0 DEF Anew
  <2>  HIDE DEF p
  <2>  QED  BY <1>1, <2>1, <2>2, RedrawnKeepsTicks DEF p
<1>6. CASE NextRows
  <2>  DEFINE p == [page EXCEPT !.trail = Append(@, page.next), !.cursor = page.next]
  <2>1. Redrawn(p, wire)
    BY <1>6 DEF NextRows
  <2>2. "ticked" \in DOMAIN p /\ p.ticked = page.ticked
    BY <1>0
  <2>  HIDE DEF p
  <2>  QED  BY <1>1, <2>1, <2>2, RedrawnKeepsTicks
<1>7. CASE PreviousRows
  <2>1. Redrawn(Before(page), wire)
    BY <1>7 DEF PreviousRows
  <2>2. "ticked" \in DOMAIN Before(page) /\ Before(page).ticked = page.ticked
    BY <1>0 DEF Before
  <2>  QED  BY <1>1, <2>1, <2>2, RedrawnKeepsTicks
<1>8. CASE TurnMembers
  <2>1. PICK n : Redrawn([page EXCEPT !.at = n], wire)
    BY <1>8 DEF TurnMembers
  <2>  DEFINE p == [page EXCEPT !.at = n]
  <2>2. "ticked" \in DOMAIN p /\ p.ticked = page.ticked
    BY <1>0
  <2>3. Redrawn(p, wire)
    BY <2>1
  <2>  HIDE DEF p
  <2>  QED  BY <1>1, <2>2, <2>3, RedrawnKeepsTicks
<1>9. CASE TickMachine
  <2>1. ~page.adding /\ wire' = wire
    BY <1>9 DEF TickMachine, Box
  <2>  QED  BY <1>3, <2>1 DEF SentTicks
<1>10. CASE AddTicked
  <2>  DEFINE s == [kind |-> "add", ids |-> page.ticked \ page.shown, members |-> page.shown]
  <2>1. wire' = wire \cup {s} /\ page'.ticked = page.ticked /\ ~page.adding
    BY <1>0, <1>10 DEF AddTicked, Settled
  <2>2. page.ticked \subseteq s.ids \cup s.members
    OBVIOUS
  <2>  HIDE DEF s
  <2>  QED  BY <1>3, <2>1, <2>2 DEF SentTicks
<1>11. ASSUME NEW m, Removing(m) PROVE SentTicks(page', wire')
  <2>1. page'.ticked = page.ticked /\ NoNewAdds(wire', wire)
    BY <1>0, <1>11 DEF Removing, NoNewAdds
  <2>  QED  BY <1>1, <2>1
<1>12. CASE RemoveMember
  <2>1. PICK m : (page' = [page EXCEPT !.asked = m] /\ wire' = wire) \/ Removing(m)
    BY <1>12 DEF RemoveMember
  <2>2. CASE page' = [page EXCEPT !.asked = m] /\ wire' = wire
    BY <1>0, <1>1, <1>2, <2>2
  <2>  QED  BY <1>11, <2>1, <2>2
<1>13. CASE ConfirmRemoval
  BY <1>11, <1>13 DEF ConfirmRemoval
<1>14. CASE ConfirmSwitch
  <2>1. page'.ticked = page.ticked /\ NoNewAdds(wire', wire)
    BY <1>0, <1>14 DEF ConfirmSwitch, NoNewAdds
  <2>  QED  BY <1>1, <2>1
<1>15. CASE ReopenCandidates
  <2>1. PICK p : p = page' /\ wire' = ReadsOf(p, PoolAndLibrary)
    BY <1>15 DEF ReopenCandidates
  <2>2. \A r \in wire' : r.kind # "add"
    BY <2>1, ReadsAreReads DEF PoolAndLibrary
  <2>  QED  BY <2>2 DEF SentTicks
<1>  QED
  BY <1>4, <1>5, <1>6, <1>7, <1>8, <1>9, <1>10, <1>12, <1>13, <1>14, <1>15 DEF CandidatesUser

LEMMA SentStep ==
  ASSUME CandInv, SentTicks(page, wire), [CandidatesNext]_pageVars
  PROVE  SentTicks(page', wire')
<1>1. CASE CandidatesUser
  BY <1>1, UserLeavesSent
<1>2. CASE CandidatesRuns
  <2>1. page'.ticked \subseteq page.ticked /\ NoNewAdds(wire', wire)
    BY <1>2, RunsLeaveTicks
  <2>  QED  BY <2>1, SentCarry
<1>3. CASE UNCHANGED pageVars
  BY <1>3 DEF pageVars
<1>  QED  BY <1>1, <1>2, <1>3 DEF CandidatesNext

LEMMA CandTicksStay ==
  ASSUME CandInv, SentTicks(page, wire), deeds \in Nat, [CandidatesNext]_pageVars, deeds' = deeds
  PROVE  page.ticked \ page'.ticked \subseteq
            UNION ({r.ids \cup r.members : r \in Of("add") \ wire'}
                   \cup {{r.of} : r \in Of("remove") \ wire'})
<1>1. CASE CandidatesRuns
  <2>1. CASE page'.ticked = page.ticked
    BY <2>1
  <2>2. CASE \E r \in Of("add") \ wire' : page'.ticked = {}
    <3>1. PICK r \in Of("add") \ wire' : page'.ticked = {}
      BY <2>2
    <3>2. page.ticked \subseteq r.ids \cup r.members
      BY DEF SentTicks, Of
    <3>  QED  BY <3>1, <3>2
  <2>3. CASE \E r \in Of("remove") \ wire' : page'.ticked = page.ticked \ {r.of}
    <3>1. PICK r \in Of("remove") \ wire' : page'.ticked = page.ticked \ {r.of}
      BY <2>3
    <3>2. page.ticked \ page'.ticked \subseteq {r.of}
      BY <3>1
    <3>  QED  BY <3>2
  <2>  QED  BY <1>1, <2>1, <2>2, <2>3, RunsLeaveTicks
<1>2. CASE UNCHANGED pageVars
  BY <1>2 DEF pageVars
<1>3. ~UserActs
  BY DEF UserActs
<1>4. CandidatesRuns \/ UNCHANGED pageVars
  BY <1>3 DEF CandidatesNext
<1>  QED  BY <1>1, <1>2, <1>4

LEMMA FoundHolds == ConsoleSpec => [](Shows("discovery") => FoundInv)
<1>1. ConsoleInit => (Shows("discovery") => FoundInv)
  BY StartOfPage, FoundStart
<1>2. (Shows("discovery") => FoundInv) /\ [ConsoleNext]_pageVars
        => (Shows("discovery") => FoundInv)'
  <2>  SUFFICES ASSUME Shows("discovery") => FoundInv, [ConsoleNext]_pageVars, Shows("discovery")'
                PROVE  FoundInv'
    OBVIOUS
  <2>1. focus = "discovery"
    BY FocusStays DEF Shows
  <2>2. [DiscoveryNext]_pageVars
    BY <2>1 DEF ConsoleNext, Shows
  <2>3. CASE DiscoveryNext
    BY <2>1, <2>3, FoundStep DEF Shows
  <2>4. CASE UNCHANGED pageVars
    BY <2>1, <2>4, FoundUnchanged DEF Shows
  <2>  QED  BY <2>2, <2>3, <2>4
<1>  QED  BY <1>1, <1>2, PTL DEF ConsoleSpec

(* A route test tests every record that is ticked: each has kept its        *)
(* target since it was on the screen.                                       *)
LEMMA TicksAreTested ==
  ASSUME Shows("discovery") => FoundInv
  PROVE  TickedIsTested
<1>  SUFFICES ASSUME FoundInv, RouteTest PROVE page'.handed = page.chosen
  BY DEF TickedIsTested
<1>1. page'.handed = page.chosen \cap page.targets
  BY DEF RouteTest, Visited
<1>  QED  BY <1>1, FoundHas DEF TicksFit

TicksThere == "ticks" \in DOMAIN page

SentInv == CandInv /\ SentTicks(page, wire)

LEMMA TicksThereStart == ASSUME JobsPanelInit PROVE TicksThere
  BY PanelTicks DEF JobsPanelInit, TicksThere

LEMMA TicksThereStep == ASSUME TicksThere, [JobsPanelNext]_pageVars PROVE TicksThere'
  BY TicksAreThere DEF TicksThere

LEMMA SentStart == ASSUME CandidatesInit PROVE SentInv
<1>1. \A r \in wire : r.kind # "add"
  <2>1. PICK p : p = page /\ wire = ReadsOf(p, PoolAndLibrary)
    BY DEF CandidatesInit
  <2>  QED  BY <2>1, ReadsAreReads DEF PoolAndLibrary
<1>  QED  BY <1>1, CandStart DEF SentInv, SentTicks

LEMMA SentInvStep == ASSUME SentInv, [CandidatesNext]_pageVars PROVE SentInv'
<1>1. CandInv' /\ SentTicks(page', wire')
  BY CandStep, SentStep DEF SentInv
<1>  QED  BY <1>1 DEF SentInv

LEMMA TicksThereHolds == ConsoleSpec => [](Shows("jobs") => TicksThere)
<1>1. ConsoleInit => (Shows("jobs") => TicksThere)
  BY StartOfPage, TicksThereStart
<1>2. (Shows("jobs") => TicksThere) /\ [ConsoleNext]_pageVars
        => (Shows("jobs") => TicksThere)'
  <2>  SUFFICES ASSUME Shows("jobs") => TicksThere, [ConsoleNext]_pageVars, Shows("jobs")'
                PROVE  TicksThere'
    OBVIOUS
  <2>1. focus = "jobs"
    BY FocusStays DEF Shows
  <2>2. [JobsPanelNext]_pageVars
    BY <2>1 DEF ConsoleNext, Shows
  <2>  QED  BY <2>1, <2>2, TicksThereStep DEF Shows
<1>  QED  BY <1>1, <1>2, PTL DEF ConsoleSpec

LEMMA SentHolds == ConsoleSpec => [](Shows("candidates") => SentInv)
<1>1. ConsoleInit => (Shows("candidates") => SentInv)
  BY StartOfPage, SentStart
<1>2. (Shows("candidates") => SentInv) /\ [ConsoleNext]_pageVars
        => (Shows("candidates") => SentInv)'
  <2>  SUFFICES ASSUME Shows("candidates") => SentInv, [ConsoleNext]_pageVars, Shows("candidates")'
                PROVE  SentInv'
    OBVIOUS
  <2>1. focus = "candidates"
    BY FocusStays DEF Shows
  <2>2. [CandidatesNext]_pageVars
    BY <2>1 DEF ConsoleNext, Shows
  <2>  QED  BY <2>1, <2>2, SentInvStep DEF Shows
<1>  QED  BY <1>1, <1>2, PTL DEF ConsoleSpec

\* What the user and the servers do is counted.
LEMMA DeedsAreCounted == ConsoleSpec => [](deeds \in Nat)
<1>1. ConsoleInit => deeds \in Nat
  <2>1. /\ EditorInit \/ WorkInit \/ DetailInit \/ CreateInit \/ LibraryInit => deeds = 0
        /\ ViewsInit \/ ImportInit \/ BulkInit \/ DiscoveryInit \/ JobsPanelInit => deeds = 0
        /\ TestCreateInit \/ TestNodesInit \/ LbInit \/ CandidatesInit => deeds = 0
    BY DEF EditorInit, WorkInit, DetailInit, CreateInit, LibraryInit, ViewsInit, ImportInit,
           BulkInit, DiscoveryInit, JobsPanelInit, TestCreateInit, TestNodesInit, LbInit,
           CandidatesInit, Opens
  <2>  QED  BY <2>1 DEF ConsoleInit
<1>2. deeds \in Nat /\ [ConsoleNext]_pageVars => (deeds \in Nat)'
  BY DEF ConsoleNext, pageVars, EditorNext, WorkNext, DetailNext, CreateNext, LibraryNext,
         ViewsNext, ImportNext, BulkNext, DiscoveryNext, JobsPanelNext, TestCreateNext,
         TestNodesNext, LbNext, CandidatesNext, UserActs, Runs
<1>  QED  BY <1>1, <1>2, PTL DEF ConsoleSpec

(* The ticks that an answer takes are those it is about: the records it     *)
(* imported or deleted, the tasks of the selection it was sent from, the    *)
(* servers it added or removed (useDiscovery.ts:161-164,                    *)
(* ProbeJobsPanel.tsx:208-227, DomainCandidatesDialog.tsx:155-186); a route *)
(* test tests every record that is ticked (useDiscovery.ts:124-174,         *)
(* Probe.tsx:367-373).                                                      *)
THEOREM TicksStay == ConsoleSpec => TicksKept
<1>1. ASSUME [ConsoleNext]_pageVars, deeds \in Nat, Shows("discovery") => FoundInv,
             Shows("jobs") => TicksThere, Shows("candidates") => SentInv
      PROVE  RecordTicksKept /\ JobTicksKept /\ CandidateTicksKept /\ TickedIsTested
  <2>1. RecordTicksKept
    BY <1>1, RecordTicksStay DEF RecordTicksKept
  <2>2. JobTicksKept
    BY <1>1, JobTicksStay DEF JobTicksKept, TicksThere
  <2>3. CandidateTicksKept
    <3>  SUFFICES ASSUME Shows("candidates"), deeds' = deeds
                  PROVE  page.ticked \ page'.ticked \subseteq
                           UNION ({r.ids \cup r.members : r \in Of("add") \ wire'}
                                  \cup {{r.of} : r \in Of("remove") \ wire'})
      BY DEF CandidateTicksKept
    <3>1. [CandidatesNext]_pageVars
      BY <1>1 DEF ConsoleNext, Shows
    <3>2. CandInv /\ SentTicks(page, wire)
      BY <1>1 DEF SentInv
    <3>  QED  BY <1>1, <3>1, <3>2, CandTicksStay
  <2>4. TickedIsTested
    BY <1>1, TicksAreTested
  <2>  QED  BY <2>1, <2>2, <2>3, <2>4
<1>2. /\ deeds \in Nat
      /\ Shows("discovery") => FoundInv
      /\ Shows("jobs") => TicksThere
      /\ Shows("candidates") => SentInv
      /\ [ConsoleNext]_pageVars
      => [RecordTicksKept /\ JobTicksKept /\ CandidateTicksKept /\ TickedIsTested]_pageVars
  BY <1>1
<1>  QED
  BY <1>2, DeedsAreCounted, FoundHolds, TicksThereHolds, SentHolds, PTL DEF TicksKept, ConsoleSpec

-----------------------------------------------------------------------------
(***************************************************************************)
(* The forms (ConfigEditor, CreateInstance): FormProofs is about their     *)
(* pages alone; here it is lifted to the Console.                          *)
(***************************************************************************)
LEMMA EditorHolds == ConsoleSpec => [](Shows("editor") => EditorInv)
<1>1. ConsoleInit => (Shows("editor") => EditorInv)
  BY StartOfPage, EditorStart
<1>2. (Shows("editor") => EditorInv) /\ [ConsoleNext]_pageVars
        => (Shows("editor") => EditorInv)'
  <2>  SUFFICES ASSUME Shows("editor") => EditorInv, [ConsoleNext]_pageVars, Shows("editor")'
                PROVE  EditorInv'
    OBVIOUS
  <2>1. focus = "editor"
    BY FocusStays DEF Shows
  <2>2. [EditorNext]_pageVars
    BY <2>1 DEF ConsoleNext, Shows
  <2>  QED  BY <2>1, <2>2, EditorStep DEF Shows
<1>  QED  BY <1>1, <1>2, PTL DEF ConsoleSpec

LEMMA CreateHolds == ConsoleSpec => [](Shows("create") => CreateInv)
<1>1. ConsoleInit => (Shows("create") => CreateInv)
  BY StartOfPage, CreateStart
<1>2. (Shows("create") => CreateInv) /\ [ConsoleNext]_pageVars
        => (Shows("create") => CreateInv)'
  <2>  SUFFICES ASSUME Shows("create") => CreateInv, [ConsoleNext]_pageVars, Shows("create")'
                PROVE  CreateInv'
    OBVIOUS
  <2>1. focus = "create"
    BY FocusStays DEF Shows
  <2>2. [CreateNext]_pageVars
    BY <2>1 DEF ConsoleNext, Shows
  <2>  QED  BY <2>1, <2>2, CreateStep DEF Shows
<1>  QED  BY <1>1, <1>2, PTL DEF ConsoleSpec

LEMMA NodeHolds == ConsoleSpec => [](Shows("create") => NodeInv)
<1>1. ConsoleInit => (Shows("create") => NodeInv)
  BY StartOfPage, NodeStart
<1>2. (Shows("create") => NodeInv) /\ [ConsoleNext]_pageVars
        => (Shows("create") => NodeInv)'
  <2>  SUFFICES ASSUME Shows("create") => NodeInv, [ConsoleNext]_pageVars, Shows("create")'
                PROVE  NodeInv'
    OBVIOUS
  <2>1. focus = "create"
    BY FocusStays DEF Shows
  <2>2. [CreateNext]_pageVars
    BY <2>1 DEF ConsoleNext, Shows
  <2>  QED  BY <2>1, <2>2, NodeStep DEF Shows
<1>  QED  BY <1>1, <1>2, PTL DEF ConsoleSpec

(* On the Console the document that is sent was validated, the form of an   *)
(* instance that was created is not held back, and its node is the one that *)
(* was picked, as long as there is one (ConfigEditor.tsx:84-92,             *)
(* CreateInstance.tsx:75-125 and 195-234).                                  *)
THEOREM FormsOfTheConsole ==
  ConsoleSpec => [](SavedWasValidated /\ CreatedIsNotHeld /\ NodeIsExplained)
<1>1. (Shows("editor") => EditorInv) => SavedWasValidated
  BY DEF EditorInv, SoundRequest, SavedWasValidated, Of
<1>2. (Shows("create") => CreateInv) => CreatedIsNotHeld
  BY DEF CreateInv, DoneIsLeft, CreatedIsNotHeld
<1>3. (Shows("create") => NodeInv) => NodeIsExplained
  BY DEF NodeInv, ExplainedIn, NodeIsExplained
<1>  QED  BY <1>1, <1>2, <1>3, EditorHolds, CreateHolds, NodeHolds, PTL

(* The node of a new instance and the servers of a test are the ones that   *)
(* were chosen (CreateInstance.tsx:116-125, TestCreatePage.tsx:114-161).    *)
THEOREM ChoiceIsActedOn == ConsoleSpec => []ChoiceIsKept
<1>1. NodeIsExplained /\ ChosenIsTested => ChoiceIsKept
  BY DEF ChoiceIsKept
<1>  QED  BY <1>1, FormsOfTheConsole, TestsWhatIsChosen, PTL
=============================================================================
