------------------------------ MODULE PathSync ------------------------------
(* One path of the NASBox folder on several PCs.  Each client has its local    *)
(* file, the per-path rows of its SQLite store, the dirty marks of its watcher *)
(* and two workers, push and pull, that share the local transfer lock and take *)
(* the NAS lease; the NAS has the shared file, its manifest record and the     *)
(* conflict copies.  Users edit and delete at any moment.                      *)
EXTENDS Reconcile

CONSTANTS
    SubSecond,      \* versions whose modification time is not a whole second
    Writers,        \* the PCs whose users write new contents
    Disturbances,   \* the kinds of deletions and faults that may happen
    MaxDisturbances,\* bound: how many of them
    Periodic        \* whether the 15-minute full reconciliation comes round

ASSUME PathAssumption ==
    /\ SubSecond \subseteq Versions
    /\ Writers \subseteq Devices
    /\ Disturbances \subseteq {"delete", "browse", "expiry", "fault", "crash"}
    /\ MaxDisturbances \in Nat
    /\ Periodic \in BOOLEAN
    /\ None \notin Devices

VARIABLES
    local,      \* the file in the local folder
    base,       \* entry row: common version, its clock, mtime equal to the local one
    obs,        \* local_observation row: version last fingerprinted and its clock
    pending,    \* the path is in the durable queue
    payload,    \* journal payload saved after a failed append
    ltrash,     \* versions in the local trash
    event,      \* a change of the file the watcher has not reported yet
    marks,      \* dirty marks: "path", or "any" for an unknown path
    queued,     \* workers waiting for the local transfer lock
    job,        \* the operation that holds the local transfer lock
    cursor,     \* _last_manifest_revision against the revision of the NAS
    lease,      \* holder of the NAS lease
    share,      \* the file on the NAS
    rec,        \* its manifest record (None: tombstone, Unknown: no record)
    copies,     \* versions kept under conflict names
    hist,       \* history: versions the author of v had, {} if v is unused
    dropped,    \* history: versions deleted on purpose, with what they descend from
    outranked,  \* history: versions a deletion took off the NAS by its clock alone
    spent       \* how many disturbances there were

rows == <<base, obs, pending, payload>>
flags == <<event, marks>>
nas == <<share, rec>>
ghosts == <<hist, dropped, outranked>>
vars == <<local, rows, ltrash, flags, queued, job, cursor, lease, nas, copies,
          ghosts, spent>>

Contents == Versions \cup {None}
Row == [v : Contents \cup {Unknown}, vc : Clock, exact : BOOLEAN]
Steps == {"idle", "plan", "stage", "publish", "transfer", "adopt",
          "apply", "confirm", "live", "sweep", "check", "fetch", "settle"}

NoRow == [v |-> Unknown, vc |-> NoClock, exact |-> TRUE]

NoPayload == [rec |-> NoRow, applied |-> FALSE]

Idle == [op |-> "none", at |-> "idle", act |-> "nothing", lv |-> None,
         lvc |-> NoClock, rv |-> None, rvc |-> NoClock, try |-> FALSE,
         full |-> FALSE, cks |-> FALSE, got |-> FALSE]

Init ==
    /\ local = [d \in Devices |-> None]
    /\ base = [d \in Devices |-> NoRow]
    /\ obs = [d \in Devices |-> [v |-> Unknown, vc |-> NoClock]]
    /\ pending = [d \in Devices |-> FALSE]
    /\ payload = [d \in Devices |-> NoPayload]
    /\ ltrash = [d \in Devices |-> {}]
    /\ event = [d \in Devices |-> FALSE]
    /\ marks = [d \in Devices |-> {}]
    /\ queued = [d \in Devices |-> {}]
    /\ job = [d \in Devices |-> Idle]
    /\ cursor = [d \in Devices |-> "never"]
    /\ lease = None
    /\ share = None
    /\ rec = NoRow
    /\ copies = {}
    /\ hist = [v \in Versions |-> {}]
    /\ dropped = {}
    /\ outranked = {}
    /\ spent = 0

-----------------------------------------------------------------------------
(* What the rows and the NAS say. *)

(* local_fingerprint: a content not seen before gets a new clock. *)
Observed(d) ==
    IF obs[d].v = local[d] THEN obs[d]
    ELSE [v |-> local[d], vc |-> Increment(Merge(base[d].vc, obs[d].vc), d)]

(* changed_paths *)
Changed(d) ==
    IF local[d] = None THEN base[d].v \in Versions
    ELSE ~(base[d].v = local[d] /\ base[d].exact)

(* remote_file_states: the live file with the clock of its record, if the      *)
(* record is of this file; a record without a file reads as a tombstone.       *)
Remote ==
    IF share # None
    THEN [kind |-> "file", v |-> share,
          vc |-> IF rec.v = share /\ rec.exact THEN rec.vc ELSE NoClock]
    ELSE [kind |-> IF rec.v = Unknown THEN "absent" ELSE "tombstone", v |-> None,
          vc |-> IF rec.v = Unknown THEN NoClock ELSE rec.vc]

(* A committed journal transaction moves the revision past every cursor. *)
Behind == [e \in Devices |-> IF cursor[e] = "current" THEN "behind" ELSE cursor[e]]

Tombstone == [v |-> None, vc |-> NoClock, exact |-> TRUE]

(* _record_fingerprints: the new base row, and the observation aligned with it *)
(* when it is of the same version; seenRow is the observation before.          *)
Record(d, row, seenRow) ==
    /\ base' = [base EXCEPT ![d] = row]
    /\ obs' = [obs EXCEPT ![d] =
                 IF seenRow.v = row.v /\ row.exact /\ row.vc # NoClock
                 THEN [seenRow EXCEPT !.vc = row.vc] ELSE seenRow]

FirstClock(a, b) == IF a # NoClock THEN a ELSE b

Mark(d, what) == marks' = [marks EXCEPT ![d] = @ \cup {what}]

Goto(d, at) == job' = [job EXCEPT ![d].at = at]

Finish(d) == job' = [job EXCEPT ![d] = Idle]

\* mutants of WriteLocal: no backup directory; an entry for an absent file
WriteLocalNoBackup(d, v) ==
    /\ local' = [local EXCEPT ![d] = v]
    /\ ltrash' = ltrash
    /\ event' = [event EXCEPT ![d] = @ \/ local[d] # v]

WriteLocalAbsent(d, v) ==
    /\ local' = [local EXCEPT ![d] = v]
    /\ ltrash' = [ltrash EXCEPT ![d] = @ \cup ({local[d]} \ {v})]
    /\ event' = [event EXCEPT ![d] = @ \/ local[d] # v]

(* A worker writes the local file, as rsync or the local trash do.             *)
WriteLocal(d, v) ==
    /\ local' = [local EXCEPT ![d] = v]
    /\ ltrash' = [ltrash EXCEPT ![d] = @ \cup ({local[d]} \ {None, v})]
    /\ event' = [event EXCEPT ![d] = @ \/ local[d] # v]

-----------------------------------------------------------------------------
(* Users, the watcher and the NAS retention. *)

Disturb(kind) ==
    /\ kind \in Disturbances
    /\ spent < MaxDisturbances
    /\ spent' = spent + 1

Edit(d, v) ==
    /\ d \in Writers
    /\ hist[v] = {}
    /\ local' = [local EXCEPT ![d] = v]
    /\ event' = [event EXCEPT ![d] = TRUE]
    /\ hist' = [hist EXCEPT ![v] = {v} \cup IF local[d] = None THEN {} ELSE hist[local[d]]]
    /\ UNCHANGED <<rows, ltrash, marks, queued, job, cursor, lease, nas, copies,
                   dropped, outranked, spent>>

UserDelete(d) ==
    /\ local[d] # None
    /\ Disturb("delete")
    /\ local' = [local EXCEPT ![d] = None]
    /\ event' = [event EXCEPT ![d] = TRUE]
    /\ dropped' = dropped \cup hist[local[d]]
    /\ UNCHANGED <<rows, ltrash, marks, queued, job, cursor, lease, nas, copies,
                   hist, outranked>>

Notice(d) ==
    /\ event[d]
    /\ event' = [event EXCEPT ![d] = FALSE]
    /\ Mark(d, "path")
    /\ UNCHANGED <<local, rows, ltrash, queued, job, cursor, lease, nas, copies, ghosts, spent>>

BrowseDelete ==
    /\ lease = None
    /\ share # None
    /\ Disturb("browse")
    /\ share' = None
    /\ dropped' = dropped \cup hist[share]
    /\ rec' = Tombstone
    /\ cursor' = Behind
    /\ UNCHANGED <<local, rows, ltrash, flags, queued, job, lease, copies, hist, outranked>>

ExpireTombstone ==
    /\ "expiry" \in Disturbances
    /\ rec.v = None
    /\ rec' = NoRow
    /\ UNCHANGED <<local, rows, ltrash, flags, queued, job, cursor, lease, share,
                   copies, ghosts, spent>>

-----------------------------------------------------------------------------
(* Push worker. *)

(* Marks are consumed, the path goes to the durable queue before any network   *)
(* step.  A sweep (an "any" mark) takes what differs from the base only.       *)
Due(d) == IF "any" \in marks[d] THEN Changed(d) ELSE "path" \in marks[d] \/ pending[d]

PushTick(d) ==
    /\ marks[d] # {} \/ pending[d]
    /\ "push" \notin queued[d] /\ job[d].op # "push"
    /\ marks' = [marks EXCEPT ![d] = {}]
    /\ pending' = [pending EXCEPT ![d] = @ \/ Due(d)]
    /\ queued' = [queued EXCEPT ![d] = IF Due(d) THEN @ \cup {"push"} ELSE @]
    /\ UNCHANGED <<local, base, obs, payload, ltrash, event, job, cursor, lease,
                   nas, copies, ghosts, spent>>

(* stable_paths saw the file change during the stability interval. *)
PushUnstable(d) ==
    /\ "push" \notin queued[d] /\ job[d].op # "push"
    /\ Due(d)
    /\ event[d]
    /\ marks' = [marks EXCEPT ![d] = {"path"}]
    /\ pending' = [pending EXCEPT ![d] = TRUE]
    /\ UNCHANGED <<local, base, obs, payload, ltrash, event, queued, job, cursor,
                   lease, nas, copies, ghosts, spent>>

(* A worker gets the local transfer lock when no operation runs, and waits for *)
(* the NAS lease with it.                                                      *)
TakeTransferLock(d, op) ==
    /\ op \in queued[d]
    /\ job[d].op = "none"
    /\ lease = None
    /\ queued' = [queued EXCEPT ![d] = @ \ {op}]

(* retry_pending_journal.  The NAS knows the transaction of an append whose    *)
(* answer was lost until its journal is compacted.                             *)
RetryPayload(d) ==
    /\ payload' = [payload EXCEPT ![d] = NoPayload]
    /\ \/ /\ payload[d] = NoPayload \/ payload[d].applied
          /\ UNCHANGED <<rec, cursor>>
       \/ /\ payload[d] # NoPayload
          /\ rec' = payload[d].rec
          /\ cursor' = Behind

PushPrepare(d) ==
    /\ TakeTransferLock(d, "push")
    /\ RetryPayload(d)
    /\ obs' = [obs EXCEPT ![d] = Observed(d)]
    /\ job' = [job EXCEPT ![d].op = "push", ![d].at = "plan",
                          ![d].try = local[d] # None /\ base[d].v \notin Versions]
    /\ UNCHANGED <<local, base, pending, ltrash, flags, lease, share, copies,
                   ghosts, spent>>

(* _build_plan under the lease: observe, read the NAS, decide, keep the loser  *)
(* of a conflict aside.  A batch of new files is staged outside the lease; any *)
(* other outcome of a speculative plan is planned again under a new lease.     *)
Planned(d) == PlanPath(base[d].v, local[d], Observed(d).vc, Remote)

\* mutant of KeepLoser: no copy of the NAS version that loses
KeepLoserLocal(d) ==
    copies' = IF Planned(d) = "conflict_remote_wins" THEN copies \cup {local[d]} ELSE copies

KeepLoser(d) ==
    copies' = CASE Planned(d) = "conflict_local_wins" -> copies \cup {share}
                [] Planned(d) = "conflict_remote_wins" -> copies \cup {local[d]}
                [] OTHER -> copies

StepAfterPlan(d) ==
    CASE job[d].try /\ Planned(d) = "upload" /\ Remote.kind = "absent" -> "stage"
      [] job[d].try /\ ~(Planned(d) = "upload" /\ Remote.kind = "absent") -> "plan"
      [] ~job[d].try /\ Planned(d) = "conflict_remote_wins" -> "adopt"
      [] ~job[d].try /\ Planned(d) # "conflict_remote_wins" -> "transfer"

PushPlan(d) ==
    /\ job[d].at = "plan"
    /\ lease = None
    /\ job[d].try \/ Planned(d) \notin {"nothing", "remote_wins"}
    /\ KeepLoser(d)
    /\ obs' = [obs EXCEPT ![d] = Observed(d)]
    /\ job' = [job EXCEPT ![d] =
                 [@ EXCEPT !.at = StepAfterPlan(d), !.try = FALSE,
                           !.act = Planned(d), !.lv = local[d],
                           !.lvc = Observed(d).vc, !.rv = Remote.v, !.rvc = Remote.vc]]
    /\ lease' = IF job[d].try THEN None ELSE d
    /\ UNCHANGED <<local, base, pending, payload, ltrash, flags, queued, cursor,
                   nas, ghosts, spent>>

(* The NAS version stays: a local deletion that lost is recorded as a          *)
(* tombstone, so that it is not found again.                                   *)
PushYields(d) ==
    /\ job[d].at = "plan"
    /\ lease = None
    /\ ~job[d].try
    /\ Planned(d) \in {"nothing", "remote_wins"}
    /\ IF local[d] = None /\ base[d].v \in Versions
       THEN Record(d, [v |-> None, vc |-> Remote.vc, exact |-> TRUE], Observed(d))
       ELSE obs' = [obs EXCEPT ![d] = Observed(d)] /\ UNCHANGED base
    /\ pending' = [pending EXCEPT ![d] = FALSE]
    /\ Finish(d)
    /\ UNCHANGED <<local, payload, ltrash, flags, queued, cursor, lease, nas,
                   copies, ghosts, spent>>

(* Failure of a push step: the lease goes, the "any" mark makes the next tick  *)
(* sweep, and the path stays in the durable queue.                             *)
PushFails(d) ==
    /\ Finish(d)
    /\ lease' = IF lease = d THEN None ELSE lease
    /\ Mark(d, "any")

(* The staged upload ran outside the lease; the source must not have changed.  *)
PushStage(d) ==
    /\ job[d].at = "stage"
    /\ obs' = [obs EXCEPT ![d] = Observed(d)]
    /\ \/ local[d] = job[d].lv /\ Goto(d, "publish") /\ UNCHANGED <<lease, marks>>
       \/ local[d] # job[d].lv /\ PushFails(d)
    /\ UNCHANGED <<local, base, pending, payload, ltrash, event, queued, cursor,
                   nas, copies, ghosts, spent>>

(* publish_staging never overwrites. *)
PushPublish(d) ==
    /\ job[d].at = "publish"
    /\ lease = None
    /\ \/ /\ share = None
          /\ share' = job[d].lv
          /\ rec' = [v |-> job[d].lv, vc |-> job[d].lvc, exact |-> TRUE]
          /\ cursor' = Behind
          /\ Record(d, [v |-> job[d].lv, vc |-> job[d].lvc, exact |-> TRUE], obs[d])
          /\ pending' = [pending EXCEPT ![d] = FALSE]
          /\ Finish(d)
          /\ UNCHANGED <<marks, lease>>
       \/ /\ share # None
          /\ PushFails(d)
          /\ UNCHANGED <<base, obs, pending, cursor, nas>>
    /\ UNCHANGED <<local, payload, ltrash, event, queued, copies, ghosts, spent>>

(* push: rsync reads the local file as it is now, not as it was planned. *)
PushUpload(d) ==
    /\ job[d].at = "transfer"
    /\ job[d].act \in {"upload", "conflict_local_wins"}
    /\ \/ /\ local[d] # None
          /\ share' = local[d]
          /\ Goto(d, "confirm")
          /\ UNCHANGED <<marks, lease>>
       \/ local[d] = None /\ PushFails(d) /\ UNCHANGED share
    /\ UNCHANGED <<local, rows, ltrash, event, queued, cursor, rec, copies, ghosts, spent>>

(* checked_delete_remote: only the version the plan saw; the server journals   *)
(* the deletion itself, of a file that is already gone too.  Nobody writes     *)
(* another version under the lease, so its answer "stale" is left out.         *)
ByClockAlone(d) == job[d].act = "delete_remote" /\ job[d].rv # base[d].v

PushDelete(d) ==
    /\ job[d].at = "transfer"
    /\ job[d].act = "delete_remote"
    /\ share \in {job[d].rv, None}
    /\ outranked' = IF ByClockAlone(d) /\ share # None THEN outranked \cup hist[share]
                    ELSE outranked
    /\ share' = None
    /\ rec' = Tombstone
    /\ cursor' = Behind
    /\ Goto(d, "confirm")
    /\ UNCHANGED <<local, rows, ltrash, flags, queued, lease, copies, hist, dropped, spent>>

(* _adopt_remote_paths: the local file must still be the one kept aside, and   *)
(* the NAS must have a file or a tombstone.                                    *)
PushAdopt(d) ==
    /\ job[d].at = "adopt"
    /\ obs' = [obs EXCEPT ![d] = Observed(d)]
    /\ \/ /\ local[d] = job[d].lv /\ Remote.kind # "absent"
          /\ Goto(d, "apply")
          /\ UNCHANGED <<lease, marks>>
       \/ (local[d] # job[d].lv \/ Remote.kind = "absent") /\ PushFails(d)
    /\ UNCHANGED <<local, base, pending, payload, ltrash, event, queued, cursor,
                   nas, copies, ghosts, spent>>

PushApply(d) ==
    /\ job[d].at = "apply"
    /\ WriteLocal(d, share)
    /\ Goto(d, "confirm")
    /\ UNCHANGED <<rows, marks, queued, cursor, lease, nas, copies, ghosts, spent>>

-----------------------------------------------------------------------------
(* _authoritative_fingerprints, journal append, base row, pending row.         *)

Uploaded(d) ==
    \/ job[d].act \in {"upload", "conflict_local_wins"}
    \/ job[d].act = "adopt" /\ local[d] # None

Confirmable(d) ==
    /\ Uploaded(d) => share # None
    /\ job[d].act = "conflict_remote_wins" => Remote.kind # "absent"

(* The row the base gets; the live file wins over a newer local edit. *)
Authoritative(d) ==
    CASE Uploaded(d) /\ local[d] = share ->
           [v |-> share, vc |-> Observed(d).vc, exact |-> TRUE]
      [] Uploaded(d) /\ local[d] # share ->
           [v |-> share, vc |-> FirstClock(Remote.vc, job[d].lvc),
            exact |-> share \notin SubSecond]
      [] job[d].act = "conflict_remote_wins" ->
           [v |-> share, vc |-> FirstClock(IF share # None THEN Remote.vc ELSE NoClock, job[d].rvc),
            exact |-> share \notin SubSecond]
      [] job[d].act = "adopt" /\ local[d] = None ->
           [v |-> None, vc |-> NoClock, exact |-> TRUE]
      [] job[d].act = "delete_remote" ->
           [v |-> None, vc |-> job[d].lvc, exact |-> TRUE]

Journalled(d) ==
    [v |-> share, vc |-> IF job[d].act = "adopt" THEN NoClock ELSE job[d].lvc,
     exact |-> local[d] # share \/ share \notin SubSecond]

(* The pending row goes unless the local file is no longer what was confirmed; *)
(* the comparison includes the clock, so a file just adopted from the NAS      *)
(* keeps its row until the next push.                                          *)
Confirmed(d) ==
    \/ local[d] = None /\ Authoritative(d).v = None
    \/ Uploaded(d) /\ local[d] = share

ConfirmMarks(d) ==
    marks' = IF Uploaded(d) /\ local[d] # share
             THEN [marks EXCEPT ![d] = @ \cup {"path"}] ELSE marks

PushConfirm(d) ==
    /\ job[d].at = "confirm" \/ (job[d].at = "transfer" /\ job[d].act = "adopt")
    /\ Confirmable(d)
    /\ ConfirmMarks(d)
    /\ IF Uploaded(d)
       THEN rec' = Journalled(d) /\ cursor' = Behind
       ELSE UNCHANGED <<rec, cursor>>
    /\ Record(d, Authoritative(d), Observed(d))
    /\ pending' = [pending EXCEPT ![d] = @ /\ ~Confirmed(d)]
    /\ Finish(d)
    /\ lease' = None
    /\ UNCHANGED <<local, payload, ltrash, event, queued, share, copies, ghosts, spent>>

PushUnconfirmed(d) ==
    /\ job[d].at = "confirm" \/ (job[d].at = "transfer" /\ job[d].act = "adopt")
    /\ ~Confirmable(d)
    /\ PushFails(d)
    /\ UNCHANGED <<local, rows, ltrash, event, queued, cursor, nas, copies, ghosts, spent>>

-----------------------------------------------------------------------------
(* Pull worker. *)

(* The change feed or the periodic full reconciliation wakes the pull; it does *)
(* not start over dirty marks.  A poll that finds the revision unchanged and   *)
(* no full round due changes nothing.                                          *)
PullTick(d) ==
    /\ marks[d] = {}
    /\ cursor[d] # "current" \/ Periodic
    /\ "pull" \notin queued[d] /\ job[d].op # "pull"
    /\ queued' = [queued EXCEPT ![d] = @ \cup {"pull"}]
    /\ UNCHANGED <<local, rows, ltrash, flags, job, cursor, lease, nas, copies,
                   ghosts, spent>>

(* The manifest snapshot, read only if the revision moved. *)
Entries(d) == cursor'[d] # "current"
ChecksumPath(d) == Entries(d) /\ rec'.v \in Versions /\ base[d].v # rec'.v
NewTombstone(d) == Entries(d) /\ rec'.v = None /\ base[d].v \in Versions
Defers(d, full) == DeleteEnabled /\ (full \/ NewTombstone(d)) /\ (pending[d] \/ Changed(d))

PullSnapshot(d, full) ==
    /\ TakeTransferLock(d, "pull")
    /\ CASE cursor[d] = "never" -> full
         [] cursor[d] = "behind" -> full => Periodic
         [] cursor[d] = "current" -> full
    /\ RetryPayload(d)
    /\ \/ /\ Defers(d, full)                       \* _PullDeferred
          /\ Finish(d)
          /\ Mark(d, "any")
          /\ UNCHANGED lease
       \/ /\ ~Defers(d, full)
          /\ job' = [job EXCEPT ![d] =
                       [@ EXCEPT !.op = "pull", !.full = full \/ NewTombstone(d),
                                 !.at = CASE ChecksumPath(d) -> "live"
                                          [] ~ChecksumPath(d) /\ (full \/ NewTombstone(d)) -> "sweep"
                                          [] OTHER -> "check",
                                 !.cks = ChecksumPath(d),
                                 !.rv = rec'.v, !.rvc = rec'.vc]]
          /\ lease' = d
          /\ UNCHANGED marks
    /\ UNCHANGED <<local, base, obs, pending, ltrash, event, share, copies, ghosts, spent>>

AfterLive(d) == IF job[d].full THEN "sweep" ELSE "check"

PullLive(d) ==
    /\ job[d].at = "live"
    /\ Goto(d, AfterLive(d))
    /\ UNCHANGED <<local, rows, ltrash, flags, queued, cursor, lease, nas, copies,
                   ghosts, spent>>

(* cancel_check: while rsync runs, a mark of a path this pull did not write    *)
(* stops it.                                                                   *)
External(d) == marks[d] \notin {{}, IF job[d].got THEN {"path"} ELSE {}}

PullCancelled(d) ==
    /\ \/ job[d].at \in {"sweep", "fetch"}
       \/ job[d].at = "check" /\ job[d].full
       \/ job[d].at = "settle" /\ job[d].cks
    /\ External(d)
    /\ Finish(d)
    /\ lease' = None
    /\ UNCHANGED <<local, rows, ltrash, flags, queued, cursor, nas, copies, ghosts, spent>>

\* mutant of Sweeps: rsync without --delete
SweepsAdds(d) ==
    /\ share \notin {local[d], None}
    /\ local[d] # None => Second[local[d]] <= Second[share]

(* rsync --update --delete of the whole folder: an older local file is         *)
(* replaced, a file the NAS does not have goes to the local trash.             *)
Sweeps(d) ==
    \/ share = None /\ local[d] # None /\ DeleteEnabled
    \/ share # None /\ local[d] = None
    \/ share # None /\ local[d] \notin {share, None} /\ Second[local[d]] <= Second[share]

PullSweep(d) ==
    /\ job[d].at = "sweep"
    /\ \/ /\ Sweeps(d)
          /\ WriteLocal(d, share)
          /\ job' = [job EXCEPT ![d].at = "check", ![d].got = TRUE]
       \/ ~Sweeps(d) /\ Goto(d, "check") /\ UNCHANGED <<local, ltrash, event>>
    /\ UNCHANGED <<rows, marks, queued, cursor, lease, nas, copies, ghosts, spent>>

(* The last look at the local file before the targeted pull.  A local edit     *)
(* stops the pull, and still counts as a successful round.                     *)
LocallyEdited(d) ==
    local[d] # None /\ base[d].v \in Versions /\ local[d] \notin {base[d].v, job[d].rv}

PullCheck(d) ==
    /\ job[d].at = "check"
    /\ \/ /\ job[d].cks /\ LocallyEdited(d)
          /\ Mark(d, "path")
          /\ job' = [job EXCEPT ![d].at = "settle", ![d].cks = FALSE]
       \/ /\ job[d].cks /\ ~LocallyEdited(d)
          /\ Goto(d, "fetch")
          /\ UNCHANGED marks
       \/ /\ ~job[d].cks
          /\ Goto(d, "settle")
          /\ UNCHANGED marks
    /\ UNCHANGED <<local, rows, ltrash, event, queued, cursor, lease, nas, copies,
                   ghosts, spent>>

(* rsync --ignore-times of the listed path replaces whatever is there. *)
PullFetch(d) ==
    /\ job[d].at = "fetch"
    /\ WriteLocal(d, share)
    /\ job' = [job EXCEPT ![d].at = "settle", ![d].got = TRUE]
    /\ UNCHANGED <<rows, marks, queued, cursor, lease, nas, copies, ghosts, spent>>

(* The base adopts what the NAS has for the paths that were written; the       *)
(* cursor moves to the revision of the snapshot.                               *)
PullSettle(d) ==
    /\ job[d].at = "settle"
    /\ IF job[d].got
       THEN Record(d, [v |-> share, vc |-> Remote.vc,
                       exact |-> local[d] = share \/ share \notin SubSecond], obs[d])
       ELSE UNCHANGED <<base, obs>>
    /\ cursor' = [cursor EXCEPT ![d] = "current"]
    /\ Finish(d)
    /\ lease' = None
    /\ UNCHANGED <<local, pending, payload, ltrash, flags, queued, nas, copies,
                   ghosts, spent>>

-----------------------------------------------------------------------------
(* Faults. *)

(* A command or a transfer of the running operation fails. *)
Fails(d) ==
    /\ Disturb("fault")
    /\ \/ job[d].op = "push" /\ PushFails(d)
       \/ /\ job[d].op = "pull" /\ Finish(d)
          /\ lease' = IF lease = d THEN None ELSE lease
          /\ UNCHANGED marks
    /\ UNCHANGED <<local, rows, ltrash, event, queued, cursor, nas, copies, ghosts>>

(* The journal append fails, or its answer is lost: the payload is kept. *)
JournalFails(d) ==
    /\ Disturb("fault")
    /\ job[d].at = "confirm" \/ (job[d].at = "transfer" /\ job[d].act = "adopt")
    /\ Uploaded(d) /\ Confirmable(d)
    /\ \E applied \in BOOLEAN :
         /\ payload' = [payload EXCEPT ![d] = [rec |-> Journalled(d), applied |-> applied]]
         /\ IF applied THEN rec' = Journalled(d) /\ cursor' = Behind
                       ELSE UNCHANGED <<rec, cursor>>
    /\ PushFails(d)
    /\ UNCHANGED <<local, base, obs, pending, ltrash, event, queued, share, copies, ghosts>>

(* The client is killed and started again: the engine's new watcher begins     *)
(* with an "any" mark if there is anything to compare.                         *)
Crash(d) ==
    /\ Disturb("crash")
    /\ Finish(d)
    /\ lease' = IF lease = d THEN None ELSE lease
    /\ queued' = [queued EXCEPT ![d] = {}]
    /\ event' = [event EXCEPT ![d] = FALSE]
    /\ marks' = [marks EXCEPT ![d] =
                   IF local[d] # None \/ base[d].v # Unknown \/ pending[d] THEN {"any"} ELSE {}]
    /\ cursor' = [cursor EXCEPT ![d] = "never"]
    /\ UNCHANGED <<local, rows, ltrash, nas, copies, ghosts>>

-----------------------------------------------------------------------------

(* Steps that wait for the NAS lease, and steps of a client on its own. *)
PushLeases(d) == PushPrepare(d) \/ PushPlan(d) \/ PushYields(d) \/ PushPublish(d)

PullLeases(d) == \E full \in BOOLEAN : PullSnapshot(d, full)

Works(d) ==
    \/ PushStage(d) \/ PushUpload(d) \/ PushDelete(d) \/ PushAdopt(d) \/ PushApply(d)
    \/ PushConfirm(d) \/ PushUnconfirmed(d)
    \/ PullLive(d) \/ PullCancelled(d) \/ PullSweep(d)
    \/ PullCheck(d) \/ PullFetch(d) \/ PullSettle(d)

Next ==
    \/ \E d \in Devices :
         \/ \E v \in Versions : Edit(d, v)
         \/ UserDelete(d) \/ Notice(d)
         \/ PushTick(d) \/ PushUnstable(d) \/ PullTick(d)
         \/ PushLeases(d) \/ PullLeases(d) \/ Works(d)
         \/ Fails(d) \/ JournalFails(d) \/ Crash(d)
    \/ BrowseDelete \/ ExpireTombstone

Spec == Init /\ [][Next]_vars

(* The workers tick every second and a running operation goes on.  Push and    *)
(* pull have clocks of their own, so push is not for ever late for the tick    *)
(* between two marks that a deferred pull puts.  The NAS                       *)
(* queue serves every waiting client, so a step that waits for the lease is    *)
(* taken if the lease is free again and again.                                 *)
Fairness ==
    \A d \in Devices :
        /\ WF_vars(Notice(d))
        /\ WF_vars(PushTick(d))
        /\ SF_vars(marks[d] = {} /\ PushTick(d))
        /\ WF_vars(Works(d))
        /\ SF_vars(PushLeases(d))
        /\ SF_vars(PullTick(d))
        /\ SF_vars(PullLeases(d))

FairSpec == Spec /\ Fairness

-----------------------------------------------------------------------------
(* Properties. *)

TypeOK ==
    /\ local \in [Devices -> Contents]
    /\ base \in [Devices -> Row]
    /\ obs \in [Devices -> [v : Contents \cup {Unknown}, vc : Clock]]
    /\ pending \in [Devices -> BOOLEAN]
    /\ payload \in [Devices -> [rec : Row, applied : BOOLEAN]]
    /\ ltrash \in [Devices -> SUBSET Versions]
    /\ event \in [Devices -> BOOLEAN]
    /\ marks \in [Devices -> SUBSET {"path", "any"}]
    /\ queued \in [Devices -> SUBSET {"push", "pull"}]
    /\ job \in [Devices -> [op : {"none", "push", "pull"}, at : Steps, act : Actions,
                            lv : Contents, lvc : Clock, rv : Contents \cup {Unknown},
                            rvc : Clock, try : BOOLEAN, full : BOOLEAN,
                            cks : BOOLEAN, got : BOOLEAN]]
    /\ cursor \in [Devices -> {"never", "behind", "current"}]
    /\ lease \in Devices \cup {None}
    /\ share \in Contents
    /\ rec \in Row
    /\ copies \subseteq Versions
    /\ hist \in [Versions -> SUBSET Versions]
    /\ dropped \subseteq Versions
    /\ outranked \subseteq Versions

(* No edit is lost: whatever a user wrote and nobody deleted, or a content     *)
(* derived from it, is on a PC, on the NAS, in a conflict copy or in a local   *)
(* trash.                                                                      *)
EditsSurvive ==
    LET kept == {local[d] : d \in Devices} \cup {share} \cup copies
                \cup UNION {ltrash[d] : d \in Devices}
    IN  \A v \in Versions \ dropped :
          hist[v] # {} => \E c \in kept \ {None} : v \in hist[c]

(* What replaces version c for the PC d: a deletion, or a version that derives  *)
(* from it and is the PC's own file or was kept.                               *)
Superseded(d, c) ==
    \/ c \in dropped \cup outranked
    \/ \E x \in (copies \cup {local[d]}) \ {None} : c \in hist[x]

(* A push replaces or deletes a NAS version only if it is superseded: nobody   *)
(* overwrites what he has not seen, unless a copy is kept.  Only a deletion    *)
(* that plan_path decides by the clocks alone (the NAS has another version     *)
(* than the base) may take what its user never saw: the journal gives an       *)
(* upload the clock of the plan, not of the file that rsync read.              *)
OverwriteSeen ==
    \A d \in Devices :
        /\ job[d].at = "transfer"
        /\ job[d].act \in {"upload", "delete_remote", "conflict_local_wins"}
        /\ share # None
        => Superseded(d, share) \/ ByClockAlone(d)

(* What was deleted on the NAS by way of the browser does not come back from   *)
(* a client that still has it: the tombstone, and after it the base row, wins. *)
NoReturn == [][share = None /\ share' # None => share' \notin dropped]_vars

(* Once the users stop, every client ends with the file of the NAS. *)
Converges == <>[](\A d \in Devices : local[d] = share)

=============================================================================
