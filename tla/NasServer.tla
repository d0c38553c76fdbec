------------------------------ MODULE NasServer ------------------------------
(***************************************************************************)
(* The NAS side of NASBox: the share, its trash and staging area, the      *)
(* journal and manifest, and the commands of server/sync-daemon-server.sh  *)
(* that change them.  Each command is one SSH process.  It checks that its *)
(* device holds the transfer lease, waits for the journal lock (fd 9),     *)
(* recovers the transactions that killed commands left behind, and then    *)
(* performs its own steps.  A step is one durable change; a process may be *)
(* killed, or the NAS restarted, between any two of them, and a step may   *)
(* fail with an error the command handles.                                 *)
(*                                                                         *)
(* The remaining steps of a process are the sequence proc[d].steps, acting *)
(* on the transaction marker proc[d].cur.                                  *)
(***************************************************************************)
EXTENDS NasJournal, FiniteSets, SequencesExt

CONSTANTS Devices,        \* clients, one server process each at a time
          NoDevice,       \* nobody holds the lease
          NoFile,         \* no file at a path
          Trees,          \* browse-delete targets: a file, or a directory's files
          Renames,        \* browse-rename requests: [source path -> destination]
          DeleteRequests, \* checked-delete requests: expected version per path
          StageBatches,   \* batches a client stages and publishes
          Tears,          \* how an interrupted append may end: subset of Ends
          Orphans,        \* TRUE: a command may outlive its device's lease
          MaxUploads,     \* uploads onto the share per behaviour
          MaxTx,          \* fresh transaction ids per behaviour
          MaxFaults       \* kills, restarts and failed steps per behaviour

ASSUME ServerAssumption ==
    /\ NoDevice \notin Devices
    /\ NoFile \notin Versions /\ NoFile # NoEntry
    /\ Trees \subseteq SUBSET Paths
    /\ \A r \in Renames : \E S \in SUBSET Paths : r \in Injection(S, Paths \ S)
    /\ DeleteRequests \subseteq [Paths -> Versions \cup {NoEntry}]
    /\ StageBatches \subseteq [Paths -> Versions \cup {NoEntry}]
    /\ Tears \subseteq Ends \ {"full"}
    /\ Orphans \in BOOLEAN
    /\ MaxUploads \in Nat /\ MaxTx \in Nat /\ MaxFaults \in Nat

VARIABLES
    tree,        \* the share: the version at each path
    trash,       \* .trash: <<transaction, path, version>> moved there
    staging,     \* .nasbox-staging: <<batch, path>> uploaded, not yet published
    journal, manifest, revision,
    txns,        \* TRANSACTION_DIR/*.txn markers
    lists,       \* TRANSACTION_DIR/*.paths of staged publishes
    lease,       \* holder of the transfer lock
    proc,        \* the server process of each device
    sess,        \* how far the client's use of its lease has come
    batch,       \* what a device uploaded under its lease and has not journaled
    pending,     \* a device's saved journal payload (journal_pending_file)
    nextTx, uploads, faults, \* counters, bounded by MaxTx, MaxUploads, MaxFaults
    unannounced, \* history: transactions appended since the last revision bump
    stray        \* history: paths whose record is a client's business to repair

disk    == <<tree, trash, staging>>
record  == <<journal, manifest, revision>>
markers == <<txns, lists>>
client  == <<sess, batch, pending>>
history == <<unannounced, stray>>
vars == <<disk, record, markers, lease, proc, client, nextTx, uploads, faults, history>>

-----------------------------------------------------------------------------
(* Transaction markers and processes *)

\* ABSENT is the journaled deletion of a file that is already gone: no marker.
Kinds == {"NONE", "ABSENT", "DELETE", "BROWSE_DELETE", "BROWSE_RENAME_V1", "BROWSE_RENAME_V2", "PUBLISH"}
Ops   == {"none", "wait", "append", "retry", "compact", "delete", "browse", "publish"}
Steps == {"begin", "move", "place", "advance", "append", "bump", "announce", "clear",
          "undo", "fold", "reset"}

NoTxId == <<0, NoEffect>>
FreshTx(n) == <<n, NoEffect>>

Unmoved == [p \in Paths |-> p]

Markers == [tx : TxIds, kind : Kinds, stage : {"STARTED", "MOVED"},
            from : SUBSET Paths, to : [Paths -> Paths], eff : Effects]

NoMarker == [tx |-> NoTxId, kind |-> "NONE", stage |-> "STARTED",
             from |-> {}, to |-> Unmoved, eff |-> NoEffect]

Procs == [op : Ops, ph : {"idle", "lock", "recover", "body"}, todo : SUBSET TxIds,
          req : Effects, own : Markers, cur : Markers, steps : Seq(Steps)]

Idle == [op |-> "none", ph |-> "idle", todo |-> {}, req |-> NoEffect,
         own |-> NoMarker, cur |-> NoMarker, steps |-> <<>>]

(***************************************************************************)
(* A client uses a lease for one thing: an interactive command, a publish, *)
(* the retry of a saved payload, or a push chunk (PushWorker._run_chunk),  *)
(* which renames, uploads, deletes and journals in that order.  "over"     *)
(* leaves only the release.                                                *)
(***************************************************************************)
Sessions == {"plan", "upload", "confirm", "over"}

NoPayload == [tx |-> NoTxId, eff |-> NoEffect]

Touched(e) == {p \in Paths : e[p] # NoEntry}

Files(S) == {p \in S : tree[p] # NoFile}
Exists(S) == Files(S) # {}

Staged(b, p) == <<b, p>> \in staging

Image(m) == {m.to[p] : p \in m.from}

Renaming(m) == m.kind \in {"BROWSE_RENAME_V1", "BROWSE_RENAME_V2"}

\* Whether the place a marker's move goes to holds something.
BackupExists(m) == IF Renaming(m) THEN Exists(Image(m))
                                  ELSE \E e \in trash : e[1] = m.tx

InSection(d) == proc[d].ph \in {"recover", "body"}
Granted(d) == lease = d /\ proc[d] = Idle
Doing(d, step) == proc[d].steps # <<>> /\ Head(proc[d].steps) = step

\* append_delete_journal*_unlocked and append_rename_journal_batch_unlocked
\* restore the journal when they fail; the publish and the client's own
\* payload (kind NONE) do not.
RollsBack(m) == m.kind \notin {"NONE", "PUBLISH"}

MovePlan == <<"begin", "move", "advance", "append", "bump", "clear">>
RedoPlan == <<"append", "bump", "clear">>
PublishPlan == <<"place", "advance", "append", "bump", "clear">>

\* Mutant of NewPublishPlan: the files are journaled before they are moved.
JournalFirst == <<"begin", "append", "bump", "place", "advance", "clear">>

NewPublishPlan == <<"begin", "place", "advance", "append", "bump", "clear">>

SetProc(d, r) == proc' = [proc EXCEPT ![d] = r]
Popped(d) == [proc[d] EXCEPT !.steps = Tail(@),
                             !.cur = IF Len(proc[d].steps) = 1 THEN NoMarker ELSE @]
Halted(d) == [proc[d] EXCEPT !.steps = <<>>, !.cur = NoMarker]

TypeOK ==
    /\ tree \in [Paths -> Versions \cup {NoFile}]
    /\ trash \subseteq TxIds \X Paths \X Versions
    /\ staging \subseteq StageBatches \X Paths
    /\ journal \in Seq(Units) /\ manifest \in Effects /\ revision \in Nat
    /\ txns \subseteq Markers /\ lists \subseteq StageBatches
    /\ lease \in Devices \cup {NoDevice}
    /\ proc \in [Devices -> Procs]
    /\ sess \in [Devices -> Sessions]
    /\ batch \in [Devices -> Effects]
    /\ pending \in [Devices -> [tx : TxIds, eff : Effects]]
    /\ nextTx \in Nat /\ uploads \in Nat /\ faults \in Nat
    /\ unannounced \subseteq TxIds \X Kinds /\ stray \subseteq Paths

Init ==
    /\ tree = [p \in Paths |-> NoFile] /\ trash = {} /\ staging = {}
    /\ journal = <<>> /\ manifest = NoEffect /\ revision = 0
    /\ txns = {} /\ lists = {}
    /\ lease = NoDevice
    /\ proc = [d \in Devices |-> Idle]
    /\ sess = [d \in Devices |-> "over"]
    /\ batch = [d \in Devices |-> NoEffect]
    /\ pending = [d \in Devices |-> NoPayload]
    /\ nextTx = 1 /\ uploads = 0 /\ faults = 0
    /\ unannounced = {} /\ stray = {}

-----------------------------------------------------------------------------
(* The lease and what a client does on its own *)

\* cmd_transfer_wait up to the flock on the sync lock.
TransferWait(d) ==
    /\ lease = NoDevice /\ proc[d] = Idle
    /\ lease' = d
    /\ SetProc(d, [Idle EXCEPT !.op = "wait", !.ph = "lock"])
    /\ UNCHANGED <<disk, record, markers, client, nextTx, uploads, faults, history>>

\* The lease session ends: end of input, a lost connection, a kill.
EndLease(d) ==
    /\ lease = d /\ proc[d].op # "wait"
    /\ Orphans \/ proc[d] = Idle
    /\ lease' = NoDevice
    /\ sess' = [sess EXCEPT ![d] = "over"]
    /\ batch' = [batch EXCEPT ![d] = NoEffect]
    /\ UNCHANGED <<disk, record, markers, proc, pending, nextTx, uploads, faults, history>>

\* A push waits until the payload saved by an earlier one is on record.
Pushing(d, from) == Granted(d) /\ sess[d] \in from /\ pending[d] = NoPayload

\* Mutant of Upload: a backup of nothing is filed.
UploadFilesNothing(d, p, v) ==
    /\ Pushing(d, {"plan", "upload"}) /\ p \notin Touched(batch[d]) /\ tree[p] # v
    /\ uploads < MaxUploads /\ uploads' = uploads + 1
    /\ tree' = [tree EXCEPT ![p] = v]
    /\ trash' = trash \cup {<<NoTxId, p, tree[p]>>}
    /\ batch' = [batch EXCEPT ![d][p] = v]
    /\ sess' = [sess EXCEPT ![d] = "upload"]
    /\ stray' = stray \cup {p}
    /\ UNCHANGED <<staging, record, markers, lease, proc, pending, nextTx, faults, unannounced>>

\* rsync_ops.push: rsync replaces the file, --backup keeps the old version.
Upload(d, p, v) ==
    /\ Pushing(d, {"plan", "upload"}) /\ p \notin Touched(batch[d]) /\ tree[p] # v
    /\ uploads < MaxUploads /\ uploads' = uploads + 1
    /\ tree' = [tree EXCEPT ![p] = v]
    /\ trash' = IF tree[p] = NoFile THEN trash ELSE trash \cup {<<NoTxId, p, tree[p]>>}
    /\ batch' = [batch EXCEPT ![d][p] = v]
    /\ sess' = [sess EXCEPT ![d] = "upload"]
    /\ stray' = stray \cup {p}
    /\ UNCHANGED <<staging, record, markers, lease, proc, pending, nextTx, faults, unannounced>>

\* rsync_ops.push_to_staging, outside the lease, of files that the plan found
\* new to the NAS.
StageUpload(b) ==
    /\ ~Exists(Touched(b))
    /\ \E p \in Touched(b) : ~Staged(b, p)
    /\ staging' = staging \cup ({b} \X Touched(b))
    /\ UNCHANGED <<tree, trash, record, markers, lease, proc, client, nextTx, uploads, faults, history>>

\* cleanup_remote_staging, after a publish or when a source file changed while
\* it was staged.  Two clients with the same new files share the directory.
StageCleanup(d, b) ==
    /\ proc[d] = Idle
    /\ \E p \in Paths : Staged(b, p)
    /\ staging' = staging \ ({b} \X Paths)
    /\ UNCHANGED <<tree, trash, record, markers, lease, proc, client, nextTx, uploads, faults, history>>

-----------------------------------------------------------------------------
(* Commands up to the journal lock *)

\* A command is not begun when the bound leaves it too few transaction ids.
Budget(n) == nextTx + n <= MaxTx + 1

Start(d, op, own, req, next) ==
    /\ Granted(d)
    /\ SetProc(d, [Idle EXCEPT !.op = op, !.ph = "lock", !.own = own, !.req = req])
    /\ sess' = [sess EXCEPT ![d] = next]
    /\ UNCHANGED <<disk, record, txns, lease, batch, pending, uploads, faults, history>>

\* append_remote_journal.  Its payload carries a fresh id; the one saved after
\* a failure (save_pending_journal) is built anew and carries the next one.
JournalAppend(d) ==
    /\ Pushing(d, {"upload", "confirm"}) /\ batch[d] # NoEffect
    /\ Budget(2) /\ nextTx' = nextTx + 2
    /\ Start(d, "append", [NoMarker EXCEPT !.tx = FreshTx(nextTx), !.eff = batch[d]], NoEffect, "over")
    /\ UNCHANGED lists

\* retry_pending_journal, at the start of a later push or pull.
JournalRetry(d) ==
    /\ sess[d] = "plan" /\ pending[d] # NoPayload
    /\ Start(d, "retry",
             [NoMarker EXCEPT !.tx = pending[d].tx, !.eff = pending[d].eff], NoEffect, "over")
    /\ UNCHANGED <<lists, nextTx>>

CheckedDelete(d, req) ==
    /\ Pushing(d, {"plan", "upload"})
    /\ Touched(req) \cap Touched(batch[d]) = {} /\ Budget(Cardinality(Touched(req)))
    /\ Start(d, "delete", NoMarker, req, "confirm")
    /\ UNCHANGED <<lists, nextTx>>

BrowseDelete(d, S) ==
    /\ sess[d] = "plan" /\ Exists(S) /\ Budget(1)
    /\ Start(d, "browse", [NoMarker EXCEPT !.kind = "BROWSE_DELETE", !.from = S], NoEffect, "over")
    /\ UNCHANGED <<lists, nextTx>>

RenameOf(r, kind) ==
    [NoMarker EXCEPT !.kind = kind, !.from = DOMAIN r,
                     !.to = [p \in Paths |-> IF p \in DOMAIN r THEN r[p] ELSE p]]

\* The interactive rename, V1.
BrowseRename(d, r) ==
    LET m == RenameOf(r, "BROWSE_RENAME_V1")
    IN  /\ sess[d] = "plan" /\ Exists(m.from) /\ ~Exists(Image(m)) /\ Budget(1)
        /\ Start(d, "browse", m, NoEffect, "over")
        /\ UNCHANGED <<lists, nextTx>>

\* The rename a push detected, V2: it carries the version expected at the
\* source, and the push goes on after a failure.
RenameRemote(d, r, expected) ==
    LET m == RenameOf(r, "BROWSE_RENAME_V2")
    IN  /\ Pushing(d, {"plan"}) /\ Exists(m.from) /\ ~Exists(Image(m)) /\ Budget(1)
        /\ Start(d, "browse", m,
                 [p \in Paths |-> IF p \in m.from THEN expected ELSE NoEntry], "plan")
        /\ UNCHANGED <<lists, nextTx>>

\* The staged files are verified and the .paths file written before the
\* owner check and the lock.
StagingPublish(d, b) ==
    /\ Pushing(d, {"plan"})
    /\ \A p \in Touched(b) : Staged(b, p)
    /\ b \notin lists /\ \A m \in txns : m.tx # <<0, b>>
    /\ lists' = lists \cup {b}
    /\ Start(d, "publish", [NoMarker EXCEPT !.kind = "PUBLISH", !.tx = <<0, b>>, !.eff = b],
             NoEffect, "over")
    /\ UNCHANGED nextTx

\* manifest-export, manifest-get, file-states and journal-compact take no lease.
JournalCompact(d) ==
    /\ proc[d] = Idle
    /\ SetProc(d, [Idle EXCEPT !.op = "compact", !.ph = "lock"])
    /\ UNCHANGED <<disk, record, markers, lease, client, nextTx, uploads, faults, history>>

\* Mutants of Enter: the glob is empty, or the command leaves an open marker
\* to somebody else.
EnterSkipsRecovery(d) ==
    /\ proc[d].ph = "lock"
    /\ \A e \in Devices : ~InSection(e)
    /\ SetProc(d, [proc[d] EXCEPT !.ph = "recover"])
    /\ UNCHANGED <<disk, record, markers, lease, client, nextTx, uploads, faults, history>>

EnterAwaitsRecovery(d) ==
    /\ proc[d].ph = "lock" /\ txns = {}
    /\ \A e \in Devices : ~InSection(e)
    /\ SetProc(d, [proc[d] EXCEPT !.ph = "recover"])
    /\ UNCHANGED <<disk, record, markers, lease, client, nextTx, uploads, faults, history>>

\* flock -x 9, then the glob of recover_pending_transactions_unlocked.
Enter(d) ==
    /\ proc[d].ph = "lock"
    /\ \A e \in Devices : ~InSection(e)
    /\ SetProc(d, [proc[d] EXCEPT !.ph = "recover", !.todo = {m.tx : m \in txns}])
    /\ UNCHANGED <<disk, record, markers, lease, client, nextTx, uploads, faults, history>>

-----------------------------------------------------------------------------
(* How a command ends *)

\* The client drops what the command has put on record.
Succeed(d) ==
    /\ SetProc(d, Idle)
    /\ UNCHANGED sess
    /\ batch' = IF proc[d].op = "append" THEN [batch EXCEPT ![d] = NoEffect] ELSE batch
    /\ pending' = IF proc[d].op = "retry" THEN [pending EXCEPT ![d] = NoPayload] ELSE pending

\* An error or a kill.  The client saves the payload of a failed append under
\* a new id, gives up the chunk after a failed delete (its uploads stay
\* unjournaled), and a transfer-wait that fails gives the lease back.
Saved(d) == IF proc[d].op = "append"
            THEN [tx |-> FreshTx(proc[d].own.tx[1] + 1), eff |-> proc[d].own.eff]
            ELSE pending[d]

Break(d) ==
    /\ SetProc(d, Idle)
    /\ lease' = IF proc[d].op = "wait" THEN NoDevice ELSE lease
    /\ pending' = [pending EXCEPT ![d] = Saved(d)]
    /\ IF proc[d].op \in {"append", "delete"}
       THEN /\ batch' = [batch EXCEPT ![d] = NoEffect]
            /\ sess' = [sess EXCEPT ![d] = "over"]
       ELSE UNCHANGED <<sess, batch>>

\* Error returns of cmd_staging_publish before its marker remove the .paths file.
DropList(d) == lists' = lists \ (IF proc[d].op = "publish" THEN {proc[d].own.eff} ELSE {})

-----------------------------------------------------------------------------
(* recover_pending_transactions_unlocked *)

\* sync_transfer_lock_is_held: another process holds the lock.  The session
\* that owns it reopens fd 8, which drops its own lock, and sees it free.
LockSeenHeld(d) == lease # NoDevice /\ proc[d].op # "wait"

\* Mutants of RecoveryPlan: a finished move is not journaled, a publish is
\* given up, a committed transaction is not announced.
RecoveryForgets(m) ==
    IF Committed(journal, m.tx) THEN <<"announce", "clear">>
    ELSE IF m.kind = "PUBLISH" THEN PublishPlan ELSE <<"clear">>

RecoveryDropsPublish(m) ==
    IF Committed(journal, m.tx) THEN <<"announce", "clear">>
    ELSE IF m.kind # "PUBLISH" /\ ~Exists(m.from) /\ BackupExists(m) THEN RedoPlan ELSE <<"clear">>

RecoverySilent(m) ==
    IF Committed(journal, m.tx) THEN <<"clear">>
    ELSE IF m.kind = "PUBLISH" THEN PublishPlan
    ELSE IF ~Exists(m.from) /\ BackupExists(m) THEN RedoPlan ELSE <<"clear">>

RecoveryPlan(m) ==
    LET present == Exists(m.from)
        moved   == BackupExists(m)
    IN  CASE Committed(journal, m.tx) ->
                 IF m.kind \in {"DELETE", "PUBLISH"} THEN <<"announce", "clear">> ELSE <<"clear">>
          [] ~Committed(journal, m.tx) /\ m.kind = "PUBLISH" -> PublishPlan
          [] ~Committed(journal, m.tx) /\ m.kind # "PUBLISH" ->
                 IF ~present /\ moved THEN RedoPlan
                 ELSE IF present /\ (~moved \/ (m.stage = "STARTED" /\ m.kind # "BROWSE_RENAME_V2"))
                      THEN <<"clear">>
                      ELSE <<>>     \* ambiguous: logged and left

Recovering(d, m) == /\ proc[d].ph = "recover" /\ proc[d].steps = <<>>
                    /\ m \in txns /\ m.tx \in proc[d].todo

RecoverMarker(d) ==
    \E m \in txns :
        /\ Recovering(d, m)
        /\ m.kind = "PUBLISH" => LockSeenHeld(d)
        /\ LET plan == RecoveryPlan(m)
           IN  SetProc(d, [proc[d] EXCEPT !.todo = @ \ {m.tx}, !.steps = plan,
                                          !.cur = IF plan = <<>> THEN NoMarker ELSE m])
        /\ UNCHANGED <<disk, record, markers, lease, client, nextTx, uploads, faults, history>>

\* "recovery publish senza lock globale client": the whole command fails.
RecoverRefused(d) ==
    /\ \E m \in txns : Recovering(d, m) /\ m.kind = "PUBLISH" /\ ~LockSeenHeld(d)
    /\ Break(d) /\ DropList(d)
    /\ UNCHANGED <<disk, record, txns, nextTx, uploads, faults, history>>

-----------------------------------------------------------------------------
(* The body of each command, once nothing is left to recover *)

AtBody(d, op) == /\ proc[d].ph = "recover" /\ proc[d].todo = {} /\ proc[d].steps = <<>>
                 /\ proc[d].op = op

Run(d, m, plan) == SetProc(d, [proc[d] EXCEPT !.ph = "body", !.cur = m, !.steps = plan])

LeaseGranted(d) ==
    /\ AtBody(d, "wait")
    /\ SetProc(d, Idle)
    /\ sess' = [sess EXCEPT ![d] = "plan"]
    /\ UNCHANGED <<disk, record, markers, lease, batch, pending, nextTx, uploads, faults, history>>

\* A journal over JOURNAL_MAX_BYTES is compacted after the append.
AppendBody(d) ==
    /\ AtBody(d, "append") \/ AtBody(d, "retry")
    /\ IF Committed(journal, proc[d].own.tx)
       THEN Succeed(d)
       ELSE /\ \E plan \in {<<"append", "bump">>, <<"append", "bump", "fold", "reset">>} :
                   Run(d, proc[d].own, plan)
            /\ UNCHANGED client
    /\ UNCHANGED <<disk, record, markers, lease, nextTx, uploads, faults, history>>

\* Mutant of CompactBody: the journal is emptied before the manifest is replaced.
CompactResetsFirst(d) ==
    /\ AtBody(d, "compact")
    /\ Run(d, NoMarker, <<"reset", "fold">>)
    /\ UNCHANGED <<disk, record, markers, lease, client, nextTx, uploads, faults, history>>

CompactBody(d) ==
    /\ AtBody(d, "compact")
    /\ Run(d, NoMarker, <<"fold", "reset">>)
    /\ UNCHANGED <<disk, record, markers, lease, client, nextTx, uploads, faults, history>>

DeleteBody(d) ==
    /\ AtBody(d, "delete")
    /\ Run(d, NoMarker, <<>>)
    /\ UNCHANGED <<disk, record, markers, lease, client, nextTx, uploads, faults, history>>

\* One path of the request: a missing file is journaled as deleted, a changed
\* one is STALE and left alone, a matching one goes to the trash.
DeleteItem(d, p) ==
    LET item == [NoMarker EXCEPT !.tx = FreshTx(nextTx), !.from = {p},
                                 !.kind = IF tree[p] = NoFile THEN "ABSENT" ELSE "DELETE",
                                 !.eff = [NoEffect EXCEPT ![p] = Tomb]]
        stale == tree[p] # NoFile /\ tree[p] # proc[d].req[p]
    IN  /\ proc[d].op = "delete" /\ proc[d].ph = "body" /\ proc[d].steps = <<>>
        /\ p \in Touched(proc[d].req)
        /\ nextTx' = IF stale THEN nextTx ELSE nextTx + 1
        /\ SetProc(d, [proc[d] EXCEPT
               !.req[p] = NoEntry,
               !.cur = IF stale THEN NoMarker ELSE item,
               !.steps = IF stale THEN <<>>
                         ELSE IF tree[p] = NoFile THEN <<"append", "bump">> ELSE MovePlan])
        /\ UNCHANGED <<disk, record, markers, lease, client, uploads, faults, history>>

\* browse-delete and browse-rename look again under the lock.  The .paths
\* file lists the files found now; V2 records both sides of the rename.
BrowseBody(d) ==
    LET own == proc[d].own
        gone == [p \in Paths |-> IF p \in Files(own.from) THEN Tomb ELSE NoEntry]
        both == [p \in Paths |-> IF \E q \in Files(own.from) : own.to[q] = p
                                 THEN tree[CHOOSE q \in Files(own.from) : own.to[q] = p]
                                 ELSE gone[p]]
        m == [own EXCEPT !.tx = FreshTx(nextTx),
                         !.eff = IF own.kind = "BROWSE_RENAME_V2" THEN both ELSE gone]
        changed == /\ own.kind = "BROWSE_RENAME_V2" /\ Cardinality(own.from) = 1
                   /\ \E p \in own.from : tree[p] # proc[d].req[p]
    IN  /\ AtBody(d, "browse")
        /\ IF ~Exists(own.from) \/ (Renaming(own) /\ Exists(Image(own))) \/ changed
           THEN SetProc(d, Idle) /\ UNCHANGED nextTx
           ELSE nextTx' = nextTx + 1 /\ Run(d, m, MovePlan)
        /\ UNCHANGED <<disk, record, markers, lease, client, uploads, faults, history>>

\* cmd_staging_publish under the lock: a target that differs, or a batch of
\* which only a part exists, is refused; a batch already there needs nothing.
PublishBody(d) ==
    LET own == proc[d].own
        b == own.eff
        there == Files(Touched(b))
    IN  /\ AtBody(d, "publish")
        /\ IF there = {}
           THEN /\ Run(d, own, NewPublishPlan)
                /\ UNCHANGED <<staging, lists>>
           ELSE /\ SetProc(d, Idle) /\ DropList(d)
                /\ staging' = IF there = Touched(b) /\ (\A p \in there : tree[p] = b[p])
                              THEN staging \ ({b} \X Paths) ELSE staging
        /\ UNCHANGED <<tree, trash, record, txns, lease, client, nextTx, uploads, faults, history>>

Finish(d) ==
    /\ proc[d].ph = "body" /\ proc[d].steps = <<>>
    /\ proc[d].op = "delete" => proc[d].req = NoEffect
    /\ Succeed(d)
    /\ UNCHANGED <<disk, record, markers, lease, nextTx, uploads, faults, history>>

-----------------------------------------------------------------------------
(* Steps.  Each is one durable change made under the journal lock. *)

\* begin_move_transaction
StepBegin(d) ==
    /\ Doing(d, "begin")
    /\ txns' = txns \cup {proc[d].cur}
    /\ SetProc(d, Popped(d))
    /\ UNCHANGED <<disk, record, lists, lease, client, nextTx, uploads, faults, history>>

\* mv "$target" "$backup": a rename, or into the trash.
StepMove(d) ==
    LET m == proc[d].cur
        from == Files(m.from)
    IN  /\ Doing(d, "move")
        /\ IF Renaming(m)
           THEN /\ tree' = [p \in Paths |->
                              IF \E q \in from : m.to[q] = p
                              THEN tree[CHOOSE q \in from : m.to[q] = p]
                              ELSE IF p \in from THEN NoFile ELSE tree[p]]
                /\ UNCHANGED trash
           ELSE /\ tree' = [p \in Paths |-> IF p \in from THEN NoFile ELSE tree[p]]
                /\ trash' = trash \cup {<<m.tx, p, tree[p]>> : p \in from}
        /\ stray' = IF m.kind = "BROWSE_RENAME_V1" THEN stray \cup Image(m) ELSE stray
        /\ SetProc(d, Popped(d))
        /\ UNCHANGED <<staging, record, markers, lease, client, nextTx, uploads, faults, unannounced>>

\* Mutant of StepUndo: the backup is dropped instead of being moved back.
UndoDiscards(d) ==
    /\ Doing(d, "undo")
    /\ trash' = {e \in trash : e[1] # proc[d].cur.tx}
    /\ SetProc(d, Popped(d))
    /\ UNCHANGED <<tree, staging, record, markers, lease, client, nextTx, uploads, faults, history>>

\* mv "$backup" "$target": undo of a move whose transaction failed.
StepUndo(d) ==
    LET m == proc[d].cur
        back == {e \in trash : e[1] = m.tx}
    IN  /\ Doing(d, "undo")
        /\ IF Renaming(m)
           THEN /\ tree' = [p \in Paths |-> IF p \in m.from THEN tree[m.to[p]]
                                            ELSE IF p \in Image(m) THEN NoFile ELSE tree[p]]
                /\ UNCHANGED trash
           ELSE /\ tree' = [p \in Paths |-> IF \E e \in back : e[2] = p
                                            THEN (CHOOSE e \in back : e[2] = p)[3] ELSE tree[p]]
                /\ trash' = trash \ back
        /\ SetProc(d, Popped(d))
        /\ UNCHANGED <<staging, record, markers, lease, client, nextTx, uploads, faults, history>>

\* The loop of recover_publish_transaction_unlocked: mv "$staged" "$target",
\* one file at a time, never onto an existing file.
Misplaced(b, p) == IF tree[p] = NoFile THEN ~Staged(b, p)
                                       ELSE Staged(b, p) \/ tree[p] # b[p]

StepPlace(d) ==
    LET b == proc[d].cur.eff
        left == {p \in Touched(b) : tree[p] = NoFile}
    IN  /\ Doing(d, "place")
        /\ \/ \E p \in left :
                 /\ Staged(b, p)
                 /\ tree' = [tree EXCEPT ![p] = b[p]]
                 /\ staging' = staging \ {<<b, p>>}
                 /\ UNCHANGED proc
           \/ /\ \A p \in Touched(b) : ~Misplaced(b, p) /\ p \notin left
              /\ SetProc(d, Popped(d))
              /\ UNCHANGED <<tree, staging>>
        /\ UNCHANGED <<trash, record, markers, lease, client, nextTx, uploads, faults, history>>

\* A file that cannot be verified stops the publish; its marker stays.
PlaceConflict(d) ==
    /\ Doing(d, "place")
    /\ \E p \in Touched(proc[d].cur.eff) : Misplaced(proc[d].cur.eff, p)
    /\ IF proc[d].ph = "recover" THEN SetProc(d, Halted(d)) /\ UNCHANGED <<lease, client>>
                                 ELSE Break(d)
    /\ UNCHANGED <<disk, record, markers, nextTx, uploads, faults, history>>

\* advance_move_transaction
StepAdvance(d) ==
    /\ Doing(d, "advance")
    /\ txns' = {IF m.tx = proc[d].cur.tx THEN [m EXCEPT !.stage = "MOVED"] ELSE m : m \in txns}
    /\ SetProc(d, Popped(d))
    /\ UNCHANGED <<disk, record, lists, lease, client, nextTx, uploads, faults, history>>

UnitOf(m, end) == [tx |-> m.tx, eff |-> m.eff, end |-> end]

\* Paths of an effect that the share does not bear out.
Untrue(e) == {p \in Touched(e) : e[p] # IF tree[p] = NoFile THEN Tomb ELSE tree[p]}

\* cat "$tmp" >> "$JOURNAL_FILE"
StepAppend(d) ==
    LET m == proc[d].cur
    IN  /\ Doing(d, "append")
        /\ journal' = Append(journal, UnitOf(m, "full"))
        /\ unannounced' = unannounced \cup {<<m.tx, m.kind>>}
        /\ stray' = IF m.kind = "NONE" THEN stray \cup Untrue(m.eff) ELSE stray
        /\ SetProc(d, Popped(d))
        /\ UNCHANGED <<disk, manifest, revision, markers, lease, client, nextTx, uploads, faults>>

\* bump_manifest_revision_unlocked, after an append or on behalf of a killed command
StepBump(d) ==
    /\ Doing(d, "bump") \/ Doing(d, "announce")
    /\ revision' = revision + 1
    /\ unannounced' = {}
    /\ stray' = stray \ (Touched(proc[d].cur.eff) \ Untrue(proc[d].cur.eff))
    /\ SetProc(d, Popped(d))
    /\ UNCHANGED <<disk, journal, manifest, markers, lease, client, nextTx, uploads, faults>>

\* rm -f "$txfile" "$paths_file"
StepClear(d) ==
    /\ Doing(d, "clear")
    /\ txns' = {m \in txns : m.tx # proc[d].cur.tx}
    /\ lists' = IF proc[d].cur.kind = "PUBLISH" THEN lists \ {proc[d].cur.eff} ELSE lists
    /\ SetProc(d, Popped(d))
    /\ UNCHANGED <<disk, record, lease, client, nextTx, uploads, faults, history>>

\* compact_manifest_unlocked: the new manifest first, the emptied journal after.
StepFold(d) ==
    /\ Doing(d, "fold")
    /\ \E X \in {{}, Paths} : manifest' = Sweep(View(manifest, journal), X)
    /\ SetProc(d, Popped(d))
    /\ UNCHANGED <<disk, journal, revision, markers, lease, client, nextTx, uploads, faults, history>>

StepReset(d) ==
    /\ Doing(d, "reset")
    /\ journal' = <<>>
    /\ SetProc(d, Popped(d))
    /\ UNCHANGED <<disk, manifest, revision, markers, lease, client, nextTx, uploads, faults, history>>

-----------------------------------------------------------------------------
(* Failed steps, kills and restarts *)

Fault == faults < MaxFaults /\ faults' = faults + 1

TailTorn == journal # <<>> /\ Last(journal).end \in {"begin", "record"}

\* What an append that does not complete leaves in the file.
CutShort(m) == {Append(journal, UnitOf(m, t)) : t \in IF TailTorn THEN {} ELSE Tears}

\* A step of a rolled-back kind fails in the command's body: the journal is
\* restored, the move undone and the marker removed.  If the undo itself
\* fails, checked-delete still removes the marker and the others keep it.
\* checked-delete goes on with its other files and answers ERROR for this one,
\* on which the client gives up the chunk.
FailedPlan(m, step) ==
    CASE step = "begin" -> <<>>
      [] step = "move" -> <<"clear">>
      [] step \in {"advance", "append", "bump"} -> IF m.kind = "ABSENT" THEN <<>> ELSE <<"undo", "clear">>
      [] step = "undo" -> IF m.kind = "DELETE" THEN <<"clear">> ELSE <<>>

\* Mutant of FailStep: the journal keeps the transaction whose revision failed.
FailKeepsJournal(d, step) ==
    LET m == proc[d].cur
        plan == FailedPlan(m, step)
    IN  /\ Doing(d, step) /\ RollsBack(m) /\ Fault
        /\ IF proc[d].ph = "recover" \/ plan = <<>>
           THEN SetProc(d, Halted(d))
           ELSE SetProc(d, [proc[d] EXCEPT !.steps = plan])
        /\ UNCHANGED <<disk, record, markers, lease, client, nextTx, uploads, history>>

FailStep(d, step) ==
    LET m == proc[d].cur
        plan == FailedPlan(m, step)
    IN  /\ Doing(d, step) /\ RollsBack(m) /\ Fault
        /\ journal' = IF step = "bump" THEN Front(journal) ELSE journal
        /\ unannounced' = IF step = "bump" THEN unannounced \ {<<m.tx, m.kind>>} ELSE unannounced
        /\ IF proc[d].ph = "recover" \/ plan = <<>>
           THEN SetProc(d, Halted(d))   \* recovery goes on with the next marker
           ELSE SetProc(d, [proc[d] EXCEPT !.steps = plan])
        /\ sess' = IF proc[d].op = "delete" THEN [sess EXCEPT ![d] = "over"] ELSE sess
        /\ UNCHANGED <<disk, manifest, revision, markers, lease, batch, pending, nextTx, uploads, stray>>

\* A step of a publish fails: in recovery the next marker follows, in the
\* command it is an error return.  The marker stays once it is written.
FailPublish(d, step) ==
    /\ Doing(d, step) /\ proc[d].cur.kind = "PUBLISH" /\ Fault
    /\ journal' \in {journal} \cup (IF step = "append" THEN CutShort(proc[d].cur) ELSE {})
    /\ IF proc[d].ph = "recover" THEN SetProc(d, Halted(d)) /\ UNCHANGED <<lease, client>>
                                 ELSE Break(d)
    /\ IF step = "begin" THEN DropList(d) ELSE UNCHANGED lists
    /\ UNCHANGED <<disk, manifest, revision, txns, nextTx, uploads, history>>

\* Error returns of the whole command: the client's append, its bump, a
\* compaction, or a bump that recovery owes a killed command.
FailCommand(d) ==
    /\ proc[d].steps # <<>> /\ Fault
    /\ \/ proc[d].cur.kind = "NONE"
       \/ Doing(d, "announce")
    /\ journal' \in {journal} \cup (IF Doing(d, "append") THEN CutShort(proc[d].cur) ELSE {})
    /\ Break(d) /\ (IF proc[d].ph = "recover" THEN DropList(d) ELSE UNCHANGED lists)
    /\ UNCHANGED <<disk, manifest, revision, txns, nextTx, uploads, history>>

\* SIGKILL or a dropped SSH session, possibly in the middle of an append.
Kill(d) ==
    /\ proc[d] # Idle /\ Fault
    /\ journal' \in {journal} \cup (IF Doing(d, "append") THEN CutShort(proc[d].cur) ELSE {})
    /\ Break(d)
    /\ UNCHANGED <<disk, manifest, revision, markers, nextTx, uploads, history>>

\* The NAS restarts: every process and the lease are gone, the files stay.
Restart ==
    /\ lease # NoDevice \/ \E d \in Devices : proc[d] # Idle
    /\ Fault
    /\ lease' = NoDevice
    /\ proc' = [d \in Devices |-> Idle]
    /\ batch' = [d \in Devices |-> NoEffect]
    /\ pending' = [d \in Devices |-> Saved(d)]
    /\ sess' = [d \in Devices |-> "over"]
    /\ UNCHANGED <<disk, record, markers, nextTx, uploads, history>>

-----------------------------------------------------------------------------
Request(d) ==
    \/ TransferWait(d) \/ EndLease(d)
    \/ \E p \in Paths, v \in Versions : Upload(d, p, v)
    \/ JournalAppend(d) \/ JournalRetry(d) \/ JournalCompact(d)
    \/ \E req \in DeleteRequests : CheckedDelete(d, req)
    \/ \E S \in Trees : BrowseDelete(d, S)
    \/ \E r \in Renames : BrowseRename(d, r) \/ \E v \in Versions : RenameRemote(d, r, v)
    \/ \E b \in StageBatches : StagingPublish(d, b) \/ StageCleanup(d, b)

Command(d) ==
    \/ Enter(d) \/ RecoverMarker(d) \/ RecoverRefused(d)
    \/ LeaseGranted(d) \/ AppendBody(d) \/ CompactBody(d) \/ DeleteBody(d)
    \/ \E p \in Paths : DeleteItem(d, p)
    \/ BrowseBody(d) \/ PublishBody(d) \/ Finish(d)
    \/ StepBegin(d) \/ StepMove(d) \/ StepUndo(d) \/ StepPlace(d) \/ PlaceConflict(d)
    \/ StepAdvance(d) \/ StepAppend(d) \/ StepBump(d) \/ StepClear(d)
    \/ StepFold(d) \/ StepReset(d)

Failure(d) ==
    \/ \E step \in {"begin", "move", "advance", "append", "bump", "undo"} : FailStep(d, step)
    \/ \E step \in {"begin", "place", "advance", "append", "bump"} : FailPublish(d, step)
    \/ FailCommand(d) \/ Kill(d)

Next ==
    \/ \E d \in Devices : Request(d) \/ Command(d) \/ Failure(d)
    \/ \E b \in StageBatches : StageUpload(b)
    \/ Restart

Spec == Init /\ [][Next]_vars

(***************************************************************************)
(* A running process takes its next step; flock serves its waiters in      *)
(* turn, so a process that waits for the journal lock gets it; clients end *)
(* their lease sessions and come back for new ones (the push and pull      *)
(* loops poll for as long as the client runs).                             *)
(***************************************************************************)
Fairness ==
    \A d \in Devices : /\ WF_vars(Command(d)) /\ SF_vars(Enter(d))
                       /\ SF_vars(EndLease(d)) /\ SF_vars(TransferWait(d))

FairSpec == Spec /\ Fairness

(***************************************************************************)
(* Four disturbances after which the record may stay wrong, each by the    *)
(* code's own doing: mv of a backup back onto the share fails; a step of   *)
(* recovery fails, which leaves its marker to a later command while the    *)
(* client may go on; a push uploads while a marker is still open, which    *)
(* happens after a detected rename was killed (PushWorker._run_renames     *)
(* takes that for RENAME_DEFERRED and goes on); and a staged batch is      *)
(* published again while the journal still holds its COMMIT.  CalmSpec is  *)
(* the server without them; kills, restarts and all other failures stay.   *)
(***************************************************************************)
Spoils ==
    \/ \E d \in Devices : FailStep(d, "undo")
    \/ \E d \in Devices, step \in {"advance", "append", "bump"} :
           proc[d].ph = "recover" /\ FailStep(d, step)
    \/ txns # {} /\ \E d \in Devices, p \in Paths, v \in Versions : Upload(d, p, v)
    \/ \E d \in Devices, b \in StageBatches : Committed(journal, <<0, b>>) /\ StagingPublish(d, b)

CalmSpec == Init /\ [][Next /\ ~Spoils]_vars

-----------------------------------------------------------------------------
(* Properties *)

Recorded == View(manifest, journal)

Quiet == txns = {} /\ \A d \in Devices : ~InSection(d)

(***************************************************************************)
(* Once no transaction is open, a file on record is on the share with that *)
(* very content, whichever commands were killed, failed or recovered on    *)
(* the way (paths a client uploaded or journaled untruly excepted).        *)
(***************************************************************************)
NoPhantom ==
    Quiet => \A p \in Paths \ stray : Recorded[p] \in Versions => tree[p] = Recorded[p]

(***************************************************************************)
(* Once no transaction is open, a file on the share is on record.          *)
(***************************************************************************)
NoUnrecorded ==
    Quiet => \A p \in Paths \ stray : tree[p] # NoFile => Recorded[p] = tree[p]

(***************************************************************************)
(* Every deletion or publish that reached the journal through a marker is  *)
(* announced to waiting clients by a revision bump before its marker goes, *)
(* even when the command that appended it was killed.                      *)
(***************************************************************************)
MovesAnnounced == Quiet => \A u \in unannounced : u[2] \notin {"DELETE", "PUBLISH"}

OpenMarker(tx) == \E m \in txns : m.tx = tx
Ambiguous(tx) == \E m \in txns : m.tx = tx /\ RecoveryPlan(m) = <<>>

(***************************************************************************)
(* A marker that a killed deletion or rename left behind is resolved by    *)
(* the commands that follow, unless source and destination both exist (or  *)
(* neither), which recovery only logs.                                     *)
(***************************************************************************)
MarkersResolve ==
    \A n \in 1 .. MaxTx : OpenMarker(FreshTx(n)) ~> (~OpenMarker(FreshTx(n)) \/ Ambiguous(FreshTx(n)))

(***************************************************************************)
(* The NAS stays in service: while clients ask for the lease, it is        *)
(* granted again and again, whatever killed commands left behind, because  *)
(* transfer-wait recovers that first and then answers.                     *)
(***************************************************************************)
StaysInService == []<>(\E d \in Devices : sess[d] = "plan")

(***************************************************************************)
(* Every server command ends: no process waits for ever on the journal     *)
(* lock or on another's recovery.                                          *)
(***************************************************************************)
CommandsEnd == \A d \in Devices : proc[d] # Idle ~> proc[d] = Idle

Contents == {tree[p] : p \in Paths} \cup {e[3] : e \in trash}

(***************************************************************************)
(* No step of any command, failure or recovery loses the last copy of a    *)
(* version: once on the share it stays there or in the trash.              *)
(***************************************************************************)
NothingLost == [][Contents \ {NoFile} \subseteq Contents']_vars

-----------------------------------------------------------------------------
(* The promise: ManifestStore, seen through what a reader of the manifest  *)
(* can learn.  A reader takes the journal lock, so an append that its      *)
(* command may still roll back is not on record yet.                       *)

Revocable(d) == Doing(d, "bump") /\ RollsBack(proc[d].cur)

Readable == IF \E d \in Devices : Revocable(d) THEN View(manifest, Front(journal)) ELSE Recorded

FileOf(e) == IF e \in Versions THEN e ELSE NoFile

ReadableFiles == [p \in Paths |-> FileOf(Readable[p])]

Offered(e) == [p \in Paths |-> IF e[p] = NoEntry THEN NoEntry ELSE FileOf(e[p])]

Store == INSTANCE ManifestStore WITH
             Gone <- NoFile, Unmentioned <- NoEntry,
             files <- ReadableFiles,
             offers <- {Offered(proc[d].cur.eff) : d \in Devices}

(***************************************************************************)
(* The server keeps ManifestStore's promise: whatever is killed, rolled    *)
(* back, recovered, retried or compacted, the record of the share changes  *)
(* by exactly one whole transaction of a running command at a time.        *)
(***************************************************************************)
StoreKept == Store!Spec
=============================================================================
