--------------------------- MODULE PathSyncProofs ---------------------------
(***************************************************************************)
(* Theorems about PathSync for every set of PCs and versions, any set of   *)
(* disturbances and any bound on them: the types, no lost edit, and nobody *)
(* overwrites what he has not seen.                                        *)
(*                                                                         *)
(* The invariant follows the versions.  A version that was once on the NAS *)
(* and in the base row of a PC is an ancestor of what the NAS has, or the  *)
(* NAS can do without it (it was deleted on purpose, or a conflict copy    *)
(* derives from it); and the PC has superseded it, or the NAS has moved on *)
(* to another version (BaseFits).  plan_path compares the NAS version with *)
(* the base row, so an upload or a deletion that it decides by the base    *)
(* row is of a version that the PC has superseded (ShareFits, DeleteFits), *)
(* and the lease keeps it so until the transfer.                           *)
(***************************************************************************)
EXTENDS PathSync, ReconcileProofs, TLAPS

-----------------------------------------------------------------------------
\* Types of the building blocks.

ObsRow == [v : Contents \cup {Unknown}, vc : Clock]
Payload == [rec : Row, applied : BOOLEAN]
Job == [op : {"none", "push", "pull"}, at : Steps, act : Actions,
        lv : Contents, lvc : Clock, rv : Contents \cup {Unknown},
        rvc : Clock, try : BOOLEAN, full : BOOLEAN, cks : BOOLEAN, got : BOOLEAN]

\* The operations on clocks give clocks.
LEMMA ClockTypes ==
    /\ NoClock \in Clock
    /\ \A a, b \in Clock : Merge(a, b) \in Clock
    /\ \A a \in Clock : \A d \in Devices : Increment(a, d) \in Clock
<1>1. NoClock \in Clock
  BY DEF NoClock, Clock
<1>2. ASSUME NEW a \in Clock, NEW b \in Clock PROVE Merge(a, b) \in Clock
  BY DEF Merge, Clock
<1>3. ASSUME NEW a \in Clock, NEW d \in Devices PROVE Increment(a, d) \in Clock
  BY DEF Increment, Clock
<1> QED BY <1>1, <1>2, <1>3

\* The constant rows, the payload and the idle operation have their types;
\* a row is made of a version, a clock and a flag.
LEMMA RowTypes ==
    /\ NoRow \in Row /\ Tombstone \in Row
    /\ NoPayload \in Payload
    /\ Idle \in Job
    /\ \A c \in Contents \cup {Unknown}, a \in Clock, x \in BOOLEAN :
         [v |-> c, vc |-> a, exact |-> x] \in Row
    /\ \A r \in Row : r.v \in Contents \cup {Unknown} /\ r.vc \in Clock /\ r.exact \in BOOLEAN
BY ClockTypes DEF NoRow, Tombstone, NoPayload, Idle, Row, Payload, Job, Contents, Steps, Actions

\* What plan_path is told of the NAS is a state it knows.
LEMMA RemoteType == ASSUME TypeOK PROVE Remote \in RemoteStates
<1>1. share \in Contents /\ rec \in Row
  BY DEF TypeOK
<1>2. NoClock \in Clock /\ rec.vc \in Clock
  BY <1>1, ClockTypes, RowTypes
<1> QED BY <1>1, <1>2 DEF Remote, RemoteStates, RemoteKinds, Contents

\* An observation is of the local file and has a clock.
LEMMA ObservedType ==
    ASSUME TypeOK, NEW d \in Devices
    PROVE  /\ Observed(d) \in ObsRow
           /\ Observed(d).v = local[d]
           /\ Observed(d).vc \in Clock
<1>1. /\ local[d] \in Contents
      /\ obs[d] \in ObsRow /\ obs[d].vc \in Clock
      /\ base[d].vc \in Clock
  BY RowTypes DEF TypeOK, ObsRow
<1>2. Increment(Merge(base[d].vc, obs[d].vc), d) \in Clock
  BY <1>1, ClockTypes
<1> QED BY <1>1, <1>2 DEF Observed, ObsRow

\* What plan_path decides for a path whose NAS state is a file, a tombstone or
\* nothing.
LEMMA PlannedType ==
    ASSUME TypeOK, NEW d \in Devices
    PROVE  /\ Planned(d) \in {"adopt", "upload", "delete_remote", "remote_wins",
                              "conflict_local_wins", "conflict_remote_wins"}
           /\ Planned(d) \in {"upload", "conflict_local_wins", "conflict_remote_wins"}
                => local[d] \in Versions
           /\ Planned(d) = "conflict_local_wins" => share \in Versions
           /\ Planned(d) = "delete_remote" =>
                local[d] = None /\ base[d].v \in Versions /\ share \in Versions
           /\ Planned(d) = "upload" => share = None \/ share = base[d].v
           /\ Planned(d) = "adopt" => share = None \/ share = local[d]
<1>1. local[d] \in Contents /\ share \in Contents
  BY DEF TypeOK
<1>2. Remote.kind \in {"absent", "file", "tombstone"}
  BY DEF Remote
<1>3. (Remote.kind = "file" <=> share # None) /\ Remote.v = share
  BY DEF Remote
<1> DEFINE lvc == Observed(d).vc
           r == Remote
           b == base[d].v
           l == local[d]
<1>4. Planned(d) = PlanPath(b, l, lvc, r)
  BY DEF Planned
<1> HIDE DEF lvc, r, b
<1>5. r.kind \in {"absent", "file", "tombstone"} /\ (r.kind = "file" <=> share # None)
      /\ r.v = share
  BY <1>2, <1>3 DEF r
<1>6. l \in Versions \/ l = None
  BY <1>1 DEF Contents
<1>7. share \in Versions \/ share = None
  BY <1>1 DEF Contents
<1>b. b \in Contents \cup {Unknown}
  BY RowTypes DEF TypeOK, b
<1>8. CASE l = None
  BY <1>4, <1>5, <1>7, <1>8, <1>b, ReconcileAssumption DEF PlanPath, PlanAbsent, b, Contents
<1>9. CASE l # None /\ b \notin Versions
  BY <1>4, <1>5, <1>6, <1>7, <1>9, ReconcileAssumption DEF PlanPath, PlanNew, Clash, b
<1>10. CASE l # None /\ b \in Versions
  BY <1>4, <1>5, <1>6, <1>7, <1>10, ReconcileAssumption DEF PlanPath, PlanKnown, Clash, b
<1> QED BY <1>8, <1>9, <1>10

-----------------------------------------------------------------------------
\* What a running operation presupposes, and the types of a step.

\* The steps an operation takes with the NAS lease.
Leased == {"transfer", "adopt", "apply", "confirm",
           "live", "sweep", "check", "fetch", "settle"}

\* What the running operation j of the PC d presupposes, with l the lease.
JobFits(d, j, l) ==
    /\ j.op = "none" => j = Idle
    /\ j.at \in Leased => l = d
    /\ j.at = "transfer" =>
         j.act \in {"upload", "conflict_local_wins", "adopt", "delete_remote"}
    /\ j.at \in {"adopt", "apply"} => j.act = "conflict_remote_wins"
    /\ j.at = "confirm" =>
         j.act \in {"upload", "conflict_local_wins", "conflict_remote_wins", "delete_remote"}
    /\ j.at \in {"stage", "publish"} => j.lv \in Versions

JobInv == \A d \in Devices : JobFits(d, job[d], lease)

\* The pieces of TypeOK that an action can disturb together.
RowsOK ==
    /\ base \in [Devices -> Row]
    /\ obs \in [Devices -> ObsRow]
    /\ pending \in [Devices -> BOOLEAN]
    /\ payload \in [Devices -> Payload]
FilesOK ==
    /\ local \in [Devices -> Contents]
    /\ ltrash \in [Devices -> SUBSET Versions]
    /\ event \in [Devices -> BOOLEAN]
    /\ marks \in [Devices -> SUBSET {"path", "any"}]
    /\ queued \in [Devices -> SUBSET {"push", "pull"}]
NasOK ==
    /\ cursor \in [Devices -> {"never", "behind", "current"}]
    /\ lease \in Devices \cup {None}
    /\ share \in Contents
    /\ rec \in Row
    /\ copies \subseteq Versions
    /\ hist \in [Versions -> SUBSET Versions]
    /\ dropped \subseteq Versions
    /\ outranked \subseteq Versions
JobOK == job \in [Devices -> Job]

\* TypeOK in four parts, so that an action is looked at once for each.
LEMMA TypeParts == TypeOK <=> RowsOK /\ FilesOK /\ NasOK /\ JobOK
BY DEF TypeOK, RowsOK, FilesOK, NasOK, JobOK, ObsRow, Payload, Job

\* A worker that writes the local file keeps the types.
LEMMA WriteType ==
    ASSUME TypeOK, NEW d \in Devices, WriteLocal(d, share)
    PROVE  /\ local' \in [Devices -> Contents]
           /\ ltrash' \in [Devices -> SUBSET Versions]
           /\ event' \in [Devices -> BOOLEAN]
<1>1. local[d] \in Contents /\ share \in Contents /\ ltrash[d] \subseteq Versions
  BY DEF TypeOK
<1>2. ltrash[d] \cup ({local[d]} \ {None, share}) \subseteq Versions
  BY <1>1 DEF Contents
<1>3. (event[d] \/ local[d] # share) \in BOOLEAN
  OBVIOUS
<1> QED BY <1>1, <1>2, <1>3 DEF TypeOK, WriteLocal

\* What a push appends to the journal is a row.
LEMMA JournalledType ==
    ASSUME TypeOK, NEW d \in Devices
    PROVE  Journalled(d) \in Row
<1>1. share \in Contents /\ job[d].lvc \in Clock
  BY DEF TypeOK
<1>2. (local[d] # share \/ share \notin SubSecond) \in BOOLEAN
  OBVIOUS
<1> QED BY <1>1, <1>2, ClockTypes, RowTypes DEF Journalled

\* No step breaks the types of what is in the local folders.
LEMMA FilesStep ==
    ASSUME TypeOK, [Next]_vars
    PROVE  FilesOK'
<1>1. ASSUME NEW d \in Devices, NEW v \in Versions, Edit(d, v)
      PROVE  FilesOK'
  BY <1>1, TypeParts DEF FilesOK, NasOK, Contents, Edit, rows, flags, nas, ghosts
<1>2. ASSUME NEW d \in Devices, UserDelete(d)
      PROVE  FilesOK'
  BY <1>2, TypeParts DEF FilesOK, NasOK, Contents, UserDelete, Disturb, rows, flags,
     nas, ghosts
<1>3. ASSUME NEW d \in Devices, Notice(d)
      PROVE  FilesOK'
  BY <1>3, TypeParts DEF FilesOK, NasOK, Contents, Notice, Mark, rows, flags, nas,
     ghosts
<1>4. ASSUME NEW d \in Devices, PushTick(d)
      PROVE  FilesOK'
  BY <1>4, TypeParts DEF FilesOK, NasOK, Contents, PushTick, rows, flags, nas, ghosts
<1>5. ASSUME NEW d \in Devices, PushUnstable(d)
      PROVE  FilesOK'
  BY <1>5, TypeParts DEF FilesOK, NasOK, Contents, PushUnstable, rows, flags, nas,
     ghosts
<1>6. ASSUME NEW d \in Devices, PullTick(d)
      PROVE  FilesOK'
  BY <1>6, TypeParts DEF FilesOK, NasOK, Contents, PullTick, rows, flags, nas, ghosts
<1>7. ASSUME NEW d \in Devices, PushPrepare(d)
      PROVE  FilesOK'
  BY <1>7, TypeParts DEF FilesOK, NasOK, Contents, PushPrepare, TakeTransferLock,
     RetryPayload, rows, flags, nas, ghosts
<1>8. ASSUME NEW d \in Devices, PushPlan(d)
      PROVE  FilesOK'
  BY <1>8, TypeParts DEF FilesOK, NasOK, Contents, PushPlan, KeepLoser, StepAfterPlan,
     rows, flags, nas, ghosts
<1>9. ASSUME NEW d \in Devices, PushYields(d)
      PROVE  FilesOK'
  BY <1>9, TypeParts DEF FilesOK, NasOK, Contents, PushYields, Record, Finish, rows,
     flags, nas, ghosts
<1>10. ASSUME NEW d \in Devices, PushPublish(d)
      PROVE  FilesOK'
  BY <1>10, TypeParts DEF FilesOK, NasOK, Contents, PushPublish, PushFails, Record,
     Finish, Mark, rows, flags, nas, ghosts
<1>11. ASSUME NEW d \in Devices, NEW full \in BOOLEAN, PullSnapshot(d, full)
      PROVE  FilesOK'
  BY <1>11, TypeParts DEF FilesOK, NasOK, Contents, PullSnapshot, TakeTransferLock,
     RetryPayload, Finish, Mark, rows, flags, nas, ghosts
<1>12. ASSUME NEW d \in Devices, PushStage(d)
      PROVE  FilesOK'
  BY <1>12, TypeParts DEF FilesOK, NasOK, Contents, PushStage, PushFails, Goto,
     Finish, Mark, rows, flags, nas, ghosts
<1>13. ASSUME NEW d \in Devices, PushUpload(d)
      PROVE  FilesOK'
  BY <1>13, TypeParts DEF FilesOK, NasOK, Contents, PushUpload, PushFails, Goto,
     Finish, Mark, rows, flags, nas, ghosts
<1>14. ASSUME NEW d \in Devices, PushDelete(d)
      PROVE  FilesOK'
  BY <1>14, TypeParts DEF FilesOK, NasOK, Contents, PushDelete, Goto, rows, flags,
     nas, ghosts
<1>15. ASSUME NEW d \in Devices, PushAdopt(d)
      PROVE  FilesOK'
  BY <1>15, TypeParts DEF FilesOK, NasOK, Contents, PushAdopt, PushFails, Goto,
     Finish, Mark, rows, flags, nas, ghosts
<1>16. ASSUME NEW d \in Devices, PushApply(d)
      PROVE  FilesOK'
  BY <1>16, TypeParts, WriteType DEF FilesOK, NasOK, Contents, PushApply, WriteLocal,
     Goto, rows, flags, nas, ghosts
<1>17. ASSUME NEW d \in Devices, PushConfirm(d)
      PROVE  FilesOK'
  BY <1>17, TypeParts DEF FilesOK, NasOK, Contents, PushConfirm, ConfirmMarks, Record,
     Finish, rows, flags, nas, ghosts
<1>18. ASSUME NEW d \in Devices, PushUnconfirmed(d)
      PROVE  FilesOK'
  BY <1>18, TypeParts DEF FilesOK, NasOK, Contents, PushUnconfirmed, PushFails,
     Finish, Mark, rows, flags, nas, ghosts
<1>19. ASSUME NEW d \in Devices, PullLive(d)
      PROVE  FilesOK'
  BY <1>19, TypeParts DEF FilesOK, NasOK, Contents, PullLive, Goto, AfterLive, rows,
     flags, nas, ghosts
<1>20. ASSUME NEW d \in Devices, PullCancelled(d)
      PROVE  FilesOK'
  BY <1>20, TypeParts DEF FilesOK, NasOK, Contents, PullCancelled, Finish, rows,
     flags, nas, ghosts
<1>21. ASSUME NEW d \in Devices, PullSweep(d)
      PROVE  FilesOK'
  <2>1. CASE WriteLocal(d, share)
    BY <1>21, <2>1, WriteType, TypeParts DEF FilesOK, PullSweep, rows, nas, ghosts
  <2>2. CASE UNCHANGED <<local, ltrash, event>>
    BY <1>21, <2>2, TypeParts DEF FilesOK, PullSweep, rows, nas, ghosts
  <2> QED BY <1>21, <2>1, <2>2 DEF PullSweep
<1>22. ASSUME NEW d \in Devices, PullCheck(d)
      PROVE  FilesOK'
  BY <1>22, TypeParts DEF FilesOK, NasOK, Contents, PullCheck, Goto, Mark, rows,
     flags, nas, ghosts
<1>23. ASSUME NEW d \in Devices, PullFetch(d)
      PROVE  FilesOK'
  BY <1>23, TypeParts, WriteType DEF FilesOK, NasOK, Contents, PullFetch, WriteLocal,
     rows, flags, nas, ghosts
<1>24. ASSUME NEW d \in Devices, PullSettle(d)
      PROVE  FilesOK'
  BY <1>24, TypeParts DEF FilesOK, NasOK, Contents, PullSettle, Record, Finish, rows,
     flags, nas, ghosts
<1>25. ASSUME NEW d \in Devices, Fails(d)
      PROVE  FilesOK'
  BY <1>25, TypeParts DEF FilesOK, NasOK, Contents, Fails, Disturb, PushFails, Finish,
     Mark, rows, flags, nas, ghosts
<1>26. ASSUME NEW d \in Devices, JournalFails(d)
      PROVE  FilesOK'
  BY <1>26, TypeParts DEF FilesOK, NasOK, Contents, JournalFails, Disturb, PushFails,
     Finish, Mark, rows, flags, nas, ghosts
<1>27. ASSUME NEW d \in Devices, Crash(d)
      PROVE  FilesOK'
  BY <1>27, TypeParts DEF FilesOK, NasOK, Contents, Crash, Disturb, Finish, rows,
     flags, nas, ghosts
<1>28. CASE BrowseDelete
  BY <1>28, TypeParts DEF FilesOK, NasOK, Contents, BrowseDelete, Disturb, rows,
     flags, nas, ghosts
<1>29. CASE ExpireTombstone
  BY <1>29, TypeParts DEF FilesOK, NasOK, Contents, ExpireTombstone, rows, flags, nas,
     ghosts
<1>30. CASE UNCHANGED vars
  BY <1>30, TypeParts DEF FilesOK, NasOK, Contents, vars, rows, flags, nas, ghosts
<1> QED BY <1>1, <1>2, <1>3, <1>4, <1>5, <1>6, <1>7, <1>8, <1>9, <1>10, <1>11, <1>12, <1>13,
   <1>14, <1>15, <1>16, <1>17, <1>18, <1>19, <1>20, <1>21, <1>22, <1>23, <1>24, <1>25,
   <1>26, <1>27, <1>28, <1>29, <1>30 DEF Next, PushLeases, PullLeases, Works

\* No step breaks the types of what is on the NAS, nor those of the history.
LEMMA NasStep ==
    ASSUME TypeOK, [Next]_vars
    PROVE  NasOK'
<1>1. ASSUME NEW d \in Devices, NEW v \in Versions, Edit(d, v)
      PROVE  NasOK'
  BY <1>1, TypeParts, ReconcileAssumption DEF NasOK, Contents, FilesOK, Edit, rows,
     flags, nas, ghosts
<1>2. ASSUME NEW d \in Devices, UserDelete(d)
      PROVE  NasOK'
  BY <1>2, TypeParts, ReconcileAssumption DEF NasOK, Contents, FilesOK, UserDelete,
     Disturb, rows, flags, nas, ghosts
<1>3. ASSUME NEW d \in Devices, Notice(d)
      PROVE  NasOK'
  BY <1>3, TypeParts DEF NasOK, Contents, Notice, Mark, rows, flags, nas, ghosts
<1>4. ASSUME NEW d \in Devices, PushTick(d)
      PROVE  NasOK'
  BY <1>4, TypeParts DEF NasOK, Contents, PushTick, rows, flags, nas, ghosts
<1>5. ASSUME NEW d \in Devices, PushUnstable(d)
      PROVE  NasOK'
  BY <1>5, TypeParts DEF NasOK, Contents, PushUnstable, rows, flags, nas, ghosts
<1>6. ASSUME NEW d \in Devices, PullTick(d)
      PROVE  NasOK'
  BY <1>6, TypeParts DEF NasOK, Contents, PullTick, rows, flags, nas, ghosts
<1>7. ASSUME NEW d \in Devices, PushPrepare(d)
      PROVE  NasOK'
  BY <1>7, TypeParts, RowTypes DEF NasOK, Contents, RowsOK, Payload, Behind,
     PushPrepare, TakeTransferLock, RetryPayload, rows, flags, nas, ghosts
<1>8. ASSUME NEW d \in Devices, PushPlan(d)
      PROVE  NasOK'
  BY <1>8, TypeParts, PlannedType DEF NasOK, Contents, PushPlan, KeepLoser,
     StepAfterPlan, rows, flags, nas, ghosts
<1>9. ASSUME NEW d \in Devices, PushYields(d)
      PROVE  NasOK'
  BY <1>9, TypeParts DEF NasOK, Contents, PushYields, Record, Finish, rows, flags,
     nas, ghosts
<1>10. ASSUME NEW d \in Devices, PushPublish(d)
      PROVE  NasOK'
  <2>1. job[d].lv \in Contents /\ job[d].lvc \in Clock
    BY TypeParts DEF JobOK, Job
  <2>2. [v |-> job[d].lv, vc |-> job[d].lvc, exact |-> TRUE] \in Row
    BY <2>1, RowTypes
  <2>3. /\ share' \in Contents /\ rec' \in Row /\ lease' \in Devices \cup {None}
        /\ cursor' \in [Devices -> {"never", "behind", "current"}]
    BY <1>10, <2>1, <2>2, TypeParts DEF NasOK, PushPublish, PushFails, Behind, nas
  <2> QED BY <1>10, <2>3, TypeParts DEF NasOK, PushPublish, ghosts
<1>11. ASSUME NEW d \in Devices, NEW full \in BOOLEAN, PullSnapshot(d, full)
      PROVE  NasOK'
  BY <1>11, TypeParts, RowTypes DEF NasOK, Contents, RowsOK, Payload, Behind,
     PullSnapshot, TakeTransferLock, RetryPayload, Finish, Mark, rows, flags, nas,
     ghosts
<1>12. ASSUME NEW d \in Devices, PushStage(d)
      PROVE  NasOK'
  BY <1>12, TypeParts DEF NasOK, Contents, PushStage, PushFails, Goto, Finish, Mark,
     rows, flags, nas, ghosts
<1>13. ASSUME NEW d \in Devices, PushUpload(d)
      PROVE  NasOK'
  BY <1>13, TypeParts DEF NasOK, Contents, FilesOK, PushUpload, PushFails, Goto,
     Finish, Mark, rows, flags, nas, ghosts
<1>14. ASSUME NEW d \in Devices, PushDelete(d)
      PROVE  NasOK'
  BY <1>14, TypeParts, RowTypes DEF NasOK, Contents, Behind, PushDelete, Goto, rows,
     flags, nas, ghosts
<1>15. ASSUME NEW d \in Devices, PushAdopt(d)
      PROVE  NasOK'
  BY <1>15, TypeParts DEF NasOK, Contents, PushAdopt, PushFails, Goto, Finish, Mark,
     rows, flags, nas, ghosts
<1>16. ASSUME NEW d \in Devices, PushApply(d)
      PROVE  NasOK'
  BY <1>16, TypeParts DEF NasOK, Contents, PushApply, WriteLocal, Goto, rows, flags,
     nas, ghosts
<1>17. ASSUME NEW d \in Devices, PushConfirm(d)
      PROVE  NasOK'
  BY <1>17, TypeParts, JournalledType DEF NasOK, Contents, Behind, PushConfirm,
     ConfirmMarks, Record, Finish, rows, flags, nas, ghosts
<1>18. ASSUME NEW d \in Devices, PushUnconfirmed(d)
      PROVE  NasOK'
  BY <1>18, TypeParts DEF NasOK, Contents, PushUnconfirmed, PushFails, Finish, Mark,
     rows, flags, nas, ghosts
<1>19. ASSUME NEW d \in Devices, PullLive(d)
      PROVE  NasOK'
  BY <1>19, TypeParts DEF NasOK, Contents, PullLive, Goto, AfterLive, rows, flags,
     nas, ghosts
<1>20. ASSUME NEW d \in Devices, PullCancelled(d)
      PROVE  NasOK'
  BY <1>20, TypeParts DEF NasOK, Contents, PullCancelled, Finish, rows, flags, nas,
     ghosts
<1>21. ASSUME NEW d \in Devices, PullSweep(d)
      PROVE  NasOK'
  BY <1>21, TypeParts DEF NasOK, Contents, PullSweep, WriteLocal, Goto, rows, flags,
     nas, ghosts
<1>22. ASSUME NEW d \in Devices, PullCheck(d)
      PROVE  NasOK'
  BY <1>22, TypeParts DEF NasOK, Contents, PullCheck, Goto, Mark, rows, flags, nas,
     ghosts
<1>23. ASSUME NEW d \in Devices, PullFetch(d)
      PROVE  NasOK'
  BY <1>23, TypeParts DEF NasOK, Contents, PullFetch, WriteLocal, rows, flags, nas,
     ghosts
<1>24. ASSUME NEW d \in Devices, PullSettle(d)
      PROVE  NasOK'
  BY <1>24, TypeParts DEF NasOK, Contents, PullSettle, Record, Finish, rows, flags,
     nas, ghosts
<1>25. ASSUME NEW d \in Devices, Fails(d)
      PROVE  NasOK'
  BY <1>25, TypeParts DEF NasOK, Contents, Fails, Disturb, PushFails, Finish, Mark,
     rows, flags, nas, ghosts
<1>26. ASSUME NEW d \in Devices, JournalFails(d)
      PROVE  NasOK'
  BY <1>26, TypeParts, JournalledType DEF NasOK, Contents, Behind, JournalFails,
     Disturb, PushFails, Finish, Mark, rows, flags, nas, ghosts
<1>27. ASSUME NEW d \in Devices, Crash(d)
      PROVE  NasOK'
  BY <1>27, TypeParts DEF NasOK, Contents, Crash, Disturb, Finish, rows, flags, nas,
     ghosts
<1>28. CASE BrowseDelete
  BY <1>28, TypeParts, RowTypes DEF NasOK, Contents, Behind, BrowseDelete, Disturb,
     rows, flags, nas, ghosts
<1>29. CASE ExpireTombstone
  BY <1>29, TypeParts, RowTypes DEF NasOK, Contents, ExpireTombstone, rows, flags,
     nas, ghosts
<1>30. CASE UNCHANGED vars
  BY <1>30, TypeParts DEF NasOK, Contents, vars, rows, flags, nas, ghosts
<1> QED BY <1>1, <1>2, <1>3, <1>4, <1>5, <1>6, <1>7, <1>8, <1>9, <1>10, <1>11, <1>12, <1>13,
   <1>14, <1>15, <1>16, <1>17, <1>18, <1>19, <1>20, <1>21, <1>22, <1>23, <1>24, <1>25,
   <1>26, <1>27, <1>28, <1>29, <1>30 DEF Next, PushLeases, PullLeases, Works

\* An operation that only changes its step stays an operation.
LEMMA JobTypes ==
    ASSUME NEW j \in Job
    PROVE  /\ \A x \in Steps : [j EXCEPT !.at = x] \in Job
           /\ \A x \in Steps : [j EXCEPT !.at = x, !.got = TRUE] \in Job
           /\ \A x \in Steps : [j EXCEPT !.at = x, !.cks = FALSE] \in Job
BY DEF Job

\* An operation that goes to its next step, or ends.
LEMMA GotoType ==
    ASSUME TypeOK, NEW d \in Devices
    PROVE  /\ \A x \in Steps : Goto(d, x) => JobOK'
           /\ Finish(d) => JobOK'
           /\ PushFails(d) => JobOK'
           /\ \A x \in Steps : job' = [job EXCEPT ![d].at = x, ![d].got = TRUE] => JobOK'
           /\ \A x \in Steps : job' = [job EXCEPT ![d].at = x, ![d].cks = FALSE] => JobOK'
<1>1. job \in [Devices -> Job] /\ job[d] \in Job
  BY TypeParts DEF JobOK
<1>2. Finish(d) => JobOK'
  BY <1>1, RowTypes DEF Finish, JobOK
<1>3. ASSUME NEW j \in Job, job' = [job EXCEPT ![d] = j] PROVE JobOK'
  BY <1>1, <1>3 DEF JobOK
<1>4. ASSUME NEW x \in Steps
      PROVE  /\ Goto(d, x) => job' = [job EXCEPT ![d] = [job[d] EXCEPT !.at = x]]
             /\ job' = [job EXCEPT ![d].at = x, ![d].got = TRUE]
                  => job' = [job EXCEPT ![d] = [job[d] EXCEPT !.at = x, !.got = TRUE]]
             /\ job' = [job EXCEPT ![d].at = x, ![d].cks = FALSE]
                  => job' = [job EXCEPT ![d] = [job[d] EXCEPT !.at = x, !.cks = FALSE]]
  BY <1>1 DEF Goto
<1>5. ASSUME NEW x \in Steps
      PROVE  /\ [job[d] EXCEPT !.at = x] \in Job
             /\ [job[d] EXCEPT !.at = x, !.got = TRUE] \in Job
             /\ [job[d] EXCEPT !.at = x, !.cks = FALSE] \in Job
  BY <1>1, JobTypes
<1> QED BY <1>2, <1>3, <1>4, <1>5 DEF PushFails

\* No step breaks the type of the running operations.
LEMMA JobStep ==
    ASSUME TypeOK, [Next]_vars
    PROVE  JobOK'
<1>1. ASSUME NEW d \in Devices, NEW v \in Versions, Edit(d, v)
      PROVE  JobOK'
  BY <1>1, TypeParts, RowTypes DEF JobOK, Steps, Edit, rows, flags, nas, ghosts
<1>2. ASSUME NEW d \in Devices, UserDelete(d)
      PROVE  JobOK'
  BY <1>2, TypeParts, RowTypes DEF JobOK, Steps, UserDelete, Disturb, rows, flags,
     nas, ghosts
<1>3. ASSUME NEW d \in Devices, Notice(d)
      PROVE  JobOK'
  BY <1>3, TypeParts, RowTypes DEF JobOK, Steps, Notice, Mark, rows, flags, nas,
     ghosts
<1>4. ASSUME NEW d \in Devices, PushTick(d)
      PROVE  JobOK'
  BY <1>4, TypeParts, RowTypes DEF JobOK, Steps, PushTick, rows, flags, nas, ghosts
<1>5. ASSUME NEW d \in Devices, PushUnstable(d)
      PROVE  JobOK'
  BY <1>5, TypeParts, RowTypes DEF JobOK, Steps, PushUnstable, rows, flags, nas,
     ghosts
<1>6. ASSUME NEW d \in Devices, PullTick(d)
      PROVE  JobOK'
  BY <1>6, TypeParts, RowTypes DEF JobOK, Steps, PullTick, rows, flags, nas, ghosts
<1>7. ASSUME NEW d \in Devices, PushPrepare(d)
      PROVE  JobOK'
  <2> DEFINE j == [job[d] EXCEPT !.op = "push", !.at = "plan",
                                 !.try = local[d] # None /\ base[d].v \notin Versions]
  <2>1. (local[d] # None /\ base[d].v \notin Versions) \in BOOLEAN
    OBVIOUS
  <2>2. j \in Job
    BY <2>1, TypeParts DEF JobOK, Job, Steps
  <2>3. job' = [job EXCEPT ![d] = j]
    BY <1>7, TypeParts DEF PushPrepare, JobOK
  <2> HIDE DEF j
  <2> QED BY <2>2, <2>3, TypeParts DEF JobOK
<1>8. ASSUME NEW d \in Devices, PushPlan(d)
      PROVE  JobOK'
  <2>1. /\ Planned(d) \in Actions /\ StepAfterPlan(d) \in Steps
        /\ local[d] \in Contents /\ Remote.v \in Contents /\ Remote.vc \in Clock
        /\ Observed(d).vc \in Clock
    <3>1. Planned(d) \in Actions
      BY PlannedType DEF Actions
    <3>2. StepAfterPlan(d) \in Steps
      <4>1. job[d].try \in BOOLEAN
        BY TypeParts DEF JobOK, Job
      <4> QED BY <4>1 DEF StepAfterPlan, Steps
    <3> QED BY <3>1, <3>2, TypeParts, RemoteType, ObservedType DEF FilesOK, RemoteStates, Contents
  <2> DEFINE j == [job[d] EXCEPT !.at = StepAfterPlan(d), !.try = FALSE,
                                 !.act = Planned(d), !.lv = local[d],
                                 !.lvc = Observed(d).vc, !.rv = Remote.v, !.rvc = Remote.vc]
  <2>2. j \in Job
    BY <2>1, TypeParts DEF JobOK, Job
  <2>3. job' = [job EXCEPT ![d] = j]
    BY <1>8 DEF PushPlan
  <2> HIDE DEF j
  <2> QED BY <2>2, <2>3, TypeParts DEF JobOK
<1>9. ASSUME NEW d \in Devices, PushYields(d)
      PROVE  JobOK'
  BY <1>9, GotoType DEF Steps, PushYields
<1>10. ASSUME NEW d \in Devices, PushPublish(d)
      PROVE  JobOK'
  BY <1>10, GotoType DEF Steps, PushPublish
<1>11. ASSUME NEW d \in Devices, NEW full \in BOOLEAN, PullSnapshot(d, full)
      PROVE  JobOK'
  <2> DEFINE wide == full \/ NewTombstone(d)
             step == CASE ChecksumPath(d) -> "live"
                       [] ~ChecksumPath(d) /\ (full \/ NewTombstone(d)) -> "sweep"
                       [] OTHER -> "check"
             j == [job[d] EXCEPT !.op = "pull", !.full = wide, !.at = step,
                                 !.cks = ChecksumPath(d), !.rv = rec'.v, !.rvc = rec'.vc]
  <2>1. wide \in BOOLEAN /\ step \in Steps /\ ChecksumPath(d) \in BOOLEAN
    BY DEF NewTombstone, ChecksumPath, Steps
  <2>2. rec'.v \in Contents \cup {Unknown} /\ rec'.vc \in Clock
    BY NasStep, RowTypes DEF NasOK
  <2> HIDE DEF wide, step
  <2>3. j \in Job
    BY <2>1, <2>2, TypeParts DEF JobOK, Job
  <2>4. job' = [job EXCEPT ![d] = j] \/ job' = [job EXCEPT ![d] = Idle]
    BY <1>11 DEF PullSnapshot, Finish, wide, step
  <2> HIDE DEF j
  <2> QED BY <2>3, <2>4, TypeParts, RowTypes DEF JobOK
<1>12. ASSUME NEW d \in Devices, PushStage(d)
      PROVE  JobOK'
  BY <1>12, GotoType DEF Steps, PushStage
<1>13. ASSUME NEW d \in Devices, PushUpload(d)
      PROVE  JobOK'
  BY <1>13, GotoType DEF Steps, PushUpload
<1>14. ASSUME NEW d \in Devices, PushDelete(d)
      PROVE  JobOK'
  BY <1>14, GotoType DEF Steps, PushDelete
<1>15. ASSUME NEW d \in Devices, PushAdopt(d)
      PROVE  JobOK'
  BY <1>15, GotoType DEF Steps, PushAdopt
<1>16. ASSUME NEW d \in Devices, PushApply(d)
      PROVE  JobOK'
  BY <1>16, GotoType DEF Steps, PushApply
<1>17. ASSUME NEW d \in Devices, PushConfirm(d)
      PROVE  JobOK'
  BY <1>17, GotoType DEF Steps, PushConfirm
<1>18. ASSUME NEW d \in Devices, PushUnconfirmed(d)
      PROVE  JobOK'
  BY <1>18, GotoType DEF Steps, PushUnconfirmed
<1>19. ASSUME NEW d \in Devices, PullLive(d)
      PROVE  JobOK'
  BY <1>19, GotoType DEF Steps, PullLive, AfterLive
<1>20. ASSUME NEW d \in Devices, PullCancelled(d)
      PROVE  JobOK'
  BY <1>20, GotoType DEF Steps, PullCancelled
<1>21. ASSUME NEW d \in Devices, PullSweep(d)
      PROVE  JobOK'
  BY <1>21, GotoType DEF Steps, PullSweep
<1>22. ASSUME NEW d \in Devices, PullCheck(d)
      PROVE  JobOK'
  BY <1>22, GotoType DEF Steps, PullCheck
<1>23. ASSUME NEW d \in Devices, PullFetch(d)
      PROVE  JobOK'
  BY <1>23, GotoType DEF Steps, PullFetch
<1>24. ASSUME NEW d \in Devices, PullSettle(d)
      PROVE  JobOK'
  BY <1>24, GotoType DEF Steps, PullSettle
<1>25. ASSUME NEW d \in Devices, Fails(d)
      PROVE  JobOK'
  BY <1>25, GotoType DEF Steps, Fails
<1>26. ASSUME NEW d \in Devices, JournalFails(d)
      PROVE  JobOK'
  BY <1>26, GotoType DEF Steps, JournalFails
<1>27. ASSUME NEW d \in Devices, Crash(d)
      PROVE  JobOK'
  BY <1>27, GotoType DEF Steps, Crash
<1>28. CASE BrowseDelete
  BY <1>28, TypeParts, RowTypes DEF JobOK, Steps, BrowseDelete, Disturb, rows, flags,
     nas, ghosts
<1>29. CASE ExpireTombstone
  BY <1>29, TypeParts, RowTypes DEF JobOK, Steps, ExpireTombstone, rows, flags, nas,
     ghosts
<1>30. CASE UNCHANGED vars
  BY <1>30, TypeParts, RowTypes DEF JobOK, Steps, vars, rows, flags, nas, ghosts
<1> QED BY <1>1, <1>2, <1>3, <1>4, <1>5, <1>6, <1>7, <1>8, <1>9, <1>10, <1>11, <1>12, <1>13,
   <1>14, <1>15, <1>16, <1>17, <1>18, <1>19, <1>20, <1>21, <1>22, <1>23, <1>24, <1>25,
   <1>26, <1>27, <1>28, <1>29, <1>30 DEF Next, PushLeases, PullLeases, Works

\* Both rows of a path that are written together.
LEMMA RecordType ==
    ASSUME TypeOK, NEW d \in Devices, NEW row \in Row, NEW seen \in ObsRow,
           Record(d, row, seen)
    PROVE  base' \in [Devices -> Row] /\ obs' \in [Devices -> ObsRow]
<1>1. base \in [Devices -> Row] /\ obs \in [Devices -> ObsRow]
  BY DEF TypeOK, ObsRow
<1>2. [seen EXCEPT !.vc = row.vc] \in ObsRow
  BY RowTypes DEF ObsRow
<1> QED BY <1>1, <1>2 DEF Record

\* The row that a confirmed push writes is a row: for every operation that
\* reaches the confirmation one of the cases of Authoritative applies.
LEMMA AuthoritativeType ==
    ASSUME TypeOK, JobInv, NEW d \in Devices,
           job[d].at = "confirm" \/ (job[d].at = "transfer" /\ job[d].act = "adopt")
    PROVE  Authoritative(d) \in Row
<1>1. /\ share \in Contents /\ local[d] \in Contents
      /\ job[d].lvc \in Clock /\ job[d].rvc \in Clock
      /\ Observed(d).vc \in Clock /\ Remote.vc \in Clock
  BY RemoteType, ObservedType DEF TypeOK, RemoteStates
<1>2. /\ FirstClock(Remote.vc, job[d].lvc) \in Clock
      /\ FirstClock(IF share # None THEN Remote.vc ELSE NoClock, job[d].rvc) \in Clock
  BY <1>1, ClockTypes DEF FirstClock
<1>3. job[d].act \in {"upload", "conflict_local_wins", "adopt", "conflict_remote_wins",
                      "delete_remote"}
  BY DEF JobInv, JobFits
<1>4. (share \notin SubSecond) \in BOOLEAN /\ None \in Contents
  BY DEF Contents
<1>5. \/ Uploaded(d) /\ local[d] = share
      \/ Uploaded(d) /\ local[d] # share
      \/ ~Uploaded(d) /\ job[d].act = "conflict_remote_wins"
      \/ ~Uploaded(d) /\ job[d].act = "adopt" /\ local[d] = None
      \/ ~Uploaded(d) /\ job[d].act = "delete_remote"
  BY <1>3 DEF Uploaded
<1>6. Uploaded(d) => job[d].act \in {"upload", "conflict_local_wins", "adopt"}
  BY DEF Uploaded
<1>7. Uploaded(d) /\ job[d].act = "adopt" => local[d] # None
  BY DEF Uploaded
<1>8. CASE Uploaded(d) /\ local[d] = share
  <2>1. Authoritative(d) = [v |-> share, vc |-> Observed(d).vc, exact |-> TRUE]
    BY <1>6, <1>7, <1>8 DEF Authoritative
  <2> QED BY <1>1, <2>1, RowTypes
<1>9. CASE Uploaded(d) /\ local[d] # share
  <2>1. Authoritative(d) = [v |-> share, vc |-> FirstClock(Remote.vc, job[d].lvc),
                            exact |-> share \notin SubSecond]
    BY <1>6, <1>7, <1>9 DEF Authoritative
  <2>2. \A x \in BOOLEAN :
          [v |-> share, vc |-> FirstClock(Remote.vc, job[d].lvc), exact |-> x] \in Row
    BY <1>1, <1>2, RowTypes
  <2> QED BY <1>4, <2>1, <2>2, Zenon
<1>10. CASE ~Uploaded(d) /\ job[d].act = "conflict_remote_wins"
  <2>1. Authoritative(d) =
          [v |-> share,
           vc |-> FirstClock(IF share # None THEN Remote.vc ELSE NoClock, job[d].rvc),
           exact |-> share \notin SubSecond]
    BY <1>10 DEF Authoritative
  <2>2. \A x \in BOOLEAN :
          [v |-> share,
           vc |-> FirstClock(IF share # None THEN Remote.vc ELSE NoClock, job[d].rvc),
           exact |-> x] \in Row
    BY <1>1, <1>2, RowTypes
  <2> QED BY <1>4, <2>1, <2>2, Zenon
<1>11. CASE ~Uploaded(d) /\ job[d].act = "adopt" /\ local[d] = None
  <2>1. Authoritative(d) = [v |-> None, vc |-> NoClock, exact |-> TRUE]
    BY <1>11 DEF Authoritative
  <2> QED BY <1>4, <2>1, RowTypes, ClockTypes
<1>12. CASE ~Uploaded(d) /\ job[d].act = "delete_remote"
  <2>1. Authoritative(d) = [v |-> None, vc |-> job[d].lvc, exact |-> TRUE]
    BY <1>12 DEF Authoritative
  <2> QED BY <1>1, <1>4, <2>1, RowTypes
<1> QED BY <1>5, <1>8, <1>9, <1>10, <1>11, <1>12

\* No step breaks the types of the rows of the SQLite stores.  The confirmation
\* of a push needs JobInv: Authoritative has no case for other decisions.
LEMMA RowsStep ==
    ASSUME TypeOK, JobInv, [Next]_vars
    PROVE  RowsOK'
<1>1. ASSUME NEW d \in Devices, NEW v \in Versions, Edit(d, v)
      PROVE  RowsOK'
  BY <1>1, TypeParts DEF RowsOK, Edit, rows, flags, nas, ghosts
<1>2. ASSUME NEW d \in Devices, UserDelete(d)
      PROVE  RowsOK'
  BY <1>2, TypeParts DEF RowsOK, UserDelete, Disturb, rows, flags, nas, ghosts
<1>3. ASSUME NEW d \in Devices, Notice(d)
      PROVE  RowsOK'
  BY <1>3, TypeParts DEF RowsOK, Notice, Mark, rows, flags, nas, ghosts
<1>4. ASSUME NEW d \in Devices, PushTick(d)
      PROVE  RowsOK'
  BY <1>4, TypeParts DEF RowsOK, PushTick, rows, flags, nas, ghosts
<1>5. ASSUME NEW d \in Devices, PushUnstable(d)
      PROVE  RowsOK'
  BY <1>5, TypeParts DEF RowsOK, PushUnstable, rows, flags, nas, ghosts
<1>6. ASSUME NEW d \in Devices, PullTick(d)
      PROVE  RowsOK'
  BY <1>6, TypeParts DEF RowsOK, PullTick, rows, flags, nas, ghosts
<1>7. ASSUME NEW d \in Devices, PushPrepare(d)
      PROVE  RowsOK'
  BY <1>7, TypeParts, ObservedType, RowTypes DEF RowsOK, PushPrepare,
     TakeTransferLock, RetryPayload, rows, flags, nas, ghosts
<1>8. ASSUME NEW d \in Devices, PushPlan(d)
      PROVE  RowsOK'
  BY <1>8, TypeParts, ObservedType DEF RowsOK, PushPlan, KeepLoser, StepAfterPlan,
     rows, flags, nas, ghosts
<1>9. ASSUME NEW d \in Devices, PushYields(d)
      PROVE  RowsOK'
  <2>1. Observed(d) \in ObsRow /\ Remote.vc \in Clock
    BY ObservedType, RemoteType DEF RemoteStates
  <2>2. [v |-> None, vc |-> Remote.vc, exact |-> TRUE] \in Row
    BY <2>1, RowTypes DEF Contents
  <2>3. base' \in [Devices -> Row] /\ obs' \in [Devices -> ObsRow]
    <3>1. CASE local[d] = None /\ base[d].v \in Versions
      BY <1>9, <2>1, <2>2, <3>1, RecordType DEF PushYields
    <3>2. CASE ~(local[d] = None /\ base[d].v \in Versions)
      BY <1>9, <2>1, <3>2, TypeParts DEF PushYields, RowsOK
    <3> QED BY <3>1, <3>2
  <2> QED BY <1>9, <2>3, TypeParts DEF PushYields, RowsOK
<1>10. ASSUME NEW d \in Devices, PushPublish(d)
      PROVE  RowsOK'
  <2>1. /\ job[d].lv \in Contents /\ job[d].lvc \in Clock
        /\ obs[d] \in ObsRow
    BY DEF TypeOK, ObsRow
  <2>2. [v |-> job[d].lv, vc |-> job[d].lvc, exact |-> TRUE] \in Row
    BY <2>1, RowTypes
  <2>3. CASE share = None
    <3>1. base' \in [Devices -> Row] /\ obs' \in [Devices -> ObsRow]
      BY <1>10, <2>1, <2>2, <2>3, RecordType DEF PushPublish
    <3> QED BY <1>10, <2>3, <3>1, TypeParts DEF PushPublish, RowsOK
  <2>4. CASE share # None
    BY <1>10, <2>4, TypeParts DEF PushPublish, RowsOK
  <2> QED BY <2>3, <2>4
<1>11. ASSUME NEW d \in Devices, NEW full \in BOOLEAN, PullSnapshot(d, full)
      PROVE  RowsOK'
  BY <1>11, TypeParts, RowTypes DEF RowsOK, PullSnapshot, TakeTransferLock,
     RetryPayload, Finish, Mark, rows, flags, nas, ghosts
<1>12. ASSUME NEW d \in Devices, PushStage(d)
      PROVE  RowsOK'
  BY <1>12, TypeParts, ObservedType DEF RowsOK, PushStage, PushFails, Goto, Finish,
     Mark, rows, flags, nas, ghosts
<1>13. ASSUME NEW d \in Devices, PushUpload(d)
      PROVE  RowsOK'
  BY <1>13, TypeParts DEF RowsOK, PushUpload, PushFails, Goto, Finish, Mark, rows,
     flags, nas, ghosts
<1>14. ASSUME NEW d \in Devices, PushDelete(d)
      PROVE  RowsOK'
  BY <1>14, TypeParts DEF RowsOK, PushDelete, Goto, rows, flags, nas, ghosts
<1>15. ASSUME NEW d \in Devices, PushAdopt(d)
      PROVE  RowsOK'
  BY <1>15, TypeParts, ObservedType DEF RowsOK, PushAdopt, PushFails, Goto, Finish,
     Mark, rows, flags, nas, ghosts
<1>16. ASSUME NEW d \in Devices, PushApply(d)
      PROVE  RowsOK'
  BY <1>16, TypeParts DEF RowsOK, PushApply, WriteLocal, Goto, rows, flags, nas,
     ghosts
<1>17. ASSUME NEW d \in Devices, PushConfirm(d)
      PROVE  RowsOK'
  <2>1. Authoritative(d) \in Row /\ Observed(d) \in ObsRow
    BY <1>17, AuthoritativeType, ObservedType DEF PushConfirm
  <2>2. base' \in [Devices -> Row] /\ obs' \in [Devices -> ObsRow]
    BY <1>17, <2>1, RecordType DEF PushConfirm
  <2>3. pending' \in [Devices -> BOOLEAN]
    <3>1. (pending[d] /\ ~Confirmed(d)) \in BOOLEAN
      OBVIOUS
    <3> QED BY <1>17, <3>1, TypeParts DEF PushConfirm, RowsOK
  <2> QED BY <1>17, <2>2, <2>3, TypeParts DEF PushConfirm, RowsOK
<1>18. ASSUME NEW d \in Devices, PushUnconfirmed(d)
      PROVE  RowsOK'
  BY <1>18, TypeParts DEF RowsOK, PushUnconfirmed, PushFails, Finish, Mark, rows,
     flags, nas, ghosts
<1>19. ASSUME NEW d \in Devices, PullLive(d)
      PROVE  RowsOK'
  BY <1>19, TypeParts DEF RowsOK, PullLive, Goto, AfterLive, rows, flags, nas, ghosts
<1>20. ASSUME NEW d \in Devices, PullCancelled(d)
      PROVE  RowsOK'
  BY <1>20, TypeParts DEF RowsOK, PullCancelled, Finish, rows, flags, nas, ghosts
<1>21. ASSUME NEW d \in Devices, PullSweep(d)
      PROVE  RowsOK'
  BY <1>21, TypeParts DEF RowsOK, PullSweep, WriteLocal, Goto, rows, flags, nas,
     ghosts
<1>22. ASSUME NEW d \in Devices, PullCheck(d)
      PROVE  RowsOK'
  BY <1>22, TypeParts DEF RowsOK, PullCheck, Goto, Mark, rows, flags, nas, ghosts
<1>23. ASSUME NEW d \in Devices, PullFetch(d)
      PROVE  RowsOK'
  BY <1>23, TypeParts DEF RowsOK, PullFetch, WriteLocal, rows, flags, nas, ghosts
<1>24. ASSUME NEW d \in Devices, PullSettle(d)
      PROVE  RowsOK'
  <2>1. share \in Contents /\ Remote.vc \in Clock /\ obs[d] \in ObsRow
    BY RemoteType DEF TypeOK, RemoteStates, ObsRow
  <2>2. (local[d] = share \/ share \notin SubSecond) \in BOOLEAN
    OBVIOUS
  <2>3. [v |-> share, vc |-> Remote.vc,
         exact |-> local[d] = share \/ share \notin SubSecond] \in Row
    BY <2>1, <2>2, RowTypes
  <2>4. base' \in [Devices -> Row] /\ obs' \in [Devices -> ObsRow]
    <3>1. CASE job[d].got
      BY <1>24, <2>1, <2>3, <3>1, RecordType DEF PullSettle
    <3>2. CASE ~job[d].got
      BY <1>24, <3>2, TypeParts DEF PullSettle, RowsOK
    <3> QED BY <3>1, <3>2
  <2> QED BY <1>24, <2>4, TypeParts DEF PullSettle, RowsOK
<1>25. ASSUME NEW d \in Devices, Fails(d)
      PROVE  RowsOK'
  BY <1>25, TypeParts DEF RowsOK, Fails, Disturb, PushFails, Finish, Mark, rows,
     flags, nas, ghosts
<1>26. ASSUME NEW d \in Devices, JournalFails(d)
      PROVE  RowsOK'
  <2>1. PICK applied \in BOOLEAN :
            payload' = [payload EXCEPT ![d] = [rec |-> Journalled(d), applied |-> applied]]
    BY <1>26 DEF JournalFails
  <2>2. [rec |-> Journalled(d), applied |-> applied] \in Payload
    BY JournalledType DEF Payload
  <2> QED BY <1>26, <2>1, <2>2, TypeParts DEF JournalFails, RowsOK
<1>27. ASSUME NEW d \in Devices, Crash(d)
      PROVE  RowsOK'
  BY <1>27, TypeParts DEF RowsOK, Crash, Disturb, Finish, rows, flags, nas, ghosts
<1>28. CASE BrowseDelete
  BY <1>28, TypeParts DEF RowsOK, BrowseDelete, Disturb, rows, flags, nas, ghosts
<1>29. CASE ExpireTombstone
  BY <1>29, TypeParts DEF RowsOK, ExpireTombstone, rows, flags, nas, ghosts
<1>30. CASE UNCHANGED vars
  BY <1>30, TypeParts DEF RowsOK, vars, rows, flags, nas, ghosts
<1> QED BY <1>1, <1>2, <1>3, <1>4, <1>5, <1>6, <1>7, <1>8, <1>9, <1>10, <1>11, <1>12, <1>13,
   <1>14, <1>15, <1>16, <1>17, <1>18, <1>19, <1>20, <1>21, <1>22, <1>23, <1>24, <1>25,
   <1>26, <1>27, <1>28, <1>29, <1>30 DEF Next, PushLeases, PullLeases, Works

\* The operation of d goes on, with the same plan.
GoesOn(d, x) ==
    /\ job'[d].at = x /\ job'[d].op = job[d].op /\ job'[d].act = job[d].act
    /\ job'[d].lv = job[d].lv /\ job'[d].rv = job[d].rv

OthersWait(d) == \A e \in Devices \ {d} : job'[e] = job[e]

\* What the steps of an operation do to its record, and to no other PC.
LEMMA GotoDoes ==
    ASSUME TypeOK, NEW d \in Devices
    PROVE  /\ \A x \in Steps : Goto(d, x) =>
                GoesOn(d, x) /\ OthersWait(d) /\ job'[d].got = job[d].got
           /\ Finish(d) => job'[d] = Idle /\ OthersWait(d)
           /\ \A x \in Steps : job' = [job EXCEPT ![d].at = x, ![d].got = TRUE] =>
                GoesOn(d, x) /\ OthersWait(d) /\ job'[d].got
           /\ \A x \in Steps : job' = [job EXCEPT ![d].at = x, ![d].cks = FALSE] =>
                GoesOn(d, x) /\ OthersWait(d) /\ job'[d].got = job[d].got
<1>1. job \in [Devices -> Job] /\ job[d] \in Job
  BY TypeParts DEF JobOK
<1>2. ASSUME NEW x \in Steps
      PROVE  /\ Goto(d, x) => job' = [job EXCEPT ![d] = [job[d] EXCEPT !.at = x]]
             /\ job' = [job EXCEPT ![d].at = x, ![d].got = TRUE]
                  => job' = [job EXCEPT ![d] = [job[d] EXCEPT !.at = x, !.got = TRUE]]
             /\ job' = [job EXCEPT ![d].at = x, ![d].cks = FALSE]
                  => job' = [job EXCEPT ![d] = [job[d] EXCEPT !.at = x, !.cks = FALSE]]
  BY <1>1 DEF Goto
<1>3. ASSUME NEW j, job' = [job EXCEPT ![d] = j] PROVE job'[d] = j /\ OthersWait(d)
  BY <1>1, <1>3 DEF OthersWait
<1>4. ASSUME NEW x \in Steps
      PROVE  LET j == [job[d] EXCEPT !.at = x]
             IN  /\ j.at = x /\ j.op = job[d].op /\ j.act = job[d].act
                 /\ j.lv = job[d].lv /\ j.rv = job[d].rv /\ j.got = job[d].got
  BY <1>1 DEF Job
<1>5. ASSUME NEW x \in Steps
      PROVE  LET j == [job[d] EXCEPT !.at = x, !.cks = FALSE]
             IN  /\ j.at = x /\ j.op = job[d].op /\ j.act = job[d].act
                 /\ j.lv = job[d].lv /\ j.rv = job[d].rv /\ j.got = job[d].got
  BY <1>1 DEF Job
<1>6. ASSUME NEW x \in Steps
      PROVE  LET j == [job[d] EXCEPT !.at = x, !.got = TRUE]
             IN  /\ j.at = x /\ j.op = job[d].op /\ j.act = job[d].act
                 /\ j.lv = job[d].lv /\ j.rv = job[d].rv /\ j.got
  BY <1>1 DEF Job
<1>7. ASSUME NEW x \in Steps, Goto(d, x)
      PROVE  GoesOn(d, x) /\ OthersWait(d) /\ job'[d].got = job[d].got
  <2> DEFINE j == [job[d] EXCEPT !.at = x]
  <2>1. job' = [job EXCEPT ![d] = j]
    BY <1>2, <1>7
  <2>2. job'[d] = j /\ OthersWait(d)
    BY <1>3, <2>1
  <2> QED BY <1>4, <2>2 DEF GoesOn
<1>8. ASSUME NEW x \in Steps, job' = [job EXCEPT ![d].at = x, ![d].got = TRUE]
      PROVE  GoesOn(d, x) /\ OthersWait(d) /\ job'[d].got
  <2> DEFINE j == [job[d] EXCEPT !.at = x, !.got = TRUE]
  <2>1. job' = [job EXCEPT ![d] = j]
    BY <1>2, <1>8
  <2>2. job'[d] = j /\ OthersWait(d)
    BY <1>3, <2>1
  <2> QED BY <1>6, <2>2 DEF GoesOn
<1>9. ASSUME NEW x \in Steps, job' = [job EXCEPT ![d].at = x, ![d].cks = FALSE]
      PROVE  GoesOn(d, x) /\ OthersWait(d) /\ job'[d].got = job[d].got
  <2> DEFINE j == [job[d] EXCEPT !.at = x, !.cks = FALSE]
  <2>1. job' = [job EXCEPT ![d] = j]
    BY <1>2, <1>9
  <2>2. job'[d] = j /\ OthersWait(d)
    BY <1>3, <2>1
  <2> QED BY <1>5, <2>2 DEF GoesOn
<1>10. Finish(d) => job'[d] = Idle /\ OthersWait(d)
  BY <1>3 DEF Finish
<1> QED BY <1>7, <1>8, <1>9, <1>10

\* Nobody else runs with the lease that d has or that nobody has.
LEMMA JobKept ==
    ASSUME TypeOK, JobInv, NEW d \in Devices, OthersWait(d),
           lease' = lease \/ lease \in {None, d},
           JobFits(d, job'[d], lease')
    PROVE  JobInv'
<1>1. ASSUME NEW e \in Devices, e # d
      PROVE  JobFits(e, job'[e], lease')
  BY <1>1, PathAssumption DEF JobInv, JobFits, OthersWait
<1> QED BY <1>1 DEF JobInv

\* The idle operation presupposes nothing.
LEMMA IdleIs ==
    /\ Idle.at = "idle" /\ Idle.op = "none" /\ Idle.act = "nothing" /\ ~Idle.got
    /\ \A d, l : JobFits(d, Idle, l)
BY DEF Idle, JobFits, Leased

\* An operation that ends or fails leaves the lease to others.
LEMMA EndFits ==
    ASSUME TypeOK, JobInv, NEW d \in Devices,
           PushFails(d) \/ (Finish(d) /\ lease' \in {lease, None}
                            /\ (lease' = lease \/ lease \in {None, d}))
    PROVE  JobInv' /\ job'[d] = Idle /\ OthersWait(d)
<1>1. job'[d] = Idle /\ OthersWait(d)
  BY GotoDoes DEF PushFails
<1>2. lease' = lease \/ lease \in {None, d}
  BY DEF PushFails
<1> QED BY <1>1, <1>2, IdleIs, JobKept

\* An operation that goes on: from a step with the lease to another one.
LEMMA GoOnFits ==
    ASSUME TypeOK, JobInv, NEW d \in Devices, NEW x \in Steps,
           GoesOn(d, x), OthersWait(d), lease' = lease, job[d].at # "idle",
           x \in Leased => job[d].at \in Leased,
           x # "transfer",
           x = "apply" => job[d].at = "adopt",
           x # "adopt",
           x = "confirm" => job[d].act \in {"upload", "conflict_local_wins", "delete_remote"}
                              \/ job[d].at = "apply",
           x # "stage",
           x = "publish" => job[d].at = "stage"
    PROVE  JobInv'
<1>1. JobFits(d, job[d], lease)
  BY DEF JobInv
<1>2. job[d].op # "none"
  BY <1>1, IdleIs DEF JobFits
<1>3. JobFits(d, job'[d], lease')
  BY <1>1, <1>2 DEF JobFits, GoesOn
<1> QED BY <1>3, JobKept

\* Every operation finds what it presupposes: a step under the lease is taken
\* with the lease, so there is one such operation at most, and a step of a push
\* is of a decision that leads to it.
LEMMA JobFitsStep ==
    ASSUME TypeOK, JobInv, [Next]_vars
    PROVE  JobInv'
<1>t. job \in [Devices -> Job] /\ \A d \in Devices : job[d] \in Job
  BY TypeParts DEF JobOK
<1>f. \A d \in Devices : JobFits(d, job[d], lease)
  BY DEF JobInv
<1>1. ASSUME NEW d \in Devices, NEW v \in Versions, Edit(d, v)
      PROVE  JobInv'
  BY <1>1 DEF JobInv, Edit, rows, flags, nas, ghosts
<1>2. ASSUME NEW d \in Devices, UserDelete(d)
      PROVE  JobInv'
  BY <1>2 DEF JobInv, UserDelete, Disturb, rows, flags, nas, ghosts
<1>3. ASSUME NEW d \in Devices, Notice(d)
      PROVE  JobInv'
  BY <1>3 DEF JobInv, Notice, Mark, rows, flags, nas, ghosts
<1>4. ASSUME NEW d \in Devices, PushTick(d)
      PROVE  JobInv'
  BY <1>4 DEF JobInv, PushTick, rows, flags, nas, ghosts
<1>5. ASSUME NEW d \in Devices, PushUnstable(d)
      PROVE  JobInv'
  BY <1>5 DEF JobInv, PushUnstable, rows, flags, nas, ghosts
<1>6. ASSUME NEW d \in Devices, PullTick(d)
      PROVE  JobInv'
  BY <1>6 DEF JobInv, PullTick, rows, flags, nas, ghosts
<1>7. ASSUME NEW d \in Devices, PushPrepare(d)
      PROVE  JobInv'
  <2> DEFINE j == [job[d] EXCEPT !.op = "push", !.at = "plan",
                                 !.try = local[d] # None /\ base[d].v \notin Versions]
  <2>1. job' = [job EXCEPT ![d] = j]
    BY <1>7, <1>t DEF PushPrepare
  <2>2. j.op = "push" /\ j.at = "plan"
    BY <1>t DEF Job
  <2>3. JobFits(d, j, lease)
    BY <2>2 DEF JobFits, Leased
  <2> HIDE DEF j
  <2> QED BY <1>7, <2>1, <2>3, <1>t, JobKept DEF OthersWait, PushPrepare
<1>8. ASSUME NEW d \in Devices, PushPlan(d)
      PROVE  JobInv'
  <2> DEFINE j == [job[d] EXCEPT !.at = StepAfterPlan(d), !.try = FALSE,
                                 !.act = Planned(d), !.lv = local[d],
                                 !.lvc = Observed(d).vc, !.rv = Remote.v, !.rvc = Remote.vc]
  <2>1. job' = [job EXCEPT ![d] = j] /\ job[d].at = "plan"
    BY <1>8 DEF PushPlan
  <2>2. j.op = job[d].op /\ j.at = StepAfterPlan(d) /\ j.act = Planned(d) /\ j.lv = local[d]
    BY <1>t DEF Job
  <2>3. j.op # "none"
    BY <1>f, <2>1, <2>2, IdleIs DEF JobFits
  <2>4. CASE job[d].try
    <3>1. j.at \in {"stage", "plan"} /\ (j.at = "stage" => j.act = "upload")
      BY <2>2, <2>4 DEF StepAfterPlan
    <3> HIDE DEF j
    <3>2. JobFits(d, j, lease')
      BY <2>2, <2>3, <3>1, PlannedType DEF JobFits, Leased
    <3> QED BY <1>8, <2>1, <3>2, <1>t, JobKept DEF OthersWait, PushPlan
  <2>5. CASE ~job[d].try
    <3>1. j.at = IF j.act = "conflict_remote_wins" THEN "adopt" ELSE "transfer"
      BY <2>2, <2>5 DEF StepAfterPlan
    <3> HIDE DEF j
    <3>2. lease' = d /\ lease = None /\ j.act \notin {"nothing", "remote_wins"}
      BY <1>8, <2>2, <2>5 DEF PushPlan
    <3>3. JobFits(d, j, lease')
      BY <2>2, <2>3, <3>1, <3>2, PlannedType DEF JobFits, Leased
    <3> QED BY <2>1, <3>2, <3>3, <1>t, JobKept DEF OthersWait
  <2> QED BY <2>4, <2>5
<1>9. ASSUME NEW d \in Devices, PushYields(d)
      PROVE  JobInv'
  BY <1>9, <1>f, EndFits DEF PushYields
<1>10. ASSUME NEW d \in Devices, PushPublish(d)
      PROVE  JobInv'
  BY <1>10, <1>f, EndFits DEF PushPublish
<1>11. ASSUME NEW d \in Devices, NEW full \in BOOLEAN, PullSnapshot(d, full)
      PROVE  JobInv'
  <2> DEFINE wide == full \/ NewTombstone(d)
             step == CASE ChecksumPath(d) -> "live"
                       [] ~ChecksumPath(d) /\ (full \/ NewTombstone(d)) -> "sweep"
                       [] OTHER -> "check"
             j == [job[d] EXCEPT !.op = "pull", !.full = wide, !.at = step,
                                 !.cks = ChecksumPath(d), !.rv = rec'.v, !.rvc = rec'.vc]
  <2>1. wide \in BOOLEAN /\ step \in Steps /\ ChecksumPath(d) \in BOOLEAN
    BY DEF NewTombstone, ChecksumPath, Steps
  <2>2. rec'.v \in Contents \cup {Unknown} /\ rec'.vc \in Clock
    BY NasStep, RowTypes DEF NasOK
  <2> HIDE DEF wide, step
  <2>3. j \in Job
    BY <2>1, <2>2, TypeParts DEF JobOK, Job
  <2>4. job' = [job EXCEPT ![d] = j] \/ job' = [job EXCEPT ![d] = Idle]
    BY <1>11 DEF PullSnapshot, Finish, wide, step
  <2>5. CASE job' = [job EXCEPT ![d] = Idle] /\ lease' = lease
    BY <2>5, <1>t, JobKept, IdleIs DEF OthersWait
  <2>6. CASE job' = [job EXCEPT ![d] = j] /\ lease' = d /\ lease = None
    <3>1. j.op = "pull" /\ j.at = step
      BY <1>t DEF Job
    <3>2. step \in {"live", "sweep", "check"}
      BY DEF step
    <3>3. JobFits(d, j, d)
      BY <3>1, <3>2 DEF JobFits, Leased
    <3> HIDE DEF j
    <3> QED BY <2>6, <3>3, <1>t, JobKept DEF OthersWait
  <2> QED BY <1>11, <2>5, <2>6 DEF PullSnapshot, TakeTransferLock, Finish, wide, step
<1>12. ASSUME NEW d \in Devices, PushStage(d)
      PROVE  JobInv'
  <2>1. CASE PushFails(d)
    BY <2>1, EndFits
  <2>2. CASE Goto(d, "publish") /\ UNCHANGED <<lease, marks>>
    <3>1. GoesOn(d, "publish") /\ OthersWait(d)
      BY <2>2, GotoDoes DEF Steps
    <3> QED BY <1>12, <2>2, <3>1, GoOnFits DEF Steps, Leased, PushStage
  <2> QED BY <1>12, <2>1, <2>2 DEF PushStage
<1>13. ASSUME NEW d \in Devices, PushUpload(d)
      PROVE  JobInv'
  <2>1. CASE PushFails(d)
    BY <2>1, EndFits
  <2>2. CASE Goto(d, "confirm") /\ UNCHANGED <<lease, marks>>
    <3>1. GoesOn(d, "confirm") /\ OthersWait(d)
      BY <2>2, GotoDoes DEF Steps
    <3> QED BY <1>13, <2>2, <3>1, GoOnFits DEF Steps, Leased, PushUpload
  <2> QED BY <1>13, <2>1, <2>2 DEF PushUpload
<1>14. ASSUME NEW d \in Devices, PushDelete(d)
      PROVE  JobInv'
  <2>1. GoesOn(d, "confirm") /\ OthersWait(d)
    BY <1>14, GotoDoes DEF Steps, PushDelete
  <2> QED BY <1>14, <2>1, GoOnFits DEF Steps, Leased, PushDelete
<1>15. ASSUME NEW d \in Devices, PushAdopt(d)
      PROVE  JobInv'
  <2>1. CASE PushFails(d)
    BY <2>1, EndFits
  <2>2. CASE Goto(d, "apply") /\ UNCHANGED <<lease, marks>>
    <3>1. GoesOn(d, "apply") /\ OthersWait(d)
      BY <2>2, GotoDoes DEF Steps
    <3> QED BY <1>15, <2>2, <3>1, GoOnFits DEF Steps, Leased, PushAdopt
  <2> QED BY <1>15, <2>1, <2>2 DEF PushAdopt
<1>16. ASSUME NEW d \in Devices, PushApply(d)
      PROVE  JobInv'
  <2>1. GoesOn(d, "confirm") /\ OthersWait(d)
    BY <1>16, GotoDoes DEF Steps, PushApply
  <2> QED BY <1>16, <2>1, GoOnFits DEF Steps, Leased, PushApply
<1>17. ASSUME NEW d \in Devices, PushConfirm(d)
      PROVE  JobInv'
  BY <1>17, <1>f, EndFits DEF PushConfirm, JobFits, Leased
<1>18. ASSUME NEW d \in Devices, PushUnconfirmed(d)
      PROVE  JobInv'
  BY <1>18, <1>f, EndFits DEF PushUnconfirmed
<1>19. ASSUME NEW d \in Devices, PullLive(d)
      PROVE  JobInv'
  <2>1. GoesOn(d, AfterLive(d)) /\ OthersWait(d)
    BY <1>19, GotoDoes DEF Steps, PullLive, AfterLive
  <2> QED BY <1>19, <2>1, GoOnFits DEF Steps, Leased, PullLive, AfterLive
<1>20. ASSUME NEW d \in Devices, PullCancelled(d)
      PROVE  JobInv'
  BY <1>20, <1>f, EndFits DEF PullCancelled, JobFits, Leased
<1>21. ASSUME NEW d \in Devices, PullSweep(d)
      PROVE  JobInv'
  <2>1. GoesOn(d, "check") /\ OthersWait(d)
    BY <1>21, GotoDoes DEF Steps, PullSweep
  <2> QED BY <1>21, <2>1, GoOnFits DEF Steps, Leased, PullSweep
<1>22. ASSUME NEW d \in Devices, PullCheck(d)
      PROVE  JobInv'
  <2>1. OthersWait(d) /\ (GoesOn(d, "settle") \/ GoesOn(d, "fetch"))
    BY <1>22, GotoDoes DEF Steps, PullCheck
  <2> QED BY <1>22, <2>1, GoOnFits DEF Steps, Leased, PullCheck
<1>23. ASSUME NEW d \in Devices, PullFetch(d)
      PROVE  JobInv'
  <2>1. GoesOn(d, "settle") /\ OthersWait(d)
    BY <1>23, GotoDoes DEF Steps, PullFetch
  <2> QED BY <1>23, <2>1, GoOnFits DEF Steps, Leased, PullFetch
<1>24. ASSUME NEW d \in Devices, PullSettle(d)
      PROVE  JobInv'
  BY <1>24, <1>f, EndFits DEF PullSettle, JobFits, Leased
<1>25. ASSUME NEW d \in Devices, Fails(d)
      PROVE  JobInv'
  BY <1>25, <1>f, EndFits DEF Fails
<1>26. ASSUME NEW d \in Devices, JournalFails(d)
      PROVE  JobInv'
  BY <1>26, <1>f, EndFits DEF JournalFails
<1>27. ASSUME NEW d \in Devices, Crash(d)
      PROVE  JobInv'
  BY <1>27, <1>f, EndFits DEF Crash
<1>28. CASE BrowseDelete
  BY <1>28 DEF JobInv, BrowseDelete, Disturb, rows, flags, nas, ghosts
<1>29. CASE ExpireTombstone
  BY <1>29 DEF JobInv, ExpireTombstone, rows, flags, nas, ghosts
<1>30. CASE UNCHANGED vars
  BY <1>30 DEF JobInv, vars, rows, flags, nas, ghosts
<1> QED BY <1>1, <1>2, <1>3, <1>4, <1>5, <1>6, <1>7, <1>8, <1>9, <1>10, <1>11, <1>12, <1>13,
   <1>14, <1>15, <1>16, <1>17, <1>18, <1>19, <1>20, <1>21, <1>22, <1>23, <1>24, <1>25,
   <1>26, <1>27, <1>28, <1>29, <1>30 DEF Next, PushLeases, PullLeases, Works

-----------------------------------------------------------------------------
\* The history of the versions.

\* Who derives from whom: a version is among its own ancestors, ancestry is
\* transitive and has no cycle, and what was deleted took its ancestors along.
HistoryInv ==
    /\ \A v \in Versions : hist[v] # {} => v \in hist[v]
    /\ \A v \in Versions : \A w \in hist[v] : hist[w] # {} /\ hist[w] \subseteq hist[v]
    /\ \A v \in Versions : \A w \in hist[v] : v \in hist[w] => v = w
    /\ \A v \in dropped : hist[v] # {} /\ hist[v] \subseteq dropped
    /\ \A v \in outranked : hist[v] # {} /\ hist[v] \subseteq outranked

\* Whatever is anywhere was written by somebody.
Written(c) == c \in Versions => hist[c] # {}

WrittenInv ==
    /\ Written(share)
    /\ \A c \in copies : Written(c)
    /\ \A d \in Devices :
         /\ Written(local[d]) /\ Written(base[d].v) /\ Written(job[d].lv)
         /\ \A c \in ltrash[d] : Written(c)

\* The NAS can do without version c, or has what derives from it.
Gone(c) == c \in dropped \cup outranked \/ \E x \in copies : c \in hist[x]
OnShare(c) == share # None /\ c \in hist[share]

\* A version of a base row was on the NAS.  Either it still is, or what took its
\* place derives from it, or it is superseded; for the PC itself it is
\* superseded even when the NAS has got it back.
BaseFits(d) ==
    base[d].v \in Versions =>
        /\ Gone(base[d].v) \/ OnShare(base[d].v)
        /\ Superseded(d, base[d].v) \/ (share # base[d].v /\ OnShare(base[d].v))

\* Under the lease: what a push overwrites, what an operation has put into its
\* base or into the local folder.
ShareFits(d) ==
    /\ share # None
    /\ \/ job[d].at = "confirm"
       \/ job[d].at = "transfer" /\ job[d].act # "delete_remote"
       \/ job[d].at \in {"live", "sweep", "check", "fetch", "settle"} /\ job[d].got
    => Superseded(d, share)

DeleteFits(d) ==
    /\ job[d].at = "transfer" /\ job[d].act = "delete_remote" /\ ~ByClockAlone(d)
    /\ share # None
    => Gone(share)

\* Outside the lease: the staged file.
PublishFits(d) == job[d].at = "publish" => Superseded(d, job[d].lv)

Fits(d) == BaseFits(d) /\ ShareFits(d) /\ DeleteFits(d) /\ PublishFits(d)

CoverInv == \A d \in Devices : Fits(d)

PathInv == TypeOK /\ JobInv /\ HistoryInv /\ WrittenInv /\ CoverInv

\* History only grows.
Grown ==
    /\ \A v \in Versions : hist[v] # {} => hist'[v] = hist[v]
    /\ dropped \subseteq dropped' /\ outranked \subseteq outranked' /\ copies \subseteq copies'

\* The steps that write the history, the copies.
HistorySteps ==
    \/ UNCHANGED <<hist, dropped, outranked, copies>>
    \/ \E d \in Devices : \/ \E v \in Versions : Edit(d, v)
                          \/ UserDelete(d) \/ PushPlan(d) \/ PushDelete(d)
    \/ BrowseDelete

\* The other steps leave the history alone.
LEMMA HistoryStep ==
    ASSUME [Next]_vars
    PROVE  HistorySteps
<1>1. ASSUME NEW d \in Devices, NEW v \in Versions, Edit(d, v) PROVE HistorySteps
  BY <1>1 DEF HistorySteps
<1>2. ASSUME NEW d \in Devices, UserDelete(d) PROVE HistorySteps
  BY <1>2 DEF HistorySteps
<1>3. ASSUME NEW d \in Devices, Notice(d) PROVE HistorySteps
  BY <1>3 DEF HistorySteps, Notice, rows, flags, nas, ghosts
<1>4. ASSUME NEW d \in Devices, PushTick(d) PROVE HistorySteps
  BY <1>4 DEF HistorySteps, PushTick, rows, flags, nas, ghosts
<1>5. ASSUME NEW d \in Devices, PushUnstable(d) PROVE HistorySteps
  BY <1>5 DEF HistorySteps, PushUnstable, rows, flags, nas, ghosts
<1>6. ASSUME NEW d \in Devices, PullTick(d) PROVE HistorySteps
  BY <1>6 DEF HistorySteps, PullTick, rows, flags, nas, ghosts
<1>7. ASSUME NEW d \in Devices, PushPrepare(d) PROVE HistorySteps
  BY <1>7 DEF HistorySteps, PushPrepare, TakeTransferLock, rows, flags, nas, ghosts
<1>8. ASSUME NEW d \in Devices, PushPlan(d) PROVE HistorySteps
  BY <1>8 DEF HistorySteps
<1>9. ASSUME NEW d \in Devices, PushYields(d) PROVE HistorySteps
  BY <1>9 DEF HistorySteps, PushYields, rows, flags, nas, ghosts
<1>10. ASSUME NEW d \in Devices, PushPublish(d) PROVE HistorySteps
  BY <1>10 DEF HistorySteps, PushPublish, rows, flags, nas, ghosts
<1>11. ASSUME NEW d \in Devices, NEW full \in BOOLEAN, PullSnapshot(d, full)
      PROVE  HistorySteps
  BY <1>11 DEF HistorySteps, PullSnapshot, TakeTransferLock, rows, flags, nas, ghosts
<1>12. ASSUME NEW d \in Devices, PushStage(d) PROVE HistorySteps
  BY <1>12 DEF HistorySteps, PushStage, rows, flags, nas, ghosts
<1>13. ASSUME NEW d \in Devices, PushUpload(d) PROVE HistorySteps
  BY <1>13 DEF HistorySteps, PushUpload, rows, flags, nas, ghosts
<1>14. ASSUME NEW d \in Devices, PushDelete(d) PROVE HistorySteps
  BY <1>14 DEF HistorySteps
<1>15. ASSUME NEW d \in Devices, PushAdopt(d) PROVE HistorySteps
  BY <1>15 DEF HistorySteps, PushAdopt, rows, flags, nas, ghosts
<1>16. ASSUME NEW d \in Devices, PushApply(d) PROVE HistorySteps
  BY <1>16 DEF HistorySteps, PushApply, rows, flags, nas, ghosts
<1>17. ASSUME NEW d \in Devices, PushConfirm(d) PROVE HistorySteps
  BY <1>17 DEF HistorySteps, PushConfirm, rows, flags, nas, ghosts
<1>18. ASSUME NEW d \in Devices, PushUnconfirmed(d) PROVE HistorySteps
  BY <1>18 DEF HistorySteps, PushUnconfirmed, rows, flags, nas, ghosts
<1>19. ASSUME NEW d \in Devices, PullLive(d) PROVE HistorySteps
  BY <1>19 DEF HistorySteps, PullLive, rows, flags, nas, ghosts
<1>20. ASSUME NEW d \in Devices, PullCancelled(d) PROVE HistorySteps
  BY <1>20 DEF HistorySteps, PullCancelled, rows, flags, nas, ghosts
<1>21. ASSUME NEW d \in Devices, PullSweep(d) PROVE HistorySteps
  BY <1>21 DEF HistorySteps, PullSweep, rows, flags, nas, ghosts
<1>22. ASSUME NEW d \in Devices, PullCheck(d) PROVE HistorySteps
  BY <1>22 DEF HistorySteps, PullCheck, rows, flags, nas, ghosts
<1>23. ASSUME NEW d \in Devices, PullFetch(d) PROVE HistorySteps
  BY <1>23 DEF HistorySteps, PullFetch, rows, flags, nas, ghosts
<1>24. ASSUME NEW d \in Devices, PullSettle(d) PROVE HistorySteps
  BY <1>24 DEF HistorySteps, PullSettle, rows, flags, nas, ghosts
<1>25. ASSUME NEW d \in Devices, Fails(d) PROVE HistorySteps
  BY <1>25 DEF HistorySteps, Fails, rows, flags, nas, ghosts
<1>26. ASSUME NEW d \in Devices, JournalFails(d) PROVE HistorySteps
  BY <1>26 DEF HistorySteps, JournalFails, rows, flags, nas, ghosts
<1>27. ASSUME NEW d \in Devices, Crash(d) PROVE HistorySteps
  BY <1>27 DEF HistorySteps, Crash, rows, flags, nas, ghosts
<1>28. CASE BrowseDelete
  BY <1>28 DEF HistorySteps
<1>29. CASE ExpireTombstone
  BY <1>29 DEF HistorySteps, ExpireTombstone, rows, flags, nas, ghosts
<1>30. CASE UNCHANGED vars
  BY <1>30 DEF HistorySteps, vars, rows, flags, nas, ghosts
<1> QED BY <1>1, <1>2, <1>3, <1>4, <1>5, <1>6, <1>7, <1>8, <1>9, <1>10, <1>11, <1>12, <1>13,
   <1>14, <1>15, <1>16, <1>17, <1>18, <1>19, <1>20, <1>21, <1>22, <1>23, <1>24, <1>25,
   <1>26, <1>27, <1>28, <1>29, <1>30 DEF Next, PushLeases, PullLeases, Works

\* The steps that write the file on the NAS.
ShareSteps ==
    \/ share' = share
    \/ \E d \in Devices : PushPublish(d) \/ PushUpload(d) \/ PushDelete(d)
    \/ BrowseDelete

\* The other steps leave the file of the NAS alone.
LEMMA ShareStep ==
    ASSUME [Next]_vars
    PROVE  ShareSteps
<1>1. ASSUME NEW d \in Devices, NEW v \in Versions, Edit(d, v) PROVE ShareSteps
  BY <1>1 DEF ShareSteps, Edit, rows, flags, nas, ghosts
<1>2. ASSUME NEW d \in Devices, UserDelete(d) PROVE ShareSteps
  BY <1>2 DEF ShareSteps, UserDelete, rows, flags, nas, ghosts
<1>3. ASSUME NEW d \in Devices, Notice(d) PROVE ShareSteps
  BY <1>3 DEF ShareSteps, Notice, rows, flags, nas, ghosts
<1>4. ASSUME NEW d \in Devices, PushTick(d) PROVE ShareSteps
  BY <1>4 DEF ShareSteps, PushTick, rows, flags, nas, ghosts
<1>5. ASSUME NEW d \in Devices, PushUnstable(d) PROVE ShareSteps
  BY <1>5 DEF ShareSteps, PushUnstable, rows, flags, nas, ghosts
<1>6. ASSUME NEW d \in Devices, PullTick(d) PROVE ShareSteps
  BY <1>6 DEF ShareSteps, PullTick, rows, flags, nas, ghosts
<1>7. ASSUME NEW d \in Devices, PushPrepare(d) PROVE ShareSteps
  BY <1>7 DEF ShareSteps, PushPrepare, TakeTransferLock, rows, flags, nas, ghosts
<1>8. ASSUME NEW d \in Devices, PushPlan(d) PROVE ShareSteps
  BY <1>8 DEF ShareSteps, PushPlan, rows, flags, nas, ghosts
<1>9. ASSUME NEW d \in Devices, PushYields(d) PROVE ShareSteps
  BY <1>9 DEF ShareSteps, PushYields, rows, flags, nas, ghosts
<1>10. ASSUME NEW d \in Devices, PushPublish(d) PROVE ShareSteps
  BY <1>10 DEF ShareSteps
<1>11. ASSUME NEW d \in Devices, NEW full \in BOOLEAN, PullSnapshot(d, full)
      PROVE  ShareSteps
  BY <1>11 DEF ShareSteps, PullSnapshot, TakeTransferLock, rows, flags, nas, ghosts
<1>12. ASSUME NEW d \in Devices, PushStage(d) PROVE ShareSteps
  BY <1>12 DEF ShareSteps, PushStage, rows, flags, nas, ghosts
<1>13. ASSUME NEW d \in Devices, PushUpload(d) PROVE ShareSteps
  BY <1>13 DEF ShareSteps
<1>14. ASSUME NEW d \in Devices, PushDelete(d) PROVE ShareSteps
  BY <1>14 DEF ShareSteps
<1>15. ASSUME NEW d \in Devices, PushAdopt(d) PROVE ShareSteps
  BY <1>15 DEF ShareSteps, PushAdopt, rows, flags, nas, ghosts
<1>16. ASSUME NEW d \in Devices, PushApply(d) PROVE ShareSteps
  BY <1>16 DEF ShareSteps, PushApply, rows, flags, nas, ghosts
<1>17. ASSUME NEW d \in Devices, PushConfirm(d) PROVE ShareSteps
  BY <1>17 DEF ShareSteps, PushConfirm, rows, flags, nas, ghosts
<1>18. ASSUME NEW d \in Devices, PushUnconfirmed(d) PROVE ShareSteps
  BY <1>18 DEF ShareSteps, PushUnconfirmed, rows, flags, nas, ghosts
<1>19. ASSUME NEW d \in Devices, PullLive(d) PROVE ShareSteps
  BY <1>19 DEF ShareSteps, PullLive, rows, flags, nas, ghosts
<1>20. ASSUME NEW d \in Devices, PullCancelled(d) PROVE ShareSteps
  BY <1>20 DEF ShareSteps, PullCancelled, rows, flags, nas, ghosts
<1>21. ASSUME NEW d \in Devices, PullSweep(d) PROVE ShareSteps
  BY <1>21 DEF ShareSteps, PullSweep, rows, flags, nas, ghosts
<1>22. ASSUME NEW d \in Devices, PullCheck(d) PROVE ShareSteps
  BY <1>22 DEF ShareSteps, PullCheck, rows, flags, nas, ghosts
<1>23. ASSUME NEW d \in Devices, PullFetch(d) PROVE ShareSteps
  BY <1>23 DEF ShareSteps, PullFetch, rows, flags, nas, ghosts
<1>24. ASSUME NEW d \in Devices, PullSettle(d) PROVE ShareSteps
  BY <1>24 DEF ShareSteps, PullSettle, rows, flags, nas, ghosts
<1>25. ASSUME NEW d \in Devices, Fails(d) PROVE ShareSteps
  BY <1>25 DEF ShareSteps, Fails, rows, flags, nas, ghosts
<1>26. ASSUME NEW d \in Devices, JournalFails(d) PROVE ShareSteps
  BY <1>26 DEF ShareSteps, JournalFails, rows, flags, nas, ghosts
<1>27. ASSUME NEW d \in Devices, Crash(d) PROVE ShareSteps
  BY <1>27 DEF ShareSteps, Crash, rows, flags, nas, ghosts
<1>28. CASE BrowseDelete
  BY <1>28 DEF ShareSteps
<1>29. CASE ExpireTombstone
  BY <1>29 DEF ShareSteps, ExpireTombstone, rows, flags, nas, ghosts
<1>30. CASE UNCHANGED vars
  BY <1>30 DEF ShareSteps, vars, rows, flags, nas, ghosts
<1> QED BY <1>1, <1>2, <1>3, <1>4, <1>5, <1>6, <1>7, <1>8, <1>9, <1>10, <1>11, <1>12, <1>13,
   <1>14, <1>15, <1>16, <1>17, <1>18, <1>19, <1>20, <1>21, <1>22, <1>23, <1>24, <1>25,
   <1>26, <1>27, <1>28, <1>29, <1>30 DEF Next, PushLeases, PullLeases, Works

\* The steps that write the local file of the PC e.
FileSteps(e) ==
    \/ UNCHANGED <<local[e], ltrash[e]>>
    \/ \E v \in Versions : Edit(e, v)
    \/ UserDelete(e)
    \/ WriteLocal(e, share) /\ (PushApply(e) \/ PullSweep(e) \/ PullFetch(e))

\* The other steps leave the local files and the local trash alone.
LEMMA FileStep ==
    ASSUME TypeOK, [Next]_vars
    PROVE  \A e \in Devices : FileSteps(e)
<1>1. ASSUME NEW d \in Devices, NEW v \in Versions, Edit(d, v) PROVE \A e \in Devices : FileSteps(e)
  BY <1>1 DEF FileSteps, Edit, TypeOK
<1>2. ASSUME NEW d \in Devices, UserDelete(d) PROVE \A e \in Devices : FileSteps(e)
  BY <1>2 DEF FileSteps, UserDelete, TypeOK
<1>3. ASSUME NEW d \in Devices, Notice(d) PROVE \A e \in Devices : FileSteps(e)
  BY <1>3 DEF FileSteps, Notice, rows, flags, nas, ghosts
<1>4. ASSUME NEW d \in Devices, PushTick(d) PROVE \A e \in Devices : FileSteps(e)
  BY <1>4 DEF FileSteps, PushTick, rows, flags, nas, ghosts
<1>5. ASSUME NEW d \in Devices, PushUnstable(d) PROVE \A e \in Devices : FileSteps(e)
  BY <1>5 DEF FileSteps, PushUnstable, rows, flags, nas, ghosts
<1>6. ASSUME NEW d \in Devices, PullTick(d) PROVE \A e \in Devices : FileSteps(e)
  BY <1>6 DEF FileSteps, PullTick, rows, flags, nas, ghosts
<1>7. ASSUME NEW d \in Devices, PushPrepare(d) PROVE \A e \in Devices : FileSteps(e)
  BY <1>7 DEF FileSteps, PushPrepare, TakeTransferLock, rows, flags, nas, ghosts
<1>8. ASSUME NEW d \in Devices, PushPlan(d) PROVE \A e \in Devices : FileSteps(e)
  BY <1>8 DEF FileSteps, PushPlan, rows, flags, nas, ghosts
<1>9. ASSUME NEW d \in Devices, PushYields(d) PROVE \A e \in Devices : FileSteps(e)
  BY <1>9 DEF FileSteps, PushYields, rows, flags, nas, ghosts
<1>10. ASSUME NEW d \in Devices, PushPublish(d) PROVE \A e \in Devices : FileSteps(e)
  BY <1>10 DEF FileSteps, PushPublish, rows, flags, nas, ghosts
<1>11. ASSUME NEW d \in Devices, NEW full \in BOOLEAN, PullSnapshot(d, full)
      PROVE  \A e \in Devices : FileSteps(e)
  BY <1>11 DEF FileSteps, PullSnapshot, TakeTransferLock, rows, flags, nas, ghosts
<1>12. ASSUME NEW d \in Devices, PushStage(d) PROVE \A e \in Devices : FileSteps(e)
  BY <1>12 DEF FileSteps, PushStage, rows, flags, nas, ghosts
<1>13. ASSUME NEW d \in Devices, PushUpload(d) PROVE \A e \in Devices : FileSteps(e)
  BY <1>13 DEF FileSteps, PushUpload, rows, flags, nas, ghosts
<1>14. ASSUME NEW d \in Devices, PushDelete(d) PROVE \A e \in Devices : FileSteps(e)
  BY <1>14 DEF FileSteps, PushDelete, rows, flags, nas, ghosts
<1>15. ASSUME NEW d \in Devices, PushAdopt(d) PROVE \A e \in Devices : FileSteps(e)
  BY <1>15 DEF FileSteps, PushAdopt, rows, flags, nas, ghosts
<1>16. ASSUME NEW d \in Devices, PushApply(d) PROVE \A e \in Devices : FileSteps(e)
  BY <1>16 DEF FileSteps, PushApply, WriteLocal, TypeOK
<1>17. ASSUME NEW d \in Devices, PushConfirm(d) PROVE \A e \in Devices : FileSteps(e)
  BY <1>17 DEF FileSteps, PushConfirm, rows, flags, nas, ghosts
<1>18. ASSUME NEW d \in Devices, PushUnconfirmed(d) PROVE \A e \in Devices : FileSteps(e)
  BY <1>18 DEF FileSteps, PushUnconfirmed, rows, flags, nas, ghosts
<1>19. ASSUME NEW d \in Devices, PullLive(d) PROVE \A e \in Devices : FileSteps(e)
  BY <1>19 DEF FileSteps, PullLive, rows, flags, nas, ghosts
<1>20. ASSUME NEW d \in Devices, PullCancelled(d) PROVE \A e \in Devices : FileSteps(e)
  BY <1>20 DEF FileSteps, PullCancelled, rows, flags, nas, ghosts
<1>21. ASSUME NEW d \in Devices, PullSweep(d) PROVE \A e \in Devices : FileSteps(e)
  BY <1>21 DEF FileSteps, PullSweep, WriteLocal, TypeOK
<1>22. ASSUME NEW d \in Devices, PullCheck(d) PROVE \A e \in Devices : FileSteps(e)
  BY <1>22 DEF FileSteps, PullCheck, rows, flags, nas, ghosts
<1>23. ASSUME NEW d \in Devices, PullFetch(d) PROVE \A e \in Devices : FileSteps(e)
  BY <1>23 DEF FileSteps, PullFetch, WriteLocal, TypeOK
<1>24. ASSUME NEW d \in Devices, PullSettle(d) PROVE \A e \in Devices : FileSteps(e)
  BY <1>24 DEF FileSteps, PullSettle, rows, flags, nas, ghosts
<1>25. ASSUME NEW d \in Devices, Fails(d) PROVE \A e \in Devices : FileSteps(e)
  BY <1>25 DEF FileSteps, Fails, rows, flags, nas, ghosts
<1>26. ASSUME NEW d \in Devices, JournalFails(d) PROVE \A e \in Devices : FileSteps(e)
  BY <1>26 DEF FileSteps, JournalFails, rows, flags, nas, ghosts
<1>27. ASSUME NEW d \in Devices, Crash(d) PROVE \A e \in Devices : FileSteps(e)
  BY <1>27 DEF FileSteps, Crash, rows, flags, nas, ghosts
<1>28. CASE BrowseDelete
  BY <1>28 DEF FileSteps, BrowseDelete, rows, flags, nas, ghosts
<1>29. CASE ExpireTombstone
  BY <1>29 DEF FileSteps, ExpireTombstone, rows, flags, nas, ghosts
<1>30. CASE UNCHANGED vars
  BY <1>30 DEF FileSteps, vars, rows, flags, nas, ghosts
<1> QED BY <1>1, <1>2, <1>3, <1>4, <1>5, <1>6, <1>7, <1>8, <1>9, <1>10, <1>11, <1>12, <1>13,
   <1>14, <1>15, <1>16, <1>17, <1>18, <1>19, <1>20, <1>21, <1>22, <1>23, <1>24, <1>25,
   <1>26, <1>27, <1>28, <1>29, <1>30 DEF Next, PushLeases, PullLeases, Works

\* A version that was written keeps its ancestors; what was deleted, outranked
\* or kept aside stays so.
LEMMA GrowStep ==
    ASSUME TypeOK, [Next]_vars
    PROVE  Grown
<1>t. hist \in [Versions -> SUBSET Versions]
  BY DEF TypeOK
<1>1. CASE UNCHANGED <<hist, dropped, outranked, copies>>
  BY <1>1 DEF Grown
<1>2. ASSUME NEW d \in Devices, NEW v \in Versions, Edit(d, v) PROVE Grown
  BY <1>2, <1>t DEF Grown, Edit
<1>3. ASSUME NEW d \in Devices, UserDelete(d) PROVE Grown
  BY <1>3 DEF Grown, UserDelete
<1>4. ASSUME NEW d \in Devices, PushPlan(d) PROVE Grown
  BY <1>4 DEF Grown, PushPlan, KeepLoser, ghosts
<1>5. ASSUME NEW d \in Devices, PushDelete(d) PROVE Grown
  BY <1>5 DEF Grown, PushDelete
<1>6. CASE BrowseDelete
  BY <1>6 DEF Grown, BrowseDelete
<1> QED BY <1>1, <1>2, <1>3, <1>4, <1>5, <1>6, HistoryStep DEF HistorySteps

\* The local folder and the local trash have only what somebody wrote.
LEMMA WrittenFiles ==
    ASSUME TypeOK, WrittenInv, [Next]_vars, NEW d \in Devices
    PROVE  (Written(local[d]) /\ \A c \in ltrash[d] : Written(c))'
<1>g. Grown
  BY GrowStep
<1>k. \A c : Written(c) => (c \in Versions => hist'[c] # {})
  BY <1>g DEF Grown, Written
<1>w. Written(share) /\ Written(local[d]) /\ \A c \in ltrash[d] : Written(c)
  BY DEF WrittenInv
<1>n. None \notin Versions
  BY ReconcileAssumption
<1>1. CASE UNCHANGED <<local[d], ltrash[d]>>
  BY <1>1, <1>k, <1>w DEF Written
<1>2. ASSUME NEW v \in Versions, Edit(d, v)
      PROVE  (Written(local[d]) /\ \A c \in ltrash[d] : Written(c))'
  <2>1. local'[d] = v /\ hist'[v] # {} /\ ltrash' = ltrash
    BY <1>2 DEF Edit, TypeOK
  <2> QED BY <2>1, <1>k, <1>w DEF Written
<1>3. CASE UserDelete(d)
  BY <1>3, <1>k, <1>w, <1>n DEF UserDelete, TypeOK, Written
<1>4. CASE WriteLocal(d, share)
  BY <1>4, <1>k, <1>w, <1>n DEF WriteLocal, TypeOK, Written
<1> QED BY <1>1, <1>2, <1>3, <1>4, FileStep DEF FileSteps

\* So has the NAS,
LEMMA WrittenShare ==
    ASSUME TypeOK, WrittenInv, [Next]_vars
    PROVE  Written(share)'
<1>g. Grown
  BY GrowStep
<1>k. \A c : Written(c) => (c \in Versions => hist'[c] # {})
  BY <1>g DEF Grown, Written
<1>n. None \notin Versions
  BY ReconcileAssumption
<1>1. CASE share' = share
  BY <1>1, <1>k DEF Written, WrittenInv
<1>2. ASSUME NEW d \in Devices, PushPublish(d) PROVE Written(share)'
  BY <1>2, <1>k DEF PushPublish, nas, Written, WrittenInv
<1>3. ASSUME NEW d \in Devices, PushUpload(d) PROVE Written(share)'
  BY <1>3, <1>k DEF PushUpload, Written, WrittenInv
<1>4. ASSUME NEW d \in Devices, PushDelete(d) PROVE Written(share)'
  BY <1>4, <1>n DEF PushDelete, Written
<1>5. CASE BrowseDelete
  BY <1>5, <1>n DEF BrowseDelete, Written
<1> QED BY <1>1, <1>2, <1>3, <1>4, <1>5, ShareStep DEF ShareSteps

\* and so have the conflict copies.
LEMMA WrittenCopies ==
    ASSUME TypeOK, WrittenInv, [Next]_vars
    PROVE  \A c \in copies' : Written(c)'
<1>g. Grown
  BY GrowStep
<1>k. \A c : Written(c) => (c \in Versions => hist'[c] # {})
  BY <1>g DEF Grown, Written
<1>1. copies' = copies \/ copies' = copies \cup {share}
        \/ \E d \in Devices : copies' = copies \cup {local[d]}
  BY HistoryStep DEF HistorySteps, Edit, UserDelete, PushPlan, KeepLoser, PushDelete, BrowseDelete
<1> QED BY <1>1, <1>k DEF Written, WrittenInv

\* Ancestry stays a partial order, and what was deleted stays closed under it:
\* a new content gets a version that nobody knew.
LEMMA HistoryKept ==
    ASSUME TypeOK, WrittenInv, HistoryInv, [Next]_vars
    PROVE  HistoryInv'
<1>t. /\ hist \in [Versions -> SUBSET Versions]
      /\ local \in [Devices -> Contents] /\ share \in Contents
      /\ dropped \subseteq Versions /\ outranked \subseteq Versions
  BY DEF TypeOK
<1>1. CASE UNCHANGED <<hist, dropped, outranked, copies>>
  BY <1>1 DEF HistoryInv
<1>2. ASSUME NEW d \in Devices, NEW v \in Versions, Edit(d, v) PROVE HistoryInv'
  <2> DEFINE H == IF local[d] = None THEN {} ELSE hist[local[d]]
  <2>1. /\ hist[v] = {} /\ hist' = [hist EXCEPT ![v] = {v} \cup H]
        /\ UNCHANGED <<dropped, outranked>>
    BY <1>2 DEF Edit, ghosts
  <2>2. /\ H \subseteq Versions /\ \A w \in H : hist[w] # {} /\ hist[w] \subseteq H
    BY <1>t, ReconcileAssumption DEF HistoryInv, Contents
  <2> HIDE DEF H
  <2>3. /\ v \notin H /\ \A w \in Versions : v \notin hist[w]
    BY <2>1, <2>2 DEF HistoryInv
  <2>4. hist'[v] = {v} \cup H /\ \A w \in Versions \ {v} : hist'[w] = hist[w]
    BY <2>1, <1>t
  <2>5. \A w \in Versions : hist'[w] # {} => w \in hist'[w]
    BY <2>4 DEF HistoryInv
  <2>6. \A u \in Versions : \A w \in hist'[u] : hist'[w] # {} /\ hist'[w] \subseteq hist'[u]
    <3>1. ASSUME NEW u \in Versions, NEW w \in hist'[u]
          PROVE  hist'[w] # {} /\ hist'[w] \subseteq hist'[u]
      <4>1. CASE u = v /\ w = v
        BY <2>4, <4>1
      <4>2. CASE u = v /\ w # v
        <5>1. w \in H /\ w \in Versions
          BY <2>2, <2>4, <4>2
        <5> QED BY <2>2, <2>4, <4>2, <5>1
      <4>3. CASE u # v
        <5>1. w \in hist[u] /\ w # v /\ w \in Versions
          BY <2>3, <2>4, <4>3, <1>t
        <5> QED BY <2>4, <4>3, <5>1 DEF HistoryInv
      <4> QED BY <4>1, <4>2, <4>3
    <3> QED BY <3>1
  <2>7. \A u \in Versions : \A w \in hist'[u] : u \in hist'[w] => u = w
    <3>1. ASSUME NEW u \in Versions, NEW w \in hist'[u], u \in hist'[w]
          PROVE  u = w
      <4>1. CASE u = v
        <5>1. w \in Versions
          BY <2>2, <2>4, <4>1
        <5> QED BY <2>3, <2>4, <3>1, <4>1, <5>1
      <4>2. CASE u # v
        <5>1. w \in hist[u] /\ w # v /\ w \in Versions
          BY <2>3, <2>4, <4>2, <1>t
        <5> QED BY <2>4, <3>1, <4>2, <5>1 DEF HistoryInv
      <4> QED BY <4>1, <4>2
    <3> QED BY <3>1
  <2>8. \A w \in dropped \cup outranked : w # v
    BY <2>1 DEF HistoryInv
  <2> QED BY <2>1, <2>4, <2>5, <2>6, <2>7, <2>8, <1>t DEF HistoryInv
<1>c. \A c \in Versions : \A w \in hist[c] : hist[w] # {} /\ hist[w] \subseteq hist[c]
  BY DEF HistoryInv
<1>3. ASSUME NEW d \in Devices, UserDelete(d) PROVE HistoryInv'
  <2>1. UNCHANGED <<hist, outranked>> /\ dropped' = dropped \cup hist[local[d]]
        /\ local[d] \in Versions
    BY <1>3, <1>t DEF UserDelete, Contents
  <2>2. \A v \in dropped' : hist[v] # {} /\ hist[v] \subseteq dropped'
    BY <2>1, <1>c DEF HistoryInv
  <2> QED BY <2>1, <2>2 DEF HistoryInv
<1>4. ASSUME NEW d \in Devices, PushPlan(d) PROVE HistoryInv'
  BY <1>4 DEF PushPlan, ghosts, HistoryInv
<1>5. ASSUME NEW d \in Devices, PushDelete(d) PROVE HistoryInv'
  <2>1. UNCHANGED <<hist, dropped>>
        /\ (outranked' = outranked \/ (share # None /\ outranked' = outranked \cup hist[share]))
    BY <1>5 DEF PushDelete
  <2>2. \A v \in outranked' : hist[v] # {} /\ hist[v] \subseteq outranked'
    BY <2>1, <1>c, <1>t DEF HistoryInv, Contents
  <2> QED BY <2>1, <2>2 DEF HistoryInv
<1>6. CASE BrowseDelete
  <2>1. UNCHANGED <<hist, outranked>> /\ dropped' = dropped \cup hist[share]
        /\ share \in Versions
    BY <1>6, <1>t DEF BrowseDelete, Contents
  <2>2. \A v \in dropped' : hist[v] # {} /\ hist[v] \subseteq dropped'
    BY <2>1, <1>c DEF HistoryInv
  <2> QED BY <2>1, <2>2 DEF HistoryInv
<1> QED BY <1>1, <1>2, <1>3, <1>4, <1>5, <1>6, HistoryStep DEF HistorySteps

\* The steps that write the base row of the PC e.
BaseSteps(e) ==
    \/ base'[e] = base[e]
    \/ base'[e].v = None /\ (PushYields(e) \/ PushConfirm(e))
    \/ PushPublish(e) /\ share = None /\ share' = job[e].lv /\ base'[e].v = share'
    \/ base'[e].v = share /\ share' = share /\ (PushConfirm(e) \/ (PullSettle(e) /\ job[e].got))

\* A recorded row is that of one PC.
LEMMA RecordDoes ==
    ASSUME TypeOK, NEW d \in Devices, NEW row, NEW seen, Record(d, row, seen)
    PROVE  base'[d] = row /\ \A e \in Devices \ {d} : base'[e] = base[e]
BY DEF Record, TypeOK

\* The row that a confirmed push writes is of the live file, or of none.
LEMMA AuthoritativeIs ==
    ASSUME TypeOK, JobInv, NEW d \in Devices,
           job[d].at = "confirm" \/ (job[d].at = "transfer" /\ job[d].act = "adopt")
    PROVE  Authoritative(d).v \in {share, None}
<1>1. job[d].act \in {"upload", "conflict_local_wins", "conflict_remote_wins",
                     "adopt", "delete_remote"}
  BY DEF JobInv, JobFits
<1> QED BY <1>1 DEF Authoritative, Uploaded

\* The other steps leave the base rows alone.
LEMMA BaseStep ==
    ASSUME TypeOK, JobInv, [Next]_vars
    PROVE  \A e \in Devices : BaseSteps(e)
<1>1. ASSUME NEW d \in Devices, NEW v \in Versions, Edit(d, v) PROVE \A e \in Devices : BaseSteps(e)
  BY <1>1 DEF BaseSteps, Edit, rows, flags, nas, ghosts
<1>2. ASSUME NEW d \in Devices, UserDelete(d) PROVE \A e \in Devices : BaseSteps(e)
  BY <1>2 DEF BaseSteps, UserDelete, rows, flags, nas, ghosts
<1>3. ASSUME NEW d \in Devices, Notice(d) PROVE \A e \in Devices : BaseSteps(e)
  BY <1>3 DEF BaseSteps, Notice, rows, flags, nas, ghosts
<1>4. ASSUME NEW d \in Devices, PushTick(d) PROVE \A e \in Devices : BaseSteps(e)
  BY <1>4 DEF BaseSteps, PushTick, rows, flags, nas, ghosts
<1>5. ASSUME NEW d \in Devices, PushUnstable(d) PROVE \A e \in Devices : BaseSteps(e)
  BY <1>5 DEF BaseSteps, PushUnstable, rows, flags, nas, ghosts
<1>6. ASSUME NEW d \in Devices, PullTick(d) PROVE \A e \in Devices : BaseSteps(e)
  BY <1>6 DEF BaseSteps, PullTick, rows, flags, nas, ghosts
<1>7. ASSUME NEW d \in Devices, PushPrepare(d) PROVE \A e \in Devices : BaseSteps(e)
  BY <1>7 DEF BaseSteps, PushPrepare, TakeTransferLock, rows, flags, nas, ghosts
<1>8. ASSUME NEW d \in Devices, PushPlan(d) PROVE \A e \in Devices : BaseSteps(e)
  BY <1>8 DEF BaseSteps, PushPlan, rows, flags, nas, ghosts
<1>9. ASSUME NEW d \in Devices, PushYields(d) PROVE \A e \in Devices : BaseSteps(e)
  <2>1. CASE UNCHANGED base
    BY <2>1 DEF BaseSteps
  <2>2. CASE ~UNCHANGED base
    <3>1. PICK row, seen : Record(d, row, seen) /\ row.v = None
      BY <1>9, <2>2 DEF PushYields
    <3>2. base'[d] = row /\ \A e \in Devices \ {d} : base'[e] = base[e]
      BY <3>1, RecordDoes
    <3> QED BY <1>9, <3>1, <3>2 DEF BaseSteps
  <2> QED BY <2>1, <2>2
<1>10. ASSUME NEW d \in Devices, PushPublish(d) PROVE \A e \in Devices : BaseSteps(e)
  <2>1. CASE UNCHANGED base
    BY <2>1 DEF BaseSteps
  <2>2. CASE ~UNCHANGED base
    <3>1. PICK row, seen : /\ Record(d, row, seen) /\ row.v = share'
                           /\ share = None /\ share' = job[d].lv
      BY <1>10, <2>2 DEF PushPublish, rows
    <3>2. base'[d] = row /\ \A e \in Devices \ {d} : base'[e] = base[e]
      BY <3>1, RecordDoes
    <3> QED BY <1>10, <3>1, <3>2 DEF BaseSteps
  <2> QED BY <2>1, <2>2
<1>11. ASSUME NEW d \in Devices, NEW full \in BOOLEAN, PullSnapshot(d, full)
      PROVE  \A e \in Devices : BaseSteps(e)
  BY <1>11 DEF BaseSteps, PullSnapshot, TakeTransferLock, rows, flags, nas, ghosts
<1>12. ASSUME NEW d \in Devices, PushStage(d) PROVE \A e \in Devices : BaseSteps(e)
  BY <1>12 DEF BaseSteps, PushStage, rows, flags, nas, ghosts
<1>13. ASSUME NEW d \in Devices, PushUpload(d) PROVE \A e \in Devices : BaseSteps(e)
  BY <1>13 DEF BaseSteps, PushUpload, rows, flags, nas, ghosts
<1>14. ASSUME NEW d \in Devices, PushDelete(d) PROVE \A e \in Devices : BaseSteps(e)
  BY <1>14 DEF BaseSteps, PushDelete, rows, flags, nas, ghosts
<1>15. ASSUME NEW d \in Devices, PushAdopt(d) PROVE \A e \in Devices : BaseSteps(e)
  BY <1>15 DEF BaseSteps, PushAdopt, rows, flags, nas, ghosts
<1>16. ASSUME NEW d \in Devices, PushApply(d) PROVE \A e \in Devices : BaseSteps(e)
  BY <1>16 DEF BaseSteps, PushApply, rows, flags, nas, ghosts
<1>17. ASSUME NEW d \in Devices, PushConfirm(d) PROVE \A e \in Devices : BaseSteps(e)
  <2>1. Record(d, Authoritative(d), Observed(d)) /\ share' = share
    BY <1>17 DEF PushConfirm
  <2>2. base'[d] = Authoritative(d) /\ \A e \in Devices \ {d} : base'[e] = base[e]
    BY <2>1, RecordDoes
  <2>3. Authoritative(d).v \in {share, None}
    BY <1>17, AuthoritativeIs DEF PushConfirm
  <2> QED BY <1>17, <2>1, <2>2, <2>3 DEF BaseSteps
<1>18. ASSUME NEW d \in Devices, PushUnconfirmed(d) PROVE \A e \in Devices : BaseSteps(e)
  BY <1>18 DEF BaseSteps, PushUnconfirmed, rows, flags, nas, ghosts
<1>19. ASSUME NEW d \in Devices, PullLive(d) PROVE \A e \in Devices : BaseSteps(e)
  BY <1>19 DEF BaseSteps, PullLive, rows, flags, nas, ghosts
<1>20. ASSUME NEW d \in Devices, PullCancelled(d) PROVE \A e \in Devices : BaseSteps(e)
  BY <1>20 DEF BaseSteps, PullCancelled, rows, flags, nas, ghosts
<1>21. ASSUME NEW d \in Devices, PullSweep(d) PROVE \A e \in Devices : BaseSteps(e)
  BY <1>21 DEF BaseSteps, PullSweep, rows, flags, nas, ghosts
<1>22. ASSUME NEW d \in Devices, PullCheck(d) PROVE \A e \in Devices : BaseSteps(e)
  BY <1>22 DEF BaseSteps, PullCheck, rows, flags, nas, ghosts
<1>23. ASSUME NEW d \in Devices, PullFetch(d) PROVE \A e \in Devices : BaseSteps(e)
  BY <1>23 DEF BaseSteps, PullFetch, rows, flags, nas, ghosts
<1>24. ASSUME NEW d \in Devices, PullSettle(d) PROVE \A e \in Devices : BaseSteps(e)
  <2>1. CASE UNCHANGED base
    BY <2>1 DEF BaseSteps
  <2>2. CASE ~UNCHANGED base
    <3>1. PICK row, seen : Record(d, row, seen) /\ row.v = share /\ share' = share /\ job[d].got
      BY <1>24, <2>2 DEF PullSettle, nas
    <3>2. base'[d] = row /\ \A e \in Devices \ {d} : base'[e] = base[e]
      BY <3>1, RecordDoes
    <3> QED BY <1>24, <3>1, <3>2 DEF BaseSteps
  <2> QED BY <2>1, <2>2
<1>25. ASSUME NEW d \in Devices, Fails(d) PROVE \A e \in Devices : BaseSteps(e)
  BY <1>25 DEF BaseSteps, Fails, rows, flags, nas, ghosts
<1>26. ASSUME NEW d \in Devices, JournalFails(d) PROVE \A e \in Devices : BaseSteps(e)
  BY <1>26 DEF BaseSteps, JournalFails, rows, flags, nas, ghosts
<1>27. ASSUME NEW d \in Devices, Crash(d) PROVE \A e \in Devices : BaseSteps(e)
  BY <1>27 DEF BaseSteps, Crash, rows, flags, nas, ghosts
<1>28. CASE BrowseDelete
  BY <1>28 DEF BaseSteps, BrowseDelete, rows, flags, nas, ghosts
<1>29. CASE ExpireTombstone
  BY <1>29 DEF BaseSteps, ExpireTombstone, rows, flags, nas, ghosts
<1>30. CASE UNCHANGED vars
  BY <1>30 DEF BaseSteps, vars, rows, flags, nas, ghosts
<1> QED BY <1>1, <1>2, <1>3, <1>4, <1>5, <1>6, <1>7, <1>8, <1>9, <1>10, <1>11, <1>12, <1>13,
   <1>14, <1>15, <1>16, <1>17, <1>18, <1>19, <1>20, <1>21, <1>22, <1>23, <1>24, <1>25,
   <1>26, <1>27, <1>28, <1>29, <1>30 DEF Next, PushLeases, PullLeases, Works

\* What the first steps of an operation do to its record: the preparation of a
\* push,
LEMMA PrepareDoes ==
    ASSUME TypeOK, NEW d \in Devices, PushPrepare(d)
    PROVE  job'[d].at = "plan" /\ job'[d].lv = job[d].lv /\ OthersWait(d)
<1> DEFINE j == [job[d] EXCEPT !.op = "push", !.at = "plan",
                               !.try = local[d] # None /\ base[d].v \notin Versions]
<1>1. job \in [Devices -> Job] /\ job[d] \in Job
  BY TypeParts DEF JobOK
<1>2. job' = [job EXCEPT ![d] = j]
  BY <1>1 DEF PushPrepare
<1>3. j.at = "plan" /\ j.lv = job[d].lv
  BY <1>1 DEF Job
<1> HIDE DEF j
<1> QED BY <1>1, <1>2, <1>3 DEF OthersWait

\* its plan,
LEMMA PlanDoes ==
    ASSUME TypeOK, NEW d \in Devices, PushPlan(d)
    PROVE  /\ job'[d].at = StepAfterPlan(d) /\ job'[d].act = Planned(d)
           /\ job'[d].lv = local[d] /\ job'[d].rv = share
           /\ OthersWait(d)
<1> DEFINE j == [job[d] EXCEPT !.at = StepAfterPlan(d), !.try = FALSE,
                               !.act = Planned(d), !.lv = local[d],
                               !.lvc = Observed(d).vc, !.rv = Remote.v, !.rvc = Remote.vc]
<1>1. job \in [Devices -> Job] /\ job[d] \in Job
  BY TypeParts DEF JobOK
<1>2. job' = [job EXCEPT ![d] = j]
  BY DEF PushPlan
<1>3. /\ j.at = StepAfterPlan(d) /\ j.act = Planned(d)
      /\ j.lv = local[d] /\ j.rv = Remote.v
  BY <1>1 DEF Job
<1>4. Remote.v = share
  BY DEF Remote
<1> HIDE DEF j
<1> QED BY <1>1, <1>2, <1>3, <1>4 DEF OthersWait

\* and the snapshot of a pull.
LEMMA SnapshotDoes ==
    ASSUME TypeOK, JobInv, NEW d \in Devices, NEW full \in BOOLEAN, PullSnapshot(d, full)
    PROVE  /\ ~job'[d].got /\ job'[d].lv = None
           /\ job'[d].at \in {"idle", "live", "sweep", "check"}
           /\ OthersWait(d)
<1> DEFINE wide == full \/ NewTombstone(d)
           step == CASE ChecksumPath(d) -> "live"
                     [] ~ChecksumPath(d) /\ (full \/ NewTombstone(d)) -> "sweep"
                     [] OTHER -> "check"
           j == [job[d] EXCEPT !.op = "pull", !.full = wide, !.at = step,
                               !.cks = ChecksumPath(d), !.rv = rec'.v, !.rvc = rec'.vc]
<1>1. job \in [Devices -> Job] /\ job[d] \in Job
  BY TypeParts DEF JobOK
<1>2. job' = [job EXCEPT ![d] = j] \/ job' = [job EXCEPT ![d] = Idle]
  BY DEF PullSnapshot, Finish, wide, step
<1>3. step \in {"live", "sweep", "check"}
  BY DEF step
<1>4. j.at = step /\ j.got = job[d].got /\ j.lv = job[d].lv
  BY <1>1 DEF Job
<1>5. job[d] = Idle
  BY DEF JobInv, JobFits, PullSnapshot, TakeTransferLock
<1>6. Idle.lv = None /\ ~Idle.got /\ Idle.at = "idle"
  BY DEF Idle
<1> HIDE DEF j, step
<1> QED BY <1>1, <1>2, <1>3, <1>4, <1>5, <1>6 DEF OthersWait

\* The file an operation was planned with.

\* The file an operation was planned with is the local file of that moment.
LEMMA PlannedFile ==
    ASSUME TypeOK, JobInv, [Next]_vars
    PROVE  \A e \in Devices : job'[e].lv \in {job[e].lv, None, local[e]}
<1>t. job \in [Devices -> Job] /\ \A d \in Devices : job[d] \in Job
  BY TypeParts DEF JobOK
<1>i. Idle.lv = None
  BY DEF Idle
<1>1. ASSUME NEW d \in Devices, NEW v \in Versions, Edit(d, v)
      PROVE  \A e \in Devices : job'[e].lv \in {job[e].lv, None, local[e]}
  BY <1>1, <1>t, <1>i, GotoDoes DEF OthersWait, GoesOn, Steps, Edit, rows, flags, nas,
     ghosts
<1>2. ASSUME NEW d \in Devices, UserDelete(d)
      PROVE  \A e \in Devices : job'[e].lv \in {job[e].lv, None, local[e]}
  BY <1>2, <1>t, <1>i, GotoDoes DEF OthersWait, GoesOn, Steps, UserDelete, Disturb,
     rows, flags, nas, ghosts
<1>3. ASSUME NEW d \in Devices, Notice(d)
      PROVE  \A e \in Devices : job'[e].lv \in {job[e].lv, None, local[e]}
  BY <1>3, <1>t, <1>i, GotoDoes DEF OthersWait, GoesOn, Steps, Notice, rows, flags,
     nas, ghosts
<1>4. ASSUME NEW d \in Devices, PushTick(d)
      PROVE  \A e \in Devices : job'[e].lv \in {job[e].lv, None, local[e]}
  BY <1>4, <1>t, <1>i, GotoDoes DEF OthersWait, GoesOn, Steps, PushTick, rows, flags,
     nas, ghosts
<1>5. ASSUME NEW d \in Devices, PushUnstable(d)
      PROVE  \A e \in Devices : job'[e].lv \in {job[e].lv, None, local[e]}
  BY <1>5, <1>t, <1>i, GotoDoes DEF OthersWait, GoesOn, Steps, PushUnstable, rows,
     flags, nas, ghosts
<1>6. ASSUME NEW d \in Devices, PullTick(d)
      PROVE  \A e \in Devices : job'[e].lv \in {job[e].lv, None, local[e]}
  BY <1>6, <1>t, <1>i, GotoDoes DEF OthersWait, GoesOn, Steps, PullTick, rows, flags,
     nas, ghosts
<1>7. ASSUME NEW d \in Devices, PushPrepare(d)
      PROVE  \A e \in Devices : job'[e].lv \in {job[e].lv, None, local[e]}
  BY <1>7, PrepareDoes DEF OthersWait
<1>8. ASSUME NEW d \in Devices, PushPlan(d)
      PROVE  \A e \in Devices : job'[e].lv \in {job[e].lv, None, local[e]}
  BY <1>8, PlanDoes DEF OthersWait
<1>9. ASSUME NEW d \in Devices, PushYields(d)
      PROVE  \A e \in Devices : job'[e].lv \in {job[e].lv, None, local[e]}
  BY <1>9, <1>t, <1>i, GotoDoes DEF OthersWait, GoesOn, Steps, PushYields, rows,
     flags, nas, ghosts
<1>10. ASSUME NEW d \in Devices, PushPublish(d)
      PROVE  \A e \in Devices : job'[e].lv \in {job[e].lv, None, local[e]}
  <2>1. Finish(d)
    BY <1>10 DEF PushPublish, PushFails
  <2> QED BY <2>1, <1>i, GotoDoes DEF OthersWait
<1>11. ASSUME NEW d \in Devices, NEW full \in BOOLEAN, PullSnapshot(d, full)
      PROVE  \A e \in Devices : job'[e].lv \in {job[e].lv, None, local[e]}
  BY <1>11, SnapshotDoes DEF OthersWait
<1>12. ASSUME NEW d \in Devices, PushStage(d)
      PROVE  \A e \in Devices : job'[e].lv \in {job[e].lv, None, local[e]}
  <2>1. Finish(d) \/ Goto(d, "publish")
    BY <1>12 DEF PushStage, PushFails
  <2> QED BY <2>1, <1>i, GotoDoes DEF OthersWait, GoesOn, Steps
<1>13. ASSUME NEW d \in Devices, PushUpload(d)
      PROVE  \A e \in Devices : job'[e].lv \in {job[e].lv, None, local[e]}
  <2>1. Finish(d) \/ Goto(d, "confirm")
    BY <1>13 DEF PushUpload, PushFails
  <2> QED BY <2>1, <1>i, GotoDoes DEF OthersWait, GoesOn, Steps
<1>14. ASSUME NEW d \in Devices, PushDelete(d)
      PROVE  \A e \in Devices : job'[e].lv \in {job[e].lv, None, local[e]}
  BY <1>14, <1>t, <1>i, GotoDoes DEF OthersWait, GoesOn, Steps, PushDelete, rows,
     flags, nas, ghosts
<1>15. ASSUME NEW d \in Devices, PushAdopt(d)
      PROVE  \A e \in Devices : job'[e].lv \in {job[e].lv, None, local[e]}
  <2>1. Finish(d) \/ Goto(d, "apply")
    BY <1>15 DEF PushAdopt, PushFails
  <2> QED BY <2>1, <1>i, GotoDoes DEF OthersWait, GoesOn, Steps
<1>16. ASSUME NEW d \in Devices, PushApply(d)
      PROVE  \A e \in Devices : job'[e].lv \in {job[e].lv, None, local[e]}
  BY <1>16, <1>t, <1>i, GotoDoes DEF OthersWait, GoesOn, Steps, PushApply, rows,
     flags, nas, ghosts
<1>17. ASSUME NEW d \in Devices, PushConfirm(d)
      PROVE  \A e \in Devices : job'[e].lv \in {job[e].lv, None, local[e]}
  BY <1>17, <1>t, <1>i, GotoDoes DEF OthersWait, GoesOn, Steps, PushConfirm,
     ConfirmMarks, rows, flags, nas, ghosts
<1>18. ASSUME NEW d \in Devices, PushUnconfirmed(d)
      PROVE  \A e \in Devices : job'[e].lv \in {job[e].lv, None, local[e]}
  BY <1>18, <1>t, <1>i, GotoDoes DEF OthersWait, GoesOn, Steps, PushUnconfirmed,
     PushFails, rows, flags, nas, ghosts
<1>19. ASSUME NEW d \in Devices, PullLive(d)
      PROVE  \A e \in Devices : job'[e].lv \in {job[e].lv, None, local[e]}
  BY <1>19, <1>t, <1>i, GotoDoes DEF OthersWait, GoesOn, Steps, PullLive, AfterLive,
     rows, flags, nas, ghosts
<1>20. ASSUME NEW d \in Devices, PullCancelled(d)
      PROVE  \A e \in Devices : job'[e].lv \in {job[e].lv, None, local[e]}
  BY <1>20, <1>t, <1>i, GotoDoes DEF OthersWait, GoesOn, Steps, PullCancelled, rows,
     flags, nas, ghosts
<1>21. ASSUME NEW d \in Devices, PullSweep(d)
      PROVE  \A e \in Devices : job'[e].lv \in {job[e].lv, None, local[e]}
  BY <1>21, <1>t, <1>i, GotoDoes DEF OthersWait, GoesOn, Steps, PullSweep, rows,
     flags, nas, ghosts
<1>22. ASSUME NEW d \in Devices, PullCheck(d)
      PROVE  \A e \in Devices : job'[e].lv \in {job[e].lv, None, local[e]}
  BY <1>22, <1>t, <1>i, GotoDoes DEF OthersWait, GoesOn, Steps, PullCheck, rows,
     flags, nas, ghosts
<1>23. ASSUME NEW d \in Devices, PullFetch(d)
      PROVE  \A e \in Devices : job'[e].lv \in {job[e].lv, None, local[e]}
  BY <1>23, <1>t, <1>i, GotoDoes DEF OthersWait, GoesOn, Steps, PullFetch, rows,
     flags, nas, ghosts
<1>24. ASSUME NEW d \in Devices, PullSettle(d)
      PROVE  \A e \in Devices : job'[e].lv \in {job[e].lv, None, local[e]}
  BY <1>24, <1>t, <1>i, GotoDoes DEF OthersWait, GoesOn, Steps, PullSettle, rows,
     flags, nas, ghosts
<1>25. ASSUME NEW d \in Devices, Fails(d)
      PROVE  \A e \in Devices : job'[e].lv \in {job[e].lv, None, local[e]}
  BY <1>25, <1>t, <1>i, GotoDoes DEF OthersWait, GoesOn, Steps, Fails, Disturb,
     PushFails, rows, flags, nas, ghosts
<1>26. ASSUME NEW d \in Devices, JournalFails(d)
      PROVE  \A e \in Devices : job'[e].lv \in {job[e].lv, None, local[e]}
  BY <1>26, <1>t, <1>i, GotoDoes DEF OthersWait, GoesOn, Steps, JournalFails, Disturb,
     PushFails, rows, flags, nas, ghosts
<1>27. ASSUME NEW d \in Devices, Crash(d)
      PROVE  \A e \in Devices : job'[e].lv \in {job[e].lv, None, local[e]}
  BY <1>27, <1>t, <1>i, GotoDoes DEF OthersWait, GoesOn, Steps, Crash, Disturb, rows,
     flags, nas, ghosts
<1>28. CASE BrowseDelete
  BY <1>28, <1>t, <1>i, GotoDoes DEF OthersWait, GoesOn, Steps, BrowseDelete, Disturb,
     rows, flags, nas, ghosts
<1>29. CASE ExpireTombstone
  BY <1>29, <1>t, <1>i, GotoDoes DEF OthersWait, GoesOn, Steps, ExpireTombstone, rows,
     flags, nas, ghosts
<1>30. CASE UNCHANGED vars
  BY <1>30, <1>t, <1>i, GotoDoes DEF OthersWait, GoesOn, Steps, vars, rows, flags,
     nas, ghosts
<1> QED BY <1>1, <1>2, <1>3, <1>4, <1>5, <1>6, <1>7, <1>8, <1>9, <1>10, <1>11, <1>12, <1>13,
   <1>14, <1>15, <1>16, <1>17, <1>18, <1>19, <1>20, <1>21, <1>22, <1>23, <1>24, <1>25,
   <1>26, <1>27, <1>28, <1>29, <1>30 DEF Next, PushLeases, PullLeases, Works

\* Whatever is anywhere was written by somebody.
LEMMA WrittenStep ==
    ASSUME TypeOK, JobInv, WrittenInv, [Next]_vars
    PROVE  WrittenInv'
<1>g. Grown
  BY GrowStep
<1>k. \A c : Written(c) => (c \in Versions => hist'[c] # {})
  BY <1>g DEF Grown, Written
<1>n. None \notin Versions
  BY ReconcileAssumption
<1>1. ASSUME NEW d \in Devices PROVE Written(base[d].v)'
  BY <1>k, <1>n, BaseStep, WrittenShare DEF BaseSteps, Written, WrittenInv
<1>2. ASSUME NEW d \in Devices PROVE Written(job[d].lv)'
  BY <1>k, <1>n, PlannedFile DEF Written, WrittenInv
<1> QED BY <1>1, <1>2, WrittenFiles, WrittenShare, WrittenCopies DEF WrittenInv

-----------------------------------------------------------------------------
\* The versions stay covered.

\* What a step may do to the local file of e when no worker of e writes it: its
\* user edits it, which derives from it, or deletes it.
Drifts(e) ==
    \/ local'[e] = local[e]
    \/ local[e] = None
    \/ local[e] \in dropped'
    \/ local'[e] # None /\ local[e] \in hist'[local'[e]]

\* A worker of e writes what the NAS has.
Takes(e) == local'[e] = share /\ share' = share

\* What a step may do to the file on the NAS.
ShareMoves ==
    \/ share' = share
    \/ share = None
    \/ \E c \in Versions : share = c /\ Gone(c)'
    \/ share' # None /\ share \in hist'[share']

\* The step is sound as far as history goes.
Tracks == Grown /\ HistoryInv' /\ WrittenInv /\ WrittenInv' /\ TypeOK /\ TypeOK'

\* What holds for a version holds for its ancestors.
LEMMA Derivation ==
    ASSUME Tracks, NEW b \in Versions, NEW c \in Versions, b \in hist'[c]
    PROVE  /\ Gone(c)' => Gone(b)'
           /\ \A e \in Devices : Superseded(e, c)' => Superseded(e, b)'
           /\ c \in hist'[b] => b = c
<1>1. \A x \in Versions : c \in hist'[x] => b \in hist'[x]
  BY DEF Tracks, HistoryInv
<1>2. c \in dropped' \cup outranked' => b \in dropped' \cup outranked'
  BY DEF Tracks, HistoryInv
<1>3. copies' \subseteq Versions /\ \A e \in Devices : local'[e] \in Contents
  BY DEF Tracks, TypeOK
<1>4. c \in hist'[b] => b = c
  BY DEF Tracks, HistoryInv
<1>5. Gone(c)' => Gone(b)'
  BY <1>1, <1>2, <1>3 DEF Gone
<1>6. ASSUME NEW e \in Devices, Superseded(e, c)' PROVE Superseded(e, b)'
  BY <1>1, <1>2, <1>3, <1>6 DEF Superseded, Contents
<1> QED BY <1>4, <1>5, <1>6

\* What the NAS can do without, it can do without for ever,
LEMMA GoneStays ==
    ASSUME Tracks, NEW c \in Versions, Gone(c)
    PROVE  Gone(c)'
<1>1. \A x \in copies : x \in Versions /\ hist[x] # {}
  BY DEF Tracks, WrittenInv, Written, TypeOK
<1> QED BY <1>1 DEF Tracks, Grown, Gone

\* and no PC needs it.
LEMMA GoneSupersedes ==
    ASSUME Tracks, NEW c \in Versions, NEW e \in Devices, Gone(c)'
    PROVE  Superseded(e, c)'
<1>1. copies' \subseteq Versions
  BY DEF Tracks, TypeOK
<1> QED BY <1>1, ReconcileAssumption DEF Gone, Superseded

\* A version that a PC has superseded stays superseded, unless a worker writes
\* the local file.
LEMMA SupersededStays ==
    ASSUME Tracks, NEW c \in Versions, NEW e \in Devices, Drifts(e), Superseded(e, c)
    PROVE  Superseded(e, c)'
<1>1. CASE Gone(c)
  BY <1>1, GoneStays, GoneSupersedes
<1>2. CASE local[e] # None /\ c \in hist[local[e]]
  <2>1. local[e] \in Versions /\ hist'[local[e]] = hist[local[e]]
    BY <1>2 DEF Tracks, TypeOK, Contents, Grown
  <2>2. CASE local'[e] = local[e]
    BY <1>2, <2>1, <2>2 DEF Superseded
  <2>3. CASE local[e] \in dropped'
    BY <1>2, <2>1, <2>3 DEF Tracks, HistoryInv, Superseded
  <2>4. CASE local'[e] # None /\ local[e] \in hist'[local'[e]]
    <3>1. local'[e] \in Versions
      BY <2>4 DEF Tracks, TypeOK, Contents
    <3>2. c \in hist'[local'[e]]
      BY <1>2, <2>1, <2>4, <3>1 DEF Tracks, HistoryInv
    <3> QED BY <2>4, <3>2 DEF Superseded
  <2> QED BY <1>2, <2>2, <2>3, <2>4 DEF Drifts
<1> QED BY <1>1, <1>2 DEF Superseded, Gone

\* An ancestor of the NAS version stays one, or the NAS can do without it.
LEMMA OnShareStays ==
    ASSUME Tracks, ShareMoves, NEW c \in Versions, OnShare(c)
    PROVE  Gone(c)' \/ OnShare(c)'
<1>1. share \in Versions /\ c \in hist'[share] /\ share # None
  BY DEF Tracks, TypeOK, Contents, Grown, OnShare
<1>2. CASE share' = share
  BY <1>1, <1>2 DEF OnShare
<1>3. ASSUME NEW s \in Versions, share = s, Gone(s)' PROVE Gone(c)'
  BY <1>1, <1>3, Derivation
<1>4. CASE share' # None /\ share \in hist'[share']
  <2>1. share' \in Versions
    BY <1>4 DEF Tracks, TypeOK, Contents
  <2> QED BY <1>1, <1>4, <2>1 DEF Tracks, HistoryInv, OnShare
<1> QED BY <1>2, <1>3, <1>4 DEF ShareMoves, OnShare

\* A base row that a step leaves alone stays accounted for.  If a worker takes
\* the file of the NAS, the first part of BaseFits gives the second; if the NAS
\* gets another version, that is not an ancestor of the one it replaces.
LEMMA BaseStays ==
    ASSUME Tracks, ShareMoves, NEW e \in Devices, base'[e] = base[e],
           Drifts(e) \/ Takes(e), BaseFits(e)
    PROVE  BaseFits(e)'
<1> SUFFICES ASSUME base[e].v \in Versions PROVE BaseFits(e)'
  BY DEF BaseFits
<1>a. PICK b \in Versions : b = base[e].v
  OBVIOUS
<1>e. base'[e].v = b
  BY <1>a
<1>b. /\ Gone(b) \/ OnShare(b)
      /\ Superseded(e, b) \/ (share # b /\ OnShare(b))
  BY <1>a DEF BaseFits
<1>1. Gone(b)' \/ OnShare(b)'
  BY <1>b, GoneStays, OnShareStays
<1>2. Superseded(e, b)' \/ (share' # b /\ OnShare(b)')
  <2>1. CASE Takes(e)
    <3>1. Gone(b)' => Superseded(e, b)'
      BY GoneSupersedes
    <3>2. OnShare(b)' => Superseded(e, b)'
      BY <2>1 DEF Takes, OnShare, Superseded
    <3> QED BY <1>1, <3>1, <3>2
  <2>2. CASE Drifts(e) /\ Superseded(e, b)
    BY <2>2, SupersededStays
  <2>3. CASE share # b /\ OnShare(b)
    <3>1. CASE Gone(b)'
      BY <3>1, GoneSupersedes
    <3>2. CASE ~Gone(b)' /\ share' = share
      BY <2>3, <1>1, <3>2
    <3>3. CASE ~Gone(b)' /\ share' # share
      <4>1. share \in Versions /\ b \in hist'[share]
        BY <2>3 DEF Tracks, TypeOK, Contents, Grown, OnShare
      <4>2. ASSUME NEW s \in Versions, share = s, Gone(s)' PROVE FALSE
        BY <3>3, <4>1, <4>2, Derivation
      <4>3. share' # None /\ share \in hist'[share']
        BY <2>3, <3>3, <4>2 DEF ShareMoves, OnShare
      <4>4. ASSUME share' = b PROVE FALSE
        <5>1. PICK s \in Versions : s = share
          BY <4>1
        <5> QED BY <2>3, <4>1, <4>3, <4>4, <5>1, Derivation
      <4> QED BY <1>1, <3>3, <4>4
    <3> QED BY <3>1, <3>2, <3>3
  <2> QED BY <1>b, <2>1, <2>2, <2>3
<1> QED BY <1>1, <1>2, <1>e DEF BaseFits

\* How the operation of the PC e goes on in a step.
Follows(e, from, to) ==
    /\ job[e].at = from /\ GoesOn(e, to)
    /\ job'[e].got = job[e].got \/ Takes(e)

JobMoves(e) ==
    \/ job'[e] = job[e]
    \/ job'[e].at \in {"idle", "plan", "stage", "adopt", "apply"}
    \/ PushPlan(e) /\ job'[e].at = "transfer"
    \/ job'[e].at \in {"live", "sweep", "check"} /\ ~job'[e].got
    \/ Follows(e, "stage", "publish") /\ local[e] = job[e].lv /\ local'[e] = local[e]
    \/ Follows(e, "transfer", "confirm") /\ share' = local'[e]
    \/ Follows(e, "transfer", "confirm") /\ share' = None
    \/ Follows(e, "apply", "confirm") /\ Takes(e)
    \/ /\ \E x \in {"live", "sweep", "check", "fetch"} :
            \E y \in {"sweep", "check", "fetch", "settle"} : Follows(e, x, y)
       /\ share' = share /\ (local'[e] = local[e] \/ Takes(e))

\* The steps of an operation go one after another.
LEMMA JobMovesStep ==
    ASSUME TypeOK, JobInv, [Next]_vars
    PROVE  \A e \in Devices : JobMoves(e)
<1>t. /\ job \in [Devices -> Job] /\ \A d \in Devices : job[d] \in Job
      /\ local \in [Devices -> Contents]
  BY TypeParts DEF JobOK, FilesOK
<1>i. Idle.at = "idle"
  BY DEF Idle
<1>1. ASSUME NEW d \in Devices, NEW v \in Versions, Edit(d, v)
      PROVE  \A e \in Devices : JobMoves(e)
  BY <1>1 DEF JobMoves, Edit, rows, flags, nas, ghosts
<1>2. ASSUME NEW d \in Devices, UserDelete(d)
      PROVE  \A e \in Devices : JobMoves(e)
  BY <1>2 DEF JobMoves, UserDelete, Disturb, rows, flags, nas, ghosts
<1>3. ASSUME NEW d \in Devices, Notice(d)
      PROVE  \A e \in Devices : JobMoves(e)
  BY <1>3 DEF JobMoves, Notice, Mark, rows, flags, nas, ghosts
<1>4. ASSUME NEW d \in Devices, PushTick(d)
      PROVE  \A e \in Devices : JobMoves(e)
  BY <1>4 DEF JobMoves, PushTick, rows, flags, nas, ghosts
<1>5. ASSUME NEW d \in Devices, PushUnstable(d)
      PROVE  \A e \in Devices : JobMoves(e)
  BY <1>5 DEF JobMoves, PushUnstable, rows, flags, nas, ghosts
<1>6. ASSUME NEW d \in Devices, PullTick(d)
      PROVE  \A e \in Devices : JobMoves(e)
  BY <1>6 DEF JobMoves, PullTick, rows, flags, nas, ghosts
<1>7. ASSUME NEW d \in Devices, PushPrepare(d)
      PROVE  \A e \in Devices : JobMoves(e)
  BY <1>7, PrepareDoes DEF JobMoves, OthersWait
<1>8. ASSUME NEW d \in Devices, PushPlan(d)
      PROVE  \A e \in Devices : JobMoves(e)
  <2>1. StepAfterPlan(d) \in {"stage", "plan", "adopt", "transfer"}
    <3>1. job[d].try \in BOOLEAN
      BY <1>t DEF Job
    <3> QED BY <3>1 DEF StepAfterPlan
  <2> QED BY <1>8, <2>1, PlanDoes DEF JobMoves, OthersWait
<1>9. ASSUME NEW d \in Devices, PushYields(d)
      PROVE  \A e \in Devices : JobMoves(e)
  BY <1>9, <1>i, GotoDoes DEF JobMoves, OthersWait, PushYields
<1>10. ASSUME NEW d \in Devices, PushPublish(d)
      PROVE  \A e \in Devices : JobMoves(e)
  <2>1. Finish(d)
    BY <1>10 DEF PushPublish, PushFails
  <2> QED BY <2>1, <1>i, GotoDoes DEF JobMoves, OthersWait
<1>11. ASSUME NEW d \in Devices, NEW full \in BOOLEAN, PullSnapshot(d, full)
      PROVE  \A e \in Devices : JobMoves(e)
  BY <1>11, SnapshotDoes DEF JobMoves, OthersWait
<1>12. ASSUME NEW d \in Devices, PushStage(d)
      PROVE  \A e \in Devices : JobMoves(e)
  <2>1. CASE Finish(d)
    BY <2>1, <1>i, GotoDoes DEF JobMoves, OthersWait
  <2>2. CASE ~Finish(d)
    <3>1. Goto(d, "publish") /\ local[d] = job[d].lv /\ local'[d] = local[d]
      BY <1>12, <2>2, <1>t DEF PushStage, PushFails, nas, rows
    <3>2. GoesOn(d, "publish") /\ OthersWait(d) /\ job'[d].got = job[d].got
      BY <3>1, GotoDoes DEF Steps
    <3> QED BY <1>12, <3>1, <3>2 DEF JobMoves, Follows, GoesOn, OthersWait, PushStage
  <2> QED BY <2>1, <2>2
<1>13. ASSUME NEW d \in Devices, PushUpload(d)
      PROVE  \A e \in Devices : JobMoves(e)
  <2>1. CASE Finish(d)
    BY <2>1, <1>i, GotoDoes DEF JobMoves, OthersWait
  <2>2. CASE ~Finish(d)
    <3>1. Goto(d, "confirm") /\ share' = local'[d]
      BY <1>13, <2>2, <1>t DEF PushUpload, PushFails, nas, rows
    <3>2. GoesOn(d, "confirm") /\ OthersWait(d) /\ job'[d].got = job[d].got
      BY <3>1, GotoDoes DEF Steps
    <3> QED BY <1>13, <3>1, <3>2 DEF JobMoves, Follows, GoesOn, OthersWait, PushUpload
  <2> QED BY <2>1, <2>2
<1>14. ASSUME NEW d \in Devices, PushDelete(d)
      PROVE  \A e \in Devices : JobMoves(e)
  <2>1. Goto(d, "confirm") /\ share' = None
    BY <1>14, <1>t DEF PushDelete, WriteLocal, nas, rows, Takes
  <2>2. GoesOn(d, "confirm") /\ OthersWait(d) /\ job'[d].got = job[d].got
    BY <2>1, GotoDoes DEF Steps
  <2> QED BY <1>14, <2>1, <2>2 DEF JobMoves, Follows, GoesOn, OthersWait, PushDelete
<1>15. ASSUME NEW d \in Devices, PushAdopt(d)
      PROVE  \A e \in Devices : JobMoves(e)
  <2>1. CASE Finish(d)
    BY <2>1, <1>i, GotoDoes DEF JobMoves, OthersWait
  <2>2. CASE ~Finish(d)
    <3>1. Goto(d, "apply")
      BY <1>15, <2>2, <1>t DEF PushAdopt, PushFails, nas, rows
    <3>2. GoesOn(d, "apply") /\ OthersWait(d) /\ job'[d].got = job[d].got
      BY <3>1, GotoDoes DEF Steps
    <3> QED BY <1>15, <3>1, <3>2 DEF JobMoves, Follows, GoesOn, OthersWait, PushAdopt
  <2> QED BY <2>1, <2>2
<1>16. ASSUME NEW d \in Devices, PushApply(d)
      PROVE  \A e \in Devices : JobMoves(e)
  <2>1. Goto(d, "confirm") /\ Takes(d)
    BY <1>16, <1>t DEF PushApply, WriteLocal, nas, rows, Takes
  <2>2. GoesOn(d, "confirm") /\ OthersWait(d) /\ job'[d].got = job[d].got
    BY <2>1, GotoDoes DEF Steps
  <2> QED BY <1>16, <2>1, <2>2 DEF JobMoves, Follows, GoesOn, OthersWait, PushApply
<1>17. ASSUME NEW d \in Devices, PushConfirm(d)
      PROVE  \A e \in Devices : JobMoves(e)
  BY <1>17, <1>i, GotoDoes DEF JobMoves, OthersWait, PushConfirm
<1>18. ASSUME NEW d \in Devices, PushUnconfirmed(d)
      PROVE  \A e \in Devices : JobMoves(e)
  BY <1>18, <1>i, GotoDoes DEF JobMoves, OthersWait, PushUnconfirmed, PushFails
<1>19. ASSUME NEW d \in Devices, PullLive(d)
      PROVE  \A e \in Devices : JobMoves(e)
  <2>1. /\ AfterLive(d) \in {"sweep", "check"} /\ Goto(d, AfterLive(d))
        /\ share' = share /\ local' = local
    BY <1>19 DEF PullLive, AfterLive, nas
  <2>2. GoesOn(d, AfterLive(d)) /\ OthersWait(d) /\ job'[d].got = job[d].got
    BY <2>1, GotoDoes DEF Steps
  <2> QED BY <1>19, <2>1, <2>2 DEF JobMoves, Follows, OthersWait, PullLive
<1>20. ASSUME NEW d \in Devices, PullCancelled(d)
      PROVE  \A e \in Devices : JobMoves(e)
  BY <1>20, <1>i, GotoDoes DEF JobMoves, OthersWait, PullCancelled
<1>21. ASSUME NEW d \in Devices, PullSweep(d)
      PROVE  \A e \in Devices : JobMoves(e)
  <2>1. CASE Sweeps(d) /\ WriteLocal(d, share)
    <3>1. job' = [job EXCEPT ![d].at = "check", ![d].got = TRUE] /\ Takes(d) /\ share' = share
      BY <1>21, <2>1, <1>t DEF PullSweep, WriteLocal, nas, rows, Takes
    <3>2. GoesOn(d, "check") /\ OthersWait(d) /\ job'[d].got
      BY <3>1, GotoDoes DEF Steps
    <3> QED BY <1>21, <3>1, <3>2 DEF JobMoves, Follows, GoesOn, OthersWait, PullSweep
  <2>2. CASE ~Sweeps(d)
    <3>1. Goto(d, "check") /\ share' = share /\ local' = local
      BY <1>21, <2>2, <1>t DEF PullSweep, WriteLocal, nas, rows, Takes
    <3>2. GoesOn(d, "check") /\ OthersWait(d) /\ job'[d].got = job[d].got
      BY <3>1, GotoDoes DEF Steps
    <3> QED BY <1>21, <3>1, <3>2 DEF JobMoves, Follows, GoesOn, OthersWait, PullSweep
  <2> QED BY <1>21, <2>1, <2>2 DEF PullSweep
<1>22. ASSUME NEW d \in Devices, PullCheck(d)
      PROVE  \A e \in Devices : JobMoves(e)
  <2>1. /\ Goto(d, "fetch") \/ Goto(d, "settle")
             \/ job' = [job EXCEPT ![d].at = "settle", ![d].cks = FALSE]
        /\ share' = share /\ local' = local
    BY <1>22 DEF PullCheck, nas
  <2>2. /\ GoesOn(d, "fetch") \/ GoesOn(d, "settle")
        /\ OthersWait(d) /\ job'[d].got = job[d].got
    BY <2>1, GotoDoes DEF Steps
  <2> QED BY <1>22, <2>1, <2>2 DEF JobMoves, Follows, OthersWait, PullCheck
<1>23. ASSUME NEW d \in Devices, PullFetch(d)
      PROVE  \A e \in Devices : JobMoves(e)
  <2>1. job' = [job EXCEPT ![d].at = "settle", ![d].got = TRUE] /\ Takes(d) /\ share' = share
    BY <1>23, <1>t DEF PullFetch, WriteLocal, nas, rows, Takes
  <2>2. GoesOn(d, "settle") /\ OthersWait(d) /\ job'[d].got
    BY <2>1, GotoDoes DEF Steps
  <2> QED BY <1>23, <2>1, <2>2 DEF JobMoves, Follows, GoesOn, OthersWait, PullFetch
<1>24. ASSUME NEW d \in Devices, PullSettle(d)
      PROVE  \A e \in Devices : JobMoves(e)
  BY <1>24, <1>i, GotoDoes DEF JobMoves, OthersWait, PullSettle
<1>25. ASSUME NEW d \in Devices, Fails(d)
      PROVE  \A e \in Devices : JobMoves(e)
  BY <1>25, <1>i, GotoDoes DEF JobMoves, OthersWait, Fails, PushFails
<1>26. ASSUME NEW d \in Devices, JournalFails(d)
      PROVE  \A e \in Devices : JobMoves(e)
  BY <1>26, <1>i, GotoDoes DEF JobMoves, OthersWait, JournalFails, PushFails
<1>27. ASSUME NEW d \in Devices, Crash(d)
      PROVE  \A e \in Devices : JobMoves(e)
  BY <1>27, <1>i, GotoDoes DEF JobMoves, OthersWait, Crash
<1>28. CASE BrowseDelete
  BY <1>28 DEF JobMoves, BrowseDelete, Disturb, rows, flags, nas, ghosts
<1>29. CASE ExpireTombstone
  BY <1>29 DEF JobMoves, ExpireTombstone, rows, flags, nas, ghosts
<1>30. CASE UNCHANGED vars
  BY <1>30 DEF JobMoves, vars, rows, flags, nas, ghosts
<1> QED BY <1>1, <1>2, <1>3, <1>4, <1>5, <1>6, <1>7, <1>8, <1>9, <1>10, <1>11, <1>12, <1>13,
   <1>14, <1>15, <1>16, <1>17, <1>18, <1>19, <1>20, <1>21, <1>22, <1>23, <1>24, <1>25,
   <1>26, <1>27, <1>28, <1>29, <1>30 DEF Next, PushLeases, PullLeases, Works

\* A step that leaves the operation of e alone does not write its local file
\* for it, and changes the NAS only if e has not got the lease.
LEMMA Aside ==
    ASSUME Tracks, JobInv, [Next]_vars, NEW e \in Devices
    PROVE  /\ Drifts(e) \/ Takes(e)
           /\ job'[e] = job[e] => Drifts(e) /\ (share' = share \/ lease # e)
<1>t. /\ job \in [Devices -> Job] /\ local \in [Devices -> Contents]
      /\ hist \in [Versions -> SUBSET Versions] /\ TypeOK
  BY TypeParts DEF JobOK, FilesOK, NasOK, Tracks
<1>1. ASSUME UNCHANGED <<local[e], ltrash[e]>> PROVE Drifts(e)
  BY <1>1 DEF Drifts
<1>2. ASSUME NEW v \in Versions, Edit(e, v) PROVE Drifts(e)
  <2>1. /\ local'[e] = v
        /\ hist'[v] = {v} \cup IF local[e] = None THEN {} ELSE hist[local[e]]
    BY <1>2, <1>t DEF Edit
  <2>2. local[e] # None => local[e] \in hist[local[e]]
    BY <1>t, ReconcileAssumption DEF Tracks, HistoryInv, Grown, WrittenInv, Written, Contents
  <2> QED BY <2>1, <2>2, ReconcileAssumption DEF Drifts
<1>3. ASSUME UserDelete(e) PROVE Drifts(e)
  <2>1. dropped' = dropped \cup hist[local[e]] /\ local[e] # None
    BY <1>3 DEF UserDelete
  <2>2. local[e] \in hist[local[e]]
    BY <2>1, <1>t DEF Tracks, HistoryInv, Grown, WrittenInv, Written, Contents
  <2> QED BY <2>1, <2>2 DEF Drifts
<1>4. Drifts(e) \/ (Takes(e) /\ job'[e] # job[e])
  <2>1. CASE WriteLocal(e, share) /\ (PushApply(e) \/ PullSweep(e) \/ PullFetch(e))
    <3>1. Takes(e)
      BY <2>1, <1>t DEF Takes, WriteLocal, PushApply, PullSweep, PullFetch, nas
    <3>2. job'[e].at # job[e].at
      BY <2>1, <1>t, GotoDoes DEF PushApply, PullSweep, PullFetch, GoesOn, Steps
    <3> QED BY <3>1, <3>2
  <2> QED BY <1>1, <1>2, <1>3, <2>1, <1>t, FileStep DEF FileSteps
<1>5. ASSUME NEW d \in Devices, PushPublish(d) \/ PushUpload(d) \/ PushDelete(d)
      PROVE  lease \in {None, d} /\ job'[d].at # job[d].at
  <2>1. Finish(d) \/ Goto(d, "confirm")
    BY <1>5 DEF PushPublish, PushUpload, PushDelete, PushFails
  <2>2. job[d].at \in {"publish", "transfer"}
    BY <1>5 DEF PushPublish, PushUpload, PushDelete
  <2>3. lease \in {None, d}
    BY <1>5 DEF PushPublish, PushUpload, PushDelete, JobInv, JobFits, Leased
  <2> QED BY <2>1, <2>2, <2>3, <1>t, IdleIs, GotoDoes DEF GoesOn, Steps
<1>6. job'[e] = job[e] => share' = share \/ lease # e
  BY <1>5, ShareStep, PathAssumption DEF ShareSteps, BrowseDelete
<1> QED BY <1>4, <1>6

\* What a push puts in place of the NAS version, or deletes, is covered.
LEMMA ShareMovesStep ==
    ASSUME Tracks, JobInv, CoverInv, [Next]_vars
    PROVE  ShareMoves
<1>t. share \in Contents /\ TypeOK /\ \A d \in Devices : local[d] \in Contents
  BY DEF Tracks, TypeOK
<1>h. \A c \in Versions : share = c => c \in hist[c] /\ hist'[c] = hist[c]
  BY DEF Tracks, HistoryInv, Grown, WrittenInv, Written
<1>1. CASE share' = share
  BY <1>1 DEF ShareMoves
<1>2. ASSUME NEW d \in Devices, PushPublish(d) PROVE ShareMoves
  BY <1>2 DEF PushPublish, ShareMoves, nas
<1>3. ASSUME NEW d \in Devices, PushUpload(d) PROVE ShareMoves
  <2>1. ShareFits(d)
    BY DEF CoverInv, Fits
  <2>2. CASE local[d] # None /\ share' = local[d] /\ share # None
    <3>1. PICK c \in Versions : c = share
      BY <2>2, <1>t DEF Contents
    <3>2. Superseded(d, c)
      BY <1>3, <2>1, <2>2, <3>1 DEF ShareFits, PushUpload
    <3>3. CASE Gone(c)
      BY <3>1, <3>3, GoneStays DEF ShareMoves
    <3>4. CASE c \in hist[local[d]]
      <4>1. hist'[local[d]] = hist[local[d]]
        BY <2>2, <3>4, <1>t DEF Tracks, Grown, Contents
      <4> QED BY <2>2, <3>1, <3>4, <4>1 DEF ShareMoves
    <3> QED BY <3>2, <3>3, <3>4 DEF Superseded, Gone
  <2> QED BY <1>3, <2>2 DEF PushUpload, ShareMoves
<1>4. ASSUME NEW d \in Devices, PushDelete(d) PROVE ShareMoves
  <2>1. DeleteFits(d)
    BY DEF CoverInv, Fits
  <2>2. ASSUME NEW c \in Versions, c = share, share # None PROVE Gone(c)'
    <3>1. CASE ByClockAlone(d)
      BY <1>4, <2>2, <3>1, <1>h DEF PushDelete, Gone
    <3>2. CASE ~ByClockAlone(d)
      <4>1. Gone(c)
        BY <1>4, <2>1, <2>2, <3>2 DEF PushDelete, DeleteFits
      <4> QED BY <4>1, GoneStays
    <3> QED BY <3>1, <3>2
  <2> QED BY <2>2, <1>t DEF ShareMoves, Contents
<1>5. CASE BrowseDelete
  <2>1. ASSUME NEW c \in Versions, c = share PROVE Gone(c)'
    BY <1>5, <2>1, <1>h DEF BrowseDelete, Gone
  <2> QED BY <1>5, <2>1, <1>t DEF BrowseDelete, ShareMoves, Contents
<1> QED BY <1>1, <1>2, <1>3, <1>4, <1>5, ShareStep DEF ShareSteps

\* The base rows are accounted for after any step: a base row written by a push
\* or a pull is of a version on the NAS that the PC has superseded.
LEMMA BaseFitsStep ==
    ASSUME Tracks, JobInv, CoverInv, [Next]_vars, NEW e \in Devices
    PROVE  BaseFits(e)'
<1>f. Fits(e) /\ TypeOK
  BY DEF CoverInv, Tracks
<1>a. Drifts(e) \/ Takes(e)
  BY Aside
<1>w. \A c \in Versions : share' = c => OnShare(c)'
  BY ReconcileAssumption DEF Tracks, WrittenInv, Written, HistoryInv, OnShare
<1>1. CASE base'[e] = base[e]
  BY <1>1, <1>a, <1>f, BaseStays, ShareMovesStep DEF Fits
<1>2. CASE base'[e].v = None /\ (PushYields(e) \/ PushConfirm(e))
  BY <1>2, ReconcileAssumption DEF BaseFits
<1>3. CASE PushPublish(e) /\ share = None /\ share' = job[e].lv /\ base'[e].v = share'
  <2>1. PICK c \in Versions : c = job[e].lv
    BY <1>3 DEF PushPublish, JobInv, JobFits
  <2>2. Superseded(e, c)
    BY <1>3, <1>f, <2>1 DEF PushPublish, Fits, PublishFits
  <2>3. Drifts(e)
    BY <1>3 DEF PushPublish, Drifts
  <2> QED BY <1>3, <1>w, <2>1, <2>2, <2>3, SupersededStays DEF BaseFits
<1>4. CASE base'[e].v = share /\ share' = share /\ (PushConfirm(e) \/ (PullSettle(e) /\ job[e].got))
  <2>1. SUFFICES ASSUME NEW c \in Versions, c = share PROVE BaseFits(e)'
    BY <1>4 DEF BaseFits
  <2>2. share # None
    BY <2>1, ReconcileAssumption
  <2>3. Superseded(e, c)
    BY <1>4, <1>f, <2>1, <2>2 DEF PushConfirm, PullSettle, Fits, ShareFits
  <2>4. Drifts(e)
    BY <1>4 DEF PushConfirm, PullSettle, Drifts
  <2> QED BY <1>4, <1>w, <2>1, <2>3, <2>4, SupersededStays DEF BaseFits
<1> QED BY <1>1, <1>2, <1>3, <1>4, <1>f, BaseStep DEF BaseSteps

\* The operation of a PC, after any step.
LEMMA JobCoverStep ==
    ASSUME Tracks, JobInv, CoverInv, [Next]_vars, NEW e \in Devices
    PROVE  ShareFits(e)' /\ DeleteFits(e)' /\ PublishFits(e)'
<1>f. /\ ShareFits(e) /\ DeleteFits(e) /\ PublishFits(e) /\ BaseFits(e)
      /\ JobFits(e, job[e], lease) /\ TypeOK
  BY DEF CoverInv, Fits, JobInv, Tracks
<1>t. share \in Contents /\ share' \in Contents /\ local'[e] \in Contents
  BY DEF Tracks, TypeOK
<1>h. \A c \in Versions : (share' = c \/ local'[e] = c) => c \in hist'[c]
  BY DEF Tracks, WrittenInv, Written, HistoryInv
<1>s. share' = local'[e] /\ share' # None => Superseded(e, share)'
  BY <1>h, <1>t DEF Superseded, Contents
<1>p. ASSUME NEW c \in Versions, Drifts(e), Superseded(e, c) PROVE Superseded(e, c)'
  BY <1>p, SupersededStays
<1>1. CASE job'[e] = job[e]
  <2>1. Drifts(e) /\ (share' = share \/ lease # e)
    BY <1>1, Aside
  <2>2. job[e].at \in Leased => share' = share
    BY <1>f, <2>1 DEF JobFits
  <2>3. (share' # None /\ job[e].at \in Leased) => share \in Versions /\ share' = share
    BY <1>t, <2>2 DEF Contents
  <2>4. ShareFits(e)'
    <3>1. ASSUME NEW c \in Versions, c = share, share' = share PROVE ShareFits(e)'
      BY <1>1, <1>f, <1>p, <2>1, <3>1 DEF ShareFits
    <3> QED BY <1>1, <2>3, <3>1 DEF ShareFits, Leased
  <2>5. DeleteFits(e)'
    <3>1. ASSUME NEW c \in Versions, c = share, share' = share,
                 job[e].at = "transfer", Gone(c) PROVE DeleteFits(e)'
      BY <3>1, GoneStays DEF DeleteFits
    <3>2. job[e].at = "transfer" /\ job[e].act = "delete_remote" => base'[e] = base[e]
      <4>1. Finish(e) => job'[e].at = "idle"
        BY <1>f, IdleIs, GotoDoes
      <4>2. job[e].at = "transfer" => ~Finish(e)
        BY <1>1, <4>1
      <4> QED BY <1>f, <4>2, BaseStep
             DEF BaseSteps, PushYields, PushPublish, PushConfirm, PullSettle
    <3> QED BY <1>1, <1>f, <2>3, <3>1, <3>2 DEF DeleteFits, ByClockAlone, Leased
  <2>6. PublishFits(e)'
    <3>1. job[e].at = "publish" => job[e].lv \in Versions
      BY <1>f DEF JobFits
    <3>2. ASSUME NEW c \in Versions, c = job[e].lv PROVE PublishFits(e)'
      BY <1>1, <1>f, <1>p, <2>1, <3>2 DEF PublishFits
    <3> QED BY <1>1, <3>1, <3>2 DEF PublishFits
  <2> QED BY <2>4, <2>5, <2>6
<1>2. CASE job'[e].at \in {"idle", "plan", "stage", "adopt", "apply"}
  BY <1>2 DEF ShareFits, DeleteFits, PublishFits
<1>3. CASE PushPlan(e) /\ job'[e].at = "transfer"
  <2>1. /\ job'[e].act = Planned(e) /\ job'[e].rv = share
        /\ StepAfterPlan(e) = "transfer"
    BY <1>3, <1>f, PlanDoes
  <2>2. /\ UNCHANGED <<local, share, base, hist, dropped, outranked>>
        /\ Planned(e) = "conflict_local_wins" => share \in copies'
    BY <1>3 DEF PushPlan, nas, ghosts, KeepLoser
  <2>3. Planned(e) \in {"upload", "adopt", "conflict_local_wins", "delete_remote"}
    <3>1. job[e].try \in BOOLEAN
      BY <1>f, TypeParts DEF JobOK, Job
    <3>2. Planned(e) \notin {"nothing", "remote_wins", "conflict_remote_wins"}
      BY <1>3, <2>1, <3>1 DEF PushPlan, StepAfterPlan
    <3> QED BY <1>f, <3>2, PlannedType
  <2>4. Drifts(e)
    BY <2>2 DEF Drifts
  <2>5. ShareFits(e)'
    <3>1. CASE Planned(e) = "upload"
      <4>1. ASSUME NEW c \in Versions, c = share PROVE Superseded(e, c)'
        <5>1. c = base[e].v
          BY <1>f, <3>1, <4>1, PlannedType, ReconcileAssumption
        <5> QED BY <1>f, <1>p, <2>4, <4>1, <5>1 DEF BaseFits
      <4> QED BY <1>t, <2>2, <4>1 DEF ShareFits, Contents
    <3>2. CASE Planned(e) = "conflict_local_wins"
      <4>1. share' # None => Superseded(e, share)'
        BY <1>h, <1>t, <2>2, <3>2 DEF Superseded, Contents
      <4> QED BY <4>1 DEF ShareFits
    <3>3. CASE Planned(e) = "adopt"
      <4>1. share' # None => share' = local'[e]
        BY <1>f, <2>2, <3>3, PlannedType
      <4> QED BY <1>s, <4>1 DEF ShareFits
    <3>4. CASE Planned(e) = "delete_remote"
      BY <1>3, <2>1, <3>4 DEF ShareFits
    <3> QED BY <2>3, <3>1, <3>2, <3>3, <3>4
  <2>6. DeleteFits(e)'
    <3>1. SUFFICES ASSUME Planned(e) = "delete_remote", share = base[e].v,
                          NEW c \in Versions, c = share
                   PROVE  Gone(c)'
      BY <1>t, <2>1, <2>2 DEF DeleteFits, ByClockAlone, Contents
    <3>2. local[e] = None
      BY <1>f, <3>1, PlannedType
    <3>3. Gone(c)
      BY <1>f, <3>1, <3>2 DEF BaseFits, Superseded, Gone
    <3> QED BY <3>3, GoneStays
  <2> QED BY <1>3, <2>5, <2>6 DEF PublishFits
<1>4. CASE job'[e].at \in {"live", "sweep", "check"} /\ ~job'[e].got
  BY <1>4 DEF ShareFits, DeleteFits, PublishFits
<1>5. CASE Follows(e, "stage", "publish") /\ local[e] = job[e].lv /\ local'[e] = local[e]
  <2>1. job'[e].at = "publish" /\ job'[e].lv = local'[e] /\ local'[e] \in Versions
    BY <1>5, <1>f DEF Follows, GoesOn, JobFits
  <2>2. PublishFits(e)'
    BY <1>h, <2>1, ReconcileAssumption DEF PublishFits, Superseded
  <2> QED BY <2>1, <2>2 DEF ShareFits, DeleteFits
<1>6. CASE /\ Follows(e, "transfer", "confirm") \/ Follows(e, "apply", "confirm")
           /\ share' \in {None, local'[e]}
  BY <1>6, <1>s DEF Follows, GoesOn, ShareFits, DeleteFits, PublishFits
<1>7. ASSUME NEW x \in {"live", "sweep", "check", "fetch"},
             NEW y \in {"sweep", "check", "fetch", "settle"}, Follows(e, x, y),
             share' = share, local'[e] = local[e] \/ Takes(e)
      PROVE  ShareFits(e)' /\ DeleteFits(e)' /\ PublishFits(e)'
  <2>1. DeleteFits(e)' /\ PublishFits(e)'
    BY <1>7 DEF Follows, GoesOn, DeleteFits, PublishFits
  <2>2. CASE Takes(e)
    BY <1>s, <2>1, <2>2 DEF Takes, ShareFits
  <2>3. CASE ~Takes(e)
    <3>1. Drifts(e)
      BY <1>7, <2>3 DEF Drifts
    <3>2. job'[e].got = job[e].got /\ job[e].at = x
      BY <1>7, <2>3 DEF Follows
    <3>3. ASSUME NEW c \in Versions, c = share, Superseded(e, c) PROVE ShareFits(e)'
      BY <1>7, <1>p, <3>1, <3>3 DEF ShareFits
    <3>4. ShareFits(e)'
      BY <1>7, <1>f, <1>t, <3>2, <3>3 DEF ShareFits, Contents, Follows, GoesOn
    <3> QED BY <2>1, <3>4
  <2> QED BY <2>2, <2>3
<1> QED BY <1>1, <1>2, <1>3, <1>4, <1>5, <1>6, <1>7, <1>f, JobMovesStep DEF JobMoves, Takes

\* Every step keeps the versions covered.
LEMMA CoverStep ==
    ASSUME Tracks, JobInv, CoverInv, [Next]_vars
    PROVE  CoverInv'
BY BaseFitsStep, JobCoverStep DEF CoverInv, Fits

-----------------------------------------------------------------------------
\* The theorems.

\* The local folder and the local trash of some PC keep what was written.
Kept ==
    \A v \in Versions \ dropped :
        hist[v] # {} => \E d \in Devices : \E c \in ltrash[d] \cup {local[d]} :
                            c # None /\ v \in hist[c]

\* A step takes nothing from the local folder of a PC that it does not put into
\* its local trash, but what the user deletes.
LEMMA KeptStep ==
    ASSUME Tracks, Kept, [Next]_vars
    PROVE  Kept'
<1>t. /\ TypeOK /\ \A d \in Devices : local[d] \in Contents /\ ltrash[d] \subseteq Versions
      /\ local \in [Devices -> Contents] /\ ltrash \in [Devices -> SUBSET Versions]
      /\ hist \in [Versions -> SUBSET Versions]
  BY DEF Tracks, TypeOK
<1> SUFFICES ASSUME NEW v \in Versions, v \notin dropped', hist'[v] # {}
             PROVE  \E d \in Devices : \E c \in ltrash'[d] \cup {local'[d]} :
                        c # None /\ v \in hist'[c]
  BY DEF Kept
<1>1. CASE hist[v] = {}
  <2>1. PICK d \in Devices : Edit(d, v)
    <3>1. ASSUME NEW d \in Devices, NEW w \in Versions, Edit(d, w) PROVE w = v
      BY <1>1, <1>t, <3>1 DEF Edit
    <3> QED BY <1>1, <3>1, HistoryStep
            DEF HistorySteps, UserDelete, PushPlan, PushDelete, BrowseDelete, ghosts
  <2>2. local'[d] = v /\ v \in hist'[v]
    BY <2>1, <1>t DEF Edit
  <2> QED BY <2>2, ReconcileAssumption
<1>2. CASE hist[v] # {}
  <2>1. v \notin dropped
    BY DEF Tracks, Grown
  <2>2. PICK d \in Devices : \E c \in ltrash[d] \cup {local[d]} : c # None /\ v \in hist[c]
    BY <1>2, <2>1 DEF Kept
  <2>c. PICK c \in ltrash[d] \cup {local[d]} : c # None /\ v \in hist[c]
    BY <2>2
  <2>3. c \in Versions /\ hist'[c] = hist[c]
    BY <2>c, <1>t DEF Tracks, Grown, Contents
  <2>4. CASE c \in ltrash'[d] \cup {local'[d]}
    BY <2>c, <2>3, <2>4
  <2>5. CASE UNCHANGED <<local[d], ltrash[d]>>
    BY <2>c, <2>4, <2>5
  <2>6. ASSUME NEW w \in Versions, Edit(d, w)
        PROVE  c \in ltrash'[d] \cup {local'[d]} \/ (local'[d] # None /\ v \in hist'[local'[d]])
    <3>1. /\ local'[d] = w /\ ltrash' = ltrash
          /\ hist'[w] = {w} \cup IF local[d] = None THEN {} ELSE hist[local[d]]
      BY <2>6, <1>t DEF Edit
    <3> QED BY <2>c, <3>1, ReconcileAssumption
  <2>7. CASE UserDelete(d)
    <3>1. c # local[d]
      BY <2>c, <2>7 DEF UserDelete
    <3> QED BY <2>c, <2>4, <2>7, <3>1 DEF UserDelete
  <2>8. CASE WriteLocal(d, share)
    BY <2>c, <2>4, <2>8, <1>t DEF WriteLocal
  <2> QED BY <2>4, <2>5, <2>6, <2>7, <2>8, <1>t, FileStep DEF FileSteps
<1> QED BY <1>1, <1>2

\* The invariant holds at the start,
LEMMA PathInit == Init => PathInv /\ Kept
<1> SUFFICES ASSUME Init PROVE PathInv /\ Kept
  OBVIOUS
<1>1. TypeOK
  BY RowTypes, ClockTypes DEF Init, TypeOK, Contents, Payload, Job
<1>2. JobInv
  BY IdleIs DEF Init, JobInv
<1>3. HistoryInv
  BY DEF Init, HistoryInv
<1>4. WrittenInv
  BY ReconcileAssumption DEF Init, WrittenInv, Written, NoRow, Idle
<1>5. CoverInv
  BY ReconcileAssumption, IdleIs
     DEF Init, CoverInv, Fits, BaseFits, ShareFits, DeleteFits, PublishFits, NoRow
<1>6. Kept
  BY DEF Init, Kept
<1> QED BY <1>1, <1>2, <1>3, <1>4, <1>5, <1>6 DEF PathInv

\* and every step keeps it.
LEMMA PathStep == PathInv /\ Kept /\ [Next]_vars => PathInv' /\ Kept'
<1> SUFFICES ASSUME PathInv, Kept, [Next]_vars PROVE PathInv' /\ Kept'
  OBVIOUS
<1>1. TypeOK /\ JobInv /\ HistoryInv /\ WrittenInv /\ CoverInv
  BY DEF PathInv
<1>2. TypeOK'
  <2>1. RowsOK' /\ FilesOK' /\ NasOK' /\ JobOK'
    BY <1>1, RowsStep, FilesStep, NasStep, JobStep
  <2>2. RowsOK' /\ FilesOK' /\ NasOK' /\ JobOK' => TypeOK'
    BY TypeParts, PTL
  <2> QED BY <2>1, <2>2
<1>3. JobInv' /\ HistoryInv' /\ WrittenInv'
  BY <1>1, JobFitsStep, HistoryKept, WrittenStep
<1>4. Tracks
  BY <1>1, <1>2, <1>3, GrowStep DEF Tracks
<1> QED BY <1>1, <1>2, <1>3, <1>4, CoverStep, KeptStep DEF PathInv

\* The inductive invariant: types, operations, ancestry, and for every version
\* that was on the NAS an account of what became of it.
THEOREM PathCorrect == Spec => [](PathInv /\ Kept)
BY PathInit, PathStep, PTL DEF Spec

\* Types: whatever the clients, their users, faults and restarts do, the rows,
\* the operations and the NAS stay of the expected form; in particular a
\* confirmed push always finds a case of _authoritative_fingerprints.
THEOREM TypeCorrect == Spec => []TypeOK
<1>1. PathInv => TypeOK
  BY DEF PathInv
<1> QED BY <1>1, PathCorrect, PTL

\* Nobody overwrites what he has not seen: a push that is about to replace or
\* delete a NAS version has a file derived from it, or the version is in a
\* conflict copy or was deleted on purpose.  The exception is the deletion that
\* plan_path decides by the clocks alone.
THEOREM OverwritesSeen == Spec => []OverwriteSeen
<1>1. ASSUME PathInv PROVE OverwriteSeen
  <2> SUFFICES ASSUME NEW d \in Devices, job[d].at = "transfer",
                      job[d].act \in {"upload", "delete_remote", "conflict_local_wins"},
                      share # None
               PROVE  Superseded(d, share) \/ ByClockAlone(d)
    BY DEF OverwriteSeen
  <2>1. ShareFits(d) /\ DeleteFits(d) /\ copies \subseteq Versions
    BY <1>1 DEF PathInv, CoverInv, Fits, TypeOK
  <2>2. CASE job[d].act = "delete_remote" /\ ~ByClockAlone(d)
    BY <2>1, <2>2, ReconcileAssumption DEF DeleteFits, Gone, Superseded
  <2>3. CASE job[d].act # "delete_remote"
    BY <2>1, <2>3 DEF ShareFits
  <2> QED BY <2>2, <2>3
<1> QED BY <1>1, PathCorrect, PTL

\* The same of every step that changes the file of the NAS, also of the rsync
\* that reads a newer local file than the plan: the version that goes was deleted
\* on purpose or outranked, or a conflict copy or the new version derives from it.
NasVersionCovered ==
    [][share' # share /\ share # None =>
         \/ share \in dropped' \cup outranked'
         \/ \E x \in (copies' \cup {share'}) \ {None} : share \in hist'[x]]_vars

THEOREM NasVersionsCovered == Spec => NasVersionCovered
<1>1. PathInv /\ PathInv' /\ [Next]_vars => ShareMoves /\ copies' \subseteq Versions
  BY GrowStep, ShareMovesStep DEF PathInv, Tracks, TypeOK
<1>2. ASSUME ShareMoves, copies' \subseteq Versions, share' # share, share # None
      PROVE  \/ share \in dropped' \cup outranked'
             \/ \E x \in (copies' \cup {share'}) \ {None} : share \in hist'[x]
  BY <1>2, ReconcileAssumption DEF ShareMoves, Gone
<1>3. PathInv /\ PathInv' /\ [Next]_vars =>
         [share' # share /\ share # None =>
            \/ share \in dropped' \cup outranked'
            \/ \E x \in (copies' \cup {share'}) \ {None} : share \in hist'[x]]_vars
  BY <1>1, <1>2
<1> QED BY <1>3, PathCorrect, PTL DEF Spec, NasVersionCovered

\* No edit is lost, whatever the clients do and whatever faults there are.
THEOREM EditsKept == Spec => []EditsSurvive
<1>1. ASSUME Kept PROVE EditsSurvive
  BY <1>1 DEF Kept, EditsSurvive
<1> QED BY <1>1, PathCorrect, PTL
=============================================================================
