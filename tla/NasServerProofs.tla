--------------------------- MODULE NasServerProofs ---------------------------
(***************************************************************************)
(* Theorems about NasServer for every set of devices, paths, versions and  *)
(* requests, and any bounds.                                               *)
(***************************************************************************)
EXTENDS NasServer, NasJournalProofs

-----------------------------------------------------------------------------
(* Types of the building blocks *)

\* The constant effects, ids, markers and processes have their types.
LEMMA BaseTypes ==
    /\ NoEffect \in Effects
    /\ NoTxId \in TxIds
    /\ \A n \in Nat : FreshTx(n) \in TxIds
    /\ NoMarker \in Markers
    /\ Idle \in Procs
    /\ NoPayload \in [tx : TxIds, eff : Effects]
<1>1. NoEffect \in Effects
    BY DEF NoEffect, Effects, Entries
<1>2. NoTxId \in TxIds /\ \A n \in Nat : FreshTx(n) \in TxIds
    BY <1>1 DEF NoTxId, FreshTx, TxIds
<1>3. NoMarker \in Markers
    BY <1>1, <1>2 DEF NoMarker, Markers, Kinds, Unmoved
<1>4. Idle \in Procs
    BY <1>1, <1>3 DEF Idle, Procs, Ops
<1> QED BY <1>1, <1>2, <1>3, <1>4 DEF NoPayload

\* The step sequences a command may be given.
LEMMA PlanTypes ==
    /\ MovePlan \in Seq(Steps) /\ RedoPlan \in Seq(Steps)
    /\ PublishPlan \in Seq(Steps) /\ NewPublishPlan \in Seq(Steps)
    /\ <<"append", "bump">> \in Seq(Steps) /\ <<"fold", "reset">> \in Seq(Steps)
    /\ <<"append", "bump", "fold", "reset">> \in Seq(Steps)
    /\ <<"announce", "clear">> \in Seq(Steps) /\ <<"clear">> \in Seq(Steps)
    /\ <<"undo", "clear">> \in Seq(Steps) /\ <<>> \in Seq(Steps)
<1>1. MovePlan \in Seq(Steps) /\ RedoPlan \in Seq(Steps)
    BY DEF MovePlan, RedoPlan, Steps
<1>2. PublishPlan \in Seq(Steps) /\ NewPublishPlan \in Seq(Steps)
    BY DEF PublishPlan, NewPublishPlan, Steps
<1> QED BY <1>1, <1>2 DEF Steps

\* Taking a step off, or all of them, leaves a process.
LEMMA PoppedTypes ==
    ASSUME TypeOK, NEW d \in Devices
    PROVE  /\ Halted(d) \in Procs
           /\ proc[d].steps # <<>> => Popped(d) \in Procs
<1>1. proc[d] \in Procs
    BY DEF TypeOK
<1>2. Halted(d) \in Procs
    BY <1>1, BaseTypes, PlanTypes DEF Halted, Procs
<1>3. ASSUME proc[d].steps # <<>>
      PROVE  Popped(d) \in Procs
  <2>1. Tail(proc[d].steps) \in Seq(Steps)
      BY <1>1, <1>3 DEF Procs
  <2> QED BY <1>1, <2>1, BaseTypes DEF Popped, Procs
<1> QED BY <1>2, <1>3

\* Recovery's plan for a marker, and the plan after a failed step.
LEMMA DecisionTypes ==
    ASSUME NEW m \in Markers
    PROVE  /\ RecoveryPlan(m) \in Seq(Steps)
           /\ \A step \in {"begin", "move", "advance", "append", "bump", "undo"} :
                  FailedPlan(m, step) \in Seq(Steps)
BY PlanTypes DEF RecoveryPlan, FailedPlan

-----------------------------------------------------------------------------
(* Type correctness *)

USE DEF disk, record, markers, client, history

\* A device's process is replaced by another process.
LEMMA SetProcType ==
    ASSUME TypeOK, NEW d \in Devices, NEW r \in Procs, SetProc(d, r)
    PROVE  proc' \in [Devices -> Procs]
BY DEF TypeOK, SetProc

\* Starting a command.
LEMMA StartType ==
    ASSUME TypeOK, NEW d \in Devices, NEW op \in Ops, NEW own \in Markers,
           NEW req \in Effects, NEW next \in Sessions, Start(d, op, own, req, next),
           lists' \subseteq StageBatches, nextTx' \in Nat
    PROVE  TypeOK'
<1>1. [Idle EXCEPT !.op = op, !.ph = "lock", !.own = own, !.req = req] \in Procs
    BY BaseTypes DEF Procs
<1>2. proc' \in [Devices -> Procs]
    BY <1>1, SetProcType DEF Start
<1> QED BY <1>2 DEF TypeOK, Start

\* The two ways a command ends keep the client's state well typed.
LEMMA EndTypes ==
    ASSUME TypeOK, NEW d \in Devices
    PROVE  /\ Saved(d) \in [tx : TxIds, eff : Effects]
           /\ Succeed(d) => /\ proc' \in [Devices -> Procs] /\ sess' \in [Devices -> Sessions]
                            /\ batch' \in [Devices -> Effects]
                            /\ pending' \in [Devices -> [tx : TxIds, eff : Effects]]
           /\ Break(d) => /\ proc' \in [Devices -> Procs] /\ sess' \in [Devices -> Sessions]
                          /\ batch' \in [Devices -> Effects]
                          /\ pending' \in [Devices -> [tx : TxIds, eff : Effects]]
                          /\ lease' \in Devices \cup {NoDevice}
<1>1. proc[d] \in Procs /\ proc[d].own \in Markers
    BY DEF TypeOK, Procs
<1>2. proc[d].own.tx[1] + 1 \in Nat /\ proc[d].own.eff \in Effects
    BY <1>1 DEF Markers, TxIds
<1>3. Saved(d) \in [tx : TxIds, eff : Effects]
    BY <1>2, BaseTypes DEF Saved, TypeOK
<1>4. ASSUME Succeed(d)
      PROVE  /\ proc' \in [Devices -> Procs] /\ sess' \in [Devices -> Sessions]
             /\ batch' \in [Devices -> Effects]
             /\ pending' \in [Devices -> [tx : TxIds, eff : Effects]]
    BY <1>4, BaseTypes DEF Succeed, SetProc, TypeOK
<1>5. ASSUME Break(d)
      PROVE  /\ proc' \in [Devices -> Procs] /\ sess' \in [Devices -> Sessions]
             /\ batch' \in [Devices -> Effects]
             /\ pending' \in [Devices -> [tx : TxIds, eff : Effects]]
             /\ lease' \in Devices \cup {NoDevice}
    BY <1>3, <1>5, BaseTypes DEF Break, SetProc, TypeOK, Sessions
<1> QED BY <1>3, <1>4, <1>5

\* What a client does, and the start of every command.
LEMMA RequestType ==
    ASSUME TypeOK, NEW d \in Devices, Request(d)
    PROVE  TypeOK'
<1>1. CASE TransferWait(d)
  <2>1. [Idle EXCEPT !.op = "wait", !.ph = "lock"] \in Procs
      BY BaseTypes DEF Procs, Ops
  <2> QED BY <1>1, <2>1, SetProcType DEF TransferWait, TypeOK
<1>2. CASE EndLease(d)
    BY <1>2, BaseTypes DEF EndLease, TypeOK, Sessions
<1>3. ASSUME NEW p \in Paths, NEW v \in Versions, Upload(d, p, v)
      PROVE  TypeOK'
  <2>1. tree' \in [Paths -> Versions \cup {NoFile}]
      BY <1>3 DEF Upload, TypeOK
  <2>2. trash' \subseteq TxIds \X Paths \X Versions
    <3>1. tree[p] = NoFile \/ <<NoTxId, p, tree[p]>> \in TxIds \X Paths \X Versions
        BY <1>3, BaseTypes DEF TypeOK
    <3> QED BY <1>3, <3>1 DEF Upload, TypeOK
  <2>3. batch' \in [Devices -> Effects]
    <3>1. [batch[d] EXCEPT ![p] = v] \in Effects
        BY <1>3 DEF TypeOK, Effects, Entries
    <3> QED BY <1>3, <3>1 DEF Upload, TypeOK
  <2> QED BY <1>3, <2>1, <2>2, <2>3 DEF Upload, TypeOK, Sessions
<1>4. CASE JournalAppend(d)
  <2>1. [NoMarker EXCEPT !.tx = FreshTx(nextTx), !.eff = batch[d]] \in Markers
      BY BaseTypes DEF Markers, TypeOK
  <2> QED BY <1>4, <2>1, StartType, BaseTypes DEF JournalAppend, TypeOK, Ops, Sessions
<1>5. CASE JournalRetry(d)
  <2>1. [NoMarker EXCEPT !.tx = pending[d].tx, !.eff = pending[d].eff] \in Markers
      BY BaseTypes DEF Markers, TypeOK
  <2> QED BY <1>5, <2>1, StartType, BaseTypes DEF JournalRetry, TypeOK, Ops, Sessions
<1>6. CASE JournalCompact(d)
  <2>1. [Idle EXCEPT !.op = "compact", !.ph = "lock"] \in Procs
      BY BaseTypes DEF Procs, Ops
  <2> QED BY <1>6, <2>1, SetProcType DEF JournalCompact, TypeOK
<1>7. ASSUME NEW req \in DeleteRequests, CheckedDelete(d, req)
      PROVE  TypeOK'
  <2>1. req \in Effects
      BY ServerAssumption DEF Effects, Entries
  <2> QED BY <1>7, <2>1, StartType, BaseTypes DEF CheckedDelete, TypeOK, Ops, Sessions
<1>8. ASSUME NEW S \in Trees, BrowseDelete(d, S)
      PROVE  TypeOK'
  <2>1. [NoMarker EXCEPT !.kind = "BROWSE_DELETE", !.from = S] \in Markers
      BY BaseTypes, ServerAssumption DEF Markers, Kinds
  <2> QED BY <1>8, <2>1, StartType, BaseTypes DEF BrowseDelete, TypeOK, Ops, Sessions
<1>9. ASSUME NEW r \in Renames, NEW kind \in Kinds
      PROVE  RenameOf(r, kind) \in Markers
  <2>1. PICK S \in SUBSET Paths : r \in [S -> Paths \ S]
      BY ServerAssumption DEF Injection
  <2>2. /\ DOMAIN r \subseteq Paths
        /\ [p \in Paths |-> IF p \in DOMAIN r THEN r[p] ELSE p] \in [Paths -> Paths]
      BY <2>1
  <2> QED BY <2>2, BaseTypes DEF RenameOf, Markers
<1>10. ASSUME NEW r \in Renames, BrowseRename(d, r)
       PROVE  TypeOK'
    BY <1>9, <1>10, StartType, BaseTypes DEF BrowseRename, TypeOK, Ops, Sessions, Kinds
<1>11. ASSUME NEW r \in Renames, NEW v \in Versions, RenameRemote(d, r, v)
       PROVE  TypeOK'
  <2>1. \A S : [p \in Paths |-> IF p \in S THEN v ELSE NoEntry] \in Effects
      BY DEF Effects, Entries
  <2> QED BY <1>9, <1>11, <2>1, StartType, BaseTypes DEF RenameRemote, TypeOK, Ops,
             Sessions, Kinds
<1>12. ASSUME NEW b \in StageBatches
       PROVE  b \in Effects /\ <<0, b>> \in TxIds
    BY ServerAssumption DEF Effects, Entries, TxIds
<1>13. ASSUME NEW b \in StageBatches, StagingPublish(d, b)
       PROVE  TypeOK'
  <2>1. [NoMarker EXCEPT !.kind = "PUBLISH", !.tx = <<0, b>>, !.eff = b] \in Markers
      BY <1>12, BaseTypes DEF Markers, Kinds
  <2> QED BY <1>13, <2>1, StartType, BaseTypes DEF StagingPublish, TypeOK, Ops, Sessions
<1>14. ASSUME NEW b \in StageBatches, StageCleanup(d, b)
       PROVE  TypeOK'
    BY <1>14 DEF StageCleanup, TypeOK
<1> QED BY <1>1, <1>2, <1>3, <1>4, <1>5, <1>6, <1>7, <1>8, <1>10, <1>11, <1>13,
           <1>14 DEF Request

\* The steps of a process under the journal lock.
LEMMA StepType ==
    ASSUME TypeOK, NEW d \in Devices,
           \/ StepBegin(d) \/ StepMove(d) \/ StepUndo(d) \/ StepPlace(d)
           \/ StepAdvance(d) \/ StepAppend(d) \/ StepBump(d) \/ StepClear(d)
           \/ StepFold(d) \/ StepReset(d)
    PROVE  TypeOK'
<1>1. /\ proc[d] \in Procs /\ proc[d].cur \in Markers /\ proc[d].cur.tx \in TxIds
      /\ proc[d].cur.eff \in Effects /\ proc[d].cur.kind \in Kinds
      /\ proc[d].cur.from \subseteq Paths /\ proc[d].cur.to \in [Paths -> Paths]
    BY DEF TypeOK, Procs, Markers
<1>2. ASSUME SetProc(d, Popped(d)), proc[d].steps # <<>>
      PROVE  proc' \in [Devices -> Procs]
    BY <1>2, PoppedTypes, SetProcType
<1>3. CASE StepBegin(d)
    BY <1>1, <1>2, <1>3 DEF StepBegin, Doing, TypeOK
<1>4. CASE StepMove(d)
  <2>1. proc' \in [Devices -> Procs]
      BY <1>2, <1>4 DEF StepMove, Doing
  <2>2. tree' \in [Paths -> Versions \cup {NoFile}]
    <3>1. tree \in [Paths -> Versions \cup {NoFile}]
        BY DEF TypeOK
    <3>2. \A p \in Paths : (\E q \in Files(proc[d].cur.from) : proc[d].cur.to[q] = p) =>
              (CHOOSE q \in Files(proc[d].cur.from) : proc[d].cur.to[q] = p) \in Paths
        BY <1>1 DEF Files
    <3> QED BY <1>4, <3>1, <3>2 DEF StepMove
  <2>3. trash' \subseteq TxIds \X Paths \X Versions
      BY <1>1, <1>4 DEF StepMove, TypeOK, Files
  <2>4. stray' \subseteq Paths
      BY <1>1, <1>4 DEF StepMove, TypeOK, Image
  <2> QED BY <1>4, <2>1, <2>2, <2>3, <2>4 DEF StepMove, TypeOK
<1>5. CASE StepUndo(d)
  <2>1. proc' \in [Devices -> Procs]
      BY <1>2, <1>5 DEF StepUndo, Doing
  <2>2. tree' \in [Paths -> Versions \cup {NoFile}]
    <3>1. tree \in [Paths -> Versions \cup {NoFile}] /\ trash \subseteq TxIds \X Paths \X Versions
        BY DEF TypeOK
    <3>2. CASE Renaming(proc[d].cur)
        BY <1>1, <1>5, <3>1, <3>2 DEF StepUndo
    <3>3. CASE ~Renaming(proc[d].cur)
      <4> DEFINE back == {e \in trash : e[1] = proc[d].cur.tx}
      <4>1. \A p \in Paths : (\E e \in back : e[2] = p) => (CHOOSE e \in back : e[2] = p)[3] \in Versions
          BY <3>1
      <4> QED BY <1>5, <3>1, <3>3, <4>1 DEF StepUndo
    <3> QED BY <3>2, <3>3
  <2>3. trash' \subseteq TxIds \X Paths \X Versions
      BY <1>5 DEF StepUndo, TypeOK
  <2> QED BY <1>5, <2>1, <2>2, <2>3 DEF StepUndo, TypeOK
<1>6. CASE StepPlace(d)
  <2>1. proc' \in [Devices -> Procs]
      BY <1>2, <1>6 DEF StepPlace, Doing, TypeOK
  <2>2. ASSUME NEW p \in Paths, Staged(proc[d].cur.eff, p)
        PROVE  proc[d].cur.eff \in StageBatches
      BY <2>2 DEF Staged, TypeOK
  <2>3. ASSUME NEW p \in Touched(proc[d].cur.eff), Staged(proc[d].cur.eff, p)
        PROVE  proc[d].cur.eff[p] \in Versions
      BY <2>2, <2>3, ServerAssumption DEF Touched
  <2>4. tree' \in [Paths -> Versions \cup {NoFile}]
      BY <1>6, <2>3 DEF StepPlace, TypeOK
  <2>5. staging' \subseteq StageBatches \X Paths
      BY <1>6 DEF StepPlace, TypeOK
  <2> QED BY <1>6, <2>1, <2>4, <2>5 DEF StepPlace, TypeOK
<1>7. CASE StepAdvance(d)
  <2>1. txns' \subseteq Markers
      BY <1>7 DEF StepAdvance, TypeOK, Markers
  <2> QED BY <1>2, <1>7, <2>1 DEF StepAdvance, Doing, TypeOK
<1>8. CASE StepAppend(d)
  <2>1. UnitOf(proc[d].cur, "full") \in Units
      BY <1>1 DEF UnitOf, Units, Ends
  <2>2. Untrue(proc[d].cur.eff) \subseteq Paths
      BY DEF Untrue, Touched
  <2> QED BY <1>1, <1>2, <1>8, <2>1, <2>2 DEF StepAppend, Doing, TypeOK
<1>9. CASE StepBump(d)
    BY <1>2, <1>9 DEF StepBump, Doing, TypeOK
<1>10. CASE StepClear(d)
    BY <1>2, <1>10 DEF StepClear, Doing, TypeOK
<1>11. CASE StepFold(d)
  <2>1. \A X : Sweep(View(manifest, journal), X) \in Effects
      BY ViewType DEF TypeOK, Sweep, Effects, Entries
  <2> QED BY <1>2, <1>11, <2>1 DEF StepFold, Doing, TypeOK
<1>12. CASE StepReset(d)
    BY <1>2, <1>12 DEF StepReset, Doing, TypeOK
<1> QED BY <1>3, <1>4, <1>5, <1>6, <1>7, <1>8, <1>9, <1>10, <1>11, <1>12

\* A command from the lock to its end.
LEMMA CommandType ==
    ASSUME TypeOK, NEW d \in Devices, Command(d)
    PROVE  TypeOK'
<1>1. /\ proc[d] \in Procs /\ proc[d].own \in Markers /\ proc[d].req \in Effects
      /\ proc[d].own.eff \in Effects
    BY DEF TypeOK, Procs, Markers
<1>2. ASSUME NEW m \in Markers, NEW plan \in Seq(Steps), Run(d, m, plan)
      PROVE  proc' \in [Devices -> Procs]
  <2>1. [proc[d] EXCEPT !.ph = "body", !.cur = m, !.steps = plan] \in Procs
      BY <1>1 DEF Procs
  <2> QED BY <1>2, <2>1, SetProcType DEF Run
<1>3. ASSUME SetProc(d, Idle)
      PROVE  proc' \in [Devices -> Procs]
    BY <1>3, BaseTypes, SetProcType
<1>4. CASE Enter(d)
  <2>1. {m.tx : m \in txns} \subseteq TxIds
      BY DEF TypeOK, Markers
  <2>2. [proc[d] EXCEPT !.ph = "recover", !.todo = {m.tx : m \in txns}] \in Procs
      BY <1>1, <2>1 DEF Procs
  <2> QED BY <1>4, <2>2, SetProcType DEF Enter, TypeOK
<1>5. CASE RecoverMarker(d)
  <2>1. PICK m \in txns :
            SetProc(d, [proc[d] EXCEPT !.todo = @ \ {m.tx}, !.steps = RecoveryPlan(m),
                                       !.cur = IF RecoveryPlan(m) = <<>> THEN NoMarker ELSE m])
      BY <1>5 DEF RecoverMarker
  <2>2. m \in Markers
      BY DEF TypeOK
  <2>3. [proc[d] EXCEPT !.todo = @ \ {m.tx}, !.steps = RecoveryPlan(m),
                        !.cur = IF RecoveryPlan(m) = <<>> THEN NoMarker ELSE m] \in Procs
      BY <1>1, <2>2, DecisionTypes, BaseTypes DEF Procs
  <2>4. proc' \in [Devices -> Procs]
      BY <2>1, <2>3, SetProcType
  <2> QED BY <1>5, <2>4 DEF RecoverMarker, TypeOK
<1>6. CASE RecoverRefused(d)
    BY <1>6, EndTypes DEF RecoverRefused, DropList, TypeOK
<1>7. CASE LeaseGranted(d)
    BY <1>3, <1>7 DEF LeaseGranted, TypeOK, Sessions
<1>8. CASE AppendBody(d)
  <2>1. \A plan \in {<<"append", "bump">>, <<"append", "bump", "fold", "reset">>} : plan \in Seq(Steps)
      BY PlanTypes
  <2> QED BY <1>1, <1>2, <1>8, <2>1, EndTypes DEF AppendBody, TypeOK
<1>9. CASE CompactBody(d)
    BY <1>2, <1>9, BaseTypes, PlanTypes DEF CompactBody, TypeOK
<1>10. CASE DeleteBody(d)
    BY <1>2, <1>10, BaseTypes, PlanTypes DEF DeleteBody, TypeOK
<1>11. ASSUME NEW p \in Paths, DeleteItem(d, p)
       PROVE  TypeOK'
  <2> DEFINE item == [NoMarker EXCEPT !.tx = FreshTx(nextTx), !.from = {p},
                                      !.kind = IF tree[p] = NoFile THEN "ABSENT" ELSE "DELETE",
                                      !.eff = [NoEffect EXCEPT ![p] = Tomb]]
             stale == tree[p] # NoFile /\ tree[p] # proc[d].req[p]
             new == [proc[d] EXCEPT
                        !.req[p] = NoEntry,
                        !.cur = IF stale THEN NoMarker ELSE item,
                        !.steps = IF stale THEN <<>>
                                  ELSE IF tree[p] = NoFile THEN <<"append", "bump">> ELSE MovePlan]
  <2>1. [NoEffect EXCEPT ![p] = Tomb] \in Effects /\ [proc[d].req EXCEPT ![p] = NoEntry] \in Effects
      BY <1>1, BaseTypes DEF Effects, Entries
  <2>2. item \in Markers
      BY <2>1, BaseTypes DEF Markers, Kinds, TypeOK
  <2>3. new \in Procs
      BY <1>1, <2>1, <2>2, BaseTypes, PlanTypes DEF Procs
  <2>4. SetProc(d, new) /\ nextTx' \in Nat
      BY <1>11 DEF DeleteItem, TypeOK
  <2>5. proc' \in [Devices -> Procs]
      BY <2>3, <2>4, SetProcType
  <2> QED BY <1>11, <2>4, <2>5 DEF DeleteItem, TypeOK
<1>12. CASE BrowseBody(d)
  <2> DEFINE own == proc[d].own
             gone == [p \in Paths |-> IF p \in Files(own.from) THEN Tomb ELSE NoEntry]
             both == [p \in Paths |-> IF \E q \in Files(own.from) : own.to[q] = p
                                      THEN tree[CHOOSE q \in Files(own.from) : own.to[q] = p]
                                      ELSE gone[p]]
             m == [own EXCEPT !.tx = FreshTx(nextTx),
                              !.eff = IF own.kind = "BROWSE_RENAME_V2" THEN both ELSE gone]
  <2>1. gone \in Effects
      BY DEF Effects, Entries
  <2>2. both \in Effects
    <3>1. \A q \in Files(own.from) : tree[q] \in Versions
        BY <1>1 DEF Files, TypeOK, Markers
    <3>2. \A p \in Paths : both[p] \in Entries
        BY <3>1 DEF Entries
    <3> QED BY <3>2 DEF Effects
  <2>3. m \in Markers
      BY <1>1, <2>1, <2>2, BaseTypes DEF Markers, TypeOK
  <2>4. \/ SetProc(d, Idle) /\ UNCHANGED nextTx
        \/ nextTx' = nextTx + 1 /\ Run(d, m, MovePlan)
      BY <1>12 DEF BrowseBody
  <2>5. proc' \in [Devices -> Procs] /\ nextTx' \in Nat
      BY <1>2, <1>3, <2>3, <2>4, PlanTypes DEF TypeOK
  <2> QED BY <1>12, <2>5 DEF BrowseBody, TypeOK
<1>13. CASE PublishBody(d)
    BY <1>1, <1>2, <1>3, <1>13, PlanTypes DEF PublishBody, DropList, TypeOK
<1>14. CASE Finish(d)
    BY <1>14, EndTypes DEF Finish, TypeOK
<1>15. CASE PlaceConflict(d)
    BY <1>15, EndTypes, PoppedTypes, SetProcType DEF PlaceConflict, TypeOK
<1> QED BY <1>4, <1>5, <1>6, <1>7, <1>8, <1>9, <1>10, <1>11, <1>12, <1>13, <1>14, <1>15,
           StepType
        DEF Command

\* Failing steps and kills.
LEMMA FailureType ==
    ASSUME TypeOK, NEW d \in Devices, Failure(d)
    PROVE  TypeOK'
<1>1. proc[d] \in Procs /\ proc[d].cur \in Markers
    BY DEF TypeOK, Procs
<1>2. CutShort(proc[d].cur) \subseteq Seq(Units)
  <2>1. \A t \in Tears : UnitOf(proc[d].cur, t) \in Units
      BY <1>1, ServerAssumption DEF UnitOf, Units, Markers
  <2> QED BY <2>1 DEF CutShort, TypeOK
<1>3. Fault => faults' \in Nat
    BY DEF Fault, TypeOK
<1>4. ASSUME NEW step \in {"begin", "move", "advance", "append", "bump", "undo"}, FailStep(d, step)
      PROVE  TypeOK'
  <2>1. [proc[d] EXCEPT !.steps = FailedPlan(proc[d].cur, step)] \in Procs
      BY <1>1, DecisionTypes DEF Procs
  <2>2. proc' \in [Devices -> Procs]
      BY <1>4, <2>1, PoppedTypes, SetProcType DEF FailStep
  <2>3. journal' \in Seq(Units)
      BY <1>4 DEF FailStep, Front, TypeOK
  <2>4. sess' \in [Devices -> Sessions]
      BY <1>4 DEF FailStep, TypeOK, Sessions
  <2> QED BY <1>3, <1>4, <2>2, <2>3, <2>4 DEF FailStep, TypeOK
<1>5. ASSUME NEW step \in {"begin", "place", "advance", "append", "bump"}, FailPublish(d, step)
      PROVE  TypeOK'
    BY <1>2, <1>3, <1>5, EndTypes, PoppedTypes, SetProcType DEF FailPublish, DropList, TypeOK
<1>6. CASE FailCommand(d)
    BY <1>2, <1>3, <1>6, EndTypes DEF FailCommand, DropList, TypeOK
<1>7. CASE Kill(d)
    BY <1>2, <1>3, <1>7, EndTypes DEF Kill, TypeOK
<1> QED BY <1>4, <1>5, <1>6, <1>7 DEF Failure

\* Every step keeps the types.
LEMMA TypeStep == TypeOK /\ [Next]_vars => TypeOK'
<1> SUFFICES ASSUME TypeOK, [Next]_vars PROVE TypeOK'
    OBVIOUS
<1>1. ASSUME NEW b \in StageBatches, StageUpload(b) PROVE TypeOK'
    BY <1>1 DEF StageUpload, TypeOK, Touched
<1>2. CASE Restart
  <2>1. Idle \in Procs /\ NoEffect \in Effects
      BY BaseTypes
  <2> QED BY <1>2, <2>1, EndTypes DEF Restart, Fault, TypeOK, Sessions
<1>3. CASE UNCHANGED vars
    BY <1>3 DEF vars, TypeOK
<1> QED BY <1>1, <1>2, <1>3, RequestType, CommandType, FailureType DEF Next

(***************************************************************************)
(* Every reachable state of the server is well typed, for all constants:   *)
(* in particular what the journal replays to is always a manifest.         *)
(***************************************************************************)
THEOREM TypeCorrect == Spec => []TypeOK
<1>1. Init => TypeOK
    BY BaseTypes DEF Init, TypeOK, Sessions
<1> QED BY <1>1, TypeStep, PTL DEF Spec

-----------------------------------------------------------------------------
(***************************************************************************)
(* The journal lock and the record.  A step of the server does one of four *)
(* things to the journal, the manifest and the processes: nothing, let one *)
(* process turn to other work (Turn), let it complete its first step (Pop) *)
(* or clear all processes.  The invariant and the refinement are proved    *)
(* for these four.                                                         *)
(***************************************************************************)
Lockers(r) == r.ph \in {"recover", "body"}

\* A bump follows its append and a reset its fold.
Shape(s) == \A i \in 2 .. Len(s) : /\ s[i] = "bump" => s[i-1] = "append"
                                   /\ s[i] = "reset" => s[i-1] = "fold"

Plain(s) == Shape(s) /\ (s # <<>> => Head(s) \notin {"bump", "reset"})

Turn(d, r) ==
    /\ proc' = [proc EXCEPT ![d] = r]
    /\ Plain(r.steps) /\ (r.steps # <<>> => Lockers(r))
    /\ Lockers(r) => InSection(d) \/ \A e \in Devices : ~InSection(e)
    /\ manifest' = manifest
    /\ \/ journal' = journal
       \/ Doing(d, "append") /\ journal' \in CutShort(proc[d].cur)
       \/ Revocable(d) /\ journal' = Front(journal)

Pop(d) ==
    /\ proc[d].steps # <<>>
    /\ proc' = [proc EXCEPT ![d] = Popped(d)]
    /\ \/ /\ Doing(d, "append") /\ manifest' = manifest
          /\ journal' = Append(journal, UnitOf(proc[d].cur, "full"))
       \/ /\ Doing(d, "fold") /\ journal' = journal
          /\ \E X \in {{}, Paths} : manifest' = Sweep(View(manifest, journal), X)
       \/ /\ Doing(d, "reset") /\ journal' = <<>> /\ manifest' = manifest
       \/ /\ ~Doing(d, "append") /\ ~Doing(d, "fold") /\ ~Doing(d, "reset")
          /\ UNCHANGED <<journal, manifest>>

ClearAll == proc' = [d \in Devices |-> Idle] /\ UNCHANGED <<journal, manifest>>

\* Every plan the server installs keeps that order and begins with neither.
LEMMA PlansArePlain ==
    /\ Plain(MovePlan) /\ Plain(RedoPlan) /\ Plain(PublishPlan) /\ Plain(NewPublishPlan)
    /\ Plain(<<"append", "bump">>) /\ Plain(<<"append", "bump", "fold", "reset">>)
    /\ Plain(<<"fold", "reset">>) /\ Plain(<<"announce", "clear">>) /\ Plain(<<"clear">>)
    /\ Plain(<<"undo", "clear">>) /\ Plain(<<>>)
<1>1. Plain(PublishPlan) /\ Plain(NewPublishPlan)
    BY DEF Plain, Shape, PublishPlan, NewPublishPlan
<1>2. Plain(MovePlan) /\ Plain(RedoPlan)
    BY DEF Plain, Shape, MovePlan, RedoPlan
<1> QED BY <1>1, <1>2 DEF Plain, Shape

\* So does whatever recovery or a failure decides.
LEMMA DecisionsArePlain ==
    ASSUME NEW m
    PROVE  /\ Plain(RecoveryPlan(m))
           /\ \A step \in {"begin", "move", "advance", "append", "bump", "undo"} :
                  Plain(FailedPlan(m, step))
BY PlansArePlain DEF RecoveryPlan, FailedPlan

\* Ending a command is a turn to the idle process.
LEMMA IdleIsPlain == Plain(Idle.steps) /\ Idle.steps = <<>> /\ ~Lockers(Idle)
BY PlansArePlain DEF Idle, Lockers

\* Ending a command, however it ends, is a turn to the idle process.
LEMMA IdleTurn ==
    ASSUME TypeOK, NEW d \in Devices, SetProc(d, Idle), UNCHANGED <<journal, manifest>>
    PROVE  Turn(d, Idle)
BY IdleIsPlain DEF Turn, SetProc

\* What a client does on its own, and the start of a command.
LEMMA RequestKind ==
    ASSUME TypeOK, NEW d \in Devices, Request(d)
    PROVE  UNCHANGED <<journal, manifest, proc>> \/ \E r : Turn(d, r)
<1>1. ASSUME NEW r, SetProc(d, r), r.steps = <<>>, ~Lockers(r), UNCHANGED <<journal, manifest>>
      PROVE  Turn(d, r)
    BY <1>1, PlansArePlain DEF Turn, SetProc
<1>2. ASSUME NEW op, NEW own, NEW req, NEW next, Start(d, op, own, req, next)
      PROVE  \E r : Turn(d, r)
  <2> DEFINE r == [Idle EXCEPT !.op = op, !.ph = "lock", !.own = own, !.req = req]
  <2>1. r.steps = <<>> /\ ~Lockers(r)
      BY DEF Idle, Lockers
  <2> QED BY <1>1, <1>2, <2>1 DEF Start
<1>3. CASE TransferWait(d)
  <2> DEFINE r == [Idle EXCEPT !.op = "wait", !.ph = "lock"]
  <2>1. r.steps = <<>> /\ ~Lockers(r)
      BY DEF Idle, Lockers
  <2> QED BY <1>1, <1>3, <2>1 DEF TransferWait
<1>4. CASE JournalCompact(d)
  <2> DEFINE r == [Idle EXCEPT !.op = "compact", !.ph = "lock"]
  <2>1. r.steps = <<>> /\ ~Lockers(r)
      BY DEF Idle, Lockers
  <2> QED BY <1>1, <1>4, <2>1 DEF JournalCompact
<1>5. CASE EndLease(d)
    BY <1>5 DEF EndLease
<1>6. ASSUME NEW p \in Paths, NEW v \in Versions, Upload(d, p, v)
      PROVE  UNCHANGED <<journal, manifest, proc>>
    BY <1>6 DEF Upload
<1>7. ASSUME NEW b \in StageBatches, StageCleanup(d, b)
      PROVE  UNCHANGED <<journal, manifest, proc>>
    BY <1>7 DEF StageCleanup
<1>8. CASE JournalAppend(d) \/ JournalRetry(d)
    BY <1>2, <1>8 DEF JournalAppend, JournalRetry
<1>9. ASSUME NEW req \in DeleteRequests, CheckedDelete(d, req)
      PROVE  \E r : Turn(d, r)
    BY <1>2, <1>9 DEF CheckedDelete
<1>10. ASSUME NEW S \in Trees, BrowseDelete(d, S)
       PROVE  \E r : Turn(d, r)
    BY <1>2, <1>10 DEF BrowseDelete
<1>11. ASSUME NEW q \in Renames, BrowseRename(d, q) \/ \E v \in Versions : RenameRemote(d, q, v)
       PROVE  \E r : Turn(d, r)
    BY <1>2, <1>11 DEF BrowseRename, RenameRemote
<1>12. ASSUME NEW b \in StageBatches, StagingPublish(d, b)
       PROVE  \E r : Turn(d, r)
    BY <1>2, <1>12 DEF StagingPublish
<1> QED BY <1>3, <1>4, <1>5, <1>6, <1>7, <1>8, <1>9, <1>10, <1>11, <1>12 DEF Request

\* A process has steps left only under the journal lock.
StepsInSection == \A d \in Devices : proc[d].steps # <<>> => InSection(d)

\* A command from the lock to its end.
LEMMA CommandKind ==
    ASSUME TypeOK, StepsInSection, NEW d \in Devices, Command(d)
    PROVE  UNCHANGED <<journal, manifest, proc>> \/ (\E r : Turn(d, r)) \/ Pop(d)
<1>1. ASSUME SetProc(d, Idle), UNCHANGED <<journal, manifest>>
      PROVE  \E r : Turn(d, r)
    BY <1>1, IdleTurn
<1>2. proc[d] \in Procs
    BY DEF TypeOK
<1>3. ASSUME NEW m, NEW plan, Plain(plan), InSection(d), Run(d, m, plan), UNCHANGED <<journal, manifest>>
      PROVE  \E r : Turn(d, r)
  <2> DEFINE r == [proc[d] EXCEPT !.ph = "body", !.cur = m, !.steps = plan]
  <2>1. r.steps = plan /\ r.ph = "body"
      BY <1>2 DEF Procs
  <2>2. Turn(d, r)
      BY <1>3, <2>1 DEF Turn, Run, SetProc, Lockers
  <2> QED BY <2>2
<1>4. ASSUME SetProc(d, Popped(d)), proc[d].steps # <<>>,
             ~Doing(d, "append"), ~Doing(d, "fold"), ~Doing(d, "reset"), UNCHANGED <<journal, manifest>>
      PROVE  Pop(d)
    BY <1>4 DEF Pop, SetProc
<1>5. CASE Enter(d)
  <2> DEFINE r == [proc[d] EXCEPT !.ph = "recover", !.todo = {m.tx : m \in txns}]
  <2>1. proc[d].steps = <<>>
      BY <1>5 DEF Enter, StepsInSection
  <2>2. r.steps = <<>>
      BY <1>2, <2>1 DEF Procs
  <2>3. Turn(d, r)
      BY <1>5, <2>2, PlansArePlain DEF Turn, Enter, SetProc
  <2> QED BY <2>3
<1>6. CASE RecoverMarker(d)
  <2>1. PICK m \in txns :
            /\ Recovering(d, m)
            /\ SetProc(d, [proc[d] EXCEPT !.todo = @ \ {m.tx}, !.steps = RecoveryPlan(m),
                                          !.cur = IF RecoveryPlan(m) = <<>> THEN NoMarker ELSE m])
      BY <1>6 DEF RecoverMarker
  <2> DEFINE r == [proc[d] EXCEPT !.todo = @ \ {m.tx}, !.steps = RecoveryPlan(m),
                                  !.cur = IF RecoveryPlan(m) = <<>> THEN NoMarker ELSE m]
  <2>2. r.steps = RecoveryPlan(m) /\ r.ph = "recover" /\ InSection(d)
      BY <1>2, <2>1 DEF Procs, Recovering, InSection
  <2>3. Turn(d, r)
      BY <1>6, <2>1, <2>2, DecisionsArePlain DEF Turn, RecoverMarker, SetProc, Lockers
  <2> QED BY <2>3
<1>7. CASE RecoverRefused(d)
    BY <1>1, <1>7 DEF RecoverRefused, Break
<1>8. CASE LeaseGranted(d)
    BY <1>1, <1>8 DEF LeaseGranted
<1>9. CASE AppendBody(d)
  <2>1. InSection(d) /\ UNCHANGED <<journal, manifest>>
      BY <1>9 DEF AppendBody, AtBody, InSection
  <2> QED BY <1>1, <1>3, <1>9, <2>1, PlansArePlain DEF AppendBody, Succeed
<1>10. CASE CompactBody(d)
    BY <1>3, <1>10, PlansArePlain DEF CompactBody, AtBody, InSection
<1>11. CASE DeleteBody(d)
    BY <1>3, <1>11, PlansArePlain DEF DeleteBody, AtBody, InSection
<1>12. ASSUME NEW p \in Paths, DeleteItem(d, p)
       PROVE  \E r : Turn(d, r)
  <2> DEFINE stale == tree[p] # NoFile /\ tree[p] # proc[d].req[p]
             plan == IF stale THEN <<>> ELSE IF tree[p] = NoFile THEN <<"append", "bump">> ELSE MovePlan
  <2>1. PICK m : SetProc(d, [proc[d] EXCEPT !.req[p] = NoEntry, !.cur = m, !.steps = plan])
      BY <1>12 DEF DeleteItem
  <2> DEFINE r == [proc[d] EXCEPT !.req[p] = NoEntry, !.cur = m, !.steps = plan]
  <2>2. r.steps = plan /\ r.ph = "body" /\ InSection(d)
      BY <1>2, <1>12 DEF Procs, DeleteItem, InSection
  <2>3. Plain(plan)
      BY PlansArePlain
  <2>4. Turn(d, r)
      BY <1>12, <2>1, <2>2, <2>3 DEF Turn, DeleteItem, SetProc, Lockers
  <2> QED BY <2>4
<1>13. CASE BrowseBody(d)
  <2>1. SetProc(d, Idle) \/ \E m : Run(d, m, MovePlan)
      BY <1>13 DEF BrowseBody
  <2>2. InSection(d) /\ UNCHANGED <<journal, manifest>>
      BY <1>13 DEF BrowseBody, AtBody, InSection
  <2> QED BY <1>1, <1>3, <2>1, <2>2, PlansArePlain
<1>14. CASE PublishBody(d)
    BY <1>1, <1>3, <1>14, PlansArePlain DEF PublishBody, AtBody, InSection
<1>15. CASE Finish(d)
    BY <1>1, <1>15 DEF Finish, Succeed
<1>16. CASE PlaceConflict(d)
  <2>1. CASE proc[d].ph = "recover"
    <3>1. Halted(d).steps = <<>>
        BY <1>2 DEF Procs, Halted
    <3>2. Turn(d, Halted(d))
        BY <1>16, <2>1, <3>1, PlansArePlain DEF Turn, PlaceConflict, SetProc, InSection
    <3> QED BY <3>2
  <2> QED BY <1>1, <1>16, <2>1 DEF PlaceConflict, Break
<1>17. CASE StepBegin(d) \/ StepMove(d) \/ StepUndo(d) \/ StepAdvance(d) \/ StepBump(d) \/ StepClear(d)
    BY <1>4, <1>17 DEF StepBegin, StepMove, StepUndo, StepAdvance, StepBump, StepClear, Doing
<1>18. CASE StepPlace(d)
    BY <1>4, <1>18 DEF StepPlace, Doing
<1>19. CASE StepAppend(d) \/ StepFold(d) \/ StepReset(d)
    BY <1>19 DEF StepAppend, StepFold, StepReset, Doing, Pop, SetProc
<1> QED BY <1>5, <1>6, <1>7, <1>8, <1>9, <1>10, <1>11, <1>12, <1>13, <1>14, <1>15,
           <1>16, <1>17,
           <1>18, <1>19 DEF Command

\* Failing steps and kills are turns too.
LEMMA FailureKind ==
    ASSUME TypeOK, StepsInSection, NEW d \in Devices, Failure(d)
    PROVE  \E r : Turn(d, r)
<1>1. proc[d] \in Procs
    BY DEF TypeOK
<1>2. /\ Halted(d).steps = <<>>
      /\ Lockers(Halted(d)) => InSection(d)
    BY <1>1 DEF Procs, Halted, Lockers, InSection
<1>3. ASSUME NEW r, SetProc(d, r), Plain(r.steps), r.steps # <<>> => Lockers(r),
             Lockers(r) => InSection(d), manifest' = manifest,
             journal' \in {journal} \cup (IF Doing(d, "append") THEN CutShort(proc[d].cur) ELSE {})
      PROVE  \E q : Turn(d, q)
    BY <1>3 DEF Turn, SetProc
<1>4. ASSUME NEW step \in {"begin", "move", "advance", "append", "bump", "undo"}, FailStep(d, step)
      PROVE  \E r : Turn(d, r)
  <2> DEFINE plan == FailedPlan(proc[d].cur, step)
             r == IF proc[d].ph = "recover" \/ plan = <<>> THEN Halted(d)
                                                          ELSE [proc[d] EXCEPT !.steps = plan]
  <2>1. Plain(r.steps) /\ (r.steps # <<>> => Lockers(r)) /\ (Lockers(r) => InSection(d))
    <3>1. InSection(d)
        BY <1>4 DEF FailStep, Doing, StepsInSection
    <3>2. /\ [proc[d] EXCEPT !.steps = plan].steps = plan
          /\ [proc[d] EXCEPT !.steps = plan].ph = proc[d].ph
        BY <1>1 DEF Procs
    <3> QED BY <1>2, <3>1, <3>2, DecisionsArePlain, PlansArePlain DEF Lockers, InSection
  <2>2. SetProc(d, r) /\ manifest' = manifest
      BY <1>4 DEF FailStep
  <2>3. journal' = journal \/ (Revocable(d) /\ journal' = Front(journal))
      BY <1>4 DEF FailStep, Revocable
  <2>4. Turn(d, r)
      BY <2>1, <2>2, <2>3 DEF Turn, SetProc
  <2> QED BY <2>4
<1>5. ASSUME NEW step \in {"begin", "place", "advance", "append", "bump"}, FailPublish(d, step)
      PROVE  \E r : Turn(d, r)
  <2>1. /\ manifest' = manifest
        /\ journal' \in {journal} \cup (IF Doing(d, "append") THEN CutShort(proc[d].cur) ELSE {})
      BY <1>5 DEF FailPublish
  <2>2. SetProc(d, Halted(d)) \/ SetProc(d, Idle)
      BY <1>5 DEF FailPublish, Break
  <2> QED BY <1>2, <1>3, <2>1, <2>2, IdleIsPlain, PlansArePlain
<1>6. CASE FailCommand(d) \/ Kill(d)
    BY <1>3, <1>6, IdleIsPlain DEF FailCommand, Kill, Break
<1> QED BY <1>4, <1>5, <1>6 DEF Failure

\* Every step of the server, seen from the journal lock.
LEMMA NextKind ==
    ASSUME TypeOK, StepsInSection, [Next]_vars
    PROVE  \/ UNCHANGED <<journal, manifest, proc>>
           \/ \E d \in Devices : (\E r : Turn(d, r)) \/ Pop(d)
           \/ ClearAll
<1>1. ASSUME NEW b \in StageBatches, StageUpload(b) PROVE UNCHANGED <<journal, manifest, proc>>
    BY <1>1 DEF StageUpload
<1>2. CASE Restart
    BY <1>2 DEF Restart, ClearAll
<1>3. CASE UNCHANGED vars
    BY <1>3 DEF vars
<1> QED BY <1>1, <1>2, <1>3, RequestKind, CommandKind, FailureKind DEF Next

-----------------------------------------------------------------------------
(***************************************************************************)
(* The inductive invariant: one process at a time is under the lock; its   *)
(* steps come in order; a bump finds its own transaction at the end of the *)
(* journal, which is what a rollback cuts off; a reset finds a manifest    *)
(* that already says all the journal says.                                 *)
(***************************************************************************)
OneInSection == \A d, e \in Devices : InSection(d) /\ InSection(e) => d = e

StepsInOrder == \A d \in Devices : Shape(proc[d].steps)

BumpFindsUnit ==
    \A d \in Devices : Doing(d, "bump") =>
        journal # <<>> /\ journal[Len(journal)] = UnitOf(proc[d].cur, "full")

ResetFindsFolded ==
    \A d \in Devices : Doing(d, "reset") =>
        \A p \in Paths : FileOf(Recorded[p]) = FileOf(manifest[p])

IInv == TypeOK /\ StepsInSection /\ OneInSection /\ StepsInOrder /\ BumpFindsUnit /\ ResetFindsFolded

\* A turn leaves the invariant intact.
LEMMA TurnInv ==
    ASSUME IInv, TypeOK', NEW d \in Devices, NEW r, Turn(d, r)
    PROVE  IInv'
<1> USE DEF Lockers
<1>1. /\ proc'[d] = r
      /\ \A e \in Devices \ {d} : proc'[e] = proc[e]
    BY DEF Turn, IInv, TypeOK
<1>2. StepsInSection'
    BY <1>1 DEF StepsInSection, InSection, Turn, IInv
<1>3. OneInSection'
    BY <1>1 DEF OneInSection, InSection, Turn, IInv
<1>4. StepsInOrder'
    BY <1>1 DEF StepsInOrder, Turn, Plain, IInv
<1>5. ~Doing(d, "bump")' /\ ~Doing(d, "reset")'
    BY <1>1 DEF Doing, Turn, Plain
<1>6. ASSUME NEW e \in Devices \ {d}, Doing(e, "bump")' \/ Doing(e, "reset")'
      PROVE  UNCHANGED <<journal, manifest>>
  <2>1. InSection(e)
      BY <1>1, <1>6 DEF Doing, IInv, StepsInSection
  <2>2. ~Doing(d, "append") /\ ~Revocable(d)
      BY <2>1 DEF IInv, OneInSection, StepsInSection, Doing, Revocable
  <2> QED BY <2>2 DEF Turn
<1>7. BumpFindsUnit'
    BY <1>1, <1>5, <1>6 DEF BumpFindsUnit, Doing, UnitOf, IInv
<1>8. ResetFindsFolded'
    BY <1>1, <1>5, <1>6 DEF ResetFindsFolded, Doing, Recorded, IInv
<1> QED BY <1>2, <1>3, <1>4, <1>7, <1>8 DEF IInv

\* What is left after the first step.
LEMMA PoppedShape ==
    ASSUME NEW s \in Seq(Steps), s # <<>>, Shape(s)
    PROVE  /\ Shape(Tail(s))
           /\ Tail(s) # <<>> => /\ Len(s) # 1
                                /\ Head(Tail(s)) = "bump" => Head(s) = "append"
                                /\ Head(Tail(s)) = "reset" => Head(s) = "fold"
<1>1. /\ Len(s) \in Nat /\ Len(s) >= 1 /\ Len(Tail(s)) = Len(s) - 1
      /\ \A i \in 1 .. Len(s) - 1 : Tail(s)[i] = s[i+1]
    OBVIOUS
<1>2. Shape(Tail(s))
  <2> SUFFICES ASSUME NEW i \in 2 .. Len(Tail(s))
               PROVE  /\ Tail(s)[i] = "bump" => Tail(s)[i-1] = "append"
                      /\ Tail(s)[i] = "reset" => Tail(s)[i-1] = "fold"
      BY DEF Shape
  <2>1. i + 1 \in 2 .. Len(s) /\ Tail(s)[i] = s[i+1] /\ Tail(s)[i-1] = s[(i+1)-1]
      BY <1>1
  <2> QED BY <2>1 DEF Shape
<1>3. ASSUME Tail(s) # <<>>
      PROVE  /\ Len(s) # 1
             /\ Head(Tail(s)) = "bump" => Head(s) = "append"
             /\ Head(Tail(s)) = "reset" => Head(s) = "fold"
  <2>1. Len(s) > 1 /\ Len(s) # 1
      BY <1>1, <1>3
  <2>2. Head(Tail(s)) = s[2] /\ Head(s) = s[2-1] /\ 2 \in 2 .. Len(s)
      BY <1>1, <2>1
  <2> QED BY <2>1, <2>2 DEF Shape
<1> QED BY <1>2, <1>3

\* The file an entry stands for is the same before and after the sweep of tombstones.
LEMMA SweepKeepsFiles ==
    ASSUME NEW m \in Effects, NEW X, NEW p \in Paths
    PROVE  FileOf(Sweep(m, X)[p]) = FileOf(m[p])
BY EntryAssumption DEF FileOf, Sweep

\* So is the file on record when a compaction has written its manifest.
LEMMA FoldKeepsFiles ==
    ASSUME NEW m \in Effects, NEW j \in Seq(Units), NEW X, NEW p \in Paths
    PROVE  /\ FileOf(View(Sweep(View(m, j), X), j)[p]) = FileOf(View(m, j)[p])
           /\ FileOf(Sweep(View(m, j), X)[p]) = FileOf(View(m, j)[p])
BY ViewOfFold, ViewType, SweepKeepsFiles

\* Completing a step leaves the invariant intact.
LEMMA PopInv ==
    ASSUME IInv, TypeOK', NEW d \in Devices, Pop(d)
    PROVE  IInv'
<1> DEFINE s == proc[d].steps
<1>1. /\ proc'[d] = Popped(d)
      /\ \A e \in Devices \ {d} : proc'[e] = proc[e]
      /\ proc[d] \in Procs /\ s \in Seq(Steps) /\ s # <<>> /\ Shape(s)
    BY DEF Pop, IInv, TypeOK, Procs, StepsInOrder
<1>2. /\ proc'[d].steps = Tail(s) /\ proc'[d].ph = proc[d].ph
      /\ proc'[d].cur = IF Len(s) = 1 THEN NoMarker ELSE proc[d].cur
    BY <1>1 DEF Popped, Procs
<1>3. InSection(d) /\ \A e \in Devices \ {d} : ~InSection(e) /\ proc[e].steps = <<>>
    BY <1>1 DEF IInv, StepsInSection, OneInSection
<1>4. StepsInSection' /\ OneInSection'
    BY <1>1, <1>2, <1>3 DEF StepsInSection, OneInSection, InSection
<1>5. StepsInOrder'
    BY <1>1, <1>2, PoppedShape DEF StepsInOrder, IInv
<1>6. ASSUME Doing(d, "bump")'
      PROVE  /\ journal' = Append(journal, UnitOf(proc[d].cur, "full"))
             /\ proc'[d].cur = proc[d].cur
  <2>1. Head(s) = "append" /\ Len(s) # 1
      BY <1>1, <1>2, <1>6, PoppedShape DEF Doing
  <2>2. Doing(d, "append") /\ ~Doing(d, "fold") /\ ~Doing(d, "reset")
      BY <1>1, <2>1 DEF Doing
  <2>3. journal' = Append(journal, UnitOf(proc[d].cur, "full"))
      BY <2>2 DEF Pop
  <2>4. proc'[d].cur = proc[d].cur
      BY <1>2, <2>1
  <2> QED BY <2>3, <2>4
<1>7. BumpFindsUnit'
  <2> SUFFICES ASSUME Doing(d, "bump")'
               PROVE  journal' # <<>> /\ journal'[Len(journal')] = UnitOf(proc'[d].cur, "full")
      BY <1>1, <1>3 DEF BumpFindsUnit, Doing, UnitOf
  <2>1. journal \in Seq(Units)
      BY DEF IInv, TypeOK
  <2> QED BY <1>6, <2>1
<1>8. ResetFindsFolded'
  <2> SUFFICES ASSUME Doing(d, "reset")', NEW p \in Paths
               PROVE  FileOf(Recorded'[p]) = FileOf(manifest'[p])
      BY <1>1, <1>3 DEF ResetFindsFolded, Doing, FileOf
  <2>1. Head(s) = "fold"
      BY <1>1, <1>2, PoppedShape DEF Doing
  <2>2. PICK X \in {{}, Paths} : manifest' = Sweep(View(manifest, journal), X) /\ journal' = journal
      BY <2>1 DEF Pop, Doing
  <2>3. Recorded' = View(manifest', journal')
      BY DEF Recorded
  <2> QED BY <2>2, <2>3, FoldKeepsFiles DEF IInv, TypeOK
<1> QED BY <1>4, <1>5, <1>7, <1>8 DEF IInv

\* Every step keeps the invariant.
LEMMA InvStep == IInv /\ [Next]_vars => IInv'
<1> SUFFICES ASSUME IInv, [Next]_vars PROVE IInv'
    OBVIOUS
<1>1. TypeOK'
    BY TypeStep DEF IInv
<1>2. CASE UNCHANGED <<journal, manifest, proc>>
    BY <1>1, <1>2 DEF IInv, StepsInSection, OneInSection, InSection, StepsInOrder,
       BumpFindsUnit,
                      ResetFindsFolded, Recorded, Doing
<1>3. CASE ClearAll
  <2>1. \A d \in Devices : proc'[d].steps = <<>> /\ proc'[d].ph = "idle"
      BY <1>3 DEF ClearAll, Idle
  <2> QED BY <1>1, <2>1, PlansArePlain DEF IInv, StepsInSection, OneInSection,
             InSection, StepsInOrder,
             BumpFindsUnit, ResetFindsFolded, Doing, Plain
<1> QED BY <1>1, <1>2, <1>3, NextKind, TurnInv, PopInv DEF IInv

\* The inductive invariant holds at first.
LEMMA InvInit == Init => IInv
<1> SUFFICES ASSUME Init PROVE IInv
    OBVIOUS
<1>1. TypeOK
    BY BaseTypes DEF Init, TypeOK, Sessions
<1>2. \A d \in Devices : proc[d].steps = <<>> /\ proc[d].ph = "idle"
    BY DEF Init, Idle
<1> QED BY <1>1, <1>2, PlansArePlain DEF IInv, StepsInSection, OneInSection, InSection,
           StepsInOrder,
           BumpFindsUnit, ResetFindsFolded, Doing, Plain

\* The inductive invariant of the journal lock.
LEMMA Invariance == Spec => []IInv
BY InvInit, InvStep, PTL DEF Spec

(***************************************************************************)
(* No two commands are under the journal lock together, whatever is killed *)
(* or restarted in between: recovery never meets a transaction that its    *)
(* own command is still working on.                                        *)
(***************************************************************************)
THEOREM JournalLockExclusive == Spec => []OneInSection
BY Invariance, PTL DEF IInv

-----------------------------------------------------------------------------
(* The refinement *)

\* A transaction that a process works on is one ManifestStore knows.
LEMMA OffersAreTransactions ==
    ASSUME TypeOK
    PROVE  {Offered(proc[d].cur.eff) : d \in Devices} \subseteq Store!Transactions
<1>1. \A d \in Devices : proc[d].cur.eff \in Effects
    BY DEF TypeOK, Procs, Markers
<1> QED BY <1>1 DEF Offered, FileOf, Effects, Store!Transactions

\* A full unit at the end of the journal changes the record by its whole
\* effect or, lost on a torn line, not at all.
LEMMA UnitCommits ==
    ASSUME NEW m \in Effects, NEW j \in Seq(Units), NEW u \in Units,
           NEW f, f = [p \in Paths |-> FileOf(View(m, j)[p])],
           NEW g, g = [p \in Paths |-> FileOf(View(m, Append(j, u))[p])]
    PROVE  g = f \/ g = Store!Apply(f, Offered(u.eff))
<1>1. CASE View(m, Append(j, u)) = View(m, j)
    BY <1>1
<1>2. CASE View(m, Append(j, u)) = Overlay(View(m, j), u.eff)
  <2>1. \A p \in Paths : /\ u.eff[p] = NoEntry => Offered(u.eff)[p] = NoEntry
                         /\ u.eff[p] # NoEntry => /\ Offered(u.eff)[p] = FileOf(u.eff[p])
                                                  /\ FileOf(u.eff[p]) # NoEntry
      BY EntryAssumption, ServerAssumption DEF Offered, FileOf
  <2>2. \A p \in Paths : g[p] = Store!Apply(f, Offered(u.eff))[p]
      BY <1>2, <2>1 DEF Overlay, Store!Apply
  <2> QED BY <2>2 DEF Store!Apply
<1> QED BY <1>1, <1>2, ViewOfAppend

\* The journal a rollback would leave is the journal before the append.
LEMMA FrontOfAppend ==
    /\ \A j \in Seq(Units), u \in Units : Front(Append(j, u)) = j
    /\ \A j \in Seq(Units) : j # <<>> => /\ Front(j) \in Seq(Units)
                                         /\ j = Append(Front(j), j[Len(j)])
<1>1. ASSUME NEW j \in Seq(Units), NEW u \in Units PROVE Front(Append(j, u)) = j
    BY DEF Front
<1>2. ASSUME NEW j \in Seq(Units), j # <<>>
      PROVE  Front(j) \in Seq(Units) /\ j = Append(Front(j), j[Len(j)])
    BY <1>2 DEF Front
<1> QED BY <1>1, <1>2

\* Only the process under the lock can hold a transaction it may roll back.
LEMMA RevocableIsAlone ==
    ASSUME IInv, NEW d \in Devices, InSection(d), ~Revocable(d)
    PROVE  ~\E e \in Devices : Revocable(e)
BY DEF IInv, OneInSection, StepsInSection, Revocable, Doing

\* The files on record when the process d may roll back, and when none may.
LEMMA ReadableCases ==
    /\ (\E d \in Devices : Revocable(d)) =>
           ReadableFiles = [p \in Paths |-> FileOf(View(manifest, Front(journal))[p])]
    /\ ~(\E d \in Devices : Revocable(d)) =>
           ReadableFiles = [p \in Paths |-> FileOf(View(manifest, journal)[p])]
BY DEF ReadableFiles, Readable, Recorded

\* A process that stops before its bump commits what it has appended.
LEMMA RevocableCommits ==
    ASSUME IInv, NEW d \in Devices, Revocable(d),
           NEW g, g = [p \in Paths |-> FileOf(View(manifest, journal)[p])]
    PROVE  g = ReadableFiles \/ g = Store!Apply(ReadableFiles, Offered(proc[d].cur.eff))
<1>1. /\ manifest \in Effects /\ journal \in Seq(Units) /\ journal # <<>>
      /\ journal[Len(journal)] = UnitOf(proc[d].cur, "full")
    BY DEF IInv, TypeOK, Revocable, BumpFindsUnit
<1>2. UnitOf(proc[d].cur, "full") \in Units
    BY DEF IInv, TypeOK, Procs, Markers, UnitOf, Units, Ends
<1>3. Front(journal) \in Seq(Units) /\ journal = Append(Front(journal), UnitOf(proc[d].cur, "full"))
    BY <1>1, FrontOfAppend
<1>4. ReadableFiles = [p \in Paths |-> FileOf(View(manifest, Front(journal))[p])]
    BY ReadableCases
<1>5. UnitOf(proc[d].cur, "full").eff = proc[d].cur.eff
    BY DEF UnitOf
<1>6. ASSUME NEW j \in Seq(Units), NEW u \in Units, journal = Append(j, u),
             ReadableFiles = [p \in Paths |-> FileOf(View(manifest, j)[p])]
      PROVE  g = ReadableFiles \/ g = Store!Apply(ReadableFiles, Offered(u.eff))
    BY <1>1, <1>6, UnitCommits
<1> QED BY <1>2, <1>3, <1>4, <1>5, <1>6

\* A turn: a stutter, or the commit of what can no longer be rolled back.
LEMMA TurnRefines ==
    ASSUME IInv, IInv', NEW d \in Devices, NEW r, Turn(d, r)
    PROVE  \/ ReadableFiles' = ReadableFiles
           \/ ReadableFiles' = Store!Apply(ReadableFiles, Offered(proc[d].cur.eff))
<1>1. /\ proc'[d] = r
      /\ \A e \in Devices \ {d} : proc'[e] = proc[e]
      /\ manifest \in Effects /\ journal \in Seq(Units)
    BY DEF Turn, IInv, TypeOK
<1>2. ~Revocable(d)'
    BY <1>1 DEF Revocable, Doing, Turn, Plain
<1>3. \A e \in Devices \ {d} : Revocable(e)' <=> Revocable(e)
    BY <1>1 DEF Revocable, Doing, RollsBack
<1>4. CASE Revocable(d)
  <2>1. \A e \in Devices \ {d} : ~Revocable(e)
      BY <1>4 DEF IInv, OneInSection, StepsInSection, Revocable, Doing
  <2>2. ~\E e \in Devices : Revocable(e)'
      BY <1>2, <1>3, <2>1
  <2>3. ReadableFiles' = [p \in Paths |-> FileOf(View(manifest', journal')[p])]
      BY <2>2 DEF ReadableFiles, Readable, Recorded, FileOf
  <2>4. CASE journal' = journal
    <3>1. ReadableFiles' = [p \in Paths |-> FileOf(View(manifest, journal)[p])]
        BY <2>3, <2>4 DEF Turn
    <3> QED BY <1>4, <3>1, RevocableCommits
  <2>5. CASE journal' = Front(journal)
      BY <1>4, <2>3, <2>5, ReadableCases DEF Turn
  <2>6. ~Doing(d, "append")
      BY <1>4 DEF Revocable, Doing
  <2> QED BY <2>4, <2>5, <2>6 DEF Turn
<1>5. CASE ~Revocable(d) /\ journal' = journal
  <2>1. (\E e \in Devices : Revocable(e)') <=> (\E e \in Devices : Revocable(e))
      BY <1>2, <1>3, <1>5
  <2> QED BY <1>5, <2>1 DEF ReadableFiles, Readable, Recorded, FileOf, Turn
<1>6. CASE ~Revocable(d) /\ Doing(d, "append") /\ journal' \in CutShort(proc[d].cur)
  <2>1. (~\E e \in Devices : Revocable(e)) /\ (~\E e \in Devices : Revocable(e)')
      BY <1>2, <1>3, <1>6, RevocableIsAlone DEF IInv, StepsInSection, Doing
  <2>2. PICK t \in Tears : journal' = Append(journal, UnitOf(proc[d].cur, t))
      BY <1>6 DEF CutShort
  <2>3. UnitOf(proc[d].cur, t) \in Units /\ UnitOf(proc[d].cur, t).end # "full"
      BY ServerAssumption DEF IInv, TypeOK, Procs, Markers, UnitOf, Units, Ends
  <2>4. View(manifest', journal') = View(manifest, journal)
      BY <1>1, <2>2, <2>3, ViewOfCut DEF Turn
  <2> QED BY <2>1, <2>4 DEF ReadableFiles, Readable, Recorded, FileOf
<1> QED BY <1>4, <1>5, <1>6 DEF Turn

\* A completed step: an append that is final commits, a bump makes final what
\* was appended, and a compaction changes no file on record.
LEMMA PopRefines ==
    ASSUME IInv, IInv', NEW d \in Devices, Pop(d)
    PROVE  \/ ReadableFiles' = ReadableFiles
           \/ ReadableFiles' = Store!Apply(ReadableFiles, Offered(proc[d].cur.eff))
<1>1. /\ proc'[d] = Popped(d)
      /\ \A e \in Devices \ {d} : proc'[e] = proc[e]
      /\ manifest \in Effects /\ journal \in Seq(Units)
      /\ proc[d] \in Procs /\ proc[d].steps \in Seq(Steps) /\ proc[d].steps # <<>>
      /\ Shape(proc[d].steps)
    BY DEF Pop, IInv, TypeOK, Procs, StepsInOrder
<1>2. \A e \in Devices \ {d} : ~Revocable(e) /\ ~Revocable(e)'
    BY <1>1 DEF IInv, OneInSection, StepsInSection, Revocable, Doing
<1>3. proc'[d].steps = Tail(proc[d].steps)
    BY <1>1 DEF Popped, Procs
<1>4. Revocable(d)' => Doing(d, "append")
    BY <1>1, <1>3, PoppedShape DEF Revocable, Doing
<1>5. CASE Doing(d, "append")
  <2> DEFINE u == UnitOf(proc[d].cur, "full")
  <2>1. /\ journal' = Append(journal, u) /\ manifest' = manifest
      BY <1>5 DEF Pop, Doing
  <2>2. u \in Units /\ u.eff = proc[d].cur.eff
      BY DEF IInv, TypeOK, Procs, Markers, UnitOf, Units, Ends
  <2>3. ReadableFiles = [p \in Paths |-> FileOf(View(manifest, journal)[p])]
      BY <1>2, <1>5 DEF ReadableFiles, Readable, Recorded, Revocable, Doing
  <2>4. CASE Revocable(d)'
    <3>1. Front(journal') = journal
        BY <1>1, <2>1, <2>2, FrontOfAppend
    <3>2. ReadableFiles' = [p \in Paths |-> FileOf(View(manifest', Front(journal'))[p])]
        BY <2>4 DEF ReadableFiles, Readable, FileOf
    <3> QED BY <2>1, <2>3, <3>1, <3>2
  <2>5. CASE ~Revocable(d)'
    <3>1. ReadableFiles' = [p \in Paths |-> FileOf(View(manifest', journal')[p])]
        BY <1>2, <2>5 DEF ReadableFiles, Readable, Recorded, FileOf
    <3>2. ReadableFiles' = [p \in Paths |-> FileOf(View(manifest, Append(journal, u))[p])]
        BY <2>1, <3>1
    <3> HIDE DEF u
    <3> QED BY <1>1, <2>2, <2>3, <3>2, UnitCommits
  <2> QED BY <2>4, <2>5
<1>6. CASE ~Doing(d, "append")
  <2>1. ReadableFiles' = [p \in Paths |-> FileOf(View(manifest', journal')[p])]
      BY <1>2, <1>4, <1>6 DEF ReadableFiles, Readable, Recorded, FileOf
  <2>2. CASE Revocable(d)
    <3>1. UNCHANGED <<journal, manifest>>
        BY <2>2 DEF Pop, Revocable, Doing
    <3> QED BY <2>1, <2>2, <3>1, RevocableCommits
  <2>3. CASE ~Revocable(d)
    <3>1. ReadableFiles = [p \in Paths |-> FileOf(View(manifest, journal)[p])]
        BY <1>2, <2>3 DEF ReadableFiles, Readable, Recorded
    <3>2. \A p \in Paths : FileOf(View(manifest', journal')[p]) = FileOf(View(manifest, journal)[p])
      <4>1. CASE Doing(d, "fold")
          BY <1>1, <4>1, FoldKeepsFiles DEF Pop, Doing
      <4>2. CASE Doing(d, "reset")
        <5>1. journal' = <<>> /\ manifest' = manifest
            BY <4>2 DEF Pop, Doing
        <5>2. View(manifest', journal') = manifest
            BY <1>1, <5>1, ViewOfEmpty
        <5> QED BY <4>2, <5>2 DEF IInv, ResetFindsFolded, Recorded
      <4>3. CASE ~Doing(d, "fold") /\ ~Doing(d, "reset")
          BY <1>6, <4>3 DEF Pop
      <4> QED BY <4>1, <4>2, <4>3
    <3> QED BY <2>1, <3>1, <3>2
  <2> QED BY <2>2, <2>3
<1> QED BY <1>5, <1>6

\* A restart of the NAS commits what was appended, as every kill does.
LEMMA ClearRefines ==
    ASSUME IInv, IInv', ClearAll
    PROVE  \/ ReadableFiles' = ReadableFiles
           \/ \E d \in Devices : ReadableFiles' = Store!Apply(ReadableFiles, Offered(proc[d].cur.eff))
<1>1. ~\E d \in Devices : Revocable(d)'
    BY DEF ClearAll, Revocable, Doing, Idle
<1>2. ReadableFiles' = [p \in Paths |-> FileOf(View(manifest, journal)[p])]
    BY <1>1 DEF ReadableFiles, Readable, Recorded, FileOf, ClearAll
<1>3. CASE \E d \in Devices : Revocable(d)
    BY <1>2, <1>3, RevocableCommits
<1>4. CASE ~\E d \in Devices : Revocable(d)
    BY <1>2, <1>4, ReadableCases
<1> QED BY <1>3, <1>4

\* Every step of the server is a step of ManifestStore or changes nothing there.
LEMMA StoreStep ==
    ASSUME IInv, IInv', [Next]_vars
    PROVE  [Store!Next]_<<ReadableFiles, {Offered(proc[d].cur.eff) : d \in Devices}>>
<1> DEFINE offers == {Offered(proc[d].cur.eff) : d \in Devices}
<1>1. offers' \subseteq Store!Transactions
  <2>1. \A d \in Devices : proc'[d].cur.eff \in Effects
      BY DEF IInv, TypeOK, Procs, Markers
  <2> QED BY <2>1 DEF Offered, FileOf, Effects, Store!Transactions
<1>2. \/ ReadableFiles' = ReadableFiles
      \/ \E d \in Devices : ReadableFiles' = Store!Apply(ReadableFiles, Offered(proc[d].cur.eff))
  <2>1. CASE UNCHANGED <<journal, manifest, proc>>
      BY <2>1 DEF ReadableFiles, Readable, Recorded, Revocable, Doing, FileOf, RollsBack
  <2> QED BY <2>1, NextKind, TurnRefines, PopRefines, ClearRefines DEF IInv
<1>3. CASE ReadableFiles' = ReadableFiles
    BY <1>1, <1>3 DEF Store!Next, Store!Offer
<1>4. CASE \E d \in Devices : ReadableFiles' = Store!Apply(ReadableFiles, Offered(proc[d].cur.eff))
  <2>1. \E t \in offers : ReadableFiles' = Store!Apply(ReadableFiles, t)
      BY <1>4
  <2> QED BY <1>1, <2>1 DEF Store!Next, Store!Commit
<1> QED BY <1>2, <1>3, <1>4

(***************************************************************************)
(* The server implements ManifestStore: for any devices, paths, requests,  *)
(* faults and interrupted appends, what a reader of the manifest can learn *)
(* changes by one whole transaction of a running command at a time.        *)
(***************************************************************************)
THEOREM StoreRefinement == Spec => StoreKept
<1>1. Init => Store!Init
  <2> SUFFICES ASSUME Init PROVE Store!Init
      OBVIOUS
  <2>1. manifest \in Effects /\ journal = <<>> /\ \A d \in Devices : ~Revocable(d)
      BY BaseTypes DEF Init, Revocable, Doing, Idle
  <2>2. ReadableFiles = [p \in Paths |-> FileOf(manifest[p])]
      BY <2>1, ViewOfEmpty, ReadableCases
  <2>3. \A p \in Paths : FileOf(manifest[p]) = NoFile
      BY EntryAssumption DEF Init, NoEffect, FileOf
  <2>4. {Offered(proc[d].cur.eff) : d \in Devices} \subseteq Store!Transactions
      BY InvInit, OffersAreTransactions DEF IInv
  <2> QED BY <2>2, <2>3, <2>4 DEF Store!Init
<1>2. IInv /\ IInv' /\ [Next]_vars =>
          [Store!Next]_<<ReadableFiles, {Offered(proc[d].cur.eff) : d \in Devices}>>
    BY StoreStep
<1> QED BY <1>1, <1>2, Invariance, PTL DEF Spec, StoreKept, Store!Spec

-----------------------------------------------------------------------------
(***************************************************************************)
(* What reached the journal is announced.  A marked transaction is known   *)
(* by its id and kind, its tag; two with one id are one transaction.  Its  *)
(* marker is written before it is appended, and removed after the bump.    *)
(* Recovery must know what it owes: a deletion that is on record and not   *)
(* announced is still in the journal (no compaction before its recovery),  *)
(* and a process under the lock either has it to do or is about to bump.   *)
(***************************************************************************)
Announcing == {"DELETE", "PUBLISH"}
Moving == {"DELETE", "BROWSE_DELETE", "BROWSE_RENAME_V1", "BROWSE_RENAME_V2"}

Tag(m) == <<m.tx, m.kind>>

Tags == {u \in unannounced : u[2] # "NONE"} \cup {Tag(m) : m \in txns}
        \cup {Tag(proc[d].cur) : d \in {e \in Devices : proc[e].steps # <<>> /\ proc[e].cur.kind # "NONE"}}

TagInv ==
    /\ nextTx >= 1
    /\ \A a \in Tags : a[2] # "NONE" /\ a[1][1] < nextTx /\ (a[1][1] = 0 <=> a[2] = "PUBLISH")
    /\ \A a, b \in Tags : a[1] = b[1] => a[2] = b[2]

OwnKind(r) ==
    /\ r.op = "publish" => r.own.kind = "PUBLISH" /\ r.own.tx[1] = 0
    /\ r.op = "browse" => r.own.kind \in Moving \ {"DELETE"}
    /\ r.op \in {"append", "retry"} => r.own.kind = "NONE"

\* A marker is removed last, after a bump or an undo; a bump follows an append.
Ordered(s) ==
    \A i \in 1 .. Len(s) :
        /\ s[i] = "clear" => i = Len(s) /\ (i > 1 => s[i-1] \in {"bump", "announce", "undo"})
        /\ s[i] = "append" => i < Len(s) /\ s[i+1] = "bump"

\* Steps that a process without a marker, or one in recovery, never takes.
NoStep(s, X) == \A i \in 1 .. Len(s) : s[i] \notin X

Apt(r) ==
    /\ OwnKind(r) /\ Ordered(r.steps)
    /\ r.cur.kind = "NONE" => NoStep(r.steps, {"begin", "clear"})
    /\ r.cur.kind \notin Moving => NoStep(r.steps, {"move", "undo"})
    /\ r.ph = "recover" => NoStep(r.steps, {"begin", "move", "undo", "reset"})

WorkInv == \A d \in Devices : Apt(proc[d])

MarkerFirst ==
    /\ \A u \in unannounced : u[2] \in Announcing => OpenMarker(u[1])
    /\ \A d \in Devices : proc[d].steps # <<>> /\ ~Doing(d, "begin") /\ proc[d].cur.kind \in Announcing
                              => OpenMarker(proc[d].cur.tx)

\* A process that does not owe a bump has nothing to announce.
Owing(r) == r.steps # <<>> /\ Head(r.steps) \in {"bump", "announce"}

AnnouncedFirst ==
    \A d \in Devices : proc[d].steps # <<>> /\ Tag(proc[d].cur) \in unannounced =>
        /\ proc[d].cur.kind = "DELETE" => Owing(proc[d])
        /\ proc[d].cur.kind = "PUBLISH" => ~Doing(d, "clear") /\ ~Doing(d, "undo")

DeleteOnRecord == \A u \in unannounced : u[2] = "DELETE" => Committed(journal, u[1])

RecoveryCovers ==
    \A d \in Devices : InSection(d) => \A u \in unannounced : u[2] = "DELETE" =>
        \/ proc[d].ph = "recover" /\ u[1] \in proc[d].todo
        \/ Owing(proc[d]) /\ proc[d].cur.tx = u[1]

AnnounceInv == TagInv /\ WorkInv /\ MarkerFirst /\ AnnouncedFirst /\ DeleteOnRecord /\ RecoveryCovers

\* Tags are typed; the constant processes and plans are apt.
LEMMA TagTypes == TypeOK => \A a \in Tags : a \in TxIds \X Kinds /\ a[1][1] \in Nat
<1> SUFFICES ASSUME TypeOK, NEW a \in Tags PROVE a \in TxIds \X Kinds
    BY DEF TxIds
<1>1. \A m \in Markers : Tag(m) \in TxIds \X Kinds
    BY DEF Tag, Markers
<1>2. \A d \in Devices : proc[d].cur \in Markers
    BY DEF TypeOK, Procs
<1> QED BY <1>1, <1>2 DEF Tags, TypeOK

\* Tags stay apart when at most one is new: a fresh id, or a publish.
LEMMA TagsStep ==
    ASSUME TypeOK, TypeOK', TagInv, nextTx' >= nextTx, NEW t, Tags' \subseteq Tags \cup {t},
           \/ t \in Tags
           \/ t[1][1] = nextTx /\ t[2] \notin {"NONE", "PUBLISH"} /\ nextTx' > nextTx
           \/ t[1][1] = 0 /\ t[2] = "PUBLISH"
    PROVE  TagInv'
<1>1. nextTx \in Nat /\ nextTx' \in Nat /\ nextTx >= 1
    BY DEF TypeOK, TagInv
<1>2. \A a \in Tags : /\ a[1][1] \in Nat /\ a[2] # "NONE" /\ a[1][1] < nextTx
                      /\ a[1][1] = 0 <=> a[2] = "PUBLISH"
    BY TagTypes DEF TagInv
<1>3. \A a, b \in Tags : a[1] = b[1] => a[2] = b[2]
    BY DEF TagInv
<1>4. nextTx' >= 1
    BY <1>1
<1>5. \A a \in Tags' : /\ a[2] # "NONE" /\ a[1][1] < nextTx'
                       /\ a[1][1] = 0 <=> a[2] = "PUBLISH"
    BY <1>1, <1>2
<1>6. ASSUME NEW a \in Tags PROVE a[1] = t[1] => a[2] = t[2]
  <2>1. CASE t \in Tags
      BY <1>3, <2>1
  <2>2. CASE t[1][1] = nextTx
      BY <1>1, <1>2, <2>2
  <2>3. CASE t[1][1] = 0 /\ t[2] = "PUBLISH"
      BY <1>2, <2>3
  <2> QED BY <2>1, <2>2, <2>3
<1>7. \A a, b \in Tags' : a[1] = b[1] => a[2] = b[2]
    BY <1>3, <1>6
<1> QED BY <1>4, <1>5, <1>7 DEF TagInv

\* A process that turns to other work keeps the invariant, if that work has a
\* tag and marker of its own and covers what recovery owes.
LEMMA TurnAnnounces ==
    ASSUME IInv, AnnounceInv, TypeOK', NEW d \in Devices, NEW r, NEW t,
           proc' = [proc EXCEPT ![d] = r], txns' = txns, unannounced' \subseteq unannounced,
           Apt(r), nextTx' >= nextTx,
           \A u \in unannounced' : u[2] = "DELETE" => Committed(journal', u[1]),
           r.steps # <<>> =>
               /\ r.cur.kind # "NONE" => Tag(r.cur) = t
               /\ r.cur.kind \in Announcing /\ Head(r.steps) # "begin" => OpenMarker(r.cur.tx)
               /\ Tag(r.cur) \in unannounced' =>
                      /\ r.cur.kind = "DELETE" => Owing(r)
                      /\ r.cur.kind = "PUBLISH" => Head(r.steps) \notin {"clear", "undo"},
           \/ t \in Tags
           \/ t[1][1] = nextTx /\ t[2] \notin {"NONE", "PUBLISH"} /\ nextTx' > nextTx
           \/ t[1][1] = 0 /\ t[2] = "PUBLISH",
           Lockers(r) => \A u \in unannounced' : u[2] = "DELETE" =>
               \/ r.ph = "recover" /\ u[1] \in r.todo
               \/ Owing(r) /\ r.cur.tx = u[1]
    PROVE  AnnounceInv'
<1>1. /\ proc'[d] = r
      /\ \A e \in Devices \ {d} : proc'[e] = proc[e]
    BY DEF IInv, TypeOK
<1>2. TagInv'
  <2>1. Tags' \subseteq Tags \cup {t}
      BY <1>1 DEF Tags
  <2> QED BY <2>1, TagsStep DEF IInv, AnnounceInv
<1>3. WorkInv'
    BY <1>1 DEF WorkInv, AnnounceInv
<1>4. \A tx : OpenMarker(tx)' <=> OpenMarker(tx)
    BY DEF OpenMarker
<1>5. MarkerFirst'
    BY <1>1, <1>4 DEF MarkerFirst, AnnounceInv, Doing
<1>6. AnnouncedFirst'
    BY <1>1 DEF AnnouncedFirst, AnnounceInv, Doing
<1>7. RecoveryCovers'
    BY <1>1 DEF RecoveryCovers, AnnounceInv, InSection, Lockers
<1> QED BY <1>2, <1>3, <1>5, <1>6, <1>7 DEF DeleteOnRecord, AnnounceInv

\* What is committed stays so when something is appended.
LEMMA CommittedGrows ==
    ASSUME NEW j \in Seq(Units), NEW u, NEW tx
    PROVE  /\ Committed(j, tx) => Committed(Append(j, u), tx)
           /\ u.tx = tx /\ u.end = "full" => Committed(Append(j, u), tx)
<1>1. /\ DOMAIN Append(j, u) = 1 .. Len(j) + 1 /\ DOMAIN j = 1 .. Len(j) /\ Len(j) \in Nat
      /\ \A i \in 1 .. Len(j) : Append(j, u)[i] = j[i]
      /\ Append(j, u)[Len(j) + 1] = u
    OBVIOUS
<1>2. \A i \in 1 .. Len(j) : i \in 1 .. Len(j) + 1
    BY <1>1
<1>3. Len(j) + 1 \in 1 .. Len(j) + 1
    BY <1>1
<1> QED BY <1>1, <1>2, <1>3 DEF Committed

\* A process that ends, or waits for the lock, has nothing to answer for.
LEMMA RestAnnounces ==
    ASSUME IInv, AnnounceInv, TypeOK', NEW d \in Devices, NEW r, SetProc(d, r),
           r.steps = <<>>, OwnKind(r), ~Lockers(r), nextTx' >= nextTx,
           UNCHANGED <<txns, unannounced>>,
           \/ journal' = journal
           \/ Doing(d, "append") /\ journal' \in CutShort(proc[d].cur)
    PROVE  AnnounceInv'
<1> DEFINE t == <<<<0, NoEffect>>, "PUBLISH">>
<1>1. Apt(r)
    BY DEF Apt, Ordered, NoStep, Lockers
<1>2. \A tx : Committed(journal, tx) => Committed(journal', tx)
  <2>1. CASE journal' \in CutShort(proc[d].cur)
    <3>1. PICK x : journal' = Append(journal, x)
        BY <2>1 DEF CutShort
    <3>2. journal \in Seq(Units)
        BY DEF IInv, TypeOK
    <3>3. \A tx : Committed(journal, tx) => Committed(Append(journal, x), tx)
        BY <3>2, CommittedGrows
    <3> QED BY <3>1, <3>3
  <2> QED BY <2>1
<1>3. \A u \in unannounced' : u[2] = "DELETE" => Committed(journal', u[1])
    BY <1>2 DEF AnnounceInv, DeleteOnRecord
<1>4. t[1][1] = 0 /\ t[2] = "PUBLISH"
    OBVIOUS
<1> HIDE DEF t
<1> QED BY <1>1, <1>3, <1>4, TurnAnnounces DEF SetProc

\* Nothing that concerns the record changes.
LEMMA IdleAnnounces ==
    ASSUME AnnounceInv, UNCHANGED <<txns, unannounced, journal, proc, nextTx>>
    PROVE  AnnounceInv'
<1>1. Tags' = Tags
    BY DEF Tags
<1>2. \A tx : (OpenMarker(tx)' <=> OpenMarker(tx)) /\ (Committed(journal, tx)' <=> Committed(journal, tx))
    BY DEF OpenMarker, Committed
<1>3. TagInv' /\ WorkInv' /\ MarkerFirst' /\ AnnouncedFirst'
    BY <1>1, <1>2 DEF AnnounceInv, TagInv, WorkInv, MarkerFirst, AnnouncedFirst, Doing
<1>4. DeleteOnRecord' /\ RecoveryCovers'
    BY <1>2 DEF AnnounceInv, DeleteOnRecord, RecoveryCovers, InSection
<1> QED BY <1>3, <1>4 DEF AnnounceInv

\* Requests of clients.
LEMMA RequestAnnounces ==
    ASSUME IInv, AnnounceInv, TypeOK', NEW d \in Devices, Request(d)
    PROVE  AnnounceInv'
<1>0. nextTx \in Nat /\ proc[d] \in Procs
    BY DEF IInv, TypeOK
<1>1. ASSUME NEW op, NEW own, NEW req, NEW next, Start(d, op, own, req, next),
             op = "publish" => own.kind = "PUBLISH" /\ own.tx[1] = 0,
             op = "browse" => own.kind \in Moving \ {"DELETE"},
             op \in {"append", "retry"} => own.kind = "NONE",
             nextTx' >= nextTx
      PROVE  AnnounceInv'
  <2> DEFINE r == [Idle EXCEPT !.op = op, !.ph = "lock", !.own = own, !.req = req]
  <2>1. r.steps = <<>> /\ ~Lockers(r) /\ r.op = op /\ r.own = own
      BY DEF Idle, Lockers
  <2>2. OwnKind(r)
      BY <1>1, <2>1 DEF OwnKind
  <2>3. SetProc(d, r) /\ UNCHANGED <<txns, unannounced, journal>>
      BY <1>1 DEF Start
  <2> HIDE DEF r
  <2> QED BY <1>1, <2>1, <2>2, <2>3, RestAnnounces
<1>2. CASE TransferWait(d) \/ JournalCompact(d)
  <2>1. PICK op \in {"wait", "compact"} : SetProc(d, [Idle EXCEPT !.op = op, !.ph = "lock"])
      BY <1>2 DEF TransferWait, JournalCompact
  <2> DEFINE r == [Idle EXCEPT !.op = op, !.ph = "lock"]
  <2>2. r.steps = <<>> /\ ~Lockers(r) /\ OwnKind(r)
      BY DEF Idle, Lockers, OwnKind
  <2>3. SetProc(d, r) /\ nextTx' = nextTx /\ UNCHANGED <<txns, unannounced, journal>>
      BY <1>2, <2>1 DEF TransferWait, JournalCompact
  <2> HIDE DEF r
  <2> QED BY <1>0, <2>2, <2>3, RestAnnounces
<1>3. CASE EndLease(d)
    BY <1>3, IdleAnnounces DEF EndLease
<1>4. ASSUME NEW p \in Paths, NEW v \in Versions, Upload(d, p, v)
      PROVE  AnnounceInv'
    BY <1>4, IdleAnnounces DEF Upload
<1>5. ASSUME NEW b \in StageBatches, StageCleanup(d, b)
      PROVE  AnnounceInv'
    BY <1>5, IdleAnnounces DEF StageCleanup
<1>6. NoMarker.kind = "NONE" /\ \A x, y : [NoMarker EXCEPT !.tx = x, !.eff = y].kind = "NONE"
    BY DEF NoMarker
<1>7. CASE JournalAppend(d) \/ JournalRetry(d)
  <2>1. \E x, y : \E op \in {"append", "retry"} :
            /\ Start(d, op, [NoMarker EXCEPT !.tx = x, !.eff = y], NoEffect, "over")
            /\ nextTx' \in {nextTx, nextTx + 2}
    <3>1. CASE JournalAppend(d)
        BY <3>1 DEF JournalAppend
    <3>2. CASE JournalRetry(d)
        BY <3>2 DEF JournalRetry
    <3> QED BY <1>7, <3>1, <3>2
  <2>2. PICK x, y : \E op \in {"append", "retry"} :
            /\ Start(d, op, [NoMarker EXCEPT !.tx = x, !.eff = y], NoEffect, "over")
            /\ nextTx' \in {nextTx, nextTx + 2}
      BY <2>1
  <2>3. PICK op \in {"append", "retry"} :
            /\ Start(d, op, [NoMarker EXCEPT !.tx = x, !.eff = y], NoEffect, "over")
            /\ nextTx' \in {nextTx, nextTx + 2}
      BY <2>2
  <2> DEFINE own == [NoMarker EXCEPT !.tx = x, !.eff = y]
  <2>4. own.kind = "NONE" /\ Start(d, op, own, NoEffect, "over")
      BY <1>6, <2>3
  <2> HIDE DEF own
  <2>5. nextTx' >= nextTx
      BY <1>0, <2>3
  <2> QED BY <1>1, <2>4, <2>5
<1>8. ASSUME NEW req \in DeleteRequests, CheckedDelete(d, req)
      PROVE  AnnounceInv'
    BY <1>0, <1>1, <1>8 DEF CheckedDelete
<1>9. ASSUME NEW S \in Trees, BrowseDelete(d, S)
      PROVE  AnnounceInv'
  <2> DEFINE own == [NoMarker EXCEPT !.kind = "BROWSE_DELETE", !.from = S]
  <2>1. own.kind = "BROWSE_DELETE"
      BY DEF NoMarker
  <2>2. Start(d, "browse", own, NoEffect, "over") /\ nextTx' = nextTx
      BY <1>9 DEF BrowseDelete
  <2> HIDE DEF own
  <2> QED BY <1>0, <1>1, <2>1, <2>2 DEF Moving
<1>10. ASSUME NEW q \in Renames, BrowseRename(d, q) \/ \E v \in Versions : RenameRemote(d, q, v)
       PROVE  AnnounceInv'
  <2>1. \A k : RenameOf(q, k).kind = k
      BY DEF RenameOf, NoMarker
  <2>2. CASE BrowseRename(d, q)
      BY <1>0, <1>1, <2>1, <2>2 DEF BrowseRename, Moving
  <2>3. ASSUME NEW v \in Versions, RenameRemote(d, q, v) PROVE AnnounceInv'
      BY <1>0, <1>1, <2>1, <2>3 DEF RenameRemote, Moving
  <2> QED BY <1>10, <2>2, <2>3
<1>11. ASSUME NEW b \in StageBatches, StagingPublish(d, b)
       PROVE  AnnounceInv'
  <2> DEFINE own == [NoMarker EXCEPT !.kind = "PUBLISH", !.tx = <<0, b>>, !.eff = b]
  <2>1. own.kind = "PUBLISH" /\ own.tx[1] = 0
      BY DEF NoMarker
  <2>2. Start(d, "publish", own, NoEffect, "over") /\ nextTx' = nextTx
      BY <1>11 DEF StagingPublish
  <2> HIDE DEF own
  <2> QED BY <1>0, <1>1, <2>1, <2>2
<1> QED BY <1>2, <1>3, <1>4, <1>5, <1>7, <1>8, <1>9, <1>10, <1>11 DEF Request

\* What the plans of the server contain.
LEMMA PlansAreOrdered ==
    /\ \A s \in {MovePlan, RedoPlan, PublishPlan, NewPublishPlan, <<"append", "bump">>,
                 <<"append", "bump", "fold", "reset">>, <<"fold", "reset">>,
                 <<"announce", "clear">>, <<"clear">>, <<"undo", "clear">>, <<>>} : Ordered(s)
    /\ \A s \in {<<"append", "bump">>, <<"append", "bump", "fold", "reset">>,
                 <<"fold", "reset">>, <<>>} :
           NoStep(s, {"begin", "clear"}) /\ NoStep(s, {"move", "undo"})
    /\ NoStep(PublishPlan, {"move", "undo"}) /\ NoStep(NewPublishPlan, {"move", "undo"})
    /\ \A s \in {RedoPlan, PublishPlan, <<"announce", "clear">>, <<"clear">>, <<>>} :
           NoStep(s, {"begin", "move", "undo", "reset"})
    /\ NoStep(<<"announce", "clear">>, {"move", "undo"})
<1>1. Ordered(MovePlan) /\ Ordered(RedoPlan)
    BY DEF Ordered, MovePlan, RedoPlan
<1>2. Ordered(PublishPlan) /\ Ordered(NewPublishPlan)
    BY DEF Ordered, PublishPlan, NewPublishPlan
<1>3. /\ Ordered(<<"append", "bump">>) /\ Ordered(<<"append", "bump", "fold", "reset">>)
      /\ Ordered(<<"fold", "reset">>) /\ Ordered(<<"announce", "clear">>) /\ Ordered(<<"clear">>)
      /\ Ordered(<<"undo", "clear">>) /\ Ordered(<<>>)
    BY DEF Ordered
<1>4. \A s \in {<<"append", "bump">>, <<"append", "bump", "fold", "reset">>,
                <<"fold", "reset">>, <<>>} :
           NoStep(s, {"begin", "clear"}) /\ NoStep(s, {"move", "undo"})
    BY DEF NoStep
<1>5. NoStep(PublishPlan, {"move", "undo"}) /\ NoStep(NewPublishPlan, {"move", "undo"})
    BY DEF NoStep, PublishPlan, NewPublishPlan
<1>6. \A s \in {RedoPlan, PublishPlan, <<"announce", "clear">>, <<"clear">>, <<>>} :
           NoStep(s, {"begin", "move", "undo", "reset"})
    BY DEF NoStep, RedoPlan, PublishPlan
<1>7. NoStep(<<"announce", "clear">>, {"move", "undo"})
    BY DEF NoStep
<1> QED BY <1>1, <1>2, <1>3, <1>4, <1>5, <1>6, <1>7

\* Under the lock with no steps left and nothing left to recover, no deletion is owed.
LEMMA NothingOwed ==
    ASSUME AnnounceInv, NEW d \in Devices, InSection(d), proc[d].steps = <<>>,
           proc[d].ph = "body" \/ proc[d].todo = {}
    PROVE  \A u \in unannounced : u[2] # "DELETE"
BY DEF AnnounceInv, RecoveryCovers, Owing

\* A tag that needs nothing: every turn may use it.
Untagged == <<<<0, NoEffect>>, "PUBLISH">>

\* A command starts its own work: nothing of it is in the journal or marked yet.
LEMMA BodyAnnounces ==
    ASSUME IInv, AnnounceInv, TypeOK', NEW d \in Devices, NEW r,
           InSection(d), proc[d].steps = <<>>, proc[d].ph = "body" \/ proc[d].todo = {},
           proc' = [proc EXCEPT ![d] = r], r.ph = "body", Apt(r),
           UNCHANGED <<txns, unannounced, journal>>, nextTx' >= nextTx,
           \/ r.steps = <<>>
           \/ r.cur.kind = "NONE"
           \/ /\ Head(r.steps) \in {"begin", "append"} /\ r.cur.kind \in {"ABSENT"} \cup Moving
              /\ (r.cur.kind = "DELETE" => Head(r.steps) = "begin")
              /\ r.cur.tx[1] = nextTx /\ nextTx' > nextTx
           \/ Head(r.steps) = "begin" /\ r.cur.kind = "PUBLISH" /\ r.cur.tx[1] = 0
    PROVE  AnnounceInv'
<1> DEFINE t == IF r.steps = <<>> \/ r.cur.kind = "NONE" THEN Untagged ELSE Tag(r.cur)
<1>1. \A u \in unannounced : u[2] # "DELETE"
    BY NothingOwed
<1>2. r.steps # <<>> /\ r.cur.kind # "NONE" => Tag(r.cur) = t
    OBVIOUS
<1>3. \/ t[1][1] = nextTx /\ t[2] \notin {"NONE", "PUBLISH"} /\ nextTx' > nextTx
      \/ t[1][1] = 0 /\ t[2] = "PUBLISH"
    BY DEF Untagged, Tag, Moving
<1> HIDE DEF t
<1>4. r.steps # <<>> =>
          /\ r.cur.kind \in Announcing /\ Head(r.steps) # "begin" => OpenMarker(r.cur.tx)
          /\ Tag(r.cur) \in unannounced' =>
                 /\ r.cur.kind = "DELETE" => Owing(r)
                 /\ r.cur.kind = "PUBLISH" => Head(r.steps) \notin {"clear", "undo"}
    BY <1>1 DEF Announcing, Moving, Tag
<1> QED BY <1>1, <1>2, <1>3, <1>4, TurnAnnounces

\* Recovery takes up a marker; the bodies of the commands.
LEMMA RecoverAnnounces ==
    ASSUME IInv, AnnounceInv, TypeOK', NEW d \in Devices, RecoverMarker(d)
    PROVE  AnnounceInv'
<1>1. PICK m \in txns :
          /\ Recovering(d, m)
          /\ SetProc(d, [proc[d] EXCEPT !.todo = @ \ {m.tx}, !.steps = RecoveryPlan(m),
                                        !.cur = IF RecoveryPlan(m) = <<>> THEN NoMarker ELSE m])
    BY DEF RecoverMarker
<1> DEFINE plan == RecoveryPlan(m)
           r == [proc[d] EXCEPT !.todo = @ \ {m.tx}, !.steps = plan,
                                !.cur = IF plan = <<>> THEN NoMarker ELSE m]
<1>2. proc[d] \in Procs /\ m \in Markers /\ nextTx \in Nat
    BY DEF IInv, TypeOK
<1>3. /\ r.todo = proc[d].todo \ {m.tx} /\ r.steps = plan /\ r.ph = proc[d].ph
      /\ r.cur = IF plan = <<>> THEN NoMarker ELSE m
      /\ r.op = proc[d].op /\ r.own = proc[d].own
    BY <1>2 DEF Procs
<1>4. proc[d].ph = "recover" /\ proc[d].steps = <<>> /\ InSection(d)
    BY <1>1 DEF Recovering, InSection
<1>5. proc' = [proc EXCEPT ![d] = r] /\ UNCHANGED <<txns, unannounced, journal, nextTx>>
    BY <1>1 DEF RecoverMarker, SetProc
<1>6. Tag(m) \in Tags /\ m.kind # "NONE" /\ OpenMarker(m.tx)
  <2>1. Tag(m) \in Tags
      BY DEF Tags
  <2> QED BY <2>1 DEF AnnounceInv, TagInv, Tag, OpenMarker
<1>7. \A u \in unannounced : u[2] # "NONE" /\ u[1] = m.tx => u[2] = m.kind
    BY <1>6 DEF AnnounceInv, TagInv, Tags, Tag
<1>8. /\ \/ plan = <<"announce", "clear">> \/ plan = <<"clear">> \/ plan = PublishPlan
         \/ plan = RedoPlan \/ plan = <<>>
      /\ Committed(journal, m.tx) /\ m.kind \in {"DELETE", "PUBLISH"} => plan = <<"announce", "clear">>
      /\ m.kind = "PUBLISH" => plan = <<"announce", "clear">> \/ plan = PublishPlan
    BY DEF RecoveryPlan
<1> HIDE DEF plan
<1>9. Apt(r)
  <2>1. OwnKind(r)
      BY <1>3 DEF AnnounceInv, WorkInv, Apt, OwnKind
  <2>2. Ordered(plan) /\ NoStep(plan, {"begin", "move", "undo", "reset"})
      BY <1>8, PlansAreOrdered
  <2>3. NoStep(plan, {"move", "undo"})
      BY <2>2 DEF NoStep
  <2>4. r.cur.kind = "NONE" => NoStep(r.steps, {"begin", "clear"})
      BY <1>3, <1>6, PlansAreOrdered
  <2> HIDE DEF r
  <2> QED BY <1>3, <2>1, <2>2, <2>3, <2>4 DEF Apt
<1> HIDE DEF r
<1>10. \A u \in unannounced : u[2] = "DELETE" /\ u[1] = m.tx => plan = <<"announce", "clear">>
    BY <1>7, <1>8 DEF AnnounceInv, DeleteOnRecord
<1>11. r.steps # <<>> => r.cur = m
    BY <1>3
<1>12. \A u \in unannounced : u[2] = "DELETE" =>
           (r.ph = "recover" /\ u[1] \in r.todo) \/ (Owing(r) /\ r.cur.tx = u[1])
  <2>0. r.ph = "recover"
      BY <1>3, <1>4
  <2> SUFFICES ASSUME NEW u \in unannounced, u[2] = "DELETE", u[1] \notin r.todo
               PROVE  Owing(r) /\ r.cur.tx = u[1]
      BY <2>0
  <2>1. u[1] \in proc[d].todo
      BY <1>4 DEF AnnounceInv, RecoveryCovers, Owing
  <2>2. u[1] = m.tx
      BY <1>3, <2>1
  <2>3. plan = <<"announce", "clear">>
      BY <1>10, <2>2
  <2> QED BY <1>3, <2>2, <2>3 DEF Owing
<1>13. Tag(m) \in unannounced' =>
           /\ m.kind = "DELETE" => Owing(r)
           /\ m.kind = "PUBLISH" => Head(plan) \notin {"clear", "undo"}
  <2>1. m.kind = "PUBLISH" => Head(plan) \in {"announce", "place"}
      BY <1>8 DEF PublishPlan
  <2>2. ASSUME Tag(m) \in unannounced, m.kind = "DELETE" PROVE Owing(r)
    <3>1. plan = <<"announce", "clear">>
        BY <1>10, <2>2 DEF Tag
    <3> QED BY <1>3, <3>1 DEF Owing
  <2> QED BY <1>5, <2>1, <2>2
<1>14. \A u \in unannounced' : u[2] = "DELETE" => Committed(journal', u[1])
    BY <1>5 DEF AnnounceInv, DeleteOnRecord
<1>15. r.steps # <<>> =>
           /\ r.cur.kind # "NONE" => Tag(r.cur) = Tag(m)
           /\ r.cur.kind \in Announcing /\ Head(r.steps) # "begin" => OpenMarker(r.cur.tx)
           /\ Tag(r.cur) \in unannounced' =>
                  /\ r.cur.kind = "DELETE" => Owing(r)
                  /\ r.cur.kind = "PUBLISH" => Head(r.steps) \notin {"clear", "undo"}
    BY <1>3, <1>6, <1>11, <1>13
<1>16. txns' = txns /\ unannounced' = unannounced /\ nextTx' >= nextTx
    BY <1>2, <1>5
<1>17. \A u \in unannounced' : u[2] = "DELETE" =>
           (r.ph = "recover" /\ u[1] \in r.todo) \/ (Owing(r) /\ r.cur.tx = u[1])
    BY <1>12, <1>16
<1>18. Tag(m) \in Tags /\ proc' = [proc EXCEPT ![d] = r]
    BY <1>5, <1>6
<1> QED BY <1>9, <1>14, <1>15, <1>16, <1>17, <1>18, TurnAnnounces

\* Entering the section puts every open marker before the command.
LEMMA EnterAnnounces ==
    ASSUME IInv, AnnounceInv, TypeOK', NEW d \in Devices, Enter(d)
    PROVE  AnnounceInv'
<1> DEFINE r == [proc[d] EXCEPT !.ph = "recover", !.todo = {m.tx : m \in txns}]
<1>1. proc[d] \in Procs /\ nextTx \in Nat
    BY DEF IInv, TypeOK
<1>2. proc[d].steps = <<>>
    BY DEF Enter, IInv, StepsInSection, InSection
<1>3. /\ r.steps = <<>> /\ r.todo = {m.tx : m \in txns} /\ r.ph = "recover"
      /\ r.op = proc[d].op /\ r.own = proc[d].own
    BY <1>1, <1>2 DEF Procs
<1>4. proc' = [proc EXCEPT ![d] = r] /\ UNCHANGED <<txns, unannounced, journal, nextTx>>
    BY DEF Enter, SetProc
<1> HIDE DEF r
<1>5. Apt(r)
    BY <1>3 DEF AnnounceInv, WorkInv, Apt, OwnKind, Ordered, NoStep
<1>6. \A u \in unannounced : u[2] = "DELETE" => u[1] \in r.todo
    BY <1>3 DEF AnnounceInv, MarkerFirst, OpenMarker, Announcing
<1>7. \A u \in unannounced' : u[2] = "DELETE" => Committed(journal', u[1])
    BY <1>4 DEF AnnounceInv, DeleteOnRecord
<1>8. Untagged[1][1] = 0 /\ Untagged[2] = "PUBLISH"
    BY DEF Untagged
<1>9. /\ txns' = txns /\ unannounced' = unannounced /\ nextTx' >= nextTx
      /\ proc' = [proc EXCEPT ![d] = r]
    BY <1>1, <1>4
<1>10. \A u \in unannounced' : u[2] = "DELETE" => r.ph = "recover" /\ u[1] \in r.todo
    BY <1>3, <1>6, <1>9
<1>11. r.steps = <<>>
    BY <1>3
<1> QED BY <1>5, <1>7, <1>8, <1>9, <1>10, <1>11, TurnAnnounces

\* A command that ends.
LEMMA EndAnnounces ==
    ASSUME IInv, AnnounceInv, TypeOK', NEW d \in Devices, SetProc(d, Idle),
           UNCHANGED <<txns, unannounced, nextTx>>,
           \/ journal' = journal
           \/ Doing(d, "append") /\ journal' \in CutShort(proc[d].cur)
    PROVE  AnnounceInv'
<1>1. Idle.steps = <<>> /\ OwnKind(Idle) /\ ~Lockers(Idle)
    BY DEF Idle, OwnKind, Lockers
<1>2. nextTx' >= nextTx
    BY DEF IInv, TypeOK
<1> QED BY <1>1, <1>2, RestAnnounces

\* A process that gives up its steps under the lock goes on with nothing to do.
LEMMA HaltAnnounces ==
    ASSUME IInv, AnnounceInv, TypeOK', NEW d \in Devices, SetProc(d, Halted(d)),
           InSection(d), UNCHANGED <<txns, nextTx>>, unannounced' \subseteq unannounced,
           \A u \in unannounced' : u[2] = "DELETE" =>
               Committed(journal', u[1]) /\ ~(Owing(proc[d]) /\ proc[d].cur.tx = u[1])
    PROVE  AnnounceInv'
<1> DEFINE r == Halted(d)
<1>1. proc[d] \in Procs /\ nextTx \in Nat
    BY DEF IInv, TypeOK
<1>2. /\ r.steps = <<>> /\ r.todo = proc[d].todo /\ r.ph = proc[d].ph
      /\ r.op = proc[d].op /\ r.own = proc[d].own
    BY <1>1 DEF Halted, Procs
<1>3. proc' = [proc EXCEPT ![d] = r]
    BY DEF SetProc
<1> HIDE DEF r
<1>4. Apt(r)
    BY <1>2 DEF AnnounceInv, WorkInv, Apt, OwnKind, Ordered, NoStep
<1>5. \A u \in unannounced' : u[2] = "DELETE" => r.ph = "recover" /\ u[1] \in r.todo
    BY <1>2 DEF AnnounceInv, RecoveryCovers
<1>6. \A u \in unannounced' : u[2] = "DELETE" => Committed(journal', u[1])
    OBVIOUS
<1>7. Untagged[1][1] = 0 /\ Untagged[2] = "PUBLISH"
    BY DEF Untagged
<1>8. nextTx' >= nextTx /\ txns' = txns
    BY <1>1
<1> QED BY <1>2, <1>3, <1>4, <1>5, <1>6, <1>7, <1>8, TurnAnnounces

\* A body given its marker and plan.
LEMMA RunAnnounces ==
    ASSUME IInv, AnnounceInv, TypeOK', NEW d \in Devices, NEW m, NEW plan, Run(d, m, plan),
           proc[d].ph = "recover", proc[d].todo = {}, proc[d].steps = <<>>,
           UNCHANGED <<txns, unannounced, journal>>, nextTx' >= nextTx,
           Ordered(plan),
           m.kind = "NONE" => NoStep(plan, {"begin", "clear"}),
           m.kind \notin Moving => NoStep(plan, {"move", "undo"}),
           \/ plan = <<>>
           \/ m.kind = "NONE"
           \/ /\ plan = MovePlan /\ m.kind \in Moving
              /\ m.tx[1] = nextTx /\ nextTx' > nextTx
           \/ plan = NewPublishPlan /\ m.kind = "PUBLISH" /\ m.tx[1] = 0
    PROVE  AnnounceInv'
<1> DEFINE r == [proc[d] EXCEPT !.ph = "body", !.cur = m, !.steps = plan]
<1>1. proc[d] \in Procs
    BY DEF IInv, TypeOK
<1>2. r.ph = "body" /\ r.steps = plan /\ r.cur = m /\ r.op = proc[d].op /\ r.own = proc[d].own
    BY <1>1 DEF Procs
<1>3. proc' = [proc EXCEPT ![d] = r] /\ InSection(d)
    BY DEF Run, SetProc, InSection
<1> HIDE DEF r
<1>4. Apt(r)
    BY <1>2 DEF AnnounceInv, WorkInv, Apt, OwnKind
<1>5. Head(MovePlan) = "begin" /\ Head(NewPublishPlan) = "begin"
    BY DEF MovePlan, NewPublishPlan
<1>6. \/ r.steps = <<>>
      \/ r.cur.kind = "NONE"
      \/ /\ Head(r.steps) = "begin" /\ r.cur.kind \in Moving
         /\ r.cur.tx[1] = nextTx /\ nextTx' > nextTx
      \/ Head(r.steps) = "begin" /\ r.cur.kind = "PUBLISH" /\ r.cur.tx[1] = 0
    BY <1>2, <1>5
<1>7. UNCHANGED <<txns, unannounced, journal>>
    OBVIOUS
<1> QED BY <1>2, <1>3, <1>4, <1>6, <1>7, BodyAnnounces

\* One path of a checked delete.
LEMMA ItemAnnounces ==
    ASSUME IInv, AnnounceInv, TypeOK', NEW d \in Devices, NEW p \in Paths, DeleteItem(d, p)
    PROVE  AnnounceInv'
<1> DEFINE item == [NoMarker EXCEPT !.tx = FreshTx(nextTx), !.from = {p},
                                    !.kind = IF tree[p] = NoFile THEN "ABSENT" ELSE "DELETE",
                                    !.eff = [NoEffect EXCEPT ![p] = Tomb]]
           stale == tree[p] # NoFile /\ tree[p] # proc[d].req[p]
           plan == IF stale THEN <<>> ELSE IF tree[p] = NoFile THEN <<"append", "bump">> ELSE MovePlan
           m == IF stale THEN NoMarker ELSE item
           r == [proc[d] EXCEPT !.req[p] = NoEntry, !.cur = m, !.steps = plan]
<1>1. proc[d] \in Procs /\ nextTx \in Nat
    BY DEF IInv, TypeOK
<1>2. proc[d].ph = "body" /\ proc[d].steps = <<>> /\ InSection(d)
    BY DEF DeleteItem, InSection
<1>3. r.ph = "body" /\ r.steps = plan /\ r.cur = m /\ r.op = proc[d].op /\ r.own = proc[d].own
    BY <1>1, <1>2 DEF Procs
<1>4. /\ proc' = [proc EXCEPT ![d] = r] /\ UNCHANGED <<txns, unannounced, journal>>
      /\ nextTx' = IF stale THEN nextTx ELSE nextTx + 1
    BY DEF DeleteItem, SetProc
<1>5. /\ item.tx[1] = nextTx
      /\ item.kind = IF tree[p] = NoFile THEN "ABSENT" ELSE "DELETE"
    BY DEF NoMarker, FreshTx
<1> HIDE DEF r, item
<1>6. Head(MovePlan) = "begin" /\ Head(<<"append", "bump">>) = "append"
    BY DEF MovePlan
<1>7. Apt(r)
  <2>1. Ordered(plan)
      BY PlansAreOrdered
  <2>2. m.kind = "NONE" => NoStep(plan, {"begin", "clear"})
      BY <1>5, PlansAreOrdered
  <2>3. m.kind \notin Moving => NoStep(plan, {"move", "undo"})
      BY <1>5, PlansAreOrdered DEF Moving
  <2> HIDE DEF m, plan
  <2> QED BY <1>2, <1>3, <2>1, <2>2, <2>3 DEF AnnounceInv, WorkInv, Apt, OwnKind
<1>8. nextTx' >= nextTx
    BY <1>1, <1>4
<1>9. \/ r.steps = <<>>
      \/ /\ Head(r.steps) \in {"begin", "append"} /\ r.cur.kind \in {"ABSENT"} \cup Moving
         /\ (r.cur.kind = "DELETE" => Head(r.steps) = "begin")
         /\ r.cur.tx[1] = nextTx /\ nextTx' > nextTx
    BY <1>1, <1>3, <1>4, <1>5, <1>6 DEF Moving
<1>10. UNCHANGED <<txns, unannounced, journal>> /\ proc' = [proc EXCEPT ![d] = r]
    BY <1>4
<1> QED BY <1>2, <1>3, <1>7, <1>8, <1>9, <1>10, BodyAnnounces

\* A browse command found its files as it expected them, or ends.
LEMMA BrowseAnnounces ==
    ASSUME IInv, AnnounceInv, TypeOK', NEW d \in Devices, BrowseBody(d)
    PROVE  AnnounceInv'
<1>1. /\ proc[d].ph = "recover" /\ proc[d].todo = {} /\ proc[d].steps = <<>> /\ proc[d].op = "browse"
      /\ UNCHANGED <<txns, unannounced, journal>> /\ nextTx \in Nat
    BY DEF BrowseBody, AtBody, IInv, TypeOK
<1>2. proc[d].own.kind \in Moving \ {"DELETE"}
    BY <1>1 DEF AnnounceInv, WorkInv, Apt, OwnKind
<1>3. \/ SetProc(d, Idle) /\ nextTx' = nextTx
      \/ /\ nextTx' = nextTx + 1
         /\ \E e : Run(d, [proc[d].own EXCEPT !.tx = FreshTx(nextTx), !.eff = e], MovePlan)
    BY DEF BrowseBody
<1>4. CASE SetProc(d, Idle) /\ nextTx' = nextTx
    BY <1>1, <1>4, EndAnnounces
<1>5. ASSUME NEW e, nextTx' = nextTx + 1,
             Run(d, [proc[d].own EXCEPT !.tx = FreshTx(nextTx), !.eff = e], MovePlan)
      PROVE  AnnounceInv'
  <2> DEFINE m == [proc[d].own EXCEPT !.tx = FreshTx(nextTx), !.eff = e]
  <2>1. proc[d].own \in Markers
      BY DEF IInv, TypeOK, Procs
  <2>2. m.kind = proc[d].own.kind /\ m.tx[1] = nextTx
      BY <2>1 DEF Markers, FreshTx
  <2>3. Run(d, m, MovePlan)
      BY <1>5
  <2> HIDE DEF m
  <2>4. nextTx' > nextTx /\ nextTx' >= nextTx
      BY <1>1, <1>5
  <2>5. m.kind \in Moving /\ m.kind # "NONE" /\ Ordered(MovePlan)
      BY <1>2, <2>2, PlansAreOrdered DEF Moving
  <2> QED BY <1>1, <2>2, <2>3, <2>4, <2>5, RunAnnounces
<1> QED BY <1>3, <1>4, <1>5

\* What a command does between its steps.
LEMMA TurnsAnnounce ==
    ASSUME IInv, AnnounceInv, TypeOK', NEW d \in Devices,
           \/ RecoverRefused(d) \/ LeaseGranted(d) \/ AppendBody(d) \/ CompactBody(d)
           \/ DeleteBody(d) \/ PublishBody(d) \/ Finish(d) \/ PlaceConflict(d)
    PROVE  AnnounceInv'
<1>1. nextTx \in Nat /\ proc[d] \in Procs
    BY DEF IInv, TypeOK
<1>2. CASE RecoverRefused(d)
    BY <1>2, EndAnnounces DEF RecoverRefused, Break
<1>3. CASE LeaseGranted(d)
    BY <1>3, EndAnnounces DEF LeaseGranted
<1>4. CASE Finish(d)
    BY <1>4, EndAnnounces DEF Finish, Succeed
<1>5. ASSUME NEW m, m.kind = "NONE", NEW plan, Run(d, m, plan), nextTx' = nextTx,
             proc[d].ph = "recover", proc[d].todo = {}, proc[d].steps = <<>>,
             UNCHANGED <<txns, unannounced, journal>>,
             Ordered(plan), NoStep(plan, {"begin", "clear"}), NoStep(plan, {"move", "undo"})
      PROVE  AnnounceInv'
    BY <1>1, <1>5, RunAnnounces
<1>6. NoMarker.kind = "NONE"
    BY DEF NoMarker
<1>7. CASE AppendBody(d)
  <2>1. /\ proc[d].ph = "recover" /\ proc[d].todo = {} /\ proc[d].steps = <<>>
        /\ proc[d].op \in {"append", "retry"}
        /\ UNCHANGED <<txns, unannounced, journal, nextTx>>
      BY <1>7 DEF AppendBody, AtBody
  <2>2. proc[d].own.kind = "NONE"
      BY <2>1 DEF AnnounceInv, WorkInv, Apt, OwnKind
  <2>3. \/ SetProc(d, Idle)
        \/ Run(d, proc[d].own, <<"append", "bump">>)
        \/ Run(d, proc[d].own, <<"append", "bump", "fold", "reset">>)
      BY <1>7 DEF AppendBody, Succeed
  <2>4. /\ Ordered(<<"append", "bump">>) /\ Ordered(<<"append", "bump", "fold", "reset">>)
        /\ NoStep(<<"append", "bump">>, {"begin", "clear"}) /\ NoStep(<<"append", "bump">>, {"move", "undo"})
        /\ NoStep(<<"append", "bump", "fold", "reset">>, {"begin", "clear"})
        /\ NoStep(<<"append", "bump", "fold", "reset">>, {"move", "undo"})
      BY PlansAreOrdered
  <2> QED BY <1>5, <2>1, <2>2, <2>3, <2>4, EndAnnounces
<1>8. CASE CompactBody(d)
  <2>1. /\ Ordered(<<"fold", "reset">>) /\ NoStep(<<"fold", "reset">>, {"begin", "clear"})
        /\ NoStep(<<"fold", "reset">>, {"move", "undo"})
      BY PlansAreOrdered
  <2> QED BY <1>5, <1>6, <1>8, <2>1 DEF CompactBody, AtBody
<1>9. CASE DeleteBody(d)
  <2>1. Ordered(<<>>) /\ NoStep(<<>>, {"begin", "clear"}) /\ NoStep(<<>>, {"move", "undo"})
      BY PlansAreOrdered
  <2> QED BY <1>5, <1>6, <1>9, <2>1 DEF DeleteBody, AtBody
<1>10. CASE PublishBody(d)
  <2>1. /\ proc[d].ph = "recover" /\ proc[d].todo = {} /\ proc[d].steps = <<>>
        /\ proc[d].op = "publish" /\ UNCHANGED <<txns, unannounced, journal, nextTx>>
      BY <1>10 DEF PublishBody, AtBody
  <2>2. proc[d].own.kind = "PUBLISH" /\ proc[d].own.tx[1] = 0
      BY <2>1 DEF AnnounceInv, WorkInv, Apt, OwnKind
  <2>3. SetProc(d, Idle) \/ Run(d, proc[d].own, NewPublishPlan)
      BY <1>10 DEF PublishBody
  <2>4. Ordered(NewPublishPlan) /\ NoStep(NewPublishPlan, {"move", "undo"}) /\ nextTx' >= nextTx
      BY <1>1, <2>1, PlansAreOrdered
  <2>5. CASE Run(d, proc[d].own, NewPublishPlan)
    <3> DEFINE m == proc[d].own
    <3>1. m.kind = "PUBLISH" /\ m.kind # "NONE" /\ m.tx[1] = 0 /\ Run(d, m, NewPublishPlan)
        BY <2>2, <2>5
    <3> HIDE DEF m
    <3> QED BY <2>1, <2>4, <3>1, RunAnnounces
  <2> QED BY <2>1, <2>3, <2>5, EndAnnounces
<1>11. CASE PlaceConflict(d)
  <2>1. UNCHANGED <<txns, unannounced, journal, nextTx>> /\ Doing(d, "place")
      BY <1>11 DEF PlaceConflict
  <2>2. CASE proc[d].ph = "recover"
    <3>1. SetProc(d, Halted(d)) /\ InSection(d) /\ ~Owing(proc[d])
        BY <1>11, <2>1, <2>2 DEF PlaceConflict, InSection, Doing, Owing
    <3>2. \A u \in unannounced : u[2] = "DELETE" => Committed(journal, u[1])
        BY DEF AnnounceInv, DeleteOnRecord
    <3> QED BY <2>1, <3>1, <3>2, HaltAnnounces
  <2>3. CASE proc[d].ph # "recover"
      BY <1>11, <2>1, <2>3, EndAnnounces DEF PlaceConflict, Break
  <2> QED BY <2>2, <2>3
<1> QED BY <1>2, <1>3, <1>4, <1>7, <1>8, <1>9, <1>10, <1>11

\* What is left of an ordered sequence of steps after its first one.
LEMMA PoppedOrder ==
    ASSUME NEW s \in Seq(Steps), s # <<>>, Ordered(s)
    PROVE  /\ Ordered(Tail(s))
           /\ \A X : NoStep(s, X) => NoStep(Tail(s), X) /\ Head(s) \notin X
           /\ \A X : NoStep(s, X) /\ Tail(s) # <<>> => Head(Tail(s)) \notin X
           /\ Head(s) = "clear" => Tail(s) = <<>>
           /\ Head(s) = "append" => Tail(s) # <<>> /\ Head(Tail(s)) = "bump"
           /\ Tail(s) # <<>> /\ Head(Tail(s)) = "clear" => Head(s) \in {"bump", "announce", "undo"}
<1>1. /\ Len(s) \in Nat /\ Len(s) >= 1 /\ Len(Tail(s)) = Len(s) - 1 /\ Head(s) = s[1]
      /\ \A i \in 1 .. Len(s) - 1 : Tail(s)[i] = s[i+1]
      /\ Tail(s) # <<>> => Len(s) > 1 /\ Head(Tail(s)) = s[2]
      /\ Len(s) > 1 => Tail(s) # <<>>
    OBVIOUS
<1>2. Ordered(Tail(s))
  <2> SUFFICES ASSUME NEW i \in 1 .. Len(Tail(s))
               PROVE  /\ Tail(s)[i] = "clear" =>
                             /\ i = Len(Tail(s))
                             /\ i > 1 => Tail(s)[i-1] \in {"bump", "announce", "undo"}
                      /\ Tail(s)[i] = "append" => i < Len(Tail(s)) /\ Tail(s)[i+1] = "bump"
      BY DEF Ordered
  <2>1. i + 1 \in 1 .. Len(s) /\ Tail(s)[i] = s[i+1]
      BY <1>1
  <2>2. /\ s[i+1] = "clear" => i + 1 = Len(s) /\ s[(i+1)-1] \in {"bump", "announce", "undo"}
        /\ s[i+1] = "append" => i + 1 < Len(s) /\ s[(i+1)+1] = "bump"
      BY <2>1 DEF Ordered
  <2>3. i > 1 => Tail(s)[i-1] = s[i]
      BY <1>1
  <2>4. i + 1 < Len(s) => Tail(s)[i+1] = s[i+2]
      BY <1>1
  <2>5. Len(Tail(s)) = Len(s) - 1 /\ Len(s) \in Nat /\ i \in Nat
      BY <1>1
  <2>6. Tail(s)[i] = "clear" => i = Len(Tail(s))
    <3>1. Tail(s)[i] = "clear" => i + 1 = Len(s)
        BY <2>1, <2>2
    <3>2. \A m, n \in Nat : i + 1 = m /\ n = m - 1 => i = n
        BY <2>5
    <3>3. Len(Tail(s)) \in Nat
        OBVIOUS
    <3> QED BY <2>5, <3>1, <3>2, <3>3
  <2>7. Tail(s)[i] = "clear" /\ i > 1 => Tail(s)[i-1] \in {"bump", "announce", "undo"}
    <3>1. Tail(s)[i] = "clear" => s[(i+1)-1] \in {"bump", "announce", "undo"}
        BY <2>1, <2>2
    <3>2. (i+1)-1 = i
        BY <2>5
    <3> QED BY <2>3, <3>1, <3>2
  <2>8. Tail(s)[i] = "append" => i < Len(Tail(s)) /\ Tail(s)[i+1] = "bump"
    <3>1. Tail(s)[i] = "append" => i + 1 < Len(s) /\ s[(i+1)+1] = "bump"
        BY <2>1, <2>2
    <3>2. (i+1)+1 = i+2
        BY <2>5
    <3>3. i + 1 < Len(s) => i < Len(Tail(s))
        BY <2>5
    <3> QED BY <2>4, <3>1, <3>2, <3>3
  <2> QED BY <2>6, <2>7, <2>8
<1>3. ASSUME NEW X, NoStep(s, X)
      PROVE  NoStep(Tail(s), X) /\ Head(s) \notin X /\ (Tail(s) # <<>> => Head(Tail(s)) \notin X)
  <2>1. \A i \in 1 .. Len(s) : s[i] \notin X
      BY <1>3 DEF NoStep
  <2>2. \A i \in 1 .. Len(s) - 1 : i + 1 \in 1 .. Len(s)
      BY <1>1
  <2> QED BY <1>1, <2>1, <2>2 DEF NoStep
<1>4. 1 \in 1 .. Len(s) /\ (Len(s) > 1 => 2 \in 1 .. Len(s))
    BY <1>1
<1>5. Head(s) = "clear" => Tail(s) = <<>>
  <2>1. s[1] = "clear" => 1 = Len(s)
      BY <1>4 DEF Ordered
  <2> QED BY <1>1, <2>1
<1>6. Head(s) = "append" => Tail(s) # <<>> /\ Head(Tail(s)) = "bump"
  <2>1. s[1] = "append" => 1 < Len(s) /\ s[1+1] = "bump"
      BY <1>4 DEF Ordered
  <2> QED BY <1>1, <2>1
<1>7. Tail(s) # <<>> /\ Head(Tail(s)) = "clear" => Head(s) \in {"bump", "announce", "undo"}
  <2>1. Len(s) > 1 /\ s[2] = "clear" => s[2-1] \in {"bump", "announce", "undo"}
      BY <1>1, <1>4 DEF Ordered
  <2> QED BY <1>1, <2>1
<1> QED BY <1>2, <1>3, <1>5, <1>6, <1>7

\* The process after its first step.
LEMMA PoppedFields ==
    ASSUME TypeOK, NEW d \in Devices, proc[d].steps # <<>>, SetProc(d, Popped(d))
    PROVE  /\ proc'[d] = Popped(d) /\ \A e \in Devices \ {d} : proc'[e] = proc[e]
           /\ Popped(d).steps = Tail(proc[d].steps) /\ Popped(d).ph = proc[d].ph
           /\ Popped(d).todo = proc[d].todo
           /\ Popped(d).op = proc[d].op /\ Popped(d).own = proc[d].own
           /\ Tail(proc[d].steps) # <<>> => Popped(d).cur = proc[d].cur
<1>1. proc[d] \in Procs /\ proc[d].steps \in Seq(Steps)
    BY DEF TypeOK, Procs
<1>2. proc'[d] = Popped(d) /\ \A e \in Devices \ {d} : proc'[e] = proc[e]
    BY DEF SetProc, TypeOK
<1>3. /\ Popped(d).steps = Tail(proc[d].steps) /\ Popped(d).ph = proc[d].ph
      /\ Popped(d).todo = proc[d].todo
      /\ Popped(d).op = proc[d].op /\ Popped(d).own = proc[d].own
      /\ Tail(proc[d].steps) # <<>> => Popped(d).cur = proc[d].cur
  <2> DEFINE q == proc[d]
             t == Tail(q.steps)
             k == IF Len(q.steps) = 1 THEN NoMarker ELSE q.cur
  <2>1. Popped(d) = [q EXCEPT !.steps = t, !.cur = k]
      BY DEF Popped
  <2>2. t # <<>> => k = q.cur
    <3>1. q.steps # <<>>
        OBVIOUS
    <3>2. \A s \in Seq(Steps) : s # <<>> /\ Tail(s) # <<>> => Len(s) # 1
      <4> SUFFICES ASSUME NEW s \in Seq(Steps), s # <<>>, Tail(s) # <<>> PROVE Len(s) # 1
          OBVIOUS
      <4>1. /\ Len(s) \in Nat /\ Len(s) >= 1 /\ Len(Tail(s)) = Len(s) - 1
            /\ Tail(s) \in Seq(Steps)
          OBVIOUS
      <4>2. Len(Tail(s)) # 0
          BY <4>1
      <4> QED BY <4>1, <4>2
    <3> QED BY <1>1, <3>1, <3>2
  <2> HIDE DEF t, k
  <2>3. /\ Popped(d).steps = t /\ Popped(d).ph = q.ph /\ Popped(d).todo = q.todo
        /\ Popped(d).op = q.op /\ Popped(d).own = q.own /\ Popped(d).cur = k
      BY <1>1, <2>1 DEF Procs
  <2> QED BY <2>2, <2>3 DEF t
<1> QED BY <1>2, <1>3

\* A completed step keeps the invariant if its effect on the record does.
LEMMA PopAnnounces ==
    ASSUME IInv, AnnounceInv, TypeOK', NEW d \in Devices, proc[d].steps # <<>>,
           SetProc(d, Popped(d)), nextTx' = nextTx, Tags' \subseteq Tags,
           \A u \in unannounced' : u[2] \in Announcing => OpenMarker(u[1])',
           Tail(proc[d].steps) # <<>> =>
               /\ proc[d].cur.kind \in Announcing => \E m \in txns' : m.tx = proc[d].cur.tx
               /\ Tag(proc[d].cur) \in unannounced' =>
                      /\ proc[d].cur.kind = "DELETE" => Head(Tail(proc[d].steps)) \in {"bump", "announce"}
                      /\ proc[d].cur.kind = "PUBLISH" => Head(Tail(proc[d].steps)) \notin {"clear", "undo"},
           \A u \in unannounced' : u[2] = "DELETE" =>
               /\ Committed(journal', u[1])
               /\ \/ proc[d].ph = "recover" /\ u[1] \in proc[d].todo
                  \/ /\ Tail(proc[d].steps) # <<>>
                     /\ Head(Tail(proc[d].steps)) \in {"bump", "announce"} /\ proc[d].cur.tx = u[1]
    PROVE  AnnounceInv'
<1> DEFINE s == proc[d].steps
           r == Popped(d)
<1>1. /\ proc'[d] = r /\ \A e \in Devices \ {d} : proc'[e] = proc[e]
      /\ proc[d] \in Procs /\ s \in Seq(Steps)
    BY PoppedFields DEF IInv, TypeOK, Procs
<1>2. /\ r.steps = Tail(s) /\ r.ph = proc[d].ph /\ r.todo = proc[d].todo
      /\ r.op = proc[d].op /\ r.own = proc[d].own
      /\ Tail(s) # <<>> => r.cur = proc[d].cur
    BY PoppedFields DEF IInv
<1>3. InSection(d) /\ \A e \in Devices \ {d} : ~InSection(e) /\ proc[e].steps = <<>>
    BY DEF IInv, StepsInSection, OneInSection
<1> HIDE DEF r
<1>4. Apt(proc[d])
    BY DEF AnnounceInv, WorkInv
<1>5. Apt(r)
  <2>1. CASE Tail(s) = <<>>
    <3>1. Ordered(<<>>) /\ \A X : NoStep(<<>>, X)
        BY DEF Ordered, NoStep
    <3> QED BY <1>2, <1>4, <2>1, <3>1 DEF Apt, OwnKind
  <2>2. CASE Tail(s) # <<>>
    <3>1. Ordered(Tail(s)) /\ \A X : NoStep(s, X) => NoStep(Tail(s), X)
        BY <1>1, <1>4, PoppedOrder DEF Apt
    <3> QED BY <1>2, <1>4, <2>2, <3>1 DEF Apt, OwnKind
  <2> QED BY <2>1, <2>2
<1>6. TagInv'
  <2>1. TypeOK /\ TagInv /\ nextTx' >= nextTx
      BY DEF IInv, TypeOK, AnnounceInv
  <2>2. Untagged[1][1] = 0 /\ Untagged[2] = "PUBLISH"
      BY DEF Untagged
  <2>3. Tags' \subseteq Tags \cup {Untagged}
      OBVIOUS
  <2> QED BY <2>1, <2>2, <2>3, TagsStep
<1>7. WorkInv'
    BY <1>1, <1>5 DEF AnnounceInv, WorkInv
<1>8. MarkerFirst'
    BY <1>1, <1>2, <1>3 DEF MarkerFirst, Doing, OpenMarker
<1>9. AnnouncedFirst'
    BY <1>1, <1>2, <1>3 DEF AnnouncedFirst, Doing, Owing
<1>10. RecoveryCovers'
    BY <1>1, <1>2, <1>3 DEF RecoveryCovers, InSection, Owing
<1>11. DeleteOnRecord'
    BY DEF DeleteOnRecord
<1> QED BY <1>6, <1>7, <1>8, <1>9, <1>10, <1>11 DEF AnnounceInv

\* What a process with steps left may assume of its first one.
LEMMA StepFacts ==
    ASSUME IInv, AnnounceInv, NEW d \in Devices, proc[d].steps # <<>>
    PROVE  /\ proc[d].steps \in Seq(Steps) /\ Ordered(proc[d].steps)
           /\ proc[d].cur.kind = "NONE" => ~Doing(d, "begin") /\ ~Doing(d, "clear")
           /\ proc[d].cur.kind \notin Moving =>
                  /\ ~Doing(d, "move") /\ ~Doing(d, "undo")
                  /\ Tail(proc[d].steps) # <<>> => Head(Tail(proc[d].steps)) # "undo"
           /\ proc[d].ph = "recover" => ~Doing(d, "reset")
           /\ proc[d].cur.kind # "NONE" => Tag(proc[d].cur) \in Tags
           /\ \A u \in unannounced : u[1] = proc[d].cur.tx /\ u[2] # "NONE" /\ proc[d].cur.kind # "NONE"
                                         => u = Tag(proc[d].cur)
           /\ InSection(d)
<1> DEFINE s == proc[d].steps
           c == proc[d].cur
<1>1. s \in Seq(Steps) /\ InSection(d)
    BY DEF IInv, TypeOK, Procs, StepsInSection
<1>2. Apt(proc[d])
    BY DEF AnnounceInv, WorkInv
<1>3. Ordered(s)
    BY <1>2 DEF Apt
<1>4. c.kind = "NONE" => Head(s) \notin {"begin", "clear"}
    BY <1>1, <1>2, PoppedOrder DEF Apt
<1>5. c.kind \notin Moving => /\ Head(s) \notin {"move", "undo"}
                              /\ Tail(s) # <<>> => Head(Tail(s)) \notin {"move", "undo"}
    BY <1>1, <1>2, PoppedOrder DEF Apt
<1>6. proc[d].ph = "recover" => Head(s) \notin {"begin", "move", "undo", "reset"}
    BY <1>1, <1>2, PoppedOrder DEF Apt
<1>7. c.kind # "NONE" => Tag(c) \in Tags
    BY DEF Tags
<1>8. ASSUME NEW u \in unannounced, u[1] = c.tx, u[2] # "NONE", c.kind # "NONE"
      PROVE  u = Tag(c)
  <2>1. u \in Tags /\ u \in TxIds \X Kinds
      BY <1>8 DEF Tags, IInv, TypeOK
  <2>2. Tag(c)[1] = c.tx /\ Tag(c)[2] = c.kind
      BY DEF Tag
  <2>3. u[2] = c.kind
      BY <1>7, <1>8, <2>1, <2>2 DEF AnnounceInv, TagInv
  <2>4. u = <<u[1], u[2]>>
      BY <2>1
  <2> QED BY <1>8, <2>3, <2>4 DEF Tag
<1> QED BY <1>1, <1>3, <1>4, <1>5, <1>6, <1>7, <1>8 DEF Doing

\* begin: the marker of the transaction appears.
LEMMA BeginAnnounces ==
    ASSUME IInv, AnnounceInv, TypeOK', NEW d \in Devices, StepBegin(d)
    PROVE  AnnounceInv'
<1> DEFINE s == proc[d].steps
           c == proc[d].cur
<1>1. /\ s # <<>> /\ Head(s) = "begin" /\ txns' = txns \cup {c} /\ SetProc(d, Popped(d))
      /\ UNCHANGED <<unannounced, journal, nextTx>>
    BY DEF StepBegin, Doing
<1>2. c.kind # "NONE" /\ Tag(c) \in Tags /\ s \in Seq(Steps) /\ Ordered(s)
    BY <1>1, StepFacts DEF Doing
<1>3. /\ \A e \in Devices \ {d} : proc'[e] = proc[e]
      /\ proc'[d].steps # <<>> => proc'[d].cur = c
    BY <1>1, PoppedFields DEF IInv
<1>4. Tags' \subseteq Tags
    BY <1>1, <1>2, <1>3 DEF Tags
<1>5. (\E m \in txns' : m.tx = c.tx) /\ \A tx : OpenMarker(tx) => \E m \in txns' : m.tx = tx
    BY <1>1 DEF OpenMarker
<1>6. \A u \in unannounced' : u[2] \in Announcing => OpenMarker(u[1])'
    BY <1>1, <1>5 DEF AnnounceInv, MarkerFirst, OpenMarker
<1>7. ~Owing(proc[d])
    BY <1>1 DEF Owing
<1>8. \A u \in unannounced' : u[2] = "DELETE" =>
          Committed(journal', u[1]) /\ proc[d].ph = "recover" /\ u[1] \in proc[d].todo
  <2>1. InSection(d)
      BY <1>1 DEF IInv, StepsInSection
  <2> QED BY <1>1, <1>7, <2>1 DEF AnnounceInv, DeleteOnRecord, RecoveryCovers
<1>9. Tag(c) \in unannounced' =>
          /\ c.kind # "DELETE"
          /\ c.kind = "PUBLISH" /\ Tail(s) # <<>> => Head(Tail(s)) \notin {"clear", "undo"}
  <2>1. c.kind = "DELETE" => Tag(c) \notin unannounced
      BY <1>1, <1>7 DEF AnnounceInv, AnnouncedFirst
  <2>2. Tail(s) # <<>> => Head(Tail(s)) # "clear"
      BY <1>1, <1>2, PoppedOrder
  <2>3. c.kind = "PUBLISH" /\ Tail(s) # <<>> => Head(Tail(s)) # "undo"
      BY <1>1, StepFacts DEF Moving
  <2> QED BY <1>1, <2>1, <2>2, <2>3
<1> QED BY <1>1, <1>4, <1>5, <1>6, <1>8, <1>9, PopAnnounces

\* A step that leaves journal, markers and announcements alone.
LEMMA QuietPopAnnounces ==
    ASSUME IInv, AnnounceInv, TypeOK', NEW d \in Devices, proc[d].steps # <<>>,
           SetProc(d, Popped(d)), UNCHANGED <<unannounced, nextTx>>,
           Head(proc[d].steps) \notin {"begin", "append", "bump", "announce", "clear"},
           Tags' \subseteq Tags, \A tx : OpenMarker(tx) => \E m \in txns' : m.tx = tx,
           \/ journal' = journal
           \/ Head(proc[d].steps) = "reset"
    PROVE  AnnounceInv'
<1> DEFINE s == proc[d].steps
           c == proc[d].cur
<1>1. s \in Seq(Steps) /\ Ordered(s) /\ InSection(d)
    BY StepFacts
<1>2. ~Owing(proc[d])
    BY DEF Owing
<1>3. \A u \in unannounced : u[2] = "DELETE" => proc[d].ph = "recover" /\ u[1] \in proc[d].todo
    BY <1>1, <1>2 DEF AnnounceInv, RecoveryCovers
<1>4. \A u \in unannounced' : u[2] = "DELETE" => Committed(journal', u[1])
  <2>1. CASE journal' = journal
      BY <2>1 DEF AnnounceInv, DeleteOnRecord
  <2>2. CASE Head(s) = "reset"
      BY <1>3, <2>2, StepFacts DEF Doing
  <2> QED BY <2>1, <2>2
<1>5. \A u \in unannounced' : u[2] \in Announcing => OpenMarker(u[1])'
    BY DEF AnnounceInv, MarkerFirst, OpenMarker
<1>6. c.kind \in Announcing => \E m \in txns' : m.tx = c.tx
    BY DEF AnnounceInv, MarkerFirst, Doing
<1>7. Tag(c) \in unannounced =>
          /\ c.kind # "DELETE"
          /\ c.kind = "PUBLISH" /\ Tail(s) # <<>> => Head(Tail(s)) \notin {"clear", "undo"}
  <2>1. c.kind = "DELETE" => Tag(c) \notin unannounced
      BY <1>2 DEF AnnounceInv, AnnouncedFirst
  <2>2. c.kind = "PUBLISH" => Head(s) # "undo" /\ (Tail(s) # <<>> => Head(Tail(s)) # "undo")
      BY StepFacts DEF Moving, Doing
  <2>3. Tail(s) # <<>> /\ Head(Tail(s)) = "clear" => Head(s) = "undo"
      BY <1>1, PoppedOrder
  <2> QED BY <2>1, <2>2, <2>3
<1> HIDE DEF s, c
<1>8. nextTx' = nextTx /\ unannounced' = unannounced
    OBVIOUS
<1>9. \A u \in unannounced' : u[2] = "DELETE" =>
          Committed(journal', u[1]) /\ proc[d].ph = "recover" /\ u[1] \in proc[d].todo
    BY <1>3, <1>4
<1> QED BY <1>5, <1>6, <1>7, <1>8, <1>9, PopAnnounces DEF s, c

\* clear: the marker goes; by then what it stands for is announced.
LEMMA ClearAnnounces ==
    ASSUME IInv, AnnounceInv, TypeOK', NEW d \in Devices, StepClear(d)
    PROVE  AnnounceInv'
<1> DEFINE s == proc[d].steps
           c == proc[d].cur
<1>1. /\ s # <<>> /\ Head(s) = "clear" /\ SetProc(d, Popped(d))
      /\ txns' = {m \in txns : m.tx # c.tx}
      /\ UNCHANGED <<unannounced, journal, nextTx>>
    BY DEF StepClear, Doing
<1>2. c.kind # "NONE" /\ s \in Seq(Steps) /\ Ordered(s) /\ InSection(d) /\ ~Owing(proc[d])
    BY <1>1, StepFacts DEF Doing, Owing
<1>3. Tail(s) = <<>>
    BY <1>1, <1>2, PoppedOrder
<1>4. /\ \A e \in Devices \ {d} : proc'[e] = proc[e]
      /\ proc'[d].steps = <<>>
    BY <1>1, <1>3, PoppedFields DEF IInv
<1>5. Tags' \subseteq Tags
    BY <1>1, <1>4 DEF Tags
<1>6. ASSUME NEW u \in unannounced, u[2] \in Announcing
      PROVE  u[1] # c.tx
  <2> SUFFICES ASSUME u[1] = c.tx PROVE FALSE
      OBVIOUS
  <2>1. u = Tag(c)
      BY <1>1, <1>2, <1>6, StepFacts DEF Announcing
  <2>2. c.kind \in Announcing
      BY <1>6, <2>1 DEF Tag
  <2> QED BY <1>1, <1>2, <2>1, <2>2 DEF AnnounceInv, AnnouncedFirst, Announcing, Doing
<1>7. \A u \in unannounced' : u[2] \in Announcing => OpenMarker(u[1])'
    BY <1>1, <1>6 DEF AnnounceInv, MarkerFirst, OpenMarker
<1>8. \A u \in unannounced' : u[2] = "DELETE" =>
          Committed(journal', u[1]) /\ proc[d].ph = "recover" /\ u[1] \in proc[d].todo
    BY <1>1, <1>2 DEF AnnounceInv, DeleteOnRecord, RecoveryCovers
<1> QED BY <1>1, <1>3, <1>5, <1>7, <1>8, PopAnnounces

\* append: the transaction is on record, its marker is there and its bump is next.
LEMMA AppendAnnounces ==
    ASSUME IInv, AnnounceInv, TypeOK', NEW d \in Devices, StepAppend(d)
    PROVE  AnnounceInv'
<1> DEFINE s == proc[d].steps
           c == proc[d].cur
<1>1. /\ s # <<>> /\ Head(s) = "append" /\ SetProc(d, Popped(d))
      /\ journal' = Append(journal, UnitOf(c, "full"))
      /\ unannounced' = unannounced \cup {<<c.tx, c.kind>>}
      /\ UNCHANGED <<txns, nextTx>>
    BY DEF StepAppend, Doing
<1>2. s \in Seq(Steps) /\ Ordered(s) /\ InSection(d) /\ ~Owing(proc[d])
    BY <1>1, StepFacts DEF Owing
<1>3. Tail(s) # <<>> /\ Head(Tail(s)) = "bump"
    BY <1>1, <1>2, PoppedOrder
<1>4. /\ \A e \in Devices \ {d} : proc'[e] = proc[e]
      /\ proc'[d].cur = c
    BY <1>1, <1>3, PoppedFields DEF IInv
<1>5. Tags' \subseteq Tags
    BY <1>1, <1>4 DEF Tags, Tag
<1>6. c.kind \in Announcing => \E m \in txns' : m.tx = c.tx
    BY <1>1 DEF AnnounceInv, MarkerFirst, Doing, OpenMarker
<1>7. \A u \in unannounced' : u[2] \in Announcing => OpenMarker(u[1])'
    BY <1>1, <1>6 DEF AnnounceInv, MarkerFirst, OpenMarker
<1>8. ASSUME NEW u \in unannounced', u[2] = "DELETE"
      PROVE  /\ Committed(journal', u[1])
             /\ (proc[d].ph = "recover" /\ u[1] \in proc[d].todo) \/ c.tx = u[1]
  <2>0. journal \in Seq(Units)
      BY DEF IInv, TypeOK
  <2>1. CASE u \in unannounced
    <3>1. Committed(journal, u[1])
        BY <1>8, <2>1 DEF AnnounceInv, DeleteOnRecord
    <3>2. Committed(journal', u[1])
        BY <1>1, <2>0, <3>1, CommittedGrows
    <3> QED BY <1>2, <1>8, <2>1, <3>2 DEF AnnounceInv, RecoveryCovers
  <2>2. CASE u = <<c.tx, c.kind>>
    <3> DEFINE x == UnitOf(c, "full")
    <3>1. u[1] = c.tx /\ x.tx = c.tx /\ x.end = "full"
        BY <2>2 DEF UnitOf
    <3> HIDE DEF x
    <3>2. Committed(Append(journal, x), c.tx)
        BY <2>0, <3>1, CommittedGrows
    <3> QED BY <1>1, <3>1, <3>2 DEF x
  <2> QED BY <1>1, <2>1, <2>2
<1>9. nextTx' = nextTx
    BY <1>1
<1> QED BY <1>1, <1>3, <1>5, <1>6, <1>7, <1>8, <1>9, PopAnnounces

\* bump: everything appended so far is announced.
LEMMA BumpAnnounces ==
    ASSUME IInv, AnnounceInv, TypeOK', NEW d \in Devices, StepBump(d)
    PROVE  AnnounceInv'
<1> DEFINE s == proc[d].steps
           c == proc[d].cur
<1>1. /\ s # <<>> /\ SetProc(d, Popped(d)) /\ unannounced' = {}
      /\ ~Doing(d, "begin") /\ UNCHANGED <<txns, journal, nextTx>>
    BY DEF StepBump, Doing
<1>2. /\ \A e \in Devices \ {d} : proc'[e] = proc[e]
      /\ proc'[d].steps # <<>> => proc'[d].cur = c
    BY <1>1, PoppedFields DEF IInv
<1>3. Tags' \subseteq Tags
    BY <1>1, <1>2 DEF Tags
<1>4. c.kind \in Announcing => \E m \in txns' : m.tx = c.tx
    BY <1>1 DEF AnnounceInv, MarkerFirst, OpenMarker
<1> HIDE DEF s, c
<1> QED BY <1>1, <1>3, <1>4, PopAnnounces DEF s, c

\* A turn that frees the process's tag leaves no new one: tags come from
\* markers, announcements and steps in progress.
LEMMA PoppedTags ==
    ASSUME TypeOK, NEW d \in Devices, proc[d].steps # <<>>, SetProc(d, Popped(d)),
           unannounced' = unannounced, \A m \in txns' : Tag(m) \in Tags
    PROVE  Tags' \subseteq Tags
<1>1. /\ \A e \in Devices \ {d} : proc'[e] = proc[e]
      /\ proc'[d].steps # <<>> => proc'[d].cur = proc[d].cur
    BY PoppedFields
<1>2. \A e \in Devices : proc'[e].steps # <<>> /\ proc'[e].cur.kind # "NONE" => Tag(proc'[e].cur) \in Tags
    BY <1>1 DEF Tags
<1>3. \A m \in txns' : Tag(m)' = Tag(m)
    BY DEF Tag
<1> QED BY <1>2 DEF Tags, Tag

\* The steps that change only the share, the manifest or the stage of a
\* marker, and the reset of a folded journal.
LEMMA StepsAnnounce ==
    ASSUME IInv, AnnounceInv, TypeOK', NEW d \in Devices,
           \/ StepMove(d) \/ StepUndo(d) \/ StepAdvance(d) \/ StepFold(d) \/ StepReset(d)
           \/ StepPlace(d)
    PROVE  AnnounceInv'
<1> DEFINE s == proc[d].steps
           h == Head(s)
<1>0. TypeOK
    BY DEF IInv
<1>1. CASE StepPlace(d) /\ UNCHANGED proc
    BY <1>1, IdleAnnounces DEF StepPlace
<1>2. ASSUME s # <<>>, SetProc(d, Popped(d)), UNCHANGED <<unannounced, nextTx, txns>>,
             h \notin {"begin", "append", "bump", "announce", "clear"},
             journal' = journal \/ h = "reset"
      PROVE  AnnounceInv'
  <2>1. \A m \in txns' : Tag(m) \in Tags
      BY <1>2 DEF Tags
  <2>2. Tags' \subseteq Tags
      BY <1>0, <1>2, <2>1, PoppedTags
  <2>3. \A tx : OpenMarker(tx) => \E m \in txns' : m.tx = tx
      BY <1>2 DEF OpenMarker
  <2> QED BY <1>2, <2>2, <2>3, QuietPopAnnounces
<1>3. CASE StepMove(d)
    BY <1>2, <1>3 DEF StepMove, Doing
<1>4. CASE StepUndo(d)
    BY <1>2, <1>4 DEF StepUndo, Doing
<1>5. CASE StepFold(d)
    BY <1>2, <1>5 DEF StepFold, Doing
<1>6. CASE StepReset(d)
    BY <1>2, <1>6 DEF StepReset, Doing
<1>7. CASE StepPlace(d) /\ SetProc(d, Popped(d))
    BY <1>2, <1>7 DEF StepPlace, Doing
<1>8. CASE StepAdvance(d)
  <2>1. /\ s # <<>> /\ h = "advance" /\ SetProc(d, Popped(d)) /\ journal' = journal
        /\ UNCHANGED <<unannounced, nextTx>>
        /\ txns' = {IF m.tx = proc[d].cur.tx THEN [m EXCEPT !.stage = "MOVED"] ELSE m : m \in txns}
      BY <1>8 DEF StepAdvance, Doing
  <2>2. \A m \in txns : [m EXCEPT !.stage = "MOVED"].tx = m.tx /\ [m EXCEPT !.stage = "MOVED"].kind = m.kind
      BY <1>0 DEF TypeOK, Markers
  <2>3. ASSUME NEW m \in txns'
        PROVE  \E n \in txns : m.tx = n.tx /\ m.kind = n.kind
      BY <2>1, <2>2
  <2>4. \A m \in txns' : Tag(m) \in Tags
      BY <2>3 DEF Tags, Tag
  <2>5. Tags' \subseteq Tags
      BY <1>0, <2>1, <2>4, PoppedTags
  <2>6. \A n \in txns : \E m \in txns' : m.tx = n.tx
      BY <2>1, <2>2
  <2>7. \A tx : OpenMarker(tx) => \E m \in txns' : m.tx = tx
      BY <2>6 DEF OpenMarker
  <2> QED BY <2>1, <2>5, <2>7, QuietPopAnnounces
<1>9. StepPlace(d) => UNCHANGED proc \/ SetProc(d, Popped(d))
    BY DEF StepPlace
<1> QED BY <1>1, <1>3, <1>4, <1>5, <1>6, <1>7, <1>8, <1>9

\* Whatever a command does next.
LEMMA CommandAnnounces ==
    ASSUME IInv, AnnounceInv, TypeOK', NEW d \in Devices, Command(d)
    PROVE  AnnounceInv'
<1>1. CASE \E p \in Paths : DeleteItem(d, p)
    BY <1>1, ItemAnnounces
<1>2. CASE Enter(d) \/ RecoverMarker(d) \/ BrowseBody(d)
    BY <1>2, EnterAnnounces, RecoverAnnounces, BrowseAnnounces
<1>3. CASE StepBegin(d) \/ StepAppend(d) \/ StepBump(d) \/ StepClear(d)
    BY <1>3, BeginAnnounces, AppendAnnounces, BumpAnnounces, ClearAnnounces
<1> QED BY <1>1, <1>2, <1>3, TurnsAnnounce, StepsAnnounce DEF Command

\* Taking back the last unit leaves the other transactions committed.
LEMMA FrontKeepsOthers ==
    ASSUME NEW j \in Seq(Units), j # <<>>, NEW tx, Committed(j, tx), j[Len(j)].tx # tx
    PROVE  Committed(Front(j), tx)
<1>1. /\ Len(j) \in Nat /\ Len(j) >= 1 /\ DOMAIN j = 1 .. Len(j)
      /\ DOMAIN Front(j) = 1 .. Len(j) - 1
      /\ \A i \in 1 .. Len(j) - 1 : Front(j)[i] = j[i]
    BY DEF Front
<1>2. PICK i \in DOMAIN j : j[i].tx = tx /\ j[i].end = "full"
    BY DEF Committed
<1>3. i # Len(j)
    BY <1>2
<1>4. i \in 1 .. Len(j) - 1
    BY <1>1, <1>2, <1>3
<1> QED BY <1>1, <1>2, <1>4 DEF Committed

\* A step that fails and is taken back.
LEMMA FailStepAnnounces ==
    ASSUME IInv, AnnounceInv, TypeOK', NEW d \in Devices,
           NEW step \in {"begin", "move", "advance", "append", "bump", "undo"}, FailStep(d, step)
    PROVE  AnnounceInv'
<1> DEFINE s == proc[d].steps
           c == proc[d].cur
           plan == FailedPlan(c, step)
           r == [proc[d] EXCEPT !.steps = plan]
<1>1. /\ s # <<>> /\ Head(s) = step /\ RollsBack(c) /\ UNCHANGED <<txns, nextTx>>
      /\ journal' = IF step = "bump" THEN Front(journal) ELSE journal
      /\ unannounced' = IF step = "bump" THEN unannounced \ {<<c.tx, c.kind>>} ELSE unannounced
      /\ \/ SetProc(d, Halted(d))
         \/ proc[d].ph # "recover" /\ plan # <<>> /\ SetProc(d, r)
    BY DEF FailStep, Doing
<1>2. /\ proc[d] \in Procs /\ c.kind \in Kinds /\ nextTx \in Nat /\ journal \in Seq(Units)
      /\ c.kind \notin {"NONE", "PUBLISH"} /\ InSection(d)
    BY <1>1, StepFacts DEF IInv, TypeOK, Procs, Markers, RollsBack
<1>3. unannounced' \subseteq unannounced /\ Tag(c) = <<c.tx, c.kind>>
    BY <1>1 DEF Tag
<1>4. \A u \in unannounced' : u[2] = "DELETE" /\ step = "bump" => u[1] # c.tx
    BY <1>1, <1>2, <1>3, StepFacts
<1>5. step \notin {"bump", "announce"} => ~Owing(proc[d])
    BY <1>1 DEF Owing
<1>6. ASSUME NEW u \in unannounced', u[2] = "DELETE"
      PROVE  Committed(journal', u[1]) /\ ~(Owing(proc[d]) /\ c.tx = u[1])
  <2>1. Committed(journal, u[1])
      BY <1>3, <1>6 DEF AnnounceInv, DeleteOnRecord
  <2>2. CASE step = "bump"
    <3>1. u[1] # c.tx
        BY <1>4, <1>6, <2>2
    <3>2. journal # <<>> /\ journal[Len(journal)] = UnitOf(c, "full")
        BY <1>1, <2>2 DEF IInv, BumpFindsUnit, Doing
    <3>3. journal[Len(journal)].tx = c.tx
        BY <3>2 DEF UnitOf
    <3>4. Committed(Front(journal), u[1])
        BY <1>2, <2>1, <3>1, <3>2, <3>3, FrontKeepsOthers
    <3> QED BY <1>1, <2>2, <3>1, <3>4
  <2>3. CASE step # "bump"
      BY <1>1, <1>5, <2>1, <2>3
  <2> QED BY <2>2, <2>3
<1>7. CASE SetProc(d, Halted(d))
    BY <1>1, <1>2, <1>3, <1>6, <1>7, HaltAnnounces
<1>8. CASE proc[d].ph # "recover" /\ plan # <<>> /\ SetProc(d, r)
  <2>1. /\ r.steps = plan /\ r.cur = c /\ r.ph = proc[d].ph /\ r.op = proc[d].op
        /\ r.own = proc[d].own /\ r.ph = "body"
      BY <1>2, <1>8 DEF Procs, InSection
  <2>2. \/ plan = <<"clear">>
        \/ plan = <<"undo", "clear">> /\ c.kind \in Moving
    <3>1. CASE step = "begin"
        BY <1>8, <3>1 DEF FailedPlan
    <3>2. CASE step = "move"
        BY <3>2 DEF FailedPlan
    <3>3. CASE step \in {"advance", "append", "bump"}
      <4>1. plan = IF c.kind = "ABSENT" THEN <<>> ELSE <<"undo", "clear">>
          BY <3>3 DEF FailedPlan
      <4> QED BY <1>2, <1>8, <4>1 DEF Kinds, Moving
    <3>4. CASE step = "undo"
        BY <1>8, <3>4 DEF FailedPlan
    <3> QED BY <3>1, <3>2, <3>3, <3>4
  <2>3. Ordered(plan) /\ (c.kind \notin Moving => NoStep(plan, {"move", "undo"}))
    <3>1. /\ Ordered(<<"clear">>) /\ Ordered(<<"undo", "clear">>)
          /\ NoStep(<<"clear">>, {"move", "undo"})
        BY DEF Ordered, NoStep
    <3>2. CASE plan = <<"clear">>
        BY <3>1, <3>2
    <3>3. CASE plan = <<"undo", "clear">> /\ c.kind \in Moving
        BY <3>1, <3>3
    <3> QED BY <2>2, <3>2, <3>3
  <2>4. Apt(r)
      BY <1>2, <2>1, <2>3 DEF AnnounceInv, WorkInv, Apt, OwnKind
  <2>5. step # "begin"
      BY <1>8 DEF FailedPlan
  <2>6. c.kind \in Announcing => OpenMarker(c.tx)
      BY <1>1, <2>5 DEF AnnounceInv, MarkerFirst, Doing
  <2>7. c.kind = "DELETE" => Tag(c) \notin unannounced'
    <3>1. CASE step = "bump"
        BY <1>1, <1>3, <3>1
    <3>2. CASE step # "bump"
        BY <1>1, <1>5, <3>2 DEF AnnounceInv, AnnouncedFirst
    <3> QED BY <3>1, <3>2
  <2>8. \A u \in unannounced' : u[2] # "DELETE"
    <3> SUFFICES ASSUME NEW u \in unannounced', u[2] = "DELETE" PROVE FALSE
        OBVIOUS
    <3> QED BY <1>2, <1>3, <1>6, <2>1 DEF AnnounceInv, RecoveryCovers
  <2>9. Tag(c) \in Tags /\ nextTx' >= nextTx /\ txns' = txns
      BY <1>1, <1>2, StepFacts
  <2>10. proc' = [proc EXCEPT ![d] = r]
      BY <1>8 DEF SetProc
  <2> HIDE DEF r, plan, c
  <2>11. r.steps # <<>> =>
             /\ r.cur.kind # "NONE" => Tag(r.cur) = Tag(c)
             /\ r.cur.kind \in Announcing /\ Head(r.steps) # "begin" => OpenMarker(r.cur.tx)
             /\ Tag(r.cur) \in unannounced' =>
                    /\ r.cur.kind = "DELETE" => Owing(r)
                    /\ r.cur.kind = "PUBLISH" => Head(r.steps) \notin {"clear", "undo"}
      BY <1>2, <2>1, <2>6, <2>7
  <2> QED BY <1>3, <2>4, <2>8, <2>9, <2>10, <2>11, TurnAnnounces
<1> QED BY <1>1, <1>7, <1>8

\* A publish that fails, with or without a torn append.
LEMMA FailPublishAnnounces ==
    ASSUME IInv, AnnounceInv, TypeOK', NEW d \in Devices, NEW step, FailPublish(d, step),
           step # "announce"
    PROVE  AnnounceInv'
<1>1. /\ proc[d].steps # <<>> /\ Head(proc[d].steps) = step /\ proc[d].cur.kind = "PUBLISH"
      /\ UNCHANGED <<txns, nextTx, unannounced>>
      /\ SetProc(d, Halted(d)) \/ SetProc(d, Idle)
      /\ \/ journal' = journal
         \/ Doing(d, "append") /\ journal' \in CutShort(proc[d].cur)
    BY DEF FailPublish, Doing, Break
<1>2. CASE SetProc(d, Idle)
    BY <1>1, <1>2, EndAnnounces
<1>3. CASE SetProc(d, Halted(d))
  <2>1. journal \in Seq(Units) /\ InSection(d)
      BY <1>1, StepFacts DEF IInv, TypeOK
  <2>2. ASSUME NEW u \in unannounced', u[2] = "DELETE"
        PROVE  Committed(journal', u[1]) /\ ~(Owing(proc[d]) /\ proc[d].cur.tx = u[1])
    <3>1. Committed(journal, u[1])
        BY <1>1, <2>2 DEF AnnounceInv, DeleteOnRecord
    <3>2. Committed(journal', u[1])
      <4>1. CASE journal' = journal
          BY <3>1, <4>1
      <4>2. CASE journal' \in CutShort(proc[d].cur)
        <5>1. PICK t \in Tears : journal' = Append(journal, UnitOf(proc[d].cur, t))
            BY <4>2 DEF CutShort
        <5> QED BY <2>1, <3>1, <5>1, CommittedGrows
      <4> QED BY <1>1, <4>1, <4>2
    <3>3. u[1] # proc[d].cur.tx
      <4>1. proc[d].cur.kind # "NONE" /\ u[2] # "NONE" /\ u \in unannounced
          BY <1>1, <2>2
      <4>2. u[1] = proc[d].cur.tx => u = <<proc[d].cur.tx, proc[d].cur.kind>>
          BY <1>1, <4>1, StepFacts DEF Tag
      <4> QED BY <1>1, <2>2, <4>2
    <3> QED BY <3>2, <3>3
  <2> QED BY <1>1, <1>3, <2>1, <2>2, HaltAnnounces
<1> QED BY <1>1, <1>2, <1>3

\* Whatever fails or is killed.
LEMMA FailureAnnounces ==
    ASSUME IInv, AnnounceInv, TypeOK', NEW d \in Devices, Failure(d)
    PROVE  AnnounceInv'
<1>1. CASE \E step \in {"begin", "move", "advance", "append", "bump", "undo"} : FailStep(d, step)
    BY <1>1, FailStepAnnounces
<1>2. CASE \E step \in {"begin", "place", "advance", "append", "bump"} : FailPublish(d, step)
    BY <1>2, FailPublishAnnounces
<1>3. CASE FailCommand(d) \/ Kill(d)
  <2>1. /\ SetProc(d, Idle) /\ UNCHANGED <<txns, unannounced, nextTx>>
        /\ journal' \in {journal} \cup (IF Doing(d, "append") THEN CutShort(proc[d].cur) ELSE {})
      BY <1>3 DEF FailCommand, Kill, Break
  <2> QED BY <2>1, EndAnnounces
<1> QED BY <1>1, <1>2, <1>3 DEF Failure

\* After a restart only markers and announcements are left.
LEMMA RestartAnnounces ==
    ASSUME IInv, AnnounceInv, TypeOK', Restart
    PROVE  AnnounceInv'
<1>1. /\ \A d \in Devices : proc'[d] = Idle
      /\ UNCHANGED <<txns, unannounced, journal, nextTx>>
    BY DEF Restart
<1>2. Idle.steps = <<>> /\ OwnKind(Idle) /\ ~Lockers(Idle) /\ Idle.ph = "idle" /\ Idle.cur.kind = "NONE"
    BY DEF Idle, OwnKind, Lockers, NoMarker
<1>3. Tags' \subseteq Tags
    BY <1>1, <1>2 DEF Tags
<1>4. nextTx' >= nextTx /\ nextTx' = nextTx
    BY <1>1 DEF IInv, TypeOK
<1>5. TagInv'
    BY <1>3, <1>4 DEF AnnounceInv, TagInv
<1>6. Apt(Idle)
    BY <1>2, PlansAreOrdered DEF Apt, NoStep, Ordered
<1>7. WorkInv'
    BY <1>1, <1>6 DEF WorkInv
<1>8. \A tx : OpenMarker(tx)' <=> OpenMarker(tx)
    BY <1>1 DEF OpenMarker
<1>9. MarkerFirst' /\ AnnouncedFirst'
    BY <1>1, <1>2, <1>8 DEF MarkerFirst, AnnouncedFirst, AnnounceInv
<1>10. DeleteOnRecord' /\ RecoveryCovers'
    BY <1>1, <1>2 DEF DeleteOnRecord, RecoveryCovers, AnnounceInv, InSection
<1> QED BY <1>5, <1>7, <1>9, <1>10 DEF AnnounceInv

\* The invariant of announcements holds for ever.
LEMMA AnnounceStep == IInv /\ AnnounceInv /\ [Next]_vars => AnnounceInv'
<1> SUFFICES ASSUME IInv, AnnounceInv, [Next]_vars PROVE AnnounceInv'
    OBVIOUS
<1>1. TypeOK'
    BY InvStep DEF IInv
<1>2. ASSUME NEW d \in Devices, Request(d) \/ Command(d) \/ Failure(d) PROVE AnnounceInv'
    BY <1>1, <1>2, RequestAnnounces, CommandAnnounces, FailureAnnounces
<1>3. CASE \E b \in StageBatches : StageUpload(b)
    BY <1>3, IdleAnnounces DEF StageUpload
<1>4. CASE UNCHANGED vars
    BY <1>4, IdleAnnounces DEF vars
<1> QED BY <1>1, <1>2, <1>3, <1>4, RestartAnnounces DEF Next

\* Nothing is open and nothing on record at first.
LEMMA AnnounceInit == Init => AnnounceInv
<1> SUFFICES ASSUME Init PROVE AnnounceInv
    OBVIOUS
<1>1. Idle.steps = <<>> /\ OwnKind(Idle) /\ ~Lockers(Idle) /\ Idle.ph = "idle" /\ Idle.cur.kind = "NONE"
    BY DEF Idle, OwnKind, Lockers, NoMarker
<1>2. Apt(Idle)
    BY <1>1 DEF Apt, NoStep, Ordered
<1>3. \A d \in Devices : proc[d] = Idle
    BY DEF Init
<1>4. Tags = {}
    BY <1>1, <1>3 DEF Init, Tags
<1>5. TagInv /\ WorkInv
    BY <1>2, <1>3, <1>4 DEF Init, TagInv, WorkInv
<1>6. MarkerFirst /\ AnnouncedFirst /\ DeleteOnRecord /\ RecoveryCovers
    BY <1>1, <1>3 DEF Init, MarkerFirst, AnnouncedFirst, DeleteOnRecord, RecoveryCovers
<1> QED BY <1>5, <1>6 DEF AnnounceInv

\* Every deletion or publish that a killed command left in the journal has been
\* announced to the waiting clients once no marker is open: neither a failed
\* append, nor a kill before the bump, nor a recovery that is itself killed,
\* drops an announcement (recover_pending_transactions_unlocked, its callers).
THEOREM AnnouncedWhenQuiet == Spec => []MovesAnnounced
<1>1. AnnounceInv => MovesAnnounced
    BY DEF AnnounceInv, MarkerFirst, MovesAnnounced, Quiet, OpenMarker, Announcing
<1> QED BY <1>1, InvInit, InvStep, AnnounceInit, AnnounceStep, PTL DEF Spec

-----------------------------------------------------------------------------
(***************************************************************************)
(* No version is lost, as long as no command outlives the lease of its     *)
(* device.  A command that moves files takes the place of the move for     *)
(* granted: it looked at it under the lock, when it built its marker.      *)
(* What keeps that true until the move, and until its undo, is that the    *)
(* lease keeps uploads of other clients away, the lock their commands, and *)
(* that a transaction id is used once, so its place in the trash is empty. *)
(***************************************************************************)
LeaseInv == \A d \in Devices : proc[d].op \notin {"none", "compact"} => lease = d

TrashInv == \A e \in trash : e[1][1] < nextTx

OneToOne(m) ==
    /\ \A p \in m.from : m.to[p] \notin m.from
    /\ \A p, q \in m.from : m.to[p] = m.to[q] => p = q

OwnInv == \A d \in Devices : Renaming(proc[d].own) => OneToOne(proc[d].own)

Backups(m) == {e \in trash : e[1] = m.tx}

BeforeMove(m) == /\ Renaming(m) => OneToOne(m) /\ ~Exists(Image(m))
                 /\ ~Renaming(m) => Backups(m) = {}

AfterMove(m) == /\ Renaming(m) => OneToOne(m) /\ ~Exists(m.from)
                /\ ~Renaming(m) => /\ \A e \in Backups(m) : tree[e[2]] = NoFile
                                   /\ \A e, f \in Backups(m) : e[2] = f[2] => e = f

Settled == {"advance", "append", "bump"}

MoveOrder(s) ==
    \A i \in 2 .. Len(s) : /\ s[i] \notin {"begin", "undo"}
                           /\ s[i] = "move" => s[i-1] = "begin"
                           /\ s[i] \in Settled => s[i-1] \in {"move"} \cup Settled

MoveReady(r) ==
    r.ph = "body" /\ r.steps # <<>> /\ r.cur.kind \in Moving =>
        /\ r.op \in {"delete", "browse"} /\ MoveOrder(r.steps)
        /\ Head(r.steps) \in {"begin", "move"} => BeforeMove(r.cur)
        /\ Head(r.steps) \in {"undo"} \cup Settled => AfterMove(r.cur)

MoveInv == \A d \in Devices : MoveReady(proc[d])

LostInv == LeaseInv /\ TrashInv /\ OwnInv /\ MoveInv

\* What follows a step of a move.
LEMMA PoppedMove ==
    ASSUME NEW s \in Seq(Steps), s # <<>>, MoveOrder(s)
    PROVE  /\ MoveOrder(Tail(s))
           /\ Tail(s) # <<>> =>
                  /\ Head(Tail(s)) \notin {"begin", "undo"}
                  /\ Head(Tail(s)) = "move" => Head(s) = "begin"
                  /\ Head(Tail(s)) \in Settled => Head(s) \in {"move"} \cup Settled
<1>1. /\ Len(s) \in Nat /\ Len(s) >= 1 /\ Len(Tail(s)) = Len(s) - 1 /\ Head(s) = s[1]
      /\ \A i \in 1 .. Len(s) - 1 : Tail(s)[i] = s[i + 1]
    OBVIOUS
<1>2. ASSUME NEW i \in 2 .. Len(Tail(s))
      PROVE  /\ Tail(s)[i] \notin {"begin", "undo"}
             /\ Tail(s)[i] = "move" => Tail(s)[i-1] = "begin"
             /\ Tail(s)[i] \in Settled => Tail(s)[i-1] \in {"move"} \cup Settled
  <2>1. i + 1 \in 2 .. Len(s) /\ Tail(s)[i] = s[i + 1] /\ Tail(s)[i - 1] = s[i] /\ (i + 1) - 1 = i
      BY <1>1
  <2> QED BY <2>1 DEF MoveOrder
<1>3. ASSUME Tail(s) # <<>>
      PROVE  Head(Tail(s)) = s[2] /\ 2 \in 2 .. Len(s)
  <2>1. Len(Tail(s)) >= 1 /\ Head(Tail(s)) = Tail(s)[1]
      BY <1>3
  <2> QED BY <1>1, <2>1
<1>4. Tail(s) # <<>> =>
          /\ s[2] \notin {"begin", "undo"}
          /\ s[2] = "move" => s[1] = "begin"
          /\ s[2] \in Settled => s[1] \in {"move"} \cup Settled
    BY <1>3 DEF MoveOrder
<1> QED BY <1>1, <1>2, <1>3, <1>4 DEF MoveOrder

\* A turn of one process that leaves the share and the trash alone.
LEMMA LostTurn ==
    ASSUME IInv, LostInv, NEW d \in Devices, NEW r, SetProc(d, r), TypeOK', nextTx' >= nextTx,
           tree' = tree, trash' = trash, lease' = lease \/ lease \in {d, NoDevice},
           r.op \in {"none", "compact"} \/ lease' = d \/ (r.op = proc[d].op /\ lease' = lease),
           r.own = proc[d].own \/ ~Renaming(r.own) \/ OneToOne(r.own),
           MoveReady(r)
    PROVE  LostInv'
<1>1. proc'[d] = r /\ \A e \in Devices \ {d} : proc'[e] = proc[e]
    BY DEF SetProc, IInv, TypeOK
<1>2. nextTx \in Nat /\ nextTx' \in Nat /\ \A e \in trash : e[1][1] \in Nat
    BY DEF IInv, TypeOK, TxIds
<1>3. LeaseInv'
    BY <1>1, ServerAssumption DEF LostInv, LeaseInv
<1>4. TrashInv'
    BY <1>2 DEF LostInv, TrashInv
<1>5. OwnInv'
    BY <1>1 DEF LostInv, OwnInv, Renaming, OneToOne
<1>6. \A m : (BeforeMove(m)' <=> BeforeMove(m)) /\ (AfterMove(m)' <=> AfterMove(m))
    BY DEF BeforeMove, AfterMove, Renaming, OneToOne, Exists, Files, Image, Backups
<1>7. MoveReady(r)'
    BY <1>6 DEF MoveReady, MoveOrder, Settled
<1>8. ASSUME NEW e \in Devices \ {d} PROVE MoveReady(proc[e])'
  <2> DEFINE q == proc[e]
  <2>1. MoveReady(q) /\ proc'[e] = q
      BY <1>1 DEF LostInv, MoveInv
  <2>2. BeforeMove(q.cur)' <=> BeforeMove(q.cur)
      BY <2>1 DEF BeforeMove, AfterMove, Renaming, OneToOne, Exists, Files, Image, Backups
  <2>3. AfterMove(q.cur)' <=> AfterMove(q.cur)
      BY <2>1 DEF BeforeMove, AfterMove, Renaming, OneToOne, Exists, Files, Image, Backups
  <2> QED BY <2>1, <2>2, <2>3 DEF MoveReady, MoveOrder, Settled
<1> QED BY <1>1, <1>3, <1>4, <1>5, <1>7, <1>8 DEF LostInv, MoveInv

\* A turn to a state without a move in progress.
LEMMA LostRest ==
    ASSUME IInv, LostInv, NEW d \in Devices, NEW r, SetProc(d, r), TypeOK', nextTx' >= nextTx,
           tree' = tree, trash' = trash, lease' = lease \/ lease \in {d, NoDevice},
           r.op \in {"none", "compact"} \/ lease' = d \/ (r.op = proc[d].op /\ lease' = lease),
           r.own = proc[d].own \/ ~Renaming(r.own) \/ OneToOne(r.own),
           r.ph # "body" \/ r.steps = <<>> \/ r.cur.kind \notin Moving
    PROVE  LostInv'
<1>1. MoveReady(r)
    BY DEF MoveReady
<1> HIDE DEF MoveReady
<1> QED BY <1>1, LostTurn

\* A command that ends, with or without the lease.
LEMMA LostEnd ==
    ASSUME IInv, LostInv, NEW d \in Devices, SetProc(d, Idle), TypeOK', nextTx' = nextTx,
           tree' = tree, trash' = trash, lease' = lease \/ lease = d
    PROVE  LostInv'
<1>1. Idle.op = "none" /\ Idle.steps = <<>> /\ ~Renaming(Idle.own)
    BY DEF Idle, Renaming, NoMarker
<1>2. nextTx' >= nextTx
    BY DEF IInv, TypeOK
<1> QED BY <1>1, <1>2, LostRest

\* A step that leaves share, trash, lease and processes alone.
LEMMA LostIdle ==
    ASSUME IInv, LostInv, TypeOK', UNCHANGED <<tree, trash, proc, lease, nextTx>>
    PROVE  LostInv'
<1>1. \A d \in Devices :
          /\ BeforeMove(proc[d].cur)' <=> BeforeMove(proc[d].cur)
          /\ AfterMove(proc[d].cur)' <=> AfterMove(proc[d].cur)
    BY DEF BeforeMove, AfterMove, Renaming, OneToOne, Exists, Files, Image, Backups
<1>2. MoveInv'
    BY <1>1 DEF LostInv, MoveInv, MoveReady, MoveOrder, Settled
<1> QED BY <1>2 DEF LostInv, LeaseInv, TrashInv, OwnInv, Renaming, OneToOne

\* A command that breaks gives the lease back only if it was there to get it.
LEMMA LostBreak ==
    ASSUME IInv, LostInv, NEW d \in Devices, Break(d), TypeOK', nextTx' = nextTx,
           tree' = tree, trash' = trash
    PROVE  LostInv'
<1>1. lease' = lease \/ lease = d
    BY DEF Break, LostInv, LeaseInv
<1> QED BY <1>1, LostEnd DEF Break

\* The rename of a file or directory is one-to-one, away from what it moves.
LEMMA RenamesAreOneToOne ==
    ASSUME NEW r \in Renames, NEW kind PROVE OneToOne(RenameOf(r, kind))
<1> DEFINE m == RenameOf(r, kind)
<1>1. PICK S \in SUBSET Paths : r \in Injection(S, Paths \ S)
    BY ServerAssumption
<1>2. DOMAIN r = S /\ r \in [S -> Paths \ S] /\ \A a, b \in S : r[a] = r[b] => a = b
    BY <1>1 DEF Injection, IsInjective
<1>3. m.from = S /\ m.to = [p \in Paths |-> IF p \in S THEN r[p] ELSE p]
    BY <1>2 DEF RenameOf, NoMarker
<1>4. \A p \in S : m.to[p] = r[p]
    BY <1>3
<1> HIDE DEF m
<1> QED BY <1>2, <1>3, <1>4 DEF OneToOne, m

\* What a client does on its own, and how a command begins.
LEMMA RequestLosesNothing ==
    ASSUME IInv, LostInv, TypeOK', ~Orphans, NEW d \in Devices, Request(d),
           ~ \E p \in Paths, v \in Versions : Upload(d, p, v)
    PROVE  LostInv'
<1>0. nextTx \in Nat
    BY DEF IInv, TypeOK
<1>1. CASE TransferWait(d)
  <2> DEFINE r == [Idle EXCEPT !.op = "wait", !.ph = "lock"]
  <2>1. r.ph = "lock" /\ ~Renaming(r.own)
      BY DEF Idle, Renaming, NoMarker
  <2>2. SetProc(d, r) /\ nextTx' >= nextTx /\ UNCHANGED <<tree, trash>> /\ lease = NoDevice /\ lease' = d
      BY <1>0, <1>1 DEF TransferWait
  <2> HIDE DEF r
  <2> QED BY <2>1, <2>2, LostRest
<1>2. CASE EndLease(d)
  <2>1. proc[d] = Idle /\ proc' = proc /\ UNCHANGED <<tree, trash, nextTx>> /\ lease = d
      BY <1>2 DEF EndLease
  <2>2. SetProc(d, Idle)
      BY <2>1 DEF SetProc, IInv, TypeOK
  <2> QED BY <2>1, <2>2, LostEnd
<1>3. ASSUME NEW op, NEW own, NEW req, NEW next, Start(d, op, own, req, next), nextTx' >= nextTx,
             ~Renaming(own) \/ OneToOne(own)
      PROVE  LostInv'
  <2> DEFINE r == [Idle EXCEPT !.op = op, !.ph = "lock", !.own = own, !.req = req]
  <2>1. r.ph = "lock" /\ r.own = own
      BY DEF Idle
  <2>2. SetProc(d, r) /\ UNCHANGED <<tree, trash>> /\ lease' = d /\ lease' = lease
      BY <1>3 DEF Start, Granted
  <2> HIDE DEF r
  <2> QED BY <1>3, <2>1, <2>2, LostRest
<1>4. CASE JournalAppend(d)
  <2> DEFINE own == [NoMarker EXCEPT !.tx = FreshTx(nextTx), !.eff = batch[d]]
  <2>1. ~Renaming(own)
      BY DEF Renaming, NoMarker
  <2>2. Start(d, "append", own, NoEffect, "over") /\ nextTx' >= nextTx
      BY <1>0, <1>4 DEF JournalAppend
  <2> HIDE DEF own
  <2> QED BY <1>3, <2>1, <2>2
<1>5. CASE JournalRetry(d)
  <2> DEFINE own == [NoMarker EXCEPT !.tx = pending[d].tx, !.eff = pending[d].eff]
  <2>1. ~Renaming(own)
      BY DEF Renaming, NoMarker
  <2>2. Start(d, "retry", own, NoEffect, "over") /\ nextTx' >= nextTx
      BY <1>0, <1>5 DEF JournalRetry
  <2> HIDE DEF own
  <2> QED BY <1>3, <2>1, <2>2
<1>6. CASE \E q \in DeleteRequests : CheckedDelete(d, q)
  <2>1. PICK q \in DeleteRequests : Start(d, "delete", NoMarker, q, "confirm") /\ nextTx' >= nextTx
      BY <1>0, <1>6 DEF CheckedDelete
  <2>2. ~Renaming(NoMarker)
      BY DEF Renaming, NoMarker
  <2> QED BY <1>3, <2>1, <2>2
<1>7. CASE \E S \in Trees : BrowseDelete(d, S)
  <2>1. PICK S \in Trees : BrowseDelete(d, S)
      BY <1>7
  <2> DEFINE own == [NoMarker EXCEPT !.kind = "BROWSE_DELETE", !.from = S]
  <2>2. ~Renaming(own)
      BY DEF Renaming, NoMarker
  <2>3. Start(d, "browse", own, NoEffect, "over") /\ nextTx' >= nextTx
      BY <1>0, <2>1 DEF BrowseDelete
  <2> HIDE DEF own
  <2> QED BY <1>3, <2>2, <2>3
<1>8. ASSUME NEW q \in Renames, BrowseRename(d, q) \/ \E v \in Versions : RenameRemote(d, q, v)
      PROVE  LostInv'
  <2>1. CASE BrowseRename(d, q)
    <3>1. Start(d, "browse", RenameOf(q, "BROWSE_RENAME_V1"), NoEffect, "over") /\ nextTx' >= nextTx
        BY <1>0, <2>1 DEF BrowseRename
    <3> QED BY <1>3, <3>1, RenamesAreOneToOne
  <2>2. ASSUME NEW v \in Versions, RenameRemote(d, q, v) PROVE LostInv'
    <3> DEFINE m == RenameOf(q, "BROWSE_RENAME_V2")
               req == [p \in Paths |-> IF p \in m.from THEN v ELSE NoEntry]
    <3>1. Start(d, "browse", m, req, "plan") /\ nextTx' >= nextTx
        BY <1>0, <2>2 DEF RenameRemote
    <3>2. OneToOne(m)
        BY RenamesAreOneToOne
    <3> HIDE DEF m, req
    <3> QED BY <1>3, <3>1, <3>2
  <2> QED BY <1>8, <2>1, <2>2
<1>9. CASE \E b \in StageBatches : StagingPublish(d, b)
  <2>1. PICK b \in StageBatches : StagingPublish(d, b)
      BY <1>9
  <2> DEFINE own == [NoMarker EXCEPT !.kind = "PUBLISH", !.tx = <<0, b>>, !.eff = b]
  <2>2. ~Renaming(own)
      BY DEF Renaming, NoMarker
  <2>3. Start(d, "publish", own, NoEffect, "over") /\ nextTx' >= nextTx
      BY <1>0, <2>1 DEF StagingPublish
  <2> HIDE DEF own
  <2> QED BY <1>3, <2>2, <2>3
<1>10. CASE \E b \in StageBatches : StageCleanup(d, b)
    BY <1>10, LostIdle DEF StageCleanup
<1>11. CASE JournalCompact(d)
  <2> DEFINE r == [Idle EXCEPT !.op = "compact", !.ph = "lock"]
  <2>1. r.ph = "lock" /\ r.op = "compact" /\ ~Renaming(r.own)
      BY DEF Idle, Renaming, NoMarker
  <2>2. SetProc(d, r) /\ nextTx' >= nextTx /\ UNCHANGED <<tree, trash, lease>>
      BY <1>0, <1>11 DEF JournalCompact
  <2> HIDE DEF r
  <2> QED BY <2>1, <2>2, LostRest
<1> QED BY <1>1, <1>2, <1>4, <1>5, <1>6, <1>7, <1>8, <1>9, <1>10, <1>11 DEF Request

\* A transaction id that was never used has nothing in the trash.
LEMMA FreshTrash ==
    ASSUME TypeOK, TrashInv, NEW m, m.tx = FreshTx(nextTx)
    PROVE  Backups(m) = {}
<1>1. m.tx[1] = nextTx /\ nextTx \in Nat
    BY DEF FreshTx, TypeOK
<1>2. \A e \in trash : e[1] # m.tx
    BY <1>1 DEF TrashInv
<1> QED BY <1>2 DEF Backups

\* The plan of a move, and what is left of it after a failure.
LEMMA MovePlansAreOrdered ==
    /\ MovePlan # <<>> /\ Head(MovePlan) = "begin" /\ MoveOrder(MovePlan)
    /\ MoveOrder(<<"clear">>) /\ MoveOrder(<<"undo", "clear">>)
BY DEF MovePlan, MoveOrder, Settled

\* Recovery and the bodies of the commands, up to their first step.
LEMMA TurnsLoseNothing ==
    ASSUME IInv, AnnounceInv, LostInv, TypeOK', NEW d \in Devices,
           \/ Enter(d) \/ RecoverMarker(d) \/ RecoverRefused(d) \/ LeaseGranted(d) \/ AppendBody(d)
           \/ CompactBody(d) \/ DeleteBody(d) \/ PublishBody(d) \/ Finish(d) \/ PlaceConflict(d)
    PROVE  LostInv'
<1>0. nextTx \in Nat /\ proc[d] \in Procs /\ OwnKind(proc[d]) /\ (nextTx' = nextTx => nextTx' >= nextTx)
    BY DEF IInv, TypeOK, AnnounceInv, WorkInv, Apt
<1>1. CASE Enter(d)
  <2> DEFINE r == [proc[d] EXCEPT !.ph = "recover", !.todo = {m.tx : m \in txns}]
  <2>1. r.ph = "recover" /\ r.op = proc[d].op /\ r.own = proc[d].own
      BY <1>0 DEF Procs
  <2>2. SetProc(d, r) /\ UNCHANGED <<tree, trash, lease>> /\ nextTx' = nextTx
      BY <1>1 DEF Enter
  <2> HIDE DEF r
  <2> QED BY <1>0, <2>1, <2>2, LostRest
<1>2. CASE RecoverMarker(d)
  <2>1. PICK m \in txns :
            /\ Recovering(d, m) /\ UNCHANGED <<tree, trash, lease>> /\ nextTx' = nextTx
            /\ SetProc(d, [proc[d] EXCEPT !.todo = @ \ {m.tx}, !.steps = RecoveryPlan(m),
                                          !.cur = IF RecoveryPlan(m) = <<>> THEN NoMarker ELSE m])
      BY <1>2 DEF RecoverMarker
  <2> DEFINE r == [proc[d] EXCEPT !.todo = @ \ {m.tx}, !.steps = RecoveryPlan(m),
                                  !.cur = IF RecoveryPlan(m) = <<>> THEN NoMarker ELSE m]
  <2>2. r.ph = "recover" /\ r.op = proc[d].op /\ r.own = proc[d].own
      BY <1>0, <2>1 DEF Procs, Recovering
  <2> HIDE DEF r
  <2>3. SetProc(d, r)
      BY <2>1 DEF r
  <2> QED BY <1>0, <2>1, <2>2, <2>3, LostRest
<1>3. CASE RecoverRefused(d)
    BY <1>3, LostBreak DEF RecoverRefused
<1>4. CASE LeaseGranted(d)
    BY <1>4, LostEnd DEF LeaseGranted
<1>5. CASE PlaceConflict(d) /\ proc[d].ph # "recover"
    BY <1>5, LostBreak DEF PlaceConflict
<1>6. CASE PlaceConflict(d) /\ proc[d].ph = "recover"
  <2>1. /\ Halted(d).steps = <<>> /\ Halted(d).op = proc[d].op /\ Halted(d).own = proc[d].own
        /\ SetProc(d, Halted(d)) /\ UNCHANGED <<tree, trash, lease>> /\ nextTx' = nextTx
      BY <1>0, <1>6 DEF Halted, Procs, PlaceConflict
  <2> QED BY <1>0, <2>1, LostRest
<1>7. ASSUME SetProc(d, Idle), UNCHANGED <<tree, trash, lease, nextTx>> PROVE LostInv'
    BY <1>7, LostEnd
<1>8. ASSUME NEW m, NEW plan, Run(d, m, plan), m.kind \notin Moving \/ plan = <<>>,
             UNCHANGED <<tree, trash, lease, nextTx>>
      PROVE  LostInv'
  <2> DEFINE r == [proc[d] EXCEPT !.ph = "body", !.cur = m, !.steps = plan]
  <2>1. r.steps = plan /\ r.cur = m /\ r.op = proc[d].op /\ r.own = proc[d].own
      BY <1>0 DEF Procs
  <2>2. SetProc(d, r)
      BY <1>8 DEF Run
  <2> HIDE DEF r
  <2> QED BY <1>0, <1>8, <2>1, <2>2, LostRest
<1>9. CASE Finish(d)
    BY <1>7, <1>9 DEF Finish, Succeed
<1>10. CASE AppendBody(d)
  <2>1. proc[d].own.kind \notin Moving
      BY <1>0, <1>10 DEF AppendBody, AtBody, OwnKind, Moving
  <2>2. CASE Committed(journal, proc[d].own.tx)
      BY <1>7, <1>10, <2>2 DEF AppendBody, Succeed
  <2>3. CASE ~Committed(journal, proc[d].own.tx)
    <3>1. \E plan : Run(d, proc[d].own, plan)
        BY <1>10, <2>3 DEF AppendBody
    <3> QED BY <1>8, <1>10, <2>1, <3>1 DEF AppendBody
  <2> QED BY <2>2, <2>3
<1>11. CASE CompactBody(d) \/ DeleteBody(d)
  <2>1. NoMarker.kind \notin Moving /\ \E plan : Run(d, NoMarker, plan)
      BY <1>11 DEF NoMarker, Moving, CompactBody, DeleteBody
  <2> QED BY <1>8, <1>11, <2>1 DEF CompactBody, DeleteBody
<1>12. CASE PublishBody(d)
  <2>1. proc[d].own.kind \notin Moving
      BY <1>0, <1>12 DEF PublishBody, AtBody, OwnKind, Moving
  <2>2. \/ SetProc(d, Idle)
        \/ Run(d, proc[d].own, NewPublishPlan)
      BY <1>12 DEF PublishBody
  <2>3. UNCHANGED <<tree, trash, lease, nextTx>>
      BY <1>12 DEF PublishBody
  <2> QED BY <1>7, <1>8, <2>1, <2>2, <2>3
<1> QED BY <1>1, <1>2, <1>3, <1>4, <1>5, <1>6, <1>9, <1>10, <1>11, <1>12

\* A command that starts a move has just looked at the place it moves to.
LEMMA MoveBegins ==
    ASSUME IInv, LostInv, TypeOK', NEW d \in Devices, NEW r, SetProc(d, r), nextTx' >= nextTx,
           UNCHANGED <<tree, trash, lease>>,
           r.op = proc[d].op, r.own = proc[d].own, r.steps = MovePlan, r.op \in {"delete", "browse"},
           BeforeMove(r.cur)
    PROVE  LostInv'
<1>1. MoveReady(r)
    BY MovePlansAreOrdered DEF MoveReady, Settled
<1> HIDE DEF MoveReady
<1> QED BY <1>1, LostTurn

\* The next file of a checked delete.
LEMMA ItemLosesNothing ==
    ASSUME IInv, LostInv, TypeOK', NEW d \in Devices, NEW p \in Paths, DeleteItem(d, p)
    PROVE  LostInv'
<1> DEFINE item == [NoMarker EXCEPT !.tx = FreshTx(nextTx), !.from = {p},
                                    !.kind = IF tree[p] = NoFile THEN "ABSENT" ELSE "DELETE",
                                    !.eff = [NoEffect EXCEPT ![p] = Tomb]]
           stale == tree[p] # NoFile /\ tree[p] # proc[d].req[p]
           plan == IF stale THEN <<>> ELSE IF tree[p] = NoFile THEN <<"append", "bump">> ELSE MovePlan
           m == IF stale THEN NoMarker ELSE item
           r == [proc[d] EXCEPT !.req[p] = NoEntry, !.cur = m, !.steps = plan]
<1>1. nextTx \in Nat /\ proc[d] \in Procs /\ TypeOK /\ TrashInv
    BY DEF IInv, TypeOK, LostInv
<1>2. /\ SetProc(d, r) /\ nextTx' >= nextTx /\ UNCHANGED <<tree, trash, lease>> /\ proc[d].op = "delete"
    BY <1>1 DEF DeleteItem
<1>3. r.op = proc[d].op /\ r.own = proc[d].own /\ r.steps = plan /\ r.cur = m
    BY <1>1 DEF Procs
<1>4. item.kind = (IF tree[p] = NoFile THEN "ABSENT" ELSE "DELETE") /\ item.tx = FreshTx(nextTx)
    BY DEF NoMarker
<1> HIDE DEF r, item
<1>5. CASE stale \/ tree[p] = NoFile
  <2>1. r.steps = <<>> \/ r.cur.kind \notin Moving
      BY <1>3, <1>4, <1>5 DEF Moving
  <2> HIDE DEF stale, plan, m
  <2> QED BY <1>2, <1>3, <2>1, LostRest
<1>6. CASE ~stale /\ tree[p] # NoFile
  <2>1. plan = MovePlan /\ m = item
      BY <1>6
  <2>2. ~Renaming(item)
      BY <1>4 DEF Renaming
  <2>3. BeforeMove(item)
      BY <1>1, <1>4, <2>2, FreshTrash DEF BeforeMove
  <2> HIDE DEF stale, plan, m
  <2> QED BY <1>2, <1>3, <2>1, <2>3, MoveBegins
<1> QED BY <1>5, <1>6

\* The body of browse-delete and browse-rename.
LEMMA BrowseLosesNothing ==
    ASSUME IInv, AnnounceInv, LostInv, TypeOK', NEW d \in Devices, BrowseBody(d)
    PROVE  LostInv'
<1> DEFINE own == proc[d].own
<1>1. nextTx \in Nat /\ proc[d] \in Procs /\ TypeOK /\ TrashInv /\ own \in Markers
    BY DEF IInv, TypeOK, LostInv, Procs
<1>2. UNCHANGED <<tree, trash, lease>> /\ proc[d].op = "browse"
    BY DEF BrowseBody, AtBody
<1>3. CASE SetProc(d, Idle) /\ nextTx' = nextTx
    BY <1>2, <1>3, LostEnd
<1>4. ASSUME NEW eff, Run(d, [own EXCEPT !.tx = FreshTx(nextTx), !.eff = eff], MovePlan),
             nextTx' = nextTx + 1, ~(Renaming(own) /\ Exists(Image(own)))
      PROVE  LostInv'
  <2> DEFINE m == [own EXCEPT !.tx = FreshTx(nextTx), !.eff = eff]
             r == [proc[d] EXCEPT !.ph = "body", !.cur = m, !.steps = MovePlan]
  <2>1. m.tx = FreshTx(nextTx) /\ m.kind = own.kind /\ m.from = own.from /\ m.to = own.to
      BY <1>1 DEF Markers
  <2>2. r.op = proc[d].op /\ r.own = own /\ r.steps = MovePlan /\ r.cur = m
      BY <1>1 DEF Procs
  <2>3. SetProc(d, r) /\ nextTx' >= nextTx
      BY <1>1, <1>4 DEF Run
  <2> HIDE DEF r, m
  <2>4. Renaming(own) => OneToOne(own)
      BY DEF LostInv, OwnInv
  <2>5. (Renaming(m) <=> Renaming(own)) /\ (OneToOne(m) <=> OneToOne(own)) /\ Image(m) = Image(own)
      BY <2>1 DEF Renaming, OneToOne, Image
  <2>6. ~Renaming(m) => Backups(m) = {}
      BY <1>1, <2>1, FreshTrash
  <2>7. BeforeMove(m)
      BY <1>4, <2>4, <2>5, <2>6 DEF BeforeMove
  <2> QED BY <1>2, <2>2, <2>3, <2>7, MoveBegins
<1>5. \/ SetProc(d, Idle) /\ nextTx' = nextTx
      \/ /\ \E eff : Run(d, [own EXCEPT !.tx = FreshTx(nextTx), !.eff = eff], MovePlan)
         /\ nextTx' = nextTx + 1 /\ ~(Renaming(own) /\ Exists(Image(own)))
    BY DEF BrowseBody
<1> QED BY <1>3, <1>4, <1>5

\* What MoveReady says of a step popped without touching share or trash.
LEMMA PoppedReady ==
    ASSUME TypeOK, NEW d \in Devices, MoveReady(proc[d]), proc[d].steps # <<>>,
           Head(proc[d].steps) # "move", SetProc(d, Popped(d))
    PROVE  MoveReady(Popped(d))
<1> DEFINE s == proc[d].steps
           r == Popped(d)
<1>1. proc[d] \in Procs /\ s \in Seq(Steps)
    BY DEF TypeOK, Procs
<1>2. /\ r.steps = Tail(s) /\ r.ph = proc[d].ph /\ r.op = proc[d].op
      /\ Tail(s) # <<>> => r.cur = proc[d].cur
    BY PoppedFields
<1> HIDE DEF r
<1> SUFFICES ASSUME r.ph = "body", r.steps # <<>>, r.cur.kind \in Moving
             PROVE  /\ r.op \in {"delete", "browse"} /\ MoveOrder(r.steps)
                    /\ Head(r.steps) \in {"begin", "move"} => BeforeMove(r.cur)
                    /\ Head(r.steps) \in {"undo"} \cup Settled => AfterMove(r.cur)
    BY DEF MoveReady, r
<1>3. /\ proc[d].op \in {"delete", "browse"} /\ MoveOrder(s) /\ r.cur = proc[d].cur
      /\ Head(s) \in {"begin", "move"} => BeforeMove(proc[d].cur)
      /\ Head(s) \in {"undo"} \cup Settled => AfterMove(proc[d].cur)
  <2>1. proc[d].ph = "body" /\ s # <<>> /\ proc[d].cur.kind \in Moving /\ r.cur = proc[d].cur
      BY <1>2
  <2> QED BY <2>1 DEF MoveReady
<1>4. /\ MoveOrder(Tail(s)) /\ Head(Tail(s)) \notin {"begin", "undo"}
      /\ Head(Tail(s)) = "move" => Head(s) = "begin"
      /\ Head(Tail(s)) \in Settled => Head(s) \in Settled
    BY <1>1, <1>2, <1>3, PoppedMove
<1>5. Head(Tail(s)) \in {"begin", "move"} => BeforeMove(proc[d].cur)
    BY <1>3, <1>4
<1>6. Head(Tail(s)) \in {"undo"} \cup Settled => AfterMove(proc[d].cur)
    BY <1>3, <1>4
<1> QED BY <1>2, <1>3, <1>4, <1>5, <1>6

\* A step that touches neither share nor trash.
LEMMA QuietStepLosesNothing ==
    ASSUME IInv, LostInv, TypeOK', NEW d \in Devices, proc[d].steps # <<>>,
           Head(proc[d].steps) # "move",
           SetProc(d, Popped(d)), UNCHANGED <<tree, trash, lease, nextTx>>
    PROVE  LostInv'
<1>1. TypeOK /\ nextTx' >= nextTx /\ MoveReady(proc[d])
    BY DEF IInv, TypeOK, LostInv, MoveInv
<1>2. MoveReady(Popped(d))
    BY <1>1, PoppedReady
<1>3. Popped(d).op = proc[d].op /\ Popped(d).own = proc[d].own
    BY <1>1, PoppedFields
<1> HIDE DEF Popped
<1> QED BY <1>1, <1>2, <1>3, LostTurn

\* The others are at no step of a move while d changes the share.
LEMMA OthersRest ==
    ASSUME IInv, LostInv, NEW d \in Devices, InSection(d) \/ Granted(d), NEW e \in Devices \ {d}
    PROVE  proc[e].ph # "body" \/ proc[e].steps = <<>> \/ proc[e].cur.kind \notin Moving
<1> SUFFICES ASSUME proc[e].ph = "body", proc[e].steps # <<>>, proc[e].cur.kind \in Moving
             PROVE  FALSE
    OBVIOUS
<1>1. InSection(e) /\ proc[e].op \in {"delete", "browse"}
    BY DEF InSection, LostInv, MoveInv, MoveReady
<1>2. lease = e
    BY <1>1 DEF LostInv, LeaseInv
<1> QED BY <1>1, <1>2 DEF IInv, OneInSection, Granted

\* A change of the share or the trash by a process under the lock.
LEMMA MovingTurn ==
    ASSUME IInv, LostInv, TypeOK', NEW d \in Devices, InSection(d), NEW r, SetProc(d, r),
           r.op = proc[d].op, r.own = proc[d].own, UNCHANGED <<lease, nextTx>>,
           \A e \in trash' : e[1][1] < nextTx, MoveReady(proc[d])'
    PROVE  LostInv'
<1>1. proc'[d] = r /\ \A e \in Devices \ {d} : proc'[e] = proc[e]
    BY DEF SetProc, IInv, TypeOK
<1>2. LeaseInv' /\ TrashInv'
    BY <1>1 DEF LostInv, LeaseInv, TrashInv
<1>3. OwnInv'
    BY <1>1 DEF LostInv, OwnInv, Renaming, OneToOne
<1>4. \A e \in Devices \ {d} : MoveReady(proc[e])'
    BY <1>1, OthersRest DEF MoveReady
<1> QED BY <1>1, <1>2, <1>3, <1>4 DEF LostInv, MoveInv

\* Only a body moves files, for a marker of a move.
LEMMA MovesInBody ==
    ASSUME IInv, AnnounceInv, LostInv, NEW d \in Devices, Doing(d, "move") \/ Doing(d, "undo")
    PROVE  /\ proc[d].ph = "body" /\ proc[d].cur.kind \in Moving /\ InSection(d)
           /\ proc[d].op \in {"delete", "browse"} /\ MoveOrder(proc[d].steps)
           /\ Doing(d, "move") => BeforeMove(proc[d].cur)
           /\ Doing(d, "undo") => AfterMove(proc[d].cur)
           /\ proc[d].cur.tx[1] < nextTx
<1> DEFINE s == proc[d].steps
           m == proc[d].cur
<1>1. s # <<>> /\ s \in Seq(Steps) /\ InSection(d) /\ m.kind \in Moving
    BY StepFacts DEF Doing
<1>2. proc[d].ph # "recover"
    BY <1>1, PoppedOrder DEF AnnounceInv, WorkInv, Apt, Doing
<1>3. proc[d].ph = "body"
    BY <1>1, <1>2 DEF InSection
<1>4. Tag(m) \in Tags
    BY <1>1, StepFacts DEF Moving
<1>5. m.tx[1] < nextTx
    BY <1>4 DEF AnnounceInv, TagInv, Tag
<1>6. MoveReady(proc[d])
    BY DEF LostInv, MoveInv
<1> QED BY <1>1, <1>3, <1>5, <1>6 DEF MoveReady, Doing

\* The state after a move, said of the marker before the step.
LEMMA AfterMoveNext ==
    ASSUME NEW d \in Devices, NEW m, proc'[d].cur = m,
           Renaming(m) => OneToOne(m) /\ \A p \in m.from : tree'[p] = NoFile,
           ~Renaming(m) =>
               /\ \A e \in trash' : e[1] = m.tx => tree'[e[2]] = NoFile
               /\ \A e, f \in trash' : e[1] = m.tx /\ f[1] = m.tx /\ e[2] = f[2] => e = f
    PROVE  AfterMove(proc[d].cur)'
<1>1. Renaming(m) => OneToOne(m) /\ ~ \E p \in m.from : tree'[p] # NoFile
    OBVIOUS
<1> QED BY <1>1 DEF AfterMove, Renaming, OneToOne, Exists, Files, Backups

\* mv to the backup: what was there is in the place the plan looked at, or in
\* the trash under an id of its own.
LEMMA MoveLosesNothing ==
    ASSUME IInv, AnnounceInv, LostInv, TypeOK', NEW d \in Devices, StepMove(d)
    PROVE  LostInv' /\ Contents \ {NoFile} \subseteq Contents'
<1> DEFINE m == proc[d].cur
           s == proc[d].steps
           from == Files(m.from)
<1>1. /\ s # <<>> /\ Head(s) = "move" /\ SetProc(d, Popped(d)) /\ UNCHANGED <<lease, nextTx>>
      /\ TypeOK /\ m \in Markers /\ s \in Seq(Steps)
    BY DEF StepMove, Doing, IInv, TypeOK, Procs
<1>2. /\ MoveOrder(s) /\ BeforeMove(m) /\ proc[d].op \in {"delete", "browse"} /\ InSection(d)
      /\ m.tx[1] < nextTx /\ TrashInv /\ proc[d].ph = "body"
    BY <1>1, MovesInBody DEF Doing, LostInv
<1>3. /\ proc'[d] = Popped(d) /\ Popped(d).steps = Tail(s) /\ Popped(d).ph = "body"
      /\ Popped(d).op = proc[d].op /\ Popped(d).own = proc[d].own
      /\ Tail(s) # <<>> => Popped(d).cur = m
    BY <1>1, <1>2, PoppedFields
<1>4. m.from \subseteq Paths /\ m.to \in [Paths -> Paths] /\ from \subseteq m.from
      /\ tree \in [Paths -> Versions \cup {NoFile}]
      /\ \A p \in Paths : p \in from <=> p \in m.from /\ tree[p] # NoFile
    BY <1>1 DEF Markers, Files, TypeOK
<1>5. /\ \A e \in trash' : e[1][1] < nextTx
      /\ Renaming(m) => OneToOne(m) /\ \A p \in m.from : tree'[p] = NoFile
      /\ ~Renaming(m) =>
             /\ \A e \in trash' : e[1] = m.tx => tree'[e[2]] = NoFile
             /\ \A e, f \in trash' : e[1] = m.tx /\ f[1] = m.tx /\ e[2] = f[2] => e = f
      /\ Contents \ {NoFile} \subseteq Contents'
  <2>1. CASE Renaming(m)
    <3>1. /\ trash' = trash
          /\ tree' = [p \in Paths |-> IF \E q \in from : m.to[q] = p
                                      THEN tree[CHOOSE q \in from : m.to[q] = p]
                                      ELSE IF p \in from THEN NoFile ELSE tree[p]]
        BY <2>1 DEF StepMove
    <3>2. OneToOne(m) /\ ~Exists(Image(m))
        BY <1>2, <2>1 DEF BeforeMove
    <3>3. ASSUME NEW p \in m.from PROVE tree'[p] = NoFile
      <4>1. ~ \E q \in from : m.to[q] = p
          BY <1>4, <3>2 DEF OneToOne
      <4> QED BY <1>4, <3>1, <4>1
    <3>4. ASSUME NEW p \in Paths, tree[p] # NoFile PROVE \E q \in Paths : tree'[q] = tree[p]
      <4>1. CASE p \in m.from
        <5>1. p \in from /\ m.to[p] \in Paths /\ \A q \in from : m.to[q] = m.to[p] => q = p
            BY <1>4, <3>2, <3>4, <4>1 DEF OneToOne
        <5>2. (CHOOSE q \in from : m.to[q] = m.to[p]) = p
            BY <5>1
        <5>3. tree'[m.to[p]] = tree[p]
            BY <3>1, <5>1, <5>2
        <5> QED BY <5>1, <5>3
      <4>2. CASE p \notin m.from
        <5>1. p \notin Image(m)
            BY <3>2, <3>4 DEF Exists, Files
        <5>2. ~ \E q \in from : m.to[q] = p
            BY <1>4, <5>1 DEF Image
        <5>3. tree'[p] = tree[p]
            BY <1>4, <3>1, <4>2, <5>2
        <5> QED BY <5>3
      <4> QED BY <4>1, <4>2
    <3>5. Contents \ {NoFile} \subseteq Contents'
        BY <3>1, <3>4 DEF Contents
    <3> QED BY <1>2, <2>1, <3>1, <3>2, <3>3, <3>5 DEF TrashInv
  <2>2. CASE ~Renaming(m)
    <3>1. /\ tree' = [p \in Paths |-> IF p \in from THEN NoFile ELSE tree[p]]
          /\ trash' = trash \cup {<<m.tx, p, tree[p]>> : p \in from}
        BY <2>2 DEF StepMove
    <3>2. \A e \in trash : e[1] # m.tx
        BY <1>2, <2>2 DEF BeforeMove, Backups
    <3>3. \A e \in trash' : e \in trash \/ \E p \in from : e = <<m.tx, p, tree[p]>>
        BY <3>1
    <3>4. \A e \in trash' : e[1][1] < nextTx
        BY <1>2, <3>3 DEF TrashInv
    <3>5. \A p \in from : tree'[p] = NoFile
        BY <1>4, <3>1
    <3>6. \A e \in trash' : e[1] = m.tx => \E p \in from : e = <<m.tx, p, tree[p]>>
        BY <3>2, <3>3
    <3>7. \A e \in trash' : e[1] = m.tx => tree'[e[2]] = NoFile
        BY <3>5, <3>6
    <3>8. \A e, f \in trash' : e[1] = m.tx /\ f[1] = m.tx /\ e[2] = f[2] => e = f
        BY <3>6
    <3>9. ASSUME NEW p \in Paths, tree[p] # NoFile
          PROVE  tree'[p] = tree[p] \/ \E e \in trash' : e[3] = tree[p]
      <4>1. CASE p \in from
        <5>1. <<m.tx, p, tree[p]>> \in trash'
            BY <3>1, <4>1
        <5> QED BY <5>1
      <4>2. CASE p \notin from
          BY <3>1, <4>2
      <4> QED BY <4>1, <4>2
    <3>10. Contents \ {NoFile} \subseteq Contents'
        BY <3>1, <3>9 DEF Contents
    <3> QED BY <2>2, <3>4, <3>7, <3>8, <3>10
  <2> QED BY <2>1, <2>2
<1>6. Tail(s) # <<>> => AfterMove(proc[d].cur)'
    BY <1>3, <1>5, AfterMoveNext
<1>7. /\ MoveOrder(Tail(s))
      /\ Tail(s) # <<>> => Head(Tail(s)) \notin {"begin", "move"}
    BY <1>1, <1>2, PoppedMove
<1>8. MoveReady(proc[d])'
  <2>1. proc'[d].steps = Tail(s) /\ proc'[d].op = proc[d].op /\ proc'[d].ph = "body"
      BY <1>3
  <2>2. MoveOrder(proc[d].steps)'
    <3> DEFINE t == Tail(s)
    <3>1. MoveOrder(t) /\ proc'[d].steps = t
        BY <1>7, <2>1
    <3> HIDE DEF t
    <3> QED BY <3>1 DEF MoveOrder, Settled
  <2> QED BY <1>2, <1>6, <1>7, <2>1, <2>2 DEF MoveReady
<1>9. LostInv'
    BY <1>1, <1>2, <1>3, <1>5, <1>8, MovingTurn
<1> QED BY <1>5, <1>9

\* mv from the backup: the place is still empty.
LEMMA UndoLosesNothing ==
    ASSUME IInv, AnnounceInv, LostInv, TypeOK', NEW d \in Devices, StepUndo(d)
    PROVE  LostInv' /\ Contents \ {NoFile} \subseteq Contents'
<1> DEFINE m == proc[d].cur
           s == proc[d].steps
           back == {e \in trash : e[1] = m.tx}
<1>1. /\ s # <<>> /\ Head(s) = "undo" /\ SetProc(d, Popped(d)) /\ UNCHANGED <<lease, nextTx>>
      /\ TypeOK /\ m \in Markers /\ s \in Seq(Steps) /\ tree \in [Paths -> Versions \cup {NoFile}]
      /\ trash \subseteq TxIds \X Paths \X Versions
    BY DEF StepUndo, Doing, IInv, TypeOK, Procs
<1>2. /\ MoveOrder(s) /\ AfterMove(m) /\ proc[d].op \in {"delete", "browse"} /\ InSection(d)
      /\ TrashInv /\ proc[d].ph = "body"
    BY <1>1, MovesInBody DEF Doing, LostInv
<1>3. /\ proc'[d] = Popped(d) /\ Popped(d).steps = Tail(s) /\ Popped(d).ph = "body"
      /\ Popped(d).op = proc[d].op /\ Popped(d).own = proc[d].own
      /\ Tail(s) # <<>> => Popped(d).cur = m
    BY <1>1, <1>2, PoppedFields
<1>4. trash' \subseteq trash /\ Contents \ {NoFile} \subseteq Contents'
  <2>1. CASE Renaming(m)
    <3>1. /\ trash' = trash
          /\ tree' = [p \in Paths |-> IF p \in m.from THEN tree[m.to[p]]
                                      ELSE IF p \in Image(m) THEN NoFile ELSE tree[p]]
        BY <2>1 DEF StepUndo
    <3>2. m.from \subseteq Paths /\ m.to \in [Paths -> Paths] /\ \A p \in m.from : tree[p] = NoFile
        BY <1>1, <1>2, <2>1 DEF AfterMove, Markers, Exists, Files
    <3>3. ASSUME NEW p \in Paths, tree[p] # NoFile PROVE \E q \in Paths : tree'[q] = tree[p]
      <4>1. CASE p \in Image(m)
        <5>1. PICK q \in m.from : m.to[q] = p
            BY <4>1 DEF Image
        <5> QED BY <3>1, <3>2, <5>1
      <4>2. CASE p \notin Image(m)
          BY <3>1, <3>2, <3>3, <4>2
      <4> QED BY <4>1, <4>2
    <3> QED BY <3>1, <3>3 DEF Contents
  <2>2. CASE ~Renaming(m)
    <3>1. /\ tree' = [p \in Paths |-> IF \E e \in back : e[2] = p
                                      THEN (CHOOSE e \in back : e[2] = p)[3] ELSE tree[p]]
          /\ trash' = trash \ back
        BY <2>2 DEF StepUndo
    <3>2. /\ \A e \in back : tree[e[2]] = NoFile
          /\ \A e, f \in back : e[2] = f[2] => e = f
        BY <1>2, <2>2 DEF AfterMove, Backups
    <3>3. ASSUME NEW e \in back PROVE e[2] \in Paths /\ tree'[e[2]] = e[3]
      <4>1. e[2] \in Paths /\ \A f \in back : f[2] = e[2] => f = e
          BY <1>1, <3>2
      <4>2. (CHOOSE f \in back : f[2] = e[2]) = e
          BY <4>1
      <4> QED BY <3>1, <4>1, <4>2
    <3>4. \A p \in Paths : tree[p] # NoFile => tree'[p] = tree[p]
        BY <3>1, <3>2
    <3>5. \A e \in trash : e \in trash' \/ \E p \in Paths : tree'[p] = e[3]
        BY <3>1, <3>3
    <3> HIDE DEF back
    <3>6. Contents \ {NoFile} \subseteq Contents'
        BY <3>4, <3>5 DEF Contents
    <3> QED BY <3>1, <3>6
  <2> QED BY <2>1, <2>2
<1>5. /\ MoveOrder(Tail(s))
      /\ Tail(s) # <<>> => Head(Tail(s)) \notin {"begin", "move", "undo"} \cup Settled
    BY <1>1, <1>2, PoppedMove DEF Settled
<1>6. MoveReady(proc[d])'
  <2>1. proc'[d].steps = Tail(s) /\ proc'[d].op = proc[d].op /\ proc'[d].ph = "body"
      BY <1>3
  <2>2. MoveOrder(proc[d].steps)'
    <3> DEFINE t == Tail(s)
    <3>1. MoveOrder(t) /\ proc'[d].steps = t
        BY <1>5, <2>1
    <3> HIDE DEF t
    <3> QED BY <3>1 DEF MoveOrder, Settled
  <2> QED BY <1>2, <1>5, <2>1, <2>2 DEF MoveReady, Settled
<1>7. LostInv'
    BY <1>1, <1>2, <1>3, <1>4, <1>6, MovingTurn DEF TrashInv
<1> QED BY <1>4, <1>7

\* One staged file is put where nothing is.
LEMMA PlaceLosesNothing ==
    ASSUME IInv, LostInv, TypeOK', NEW d \in Devices, StepPlace(d)
    PROVE  LostInv' /\ Contents \ {NoFile} \subseteq Contents'
<1>0. TypeOK /\ tree \in [Paths -> Versions \cup {NoFile}] /\ Doing(d, "place") /\ InSection(d)
    BY DEF IInv, TypeOK, StepPlace, Doing, StepsInSection
<1>1. CASE SetProc(d, Popped(d)) /\ UNCHANGED tree
  <2>1. proc[d].steps # <<>> /\ Head(proc[d].steps) # "move" /\ UNCHANGED <<tree, trash, lease, nextTx>>
      BY <1>1 DEF StepPlace, Doing
  <2>2. LostInv'
      BY <1>1, <2>1, QuietStepLosesNothing
  <2> QED BY <2>1, <2>2 DEF Contents
<1>2. CASE UNCHANGED <<proc, trash, lease, nextTx>> /\ \A p \in Paths : tree[p] # NoFile => tree'[p] = tree[p]
  <2>1. Contents \ {NoFile} \subseteq Contents'
      BY <1>2 DEF Contents
  <2>2. SetProc(d, proc[d])
      BY <1>2 DEF SetProc, IInv, TypeOK
  <2>3. MoveReady(proc[d])
      BY DEF LostInv, MoveInv
  <2>4. MoveReady(proc[d])'
    <3>1. proc'[d] = proc[d] /\ Head(proc[d].steps) = "place"
        BY <1>0, <1>2 DEF Doing
    <3>2. MoveOrder(proc[d].steps)' <=> MoveOrder(proc[d].steps)
        BY <3>1 DEF MoveOrder, Settled
    <3> QED BY <2>3, <3>1, <3>2 DEF MoveReady, Settled
  <2>5. LostInv'
      BY <1>0, <1>2, <2>2, <2>4, MovingTurn DEF LostInv, TrashInv
  <2> QED BY <2>1, <2>5
<1>3. \/ SetProc(d, Popped(d)) /\ UNCHANGED tree
      \/ \E p \in Paths : \E v : tree[p] = NoFile /\ tree' = [tree EXCEPT ![p] = v] /\ UNCHANGED proc
    BY DEF StepPlace, Touched
<1>4. UNCHANGED <<trash, lease, nextTx>>
    BY DEF StepPlace
<1>5. ASSUME NEW p \in Paths, NEW v, tree[p] = NoFile, tree' = [tree EXCEPT ![p] = v]
      PROVE  \A q \in Paths : tree[q] # NoFile => tree'[q] = tree[q]
    BY <1>0, <1>5
<1> QED BY <1>1, <1>2, <1>3, <1>4, <1>5

\* rsync --backup by the client that holds the lease, with no command running.
LEMMA UploadLosesNothing ==
    ASSUME IInv, LostInv, TagInv, TypeOK', NEW d \in Devices, NEW p \in Paths, NEW v \in Versions,
           Upload(d, p, v)
    PROVE  LostInv' /\ Contents \ {NoFile} \subseteq Contents'
<1>1. /\ Granted(d) /\ UNCHANGED <<proc, lease, nextTx>> /\ tree' = [tree EXCEPT ![p] = v]
      /\ trash' = IF tree[p] = NoFile THEN trash ELSE trash \cup {<<NoTxId, p, tree[p]>>}
      /\ tree \in [Paths -> Versions \cup {NoFile}] /\ nextTx \in Nat /\ nextTx >= 1
    BY DEF Upload, Pushing, IInv, TypeOK, TagInv
<1>2. \A q \in Paths : q # p => tree'[q] = tree[q]
    BY <1>1
<1>3. tree[p] # NoFile => \E e \in trash' : e[3] = tree[p]
  <2> SUFFICES ASSUME tree[p] # NoFile PROVE \E e \in trash' : e[3] = tree[p]
      OBVIOUS
  <2>1. <<NoTxId, p, tree[p]>> \in trash'
      BY <1>1
  <2> QED BY <2>1
<1>4. trash \subseteq trash'
    BY <1>1
<1>5. Contents \ {NoFile} \subseteq Contents'
    BY <1>2, <1>3, <1>4 DEF Contents
<1>6. \A e \in trash' : e[1][1] < nextTx
    BY <1>1 DEF LostInv, TrashInv, NoTxId
<1>7. proc[d].steps = <<>>
    BY <1>1 DEF Granted, Idle
<1>8. \A e \in Devices : proc[e].ph # "body" \/ proc[e].steps = <<>> \/ proc[e].cur.kind \notin Moving
    BY <1>1, <1>7, OthersRest
<1>9. MoveInv'
    BY <1>1, <1>8 DEF MoveInv, MoveReady
<1>10. LostInv'
    BY <1>1, <1>6, <1>9 DEF LostInv, LeaseInv, TrashInv, OwnInv, Renaming, OneToOne
<1> QED BY <1>5, <1>10

\* The other steps of a command.
LEMMA CommandLosesNothing ==
    ASSUME IInv, AnnounceInv, LostInv, TypeOK', NEW d \in Devices, Command(d)
    PROVE  LostInv' /\ Contents \ {NoFile} \subseteq Contents'
<1>1. CASE \/ StepBegin(d) \/ StepAdvance(d) \/ StepAppend(d) \/ StepBump(d) \/ StepClear(d)
           \/ StepFold(d) \/ StepReset(d)
  <2>1. /\ proc[d].steps # <<>> /\ Head(proc[d].steps) # "move" /\ SetProc(d, Popped(d))
        /\ UNCHANGED <<tree, trash, lease, nextTx>>
      BY <1>1 DEF StepBegin, StepAdvance, StepAppend, StepBump, StepClear, StepFold, StepReset, Doing
  <2>2. LostInv'
      BY <2>1, QuietStepLosesNothing
  <2> QED BY <2>1, <2>2 DEF Contents
<1>2. CASE StepMove(d) \/ StepUndo(d) \/ StepPlace(d)
    BY <1>2, MoveLosesNothing, UndoLosesNothing, PlaceLosesNothing
<1>3. CASE BrowseBody(d) \/ \E p \in Paths : DeleteItem(d, p)
  <2>1. LostInv'
      BY <1>3, BrowseLosesNothing, ItemLosesNothing
  <2>2. UNCHANGED <<tree, trash>>
      BY <1>3 DEF BrowseBody, DeleteItem
  <2> QED BY <2>1, <2>2 DEF Contents
<1>4. CASE \/ Enter(d) \/ RecoverMarker(d) \/ RecoverRefused(d) \/ LeaseGranted(d) \/ AppendBody(d)
           \/ CompactBody(d) \/ DeleteBody(d) \/ PublishBody(d) \/ Finish(d) \/ PlaceConflict(d)
  <2>1. LostInv'
      BY <1>4, TurnsLoseNothing
  <2>2. UNCHANGED <<tree, trash>>
      BY <1>4 DEF Enter, RecoverMarker, RecoverRefused, LeaseGranted, AppendBody, CompactBody,
                  DeleteBody, PublishBody, Finish, PlaceConflict
  <2> QED BY <2>1, <2>2 DEF Contents
<1> QED BY <1>1, <1>2, <1>3, <1>4 DEF Command

\* A failed step is undone only where its move can be undone.
LEMMA FailureLosesNothing ==
    ASSUME IInv, AnnounceInv, LostInv, TypeOK', NEW d \in Devices, Failure(d)
    PROVE  LostInv' /\ UNCHANGED <<tree, trash>>
<1>0. nextTx \in Nat /\ proc[d] \in Procs /\ MoveReady(proc[d])
    BY DEF IInv, TypeOK, LostInv, MoveInv
<1>1. UNCHANGED <<tree, trash, nextTx>> /\ nextTx' >= nextTx
    BY <1>0 DEF Failure, FailStep, FailPublish, FailCommand, Kill
<1>2. CASE Break(d)
    BY <1>1, <1>2, LostBreak
<1>3. CASE SetProc(d, Halted(d)) /\ lease' = lease
  <2>1. Halted(d).steps = <<>> /\ Halted(d).op = proc[d].op /\ Halted(d).own = proc[d].own
      BY <1>0 DEF Halted, Procs
  <2> HIDE DEF Halted
  <2> QED BY <1>1, <1>3, <2>1, LostRest
<1>4. ASSUME NEW step \in {"begin", "move", "advance", "append", "bump", "undo"}, FailStep(d, step),
             ~SetProc(d, Halted(d))
      PROVE  LostInv'
  <2> DEFINE plan == FailedPlan(proc[d].cur, step)
             r == [proc[d] EXCEPT !.steps = plan]
  <2>1. /\ SetProc(d, r) /\ lease' = lease /\ plan # <<>>
        /\ proc[d].steps # <<>> /\ Head(proc[d].steps) = step
      BY <1>4 DEF FailStep, Doing
  <2>2. r.steps = plan /\ r.op = proc[d].op /\ r.own = proc[d].own /\ r.cur = proc[d].cur /\ r.ph = proc[d].ph
      BY <1>0 DEF Procs
  <2>3. \/ plan = <<"clear">>
        \/ plan = <<"undo", "clear">> /\ step \in Settled
    <3>1. CASE step = "begin"
        BY <2>1, <3>1 DEF FailedPlan
    <3>2. CASE step = "move"
        BY <3>2 DEF FailedPlan
    <3>3. CASE step \in {"advance", "append", "bump"}
        BY <2>1, <3>3 DEF FailedPlan, Settled
    <3>4. CASE step = "undo"
        BY <2>1, <3>4 DEF FailedPlan
    <3> QED BY <3>1, <3>2, <3>3, <3>4
  <2>4. /\ MoveOrder(plan) /\ Head(plan) \notin {"begin", "move"} \cup Settled
        /\ Head(plan) = "undo" => step \in Settled
    <3>1. CASE plan = <<"clear">>
        BY <3>1, MovePlansAreOrdered DEF Settled
    <3>2. CASE plan = <<"undo", "clear">> /\ step \in Settled
        BY <3>2, MovePlansAreOrdered DEF Settled
    <3> QED BY <2>3, <3>1, <3>2
  <2> HIDE DEF r, plan
  <2>5. MoveReady(r)
      BY <1>0, <2>1, <2>2, <2>4 DEF MoveReady
  <2> QED BY <1>1, <2>1, <2>2, <2>5, LostTurn
<1>5. \/ Break(d)
      \/ SetProc(d, Halted(d)) /\ lease' = lease
      \/ \E step \in {"begin", "move", "advance", "append", "bump", "undo"} :
             FailStep(d, step) /\ ~SetProc(d, Halted(d))
    BY DEF Failure, FailStep, FailPublish, FailCommand, Kill
<1> QED BY <1>1, <1>2, <1>3, <1>4, <1>5

\* After a restart no command is at a move.
LEMMA RestartLosesNothing ==
    ASSUME LostInv, Restart
    PROVE  LostInv' /\ UNCHANGED <<tree, trash>>
<1>1. UNCHANGED <<tree, trash, nextTx>> /\ \A d \in Devices : proc'[d] = Idle
    BY DEF Restart
<1>2. Idle.op = "none" /\ Idle.ph = "idle" /\ ~Renaming(Idle.own)
    BY DEF Idle, Renaming, NoMarker
<1>3. MoveInv' /\ LeaseInv' /\ OwnInv'
    BY <1>1, <1>2 DEF MoveInv, MoveReady, LeaseInv, OwnInv, Renaming
<1> QED BY <1>1, <1>3 DEF LostInv, TrashInv

\* Every step keeps the invariant and, with it, a copy of every version.
LEMMA LostStep ==
    ASSUME ~Orphans, IInv, AnnounceInv, LostInv, [Next]_vars
    PROVE  LostInv' /\ Contents \ {NoFile} \subseteq Contents'
<1>1. TypeOK' /\ TagInv
    BY InvStep DEF IInv, AnnounceInv
<1>2. UNCHANGED <<tree, trash>> => Contents \ {NoFile} \subseteq Contents'
    BY DEF Contents
<1>3. ASSUME NEW d \in Devices, NEW p \in Paths, NEW v \in Versions, Upload(d, p, v)
      PROVE  LostInv' /\ Contents \ {NoFile} \subseteq Contents'
    BY <1>1, <1>3, UploadLosesNothing
<1>4. ASSUME NEW d \in Devices, Request(d), ~ \E p \in Paths, v \in Versions : Upload(d, p, v)
      PROVE  LostInv' /\ UNCHANGED <<tree, trash>>
  <2>1. UNCHANGED <<tree, trash>>
      BY <1>4 DEF Request, TransferWait, EndLease, JournalAppend, JournalRetry, JournalCompact,
                  CheckedDelete, BrowseDelete, BrowseRename, RenameRemote, StagingPublish, StageCleanup, Start
  <2> QED BY <1>1, <1>4, <2>1, RequestLosesNothing
<1>5. ASSUME NEW d \in Devices, Command(d)
      PROVE  LostInv' /\ Contents \ {NoFile} \subseteq Contents'
    BY <1>1, <1>5, CommandLosesNothing
<1>6. ASSUME NEW d \in Devices, Failure(d)
      PROVE  LostInv' /\ UNCHANGED <<tree, trash>>
    BY <1>1, <1>6, FailureLosesNothing
<1>7. ASSUME NEW b \in StageBatches, StageUpload(b)
      PROVE  LostInv' /\ UNCHANGED <<tree, trash>>
    BY <1>1, <1>7, LostIdle DEF StageUpload
<1>8. CASE UNCHANGED vars
    BY <1>1, <1>2, <1>8, LostIdle DEF vars
<1>9. CASE Restart
    BY <1>2, <1>9, RestartLosesNothing
<1>10. CASE \E d \in Devices : Request(d)
    BY <1>2, <1>3, <1>4, <1>10
<1>11. CASE \E d \in Devices : Command(d) \/ Failure(d)
    BY <1>2, <1>5, <1>6, <1>11
<1>12. CASE \E b \in StageBatches : StageUpload(b)
    BY <1>2, <1>7, <1>12
<1> QED BY <1>8, <1>9, <1>10, <1>11, <1>12 DEF Next

\* The invariant holds at first: no command runs and the trash is empty.
LEMMA LostInit == Init => LostInv
<1> SUFFICES ASSUME Init PROVE LostInv
    OBVIOUS
<1>1. \A d \in Devices : proc[d] = Idle
    BY DEF Init
<1>2. Idle.op = "none" /\ Idle.ph = "idle" /\ ~Renaming(Idle.own)
    BY DEF Idle, Renaming, NoMarker
<1>3. MoveInv /\ LeaseInv /\ OwnInv
    BY <1>1, <1>2 DEF MoveInv, MoveReady, LeaseInv, OwnInv
<1> QED BY <1>3 DEF LostInv, TrashInv, Init

\* No step of any command, failure or recovery loses the last copy of a version
\* that was on the share: moves, their undo, publishes and uploads leave it on
\* the share or in the trash, as long as no command outlives its device's lease
\* (the commands check the lease once, before they wait for the journal lock).
THEOREM NothingIsLost == ~Orphans => (Spec => NothingLost)
<1> SUFFICES ASSUME ~Orphans PROVE Spec => NothingLost
    OBVIOUS
<1>1. IInv /\ AnnounceInv /\ LostInv /\ [Next]_vars
          => LostInv' /\ [Contents \ {NoFile} \subseteq Contents']_vars
    BY LostStep
<1>2. Init => LostInv
    BY LostInit
<1> QED BY <1>1, <1>2, InvInit, InvStep, AnnounceInit, AnnounceStep, PTL DEF Spec, NothingLost

-----------------------------------------------------------------------------
(***************************************************************************)
(* The record agrees with the share.  Files moves, publishes and their     *)
(* undo keep tree and record apart for a while; the marker says how far a  *)
(* transaction came, and recovery believes it.  The invariant says what it *)
(* may rely on: there is one marker at a time, and either its transaction  *)
(* is on record and the share agrees, or nothing has moved and the share   *)
(* agrees, or all has moved and the share agrees with the record plus the  *)
(* transaction's effect.  A process that works on a transaction knows, at  *)
(* each of its steps, which of the three it is, and what an undo restores. *)
(***************************************************************************)

\* The record agrees with the share, away from stray paths and those in S.
Calm(S) == \A p \in Paths \ (stray \cup S) : FileOf(Recorded[p]) = tree[p]

\* The share is what the record will say when m is on it.
Done(m) == \A p \in Paths \ stray : FileOf(Overlay(Recorded, m.eff)[p]) = tree[p]

Written(m) == \A p \in Touched(m.eff) : FileOf(Recorded[p]) = FileOf(m.eff[p])

\* The share as StepUndo leaves it.
Undone(m) ==
    IF Renaming(m)
    THEN [p \in Paths |-> IF p \in m.from THEN tree[m.to[p]]
                          ELSE IF p \in Image(m) THEN NoFile ELSE tree[p]]
    ELSE IF m.kind = "ABSENT" THEN tree
    ELSE [p \in Paths |-> IF \E e \in Backups(m) : e[2] = p
                          THEN (CHOOSE e \in Backups(m) : e[2] = p)[3] ELSE tree[p]]

\* The record R agrees with that.
Restores(R, m) == \A p \in Paths \ stray : FileOf(R[p]) = Undone(m)[p]

\* The effect that the body of a command computes for its move.
MoveEffect(m) ==
    [p \in Paths |-> IF m.kind = "BROWSE_RENAME_V2" /\ \E q \in Files(m.from) : m.to[q] = p
                     THEN tree[CHOOSE q \in Files(m.from) : m.to[q] = p]
                     ELSE IF p \in Files(m.from) THEN Tomb ELSE NoEntry]

Prepared(m) == Exists(m.from) /\ ~BackupExists(m) /\ m.eff = MoveEffect(m)

Moved(m) == /\ ~Exists(m.from) /\ BackupExists(m)
            /\ ~Renaming(m) => \A e \in Backups(m) : e[2] \in m.from

Unmarked == {"NONE", "ABSENT"}

MarkerOK(m) ==
    /\ m.kind \notin Unmarked
    /\ \/ Committed(journal, m.tx) /\ Calm({}) /\ Written(m)
       \/ ~Committed(journal, m.tx) /\ m.kind = "PUBLISH" /\ Calm(Touched(m.eff))
       \/ /\ ~Committed(journal, m.tx) /\ m.kind # "PUBLISH"
          /\ \/ Exists(m.from) /\ ~BackupExists(m) /\ Calm({})
             \/ Moved(m) /\ Done(m)

OneMarker == \A m, n \in txns : m = n

Agreed == /\ txns = {} => Calm({})
          /\ \A m \in txns : MarkerOK(m)

\* An append cut at a line boundary is the only kind of interrupted one here.
CleanLog == \A i \in DOMAIN journal : journal[i].end \in {"full", "line"} /\ journal[i].tx[1] < nextTx

ClientsOK == \A d \in Devices : /\ sess[d] # "over" => lease = d
                                /\ proc[d].op \in {"publish", "wait"} => sess[d] = "over"
                                /\ pending[d].tx[1] < nextTx

\* No client uses its lease while the marker of a publish is open.
PublishAlone ==
    \A m \in txns : m.kind = "PUBLISH" =>
        \A d \in Devices : sess[d] = "over" /\ proc[d].op \in {"none", "compact", "wait", "publish"}

\* The ids that a process still needs are reserved.
Ids(r, n) == /\ r.cur.tx[1] < n
             /\ r.op = "append" => r.own.tx[1] + 1 < n
             /\ r.op = "retry" => r.own.tx[1] < n

AtStep(r, S) == r.steps # <<>> /\ Head(r.steps) \in S

NotYet(r) ==
    r.op = "publish" /\ (r.ph \in {"lock", "recover"} \/ AtStep(r, {"begin"})) =>
        ~Committed(journal, r.own.tx) /\ \A m \in txns : m.kind # "PUBLISH"

Links == {<<"begin", "move">>, <<"begin", "place">>, <<"move", "advance">>, <<"place", "advance">>,
          <<"advance", "append">>, <<"append", "bump">>, <<"bump", "clear">>, <<"bump", "fold">>,
          <<"announce", "clear">>, <<"undo", "clear">>, <<"fold", "reset">>}

StepsOf(kind) ==
    IF kind = "NONE" THEN {"append", "bump", "fold", "reset"}
    ELSE IF kind = "ABSENT" THEN {"append", "bump"}
    ELSE IF kind = "PUBLISH" THEN {"begin", "place", "advance", "append", "bump", "announce", "clear"}
    ELSE {"begin", "move", "undo", "advance", "append", "bump", "announce", "clear"}

\* The steps follow one another as in the plans; a marker is removed at last.
Linked(s, kind) ==
    /\ \A i \in 1 .. Len(s) : s[i] \in StepsOf(kind)
    /\ \A i \in 2 .. Len(s) : <<s[i-1], s[i]>> \in Links
    /\ s # <<>> /\ kind \notin Unmarked => s[Len(s)] = "clear"

Orderly(r) ==
    r.steps # <<>> =>
        /\ Linked(r.steps, r.cur.kind)
        /\ r.ph = "recover" => /\ r.cur.kind \notin Unmarked /\ ~AtStep(r, {"begin", "move", "undo"})
                               /\ r.cur.kind = "PUBLISH" => r.op # "wait"
        /\ r.ph = "body" /\ r.cur.kind = "PUBLISH" => r.op = "publish"
        /\ r.cur.kind \in Unmarked /\ AtStep(r, {"append", "bump"}) => r.op \in {"append", "retry", "delete"}

\* Markers that differ in their stage only.
Twin(x, m) == x.tx = m.tx /\ x.kind = m.kind /\ x.from = m.from /\ x.to = m.to /\ x.eff = m.eff

Opened(r) == r.steps # <<>> /\ ~AtStep(r, {"begin"}) /\ r.cur.kind \notin Unmarked
                 => \E x \in txns : Twin(x, r.cur)

\* Recovery has every marker before it, except those of publishes that failed.
Covers(r) ==
    r.ph = "recover" =>
        \A m \in txns : \/ m.tx \in r.todo
                        \/ r.steps # <<>> /\ r.cur.tx = m.tx
                        \/ m.kind = "PUBLISH" /\ r.op # "wait"

OnlyPublish(r) == r.ph = "body" /\ (r.steps = <<>> \/ r.cur.kind \in Unmarked)
                      => \A m \in txns : m.kind = "PUBLISH"

MayUndo(r) == r.ph = "body" /\ r.cur.kind \in Moving \cup {"ABSENT"}

\* What a process knows of the share when it takes its next step.
Ready(r) ==
    /\ AtStep(r, {"begin"}) => txns = {}
    /\ AtStep(r, {"begin", "move"}) /\ r.cur.kind \in Moving => Prepared(r.cur)
    /\ AtStep(r, {"begin", "move", "place", "advance", "append", "undo"}) /\ r.cur.kind # "NONE"
           => ~Committed(journal, r.cur.tx)
    /\ AtStep(r, {"advance", "append", "undo"}) /\ r.cur.kind # "NONE" => Done(r.cur)
    /\ AtStep(r, {"advance", "append", "bump", "undo"}) /\ MayUndo(r) /\ r.cur.kind # "ABSENT" => Moved(r.cur)
    /\ AtStep(r, {"advance", "append", "undo"}) /\ MayUndo(r) => Restores(Recorded, r.cur)
    /\ AtStep(r, {"bump"}) /\ MayUndo(r) =>
           ~Committed(Front(journal), r.cur.tx) /\ Restores(View(manifest, Front(journal)), r.cur)
    /\ AtStep(r, {"bump", "announce"}) => Written(r.cur) /\ (r.cur.kind # "NONE" => Calm({}))
    /\ AtStep(r, {"clear"}) => Calm({})

Fit(r) == Ids(r, nextTx) /\ NotYet(r) /\ Orderly(r) /\ Opened(r) /\ Covers(r) /\ OnlyPublish(r) /\ Ready(r)

AgreeInv == /\ OneMarker /\ CleanLog /\ Agreed /\ ClientsOK /\ PublishAlone
            /\ \A d \in Devices : Fit(proc[d])

\* The four hold together, and so does what they need of one another.
Held == IInv /\ AnnounceInv /\ LostInv /\ AgreeInv

-----------------------------------------------------------------------------
\* The file on record under an overlay.
LEMMA FileOfOverlay ==
    ASSUME NEW R, NEW e, NEW p \in Paths
    PROVE  /\ e[p] = NoEntry => FileOf(Overlay(R, e)[p]) = FileOf(R[p])
           /\ e[p] # NoEntry => FileOf(Overlay(R, e)[p]) = FileOf(e[p])
BY DEF Overlay

\* Nothing that the predicates on a marker read has changed.
LEMMA SameDisk ==
    ASSUME UNCHANGED <<tree, trash, stray>>, \A p \in Paths : FileOf(Recorded'[p]) = FileOf(Recorded[p])
    PROVE  /\ \A S : Calm(S)' <=> Calm(S)
           /\ \A m : /\ Done(m)' <=> Done(m)
                     /\ Written(m)' <=> Written(m)
                     /\ Prepared(m)' <=> Prepared(m)
                     /\ Moved(m)' <=> Moved(m)
                     /\ Exists(m.from)' <=> Exists(m.from)
                     /\ BackupExists(m)' <=> BackupExists(m)
                     /\ Restores(Recorded, m)' <=> Restores(Recorded, m)
           /\ \A R, m : Restores(R, m)' <=> Restores(R, m)
<1>1. \A S : Calm(S)' <=> Calm(S)
    BY DEF Calm, FileOf
<1>2. \A m : Done(m)' <=> Done(m)
  <2> SUFFICES ASSUME NEW m PROVE Done(m)' <=> Done(m)
      OBVIOUS
  <2>1. \A p \in Paths : FileOf(Overlay(Recorded', m.eff)[p]) = FileOf(Overlay(Recorded, m.eff)[p])
      BY FileOfOverlay
  <2> QED BY <2>1 DEF Done, FileOf
<1>3. \A m : Written(m)' <=> Written(m)
    BY DEF Written, Touched, FileOf
<1>4. \A m : /\ Prepared(m)' <=> Prepared(m)
             /\ Moved(m)' <=> Moved(m)
             /\ Exists(m.from)' <=> Exists(m.from)
             /\ BackupExists(m)' <=> BackupExists(m)
    BY DEF Prepared, MoveEffect, Moved, Exists, Files, BackupExists, Renaming, Image, Backups
<1>5. \A m : Undone(m)' = Undone(m)
    BY DEF Undone, Renaming, Image, Backups
<1>6. \A R, m : Restores(R, m)' <=> Restores(R, m)
    BY <1>5 DEF Restores, FileOf
<1>7. \A m : Restores(Recorded, m)' <=> Restores(Recorded, m)
    BY <1>5 DEF Restores, FileOf
<1> QED BY <1>1, <1>2, <1>3, <1>4, <1>6, <1>7

\* The record and the markers stay.
LEMMA SameRecord ==
    ASSUME UNCHANGED <<tree, trash, stray, txns>>, Recorded' = Recorded,
           \A tx : Committed(journal', tx) <=> Committed(journal, tx)
    PROVE  /\ \A q : /\ NotYet(q)' <=> NotYet(q)
                     /\ Opened(q)' <=> Opened(q)
                     /\ Covers(q)' <=> Covers(q)
                     /\ OnlyPublish(q)' <=> OnlyPublish(q)
           /\ OneMarker' <=> OneMarker
           /\ Agreed' <=> Agreed
<1>1. \A p \in Paths : FileOf(Recorded'[p]) = FileOf(Recorded[p])
    OBVIOUS
<1>2. \A q : /\ NotYet(q)' <=> NotYet(q)
             /\ Opened(q)' <=> Opened(q)
             /\ Covers(q)' <=> Covers(q)
             /\ OnlyPublish(q)' <=> OnlyPublish(q)
    BY DEF NotYet, Opened, Covers, OnlyPublish, AtStep, Twin
<1>3. \A S : Calm(S)' <=> Calm(S)
    BY <1>1, SameDisk
<1>4. \A m : /\ Done(m)' <=> Done(m)
             /\ Written(m)' <=> Written(m)
             /\ Moved(m)' <=> Moved(m)
             /\ Exists(m.from)' <=> Exists(m.from)
             /\ BackupExists(m)' <=> BackupExists(m)
    BY <1>1, SameDisk
<1>5. \A m : MarkerOK(m)' <=> MarkerOK(m)
    BY <1>3, <1>4 DEF MarkerOK, Touched
<1> QED BY <1>2, <1>3, <1>5 DEF OneMarker, Agreed

\* So does all that a process may assume, if the journal file stays.
LEMMA SameFit ==
    ASSUME UNCHANGED <<tree, trash, stray, txns, manifest, journal>>
    PROVE  /\ \A q : /\ NotYet(q)' <=> NotYet(q)
                     /\ Opened(q)' <=> Opened(q)
                     /\ Covers(q)' <=> Covers(q)
                     /\ OnlyPublish(q)' <=> OnlyPublish(q)
                     /\ Ready(q)' <=> Ready(q)
           /\ OneMarker' <=> OneMarker
           /\ Agreed' <=> Agreed
<1>1. Recorded' = Recorded
    BY DEF Recorded
<1>2. \A p \in Paths : FileOf(Recorded'[p]) = FileOf(Recorded[p])
    BY <1>1
<1>3. \A tx : Committed(journal', tx) <=> Committed(journal, tx)
    OBVIOUS
<1>4. \A S : Calm(S)' <=> Calm(S)
    BY <1>2, SameDisk
<1>5. \A m : /\ Done(m)' <=> Done(m)
             /\ Written(m)' <=> Written(m)
             /\ Prepared(m)' <=> Prepared(m)
             /\ Moved(m)' <=> Moved(m)
             /\ Restores(Recorded, m)' <=> Restores(Recorded, m)
    BY <1>2, SameDisk
<1>6. \A R, m : Restores(R, m)' <=> Restores(R, m)
    BY <1>2, SameDisk
<1>7. \A q : Ready(q)' <=> Ready(q)
  <2> SUFFICES ASSUME NEW q PROVE Ready(q)' <=> Ready(q)
      OBVIOUS
  <2>1. Restores(View(manifest, Front(journal)), q.cur)' <=> Restores(View(manifest, Front(journal)), q.cur)
      BY <1>6
  <2> QED BY <1>1, <1>4, <1>5, <2>1 DEF Ready, AtStep, MayUndo
<1>8. /\ \A q : /\ NotYet(q)' <=> NotYet(q)
                /\ Opened(q)' <=> Opened(q)
                /\ Covers(q)' <=> Covers(q)
                /\ OnlyPublish(q)' <=> OnlyPublish(q)
      /\ OneMarker' <=> OneMarker
      /\ Agreed' <=> Agreed
    BY <1>1, <1>3, SameRecord
<1> QED BY <1>7, <1>8

\* Ids once reserved stay so.
LEMMA IdsGrow ==
    ASSUME TypeOK, TypeOK', nextTx' >= nextTx, NEW e \in Devices, Ids(proc[e], nextTx)
    PROVE  Ids(proc[e], nextTx')
<1>1. nextTx \in Nat /\ nextTx' \in Nat /\ proc[e].cur.tx[1] \in Nat /\ proc[e].own.tx[1] \in Nat
    BY DEF TypeOK, Procs, Markers, TxIds
<1> QED BY <1>1 DEF Ids

\* The log stays clean while ids grow.
LEMMA CleanStays ==
    ASSUME TypeOK, TypeOK', nextTx' >= nextTx, journal' = journal, CleanLog
    PROVE  CleanLog'
<1>1. nextTx \in Nat /\ nextTx' \in Nat /\ journal \in Seq(Units)
    BY DEF TypeOK
<1>2. \A i \in DOMAIN journal : journal[i] \in Units
    BY <1>1
<1>3. \A i \in DOMAIN journal : journal[i].tx[1] \in Nat
    BY <1>2 DEF Units, TxIds
<1> QED BY <1>1, <1>3 DEF CleanLog

\* A process turns to other work, and the disk stays as it is.
LEMMA TurnAgrees ==
    ASSUME Held, TypeOK', NEW d \in Devices, NEW r, SetProc(d, r), nextTx' >= nextTx,
           UNCHANGED <<tree, trash, stray, txns, manifest, journal>>, ClientsOK', PublishAlone',
           Ids(r, nextTx'), NotYet(r), Orderly(r), Opened(r), Covers(r), OnlyPublish(r), Ready(r)
    PROVE  AgreeInv'
<1>1. proc'[d] = r /\ \A e \in Devices \ {d} : proc'[e] = proc[e]
    BY DEF SetProc, Held, IInv, TypeOK
<1>2. \A q : /\ NotYet(q)' <=> NotYet(q)
             /\ Opened(q)' <=> Opened(q)
             /\ Covers(q)' <=> Covers(q)
             /\ OnlyPublish(q)' <=> OnlyPublish(q)
             /\ Ready(q)' <=> Ready(q)
    BY SameFit
<1>3. OneMarker' /\ Agreed'
    BY SameFit DEF Held, AgreeInv
<1>4. CleanLog'
    BY CleanStays DEF Held, IInv, AgreeInv
<1>5. Fit(proc[d])'
    BY <1>1, <1>2 DEF Fit
<1>6. ASSUME NEW e \in Devices \ {d} PROVE Fit(proc[e])'
  <2>1. proc'[e] = proc[e] /\ Fit(proc[e])
      BY <1>1 DEF Held, AgreeInv
  <2>2. Ids(proc[e], nextTx')
      BY <2>1, IdsGrow DEF Held, IInv, Fit
  <2> QED BY <1>2, <2>1, <2>2 DEF Fit
<1> QED BY <1>3, <1>4, <1>5, <1>6 DEF AgreeInv

\* A process at no step and not under the lock has little to keep.
LEMMA RestFits ==
    ASSUME NEW q, q.steps = <<>>, ~Lockers(q)
    PROVE  Orderly(q) /\ Opened(q) /\ Covers(q) /\ OnlyPublish(q) /\ Ready(q)
BY DEF Orderly, Opened, Covers, OnlyPublish, Ready, AtStep, Lockers

\* The idle process.
LEMMA IdleFits ==
    ASSUME NEW n \in Nat, n >= 1
    PROVE  /\ Idle.steps = <<>> /\ ~Lockers(Idle) /\ Ids(Idle, n) /\ NotYet(Idle) /\ Idle.op = "none"
BY DEF Idle, Lockers, Ids, NotYet, AtStep, NoMarker, NoTxId

\* A process that waits for the lock, or is done.
LEMMA RestAgrees ==
    ASSUME Held, TypeOK', NEW d \in Devices, NEW r, SetProc(d, r), nextTx' >= nextTx,
           UNCHANGED <<tree, trash, stray, txns, manifest, journal>>, ClientsOK', PublishAlone',
           Ids(r, nextTx'), NotYet(r), r.steps = <<>>, ~Lockers(r)
    PROVE  AgreeInv'
<1>1. Orderly(r) /\ Opened(r) /\ Covers(r) /\ OnlyPublish(r) /\ Ready(r)
    BY RestFits
<1> QED BY <1>1, TurnAgrees

\* Processes and the disk stay as they are.
LEMMA StillAgrees ==
    ASSUME Held, TypeOK', UNCHANGED <<proc, tree, trash, stray, txns, manifest, journal, nextTx>>,
           ClientsOK', PublishAlone'
    PROVE  AgreeInv'
<1>1. nextTx' >= nextTx
    BY DEF Held, IInv, TypeOK
<1>2. \A q : /\ NotYet(q)' <=> NotYet(q)
             /\ Opened(q)' <=> Opened(q)
             /\ Covers(q)' <=> Covers(q)
             /\ OnlyPublish(q)' <=> OnlyPublish(q)
             /\ Ready(q)' <=> Ready(q)
    BY SameFit
<1>3. OneMarker' /\ Agreed'
    BY SameFit DEF Held, AgreeInv
<1>4. CleanLog'
    BY <1>1, CleanStays DEF Held, IInv, AgreeInv
<1>5. ASSUME NEW e \in Devices PROVE Fit(proc[e])'
  <2>1. proc'[e] = proc[e] /\ Fit(proc[e])
      BY DEF Held, AgreeInv
  <2> QED BY <1>2, <2>1 DEF Fit
<1> QED BY <1>3, <1>4, <1>5 DEF AgreeInv

-----------------------------------------------------------------------------
(* What a client does, and the start of every command *)

\* While a client uses its lease no marker of a publish is open.
LEMMA NoPublishInUse ==
    ASSUME Held, NEW d \in Devices, sess[d] # "over" \/ proc[d].op \in {"append", "retry", "delete", "browse"}
    PROVE  \A m \in txns : m.kind # "PUBLISH"
BY DEF Held, AgreeInv, PublishAlone

\* Markers stay; every client that is at work still is, or is done.
LEMMA AloneStays ==
    ASSUME Held, txns' = txns, NEW d \in Devices,
           \A e \in Devices \ {d} : sess'[e] \in {sess[e], "over"} /\ proc'[e].op \in {proc[e].op, "none"},
           sess'[d] = "over" \/ (\A m \in txns : m.kind # "PUBLISH") \/ sess'[d] = sess[d],
           \/ proc'[d].op \in {"none", "compact", "wait", "publish"}
           \/ \A m \in txns : m.kind # "PUBLISH"
           \/ proc'[d].op = proc[d].op
    PROVE  PublishAlone'
BY DEF Held, AgreeInv, PublishAlone

\* A client starts a command.
LEMMA StartAgrees ==
    ASSUME Held, TypeOK', NEW d \in Devices, NEW op, NEW own, NEW req, NEW next,
           Start(d, op, own, req, next), sess[d] # "over", nextTx' >= nextTx,
           op # "wait", op = "publish" => next = "over" /\ ~Committed(journal, own.tx),
           op = "append" => own.tx[1] + 1 < nextTx',
           op = "retry" => own.tx[1] < nextTx'
    PROVE  AgreeInv'
<1> DEFINE r == [Idle EXCEPT !.op = op, !.ph = "lock", !.own = own, !.req = req]
<1>1. /\ SetProc(d, r) /\ sess' = [sess EXCEPT ![d] = next] /\ Granted(d)
      /\ UNCHANGED <<tree, trash, stray, txns, manifest, journal, lease, pending>>
    BY DEF Start
<1>2. r.steps = <<>> /\ r.ph = "lock" /\ r.cur = NoMarker /\ r.op = op /\ r.own = own
    BY DEF Idle
<1> HIDE DEF r
<1>3. /\ nextTx \in Nat /\ nextTx' \in Nat /\ nextTx >= 1 /\ lease = d
      /\ proc'[d] = r /\ \A e \in Devices \ {d} : proc'[e] = proc[e]
      /\ sess'[d] = next /\ \A e \in Devices \ {d} : sess'[e] = sess[e]
    BY <1>1 DEF Held, IInv, TypeOK, AnnounceInv, TagInv, Granted, SetProc
<1>4. \A m \in txns : m.kind # "PUBLISH"
    BY NoPublishInUse
<1>5. Ids(r, nextTx')
    BY <1>2, <1>3 DEF Ids, NoMarker, NoTxId
<1>6. NotYet(r)
    BY <1>2, <1>4 DEF NotYet
<1>7. \A e \in Devices : pending[e].tx[1] < nextTx /\ pending[e].tx[1] \in Nat
    BY DEF Held, AgreeInv, ClientsOK, IInv, TypeOK, TxIds
<1>8. ClientsOK'
    BY <1>1, <1>2, <1>3, <1>7 DEF Held, AgreeInv, ClientsOK
<1>9. PublishAlone'
    BY <1>1, <1>4 DEF PublishAlone
<1> QED BY <1>1, <1>2, <1>5, <1>6, <1>8, <1>9, RestAgrees DEF Lockers

\* transfer-wait takes the lease.
LEMMA WaitAgrees ==
    ASSUME Held, TypeOK', NEW d \in Devices, TransferWait(d)
    PROVE  AgreeInv'
<1> DEFINE r == [Idle EXCEPT !.op = "wait", !.ph = "lock"]
<1>1. /\ SetProc(d, r) /\ lease = NoDevice /\ lease' = d
      /\ UNCHANGED <<tree, trash, stray, txns, manifest, journal, sess, pending, nextTx>>
    BY DEF TransferWait
<1>2. r.steps = <<>> /\ r.ph = "lock" /\ r.cur = NoMarker /\ r.op = "wait"
    BY DEF Idle
<1> HIDE DEF r
<1>3. /\ nextTx \in Nat /\ nextTx >= 1
      /\ proc'[d] = r /\ \A e \in Devices \ {d} : proc'[e] = proc[e]
    BY <1>1 DEF Held, IInv, TypeOK, AnnounceInv, TagInv, SetProc
<1>4. Ids(r, nextTx') /\ NotYet(r)
    BY <1>1, <1>2, <1>3 DEF Ids, NoMarker, NoTxId, NotYet, AtStep
<1>5. \A e \in Devices : sess[e] = "over"
    BY <1>1, ServerAssumption DEF Held, AgreeInv, ClientsOK
<1>6. ClientsOK'
    BY <1>1, <1>2, <1>3, <1>5 DEF Held, AgreeInv, ClientsOK
<1>7. PublishAlone'
    BY <1>1, <1>2, <1>3, AloneStays
<1> QED BY <1>1, <1>2, <1>3, <1>4, <1>6, <1>7, RestAgrees DEF Lockers

\* A lease session ends; without orphans its device has no command running.
LEMMA EndLeaseAgrees ==
    ASSUME Held, TypeOK', ~Orphans, NEW d \in Devices, EndLease(d)
    PROVE  AgreeInv'
<1>1. /\ lease = d /\ proc[d] = Idle /\ lease' = NoDevice /\ sess' = [sess EXCEPT ![d] = "over"]
      /\ UNCHANGED <<tree, trash, stray, txns, manifest, journal, proc, pending, nextTx>>
    BY DEF EndLease
<1>2. sess'[d] = "over" /\ \A e \in Devices \ {d} : sess'[e] = sess[e] /\ sess[e] = "over"
    BY <1>1 DEF Held, AgreeInv, ClientsOK, IInv, TypeOK
<1>3. ClientsOK'
    BY <1>1, <1>2 DEF Held, AgreeInv, ClientsOK
<1>4. PublishAlone'
    BY <1>1, <1>2, AloneStays
<1> QED BY <1>1, <1>3, <1>4, StillAgrees

\* manifest-export and its like wait for the lock without a lease.
LEMMA CompactAgrees ==
    ASSUME Held, TypeOK', NEW d \in Devices, JournalCompact(d)
    PROVE  AgreeInv'
<1> DEFINE r == [Idle EXCEPT !.op = "compact", !.ph = "lock"]
<1>1. /\ SetProc(d, r)
      /\ UNCHANGED <<tree, trash, stray, txns, manifest, journal, sess, pending, lease, nextTx>>
    BY DEF JournalCompact
<1>2. r.steps = <<>> /\ r.ph = "lock" /\ r.cur = NoMarker /\ r.op = "compact"
    BY DEF Idle
<1> HIDE DEF r
<1>3. /\ nextTx \in Nat /\ nextTx >= 1
      /\ proc'[d] = r /\ \A e \in Devices \ {d} : proc'[e] = proc[e]
    BY <1>1 DEF Held, IInv, TypeOK, AnnounceInv, TagInv, SetProc
<1>4. Ids(r, nextTx') /\ NotYet(r)
    BY <1>1, <1>2, <1>3 DEF Ids, NoMarker, NoTxId, NotYet, AtStep
<1>5. ClientsOK'
    BY <1>1, <1>2, <1>3 DEF Held, AgreeInv, ClientsOK
<1>6. PublishAlone'
    BY <1>1, <1>2, <1>3, AloneStays
<1> QED BY <1>1, <1>2, <1>3, <1>4, <1>5, <1>6, RestAgrees DEF Lockers

\* A process without a lease and without a marker to recover only compacts.
LEMMA OnlyCompacts ==
    ASSUME Held, txns = {}, NEW e \in Devices, proc[e].op \in {"none", "compact"},
           proc[e].steps # <<>>
    PROVE  Head(proc[e].steps) \in {"fold", "reset"}
<1> DEFINE q == proc[e]
           s == proc[e].steps
           k == proc[e].cur.kind
<1>1. /\ s \in Seq(Steps) /\ k \in Kinds /\ InSection(e)
      /\ Orderly(q) /\ Opened(q) /\ MoveReady(q)
    BY DEF Held, IInv, TypeOK, Procs, Markers, StepsInSection, AgreeInv, Fit, LostInv, MoveInv
<1>2. Linked(s, k) /\ Head(s) = s[1] /\ Len(s) >= 1 /\ Len(s) \in Nat
    BY <1>1 DEF Orderly
<1>3. Head(s) \in StepsOf(k)
  <2>1. 1 \in 1 .. Len(s)
      BY <1>2
  <2> QED BY <1>2, <2>1 DEF Linked
<1>4. q.ph = "body"
  <2>1. ASSUME q.ph = "recover" PROVE FALSE
    <3>1. k \notin Unmarked /\ ~AtStep(q, {"begin"})
        BY <1>1, <2>1 DEF Orderly, AtStep
    <3> QED BY <1>1, <3>1 DEF Opened
  <2> QED BY <1>1, <2>1 DEF InSection
<1>5. k \in Unmarked
  <2>1. k # "PUBLISH"
      BY <1>1, <1>4 DEF Orderly
  <2>2. k \notin Moving
      BY <1>1, <1>4 DEF MoveReady
  <2> QED BY <1>1, <2>1, <2>2 DEF Kinds, Moving, Unmarked
<1>6. Head(s) \notin {"append", "bump"}
    BY <1>1, <1>5 DEF Orderly, AtStep
<1> QED BY <1>3, <1>5, <1>6 DEF StepsOf, Unmarked

\* An upload; no marker is open.
LEMMA UploadAgrees ==
    ASSUME Held, TypeOK', NEW d \in Devices, NEW p \in Paths, NEW v \in Versions,
           Upload(d, p, v), txns = {}
    PROVE  AgreeInv'
<1>1. /\ tree' = [tree EXCEPT ![p] = v] /\ stray' = stray \cup {p}
      /\ proc[d] = Idle /\ lease = d /\ sess' = [sess EXCEPT ![d] = "upload"]
      /\ UNCHANGED <<txns, manifest, journal, proc, pending, lease, nextTx>>
    BY DEF Upload, Pushing, Granted
<1>2. \A e \in Devices : proc[e].op \in {"none", "compact"}
  <2>1. Idle.op = "none"
      BY DEF Idle
  <2> QED BY <1>1, <2>1 DEF Held, LostInv, LeaseInv
<1>3. \A e \in Devices : proc[e].steps # <<>> => Head(proc[e].steps) \in {"fold", "reset"}
    BY <1>2, OnlyCompacts
<1>4. \A e \in Devices : Ready(proc[e])'
    BY <1>1, <1>3 DEF Ready, AtStep
<1>5. \A e \in Devices : /\ NotYet(proc[e])' /\ Orderly(proc[e])' /\ Opened(proc[e])'
                         /\ Covers(proc[e])' /\ OnlyPublish(proc[e])' /\ Ids(proc[e], nextTx)'
  <2> SUFFICES ASSUME NEW e \in Devices
               PROVE  /\ NotYet(proc[e])' /\ Orderly(proc[e])' /\ Opened(proc[e])'
                      /\ Covers(proc[e])' /\ OnlyPublish(proc[e])' /\ Ids(proc[e], nextTx)'
      OBVIOUS
  <2>1. Fit(proc[e])
      BY DEF Held, AgreeInv
  <2> QED BY <1>1, <2>1 DEF Fit, NotYet, Orderly, Opened, Covers, OnlyPublish, Ids, AtStep, Linked
<1>6. Agreed'
  <2>1. Calm({})
      BY DEF Held, AgreeInv, Agreed
  <2>2. \A q \in Paths \ stray' : FileOf(Recorded'[q]) = tree'[q]
    <3>1. Recorded' = Recorded
        BY <1>1 DEF Recorded
    <3>2. \A q \in Paths \ stray' : tree'[q] = tree[q]
        BY <1>1 DEF Held, IInv, TypeOK
    <3> QED BY <1>1, <2>1, <3>1, <3>2 DEF Calm
  <2>3. Calm({})'
      BY <2>2 DEF Calm, FileOf
  <2> QED BY <1>1, <2>3 DEF Agreed
<1>7. CleanLog' /\ OneMarker'
    BY <1>1 DEF Held, AgreeInv, CleanLog, OneMarker
<1>8. ClientsOK'
    BY <1>1, <1>2 DEF Held, AgreeInv, ClientsOK, IInv, TypeOK
<1>9. PublishAlone'
    BY <1>1 DEF PublishAlone
<1> QED BY <1>4, <1>5, <1>6, <1>7, <1>8, <1>9 DEF AgreeInv, Fit

\* A client's clean-up or upload of staged files.
LEMMA StagingAgrees ==
    ASSUME Held, TypeOK',
           UNCHANGED <<proc, tree, trash, stray, txns, manifest, journal, nextTx, sess, lease, pending>>
    PROVE  AgreeInv'
<1>1. ClientsOK' /\ PublishAlone'
    BY DEF Held, AgreeInv, ClientsOK, PublishAlone
<1> QED BY <1>1, StillAgrees

\* What a client does on its own, and how a command begins.
LEMMA RequestAgrees ==
    ASSUME Held, TypeOK', ~Orphans, NEW d \in Devices, Request(d), ~Spoils
    PROVE  AgreeInv'
<1>0. nextTx \in Nat /\ nextTx' \in Nat
    BY DEF Held, IInv, TypeOK
<1>1. CASE JournalAppend(d)
  <2> DEFINE own == [NoMarker EXCEPT !.tx = FreshTx(nextTx), !.eff = batch[d]]
  <2>1. Start(d, "append", own, NoEffect, "over") /\ sess[d] # "over" /\ nextTx' = nextTx + 2
      BY <1>1 DEF JournalAppend, Pushing
  <2>2. own.tx[1] = nextTx
      BY DEF NoMarker, FreshTx
  <2> HIDE DEF own
  <2> QED BY <1>0, <2>1, <2>2, StartAgrees
<1>2. CASE JournalRetry(d)
  <2> DEFINE own == [NoMarker EXCEPT !.tx = pending[d].tx, !.eff = pending[d].eff]
  <2>1. Start(d, "retry", own, NoEffect, "over") /\ sess[d] # "over" /\ nextTx' = nextTx
      BY <1>2 DEF JournalRetry
  <2>2. own.tx[1] = pending[d].tx[1]
      BY DEF NoMarker
  <2>3. own.tx[1] < nextTx'
      BY <2>1, <2>2 DEF Held, AgreeInv, ClientsOK
  <2> HIDE DEF own
  <2> QED BY <1>0, <2>1, <2>3, StartAgrees
<1>3. ASSUME NEW req \in DeleteRequests, CheckedDelete(d, req) PROVE AgreeInv'
  <2>1. Start(d, "delete", NoMarker, req, "confirm") /\ sess[d] # "over" /\ nextTx' = nextTx
      BY <1>3 DEF CheckedDelete, Pushing
  <2> QED BY <1>0, <2>1, StartAgrees
<1>4. ASSUME NEW S \in Trees, BrowseDelete(d, S) PROVE AgreeInv'
  <2> DEFINE own == [NoMarker EXCEPT !.kind = "BROWSE_DELETE", !.from = S]
  <2>1. Start(d, "browse", own, NoEffect, "over") /\ sess[d] # "over" /\ nextTx' = nextTx
      BY <1>4 DEF BrowseDelete
  <2> HIDE DEF own
  <2> QED BY <1>0, <2>1, StartAgrees
<1>5. ASSUME NEW r \in Renames, BrowseRename(d, r) PROVE AgreeInv'
  <2> DEFINE own == RenameOf(r, "BROWSE_RENAME_V1")
  <2>1. Start(d, "browse", own, NoEffect, "over") /\ sess[d] # "over" /\ nextTx' = nextTx
      BY <1>5 DEF BrowseRename
  <2> HIDE DEF own
  <2> QED BY <1>0, <2>1, StartAgrees
<1>6. ASSUME NEW r \in Renames, NEW v \in Versions, RenameRemote(d, r, v) PROVE AgreeInv'
  <2> DEFINE own == RenameOf(r, "BROWSE_RENAME_V2")
             req == [p \in Paths |-> IF p \in own.from THEN v ELSE NoEntry]
  <2>1. Start(d, "browse", own, req, "plan") /\ sess[d] # "over" /\ nextTx' = nextTx
      BY <1>6 DEF RenameRemote, Pushing
  <2> HIDE DEF own, req
  <2> QED BY <1>0, <2>1, StartAgrees
<1>7. ASSUME NEW b \in StageBatches, StagingPublish(d, b) PROVE AgreeInv'
  <2> DEFINE own == [NoMarker EXCEPT !.kind = "PUBLISH", !.tx = <<0, b>>, !.eff = b]
  <2>1. Start(d, "publish", own, NoEffect, "over") /\ sess[d] # "over" /\ nextTx' = nextTx
      BY <1>7 DEF StagingPublish, Pushing
  <2>2. own.tx = <<0, b>>
      BY DEF NoMarker
  <2>3. ~Committed(journal, own.tx)
      BY <1>7, <2>2 DEF Spoils
  <2> HIDE DEF own
  <2> QED BY <1>0, <2>1, <2>3, StartAgrees
<1>8. ASSUME NEW p \in Paths, NEW v \in Versions, Upload(d, p, v) PROVE AgreeInv'
    BY <1>8, UploadAgrees DEF Spoils
<1>9. ASSUME NEW b \in StageBatches, StageCleanup(d, b) PROVE AgreeInv'
  <2>1. UNCHANGED <<proc, tree, trash, stray, txns, manifest, journal, nextTx, sess, lease, pending>>
      BY <1>9 DEF StageCleanup
  <2> QED BY <2>1, StagingAgrees
<1>10. CASE TransferWait(d) \/ EndLease(d) \/ JournalCompact(d)
    BY <1>10, WaitAgrees, EndLeaseAgrees, CompactAgrees
<1> QED BY <1>1, <1>2, <1>3, <1>4, <1>5, <1>6, <1>7, <1>8, <1>9, <1>10 DEF Request

-----------------------------------------------------------------------------
(* A command ends, or gives up its steps *)

\* What an append leaves that was cut at a line boundary is never read.
LEMMA CutFacts ==
    ASSUME TypeOK, CleanLog, Tears \subseteq {"line"}, NEW d \in Devices, manifest' = manifest,
           journal' \in {journal} \cup (IF Doing(d, "append") THEN CutShort(proc[d].cur) ELSE {}),
           proc[d].cur.tx[1] < nextTx, nextTx' = nextTx
    PROVE  /\ Recorded' = Recorded
           /\ \A tx : Committed(journal', tx) <=> Committed(journal, tx)
           /\ CleanLog'
           /\ journal' # journal => Doing(d, "append")
<1>1. CASE journal' = journal
    BY <1>1 DEF Recorded, CleanLog
<1>2. CASE Doing(d, "append") /\ journal' \in CutShort(proc[d].cur)
  <2> DEFINE u == UnitOf(proc[d].cur, "line")
  <2>1. journal' = Append(journal, u)
      BY <1>2 DEF CutShort
  <2>2. u \in Units /\ u.end = "line" /\ u.tx = proc[d].cur.tx /\ journal \in Seq(Units)
          /\ manifest \in Effects
      BY DEF TypeOK, Procs, Markers, UnitOf, Units, Ends
  <2> HIDE DEF u
  <2>3. /\ DOMAIN Append(journal, u) = 1 .. Len(journal) + 1 /\ DOMAIN journal = 1 .. Len(journal)
        /\ Len(journal) \in Nat
        /\ \A i \in 1 .. Len(journal) : Append(journal, u)[i] = journal[i]
        /\ Append(journal, u)[Len(journal) + 1] = u
      BY <2>2
  <2>4. ~Effective(Append(journal, u), Len(journal) + 1)
      BY <2>2, <2>3 DEF Effective
  <2>5. View(manifest, Append(journal, u)) = View(manifest, journal)
      BY <2>2, <2>4, ViewOfAppend
  <2>6. Recorded' = Recorded
      BY <2>1, <2>5 DEF Recorded
  <2>7. \A i \in 1 .. Len(journal) + 1 : i \in 1 .. Len(journal) \/ i = Len(journal) + 1
      BY <2>3
  <2>8. \A i \in 1 .. Len(journal) : i \in 1 .. Len(journal) + 1
      BY <2>3
  <2>9. \A tx : Committed(journal', tx) <=> Committed(journal, tx)
      BY <2>1, <2>2, <2>3, <2>7, <2>8 DEF Committed
  <2>10. CleanLog'
      BY <2>1, <2>2, <2>3, <2>7 DEF CleanLog
  <2> QED BY <1>2, <2>6, <2>9, <2>10
<1> QED BY <1>1, <1>2

\* A process gives up its steps, perhaps in the middle of an append.
LEMMA HaltAgrees ==
    ASSUME Held, TypeOK', Tears \subseteq {"line"}, NEW d \in Devices, NEW r, SetProc(d, r), nextTx' = nextTx,
           UNCHANGED <<tree, trash, stray, txns, manifest>>,
           journal' \in {journal} \cup (IF Doing(d, "append") THEN CutShort(proc[d].cur) ELSE {}),
           ClientsOK', PublishAlone',
           r.steps = <<>>, Ids(r, nextTx), NotYet(r), Covers(r), OnlyPublish(r)
    PROVE  AgreeInv'
<1>1. proc'[d] = r /\ \A e \in Devices \ {d} : proc'[e] = proc[e]
    BY DEF SetProc, Held, IInv, TypeOK
<1>2. \A e \in Devices : Fit(proc[e])
    BY DEF Held, AgreeInv
<1>3. /\ Recorded' = Recorded
      /\ \A tx : Committed(journal', tx) <=> Committed(journal, tx)
      /\ CleanLog'
      /\ journal' # journal => Doing(d, "append")
  <2>1. TypeOK /\ CleanLog /\ proc[d].cur.tx[1] < nextTx
      BY <1>2 DEF Held, IInv, AgreeInv, Fit, Ids
  <2> QED BY <2>1, CutFacts
<1>4. /\ \A q : /\ NotYet(q)' <=> NotYet(q)
                /\ Opened(q)' <=> Opened(q)
                /\ Covers(q)' <=> Covers(q)
                /\ OnlyPublish(q)' <=> OnlyPublish(q)
      /\ OneMarker' /\ Agreed'
    BY <1>3, SameRecord DEF Held, AgreeInv
<1>5. ASSUME NEW e \in Devices, proc'[e].steps = <<>>
      PROVE  Orderly(proc[e])' /\ Opened(proc[e])' /\ Ready(proc[e])'
    BY <1>5 DEF Orderly, Opened, Ready, AtStep
<1>6. Fit(proc[d])'
    BY <1>1, <1>4, <1>5 DEF Fit
<1>7. ASSUME NEW e \in Devices \ {d} PROVE Fit(proc[e])'
  <2>1. proc'[e] = proc[e] /\ Fit(proc[e])
      BY <1>1, <1>2
  <2>2. CASE proc[e].steps = <<>>
    <3>1. Orderly(proc[e])' /\ Opened(proc[e])' /\ Ready(proc[e])'
        BY <1>5, <2>1, <2>2
    <3> QED BY <1>4, <2>1, <3>1 DEF Fit
  <2>3. CASE proc[e].steps # <<>>
    <3>1. ~Doing(d, "append")
        BY <2>3 DEF Held, IInv, StepsInSection, OneInSection, Doing
    <3>2. journal' = journal
        BY <1>3, <3>1
    <3>3. \A q : Ready(q)' <=> Ready(q)
        BY <3>2, SameFit
    <3> QED BY <1>4, <2>1, <3>3 DEF Fit
  <2> QED BY <2>2, <2>3
<1> QED BY <1>3, <1>4, <1>6, <1>7 DEF AgreeInv

\* An error or a kill of the whole command: the client keeps what it needs.
LEMMA BreakClients ==
    ASSUME Held, TypeOK', NEW d \in Devices, Break(d), txns' = txns, nextTx' = nextTx
    PROVE  ClientsOK' /\ PublishAlone'
<1>1. /\ proc'[d] = Idle /\ \A e \in Devices \ {d} : proc'[e] = proc[e]
      /\ Idle.op = "none"
    BY DEF Break, SetProc, Held, IInv, TypeOK, Idle
<1>2. \A e \in Devices : /\ sess'[e] = sess[e] \/ sess'[e] = "over"
                         /\ e # d => sess'[e] = sess[e]
    BY DEF Break, Held, IInv, TypeOK
<1>3. lease' = lease \/ (lease' = NoDevice /\ proc[d].op = "wait" /\ lease = d)
    BY DEF Break, Held, LostInv, LeaseInv
<1>4. \A e \in Devices : pending'[e].tx[1] < nextTx
  <2>1. \A e \in Devices : pending[e].tx[1] < nextTx
      BY DEF Held, AgreeInv, ClientsOK
  <2>2. Saved(d).tx[1] < nextTx
    <3>1. Ids(proc[d], nextTx)
        BY DEF Held, AgreeInv, Fit
    <3> QED BY <2>1, <3>1 DEF Saved, Ids, FreshTx
  <2>3. \A e \in Devices : pending'[e] = IF e = d THEN Saved(d) ELSE pending[e]
      BY DEF Break, Held, IInv, TypeOK
  <2> QED BY <2>1, <2>2, <2>3
<1>5. ClientsOK'
  <2> SUFFICES ASSUME NEW e \in Devices
               PROVE  /\ sess'[e] # "over" => lease' = e
                      /\ proc'[e].op \in {"publish", "wait"} => sess'[e] = "over"
      BY <1>4 DEF ClientsOK
  <2>1. /\ sess[e] # "over" => lease = e
        /\ proc[e].op \in {"publish", "wait"} => sess[e] = "over"
        /\ proc[d].op \in {"publish", "wait"} => sess[d] = "over"
      BY DEF Held, AgreeInv, ClientsOK
  <2> QED BY <1>1, <1>2, <1>3, <2>1
<1>6. PublishAlone'
    BY <1>1, <1>2, AloneStays
<1> QED BY <1>5, <1>6

\* So the command that breaks leaves everything in agreement.
LEMMA BreakAgrees ==
    ASSUME Held, TypeOK', Tears \subseteq {"line"}, NEW d \in Devices, Break(d), nextTx' = nextTx,
           UNCHANGED <<tree, trash, stray, txns, manifest>>,
           journal' \in {journal} \cup (IF Doing(d, "append") THEN CutShort(proc[d].cur) ELSE {})
    PROVE  AgreeInv'
<1>1. ClientsOK' /\ PublishAlone'
    BY BreakClients
<1>2. /\ Idle.steps = <<>> /\ Ids(Idle, nextTx) /\ NotYet(Idle) /\ Covers(Idle) /\ OnlyPublish(Idle)
  <2>1. nextTx \in Nat /\ nextTx >= 1
      BY DEF Held, IInv, TypeOK, AnnounceInv, TagInv
  <2> QED BY <2>1, IdleFits, RestFits
<1>3. SetProc(d, Idle)
    BY DEF Break
<1> QED BY <1>1, <1>2, <1>3, HaltAgrees

\* A command that succeeds; the disk stays as it is.
LEMMA SucceedAgrees ==
    ASSUME Held, TypeOK', NEW d \in Devices, SetProc(d, Idle), nextTx' = nextTx,
           UNCHANGED <<tree, trash, stray, txns, manifest, journal, lease, sess>>,
           \A e \in Devices : pending'[e] = pending[e] \/ pending'[e] = NoPayload
    PROVE  AgreeInv'
<1>1. /\ proc'[d] = Idle /\ \A e \in Devices \ {d} : proc'[e] = proc[e]
      /\ Idle.op = "none" /\ nextTx \in Nat /\ nextTx >= 1
    BY DEF SetProc, Held, IInv, TypeOK, Idle, AnnounceInv, TagInv
<1>2. NoPayload.tx[1] = 0
    BY DEF NoPayload, NoTxId
<1>3. ClientsOK'
    BY <1>1, <1>2 DEF Held, AgreeInv, ClientsOK
<1>4. PublishAlone'
    BY <1>1, AloneStays
<1> QED BY <1>1, <1>3, <1>4, IdleFits, RestAgrees

\* The NAS restarts.
LEMMA RestartAgrees ==
    ASSUME Held, TypeOK', Restart
    PROVE  AgreeInv'
<1>1. /\ \A e \in Devices : proc'[e] = Idle /\ sess'[e] = "over" /\ pending'[e] = Saved(e)
      /\ UNCHANGED <<tree, trash, stray, txns, manifest, journal, nextTx>>
    BY DEF Restart
<1>2. nextTx \in Nat /\ nextTx >= 1
    BY DEF Held, IInv, TypeOK, AnnounceInv, TagInv
<1>3. \A e \in Devices : Saved(e).tx[1] < nextTx
  <2> SUFFICES ASSUME NEW e \in Devices PROVE Saved(e).tx[1] < nextTx
      OBVIOUS
  <2>1. Ids(proc[e], nextTx) /\ pending[e].tx[1] < nextTx
      BY DEF Held, AgreeInv, Fit, ClientsOK
  <2> QED BY <2>1 DEF Saved, Ids, FreshTx
<1>4. /\ Idle.steps = <<>> /\ ~Lockers(Idle) /\ Ids(Idle, nextTx) /\ NotYet(Idle) /\ Idle.op = "none"
    BY <1>2, IdleFits
<1>5. Orderly(Idle) /\ Opened(Idle) /\ Covers(Idle) /\ OnlyPublish(Idle) /\ Ready(Idle)
    BY <1>4, RestFits
<1>6. ClientsOK' /\ PublishAlone'
    BY <1>1, <1>3, <1>4 DEF ClientsOK, PublishAlone
<1>7. \A q : /\ NotYet(q)' <=> NotYet(q)
             /\ Opened(q)' <=> Opened(q)
             /\ Covers(q)' <=> Covers(q)
             /\ OnlyPublish(q)' <=> OnlyPublish(q)
             /\ Ready(q)' <=> Ready(q)
    BY <1>1, SameFit
<1>8. OneMarker' /\ Agreed'
    BY <1>1, SameFit DEF Held, AgreeInv
<1>9. CleanLog'
    BY <1>1, CleanStays, <1>2 DEF Held, IInv, AgreeInv
<1>10. \A e \in Devices : Fit(proc[e])'
    BY <1>1, <1>4, <1>5, <1>7 DEF Fit
<1> QED BY <1>6, <1>8, <1>9, <1>10 DEF AgreeInv

\* The fields of a process with other steps, and of one that has given them up.
LEMMA PlanFields ==
    ASSUME TypeOK, NEW d \in Devices, NEW plan, NEW r, r = [proc[d] EXCEPT !.steps = plan]
    PROVE  /\ r.steps = plan /\ r.ph = proc[d].ph /\ r.todo = proc[d].todo /\ r.op = proc[d].op
           /\ r.own = proc[d].own /\ r.cur = proc[d].cur
<1>1. proc[d] \in Procs
    BY DEF TypeOK
<1> QED BY <1>1 DEF Procs

\* The fields of a process that gives up its steps.
LEMMA HaltedFields ==
    ASSUME TypeOK, NEW d \in Devices, NEW r, r = Halted(d)
    PROVE  /\ r.steps = <<>> /\ r.ph = proc[d].ph /\ r.todo = proc[d].todo /\ r.op = proc[d].op
           /\ r.own = proc[d].own /\ r.cur = NoMarker
<1>1. proc[d] \in Procs
    BY DEF TypeOK
<1> QED BY <1>1 DEF Procs, Halted

\* The kind of a step tells the kind of its marker.
LEMMA StepKinds ==
    ASSUME Held, NEW d \in Devices, proc[d].steps # <<>>
    PROVE  /\ proc[d].steps \in Seq(Steps) /\ proc[d].cur.kind \in Kinds /\ InSection(d)
           /\ Linked(proc[d].steps, proc[d].cur.kind) /\ Orderly(proc[d])
           /\ Head(proc[d].steps) \in StepsOf(proc[d].cur.kind)
           /\ Doing(d, "move") \/ Doing(d, "undo") => proc[d].cur.kind \in Moving
           /\ proc[d].cur.kind \notin Unmarked /\ ~Doing(d, "begin") =>
                  \E x \in txns : Twin(x, proc[d].cur) /\ txns = {x}
<1> DEFINE s == proc[d].steps
           k == proc[d].cur.kind
<1>1. /\ s \in Seq(Steps) /\ k \in Kinds /\ InSection(d) /\ Fit(proc[d])
    BY DEF Held, IInv, TypeOK, Procs, Markers, StepsInSection, AgreeInv
<1>2. Linked(s, k) /\ Orderly(proc[d]) /\ Opened(proc[d])
    BY <1>1 DEF Fit, Orderly
<1>3. Head(s) \in StepsOf(k)
  <2>1. Head(s) = s[1] /\ 1 \in 1 .. Len(s)
      BY <1>1
  <2> QED BY <1>2, <2>1 DEF Linked
<1>4. Doing(d, "move") \/ Doing(d, "undo") => k \in Moving
    BY <1>1, <1>3 DEF Doing, StepsOf, Kinds, Moving
<1>5. ASSUME k \notin Unmarked, ~Doing(d, "begin")
      PROVE  \E x \in txns : Twin(x, proc[d].cur) /\ txns = {x}
  <2>1. PICK x \in txns : Twin(x, proc[d].cur)
      BY <1>2, <1>5 DEF Opened, AtStep, Doing
  <2>2. txns = {x}
      BY DEF Held, AgreeInv, OneMarker
  <2> QED BY <2>1, <2>2
<1> QED BY <1>1, <1>2, <1>3, <1>4, <1>5

\* A step of a publish fails, or finds something in its way.
LEMMA PublishHaltAgrees ==
    ASSUME Held, TypeOK', Tears \subseteq {"line"}, NEW d \in Devices, proc[d].steps # <<>>,
           proc[d].cur.kind = "PUBLISH", nextTx' = nextTx,
           UNCHANGED <<tree, trash, stray, txns, manifest>>,
           journal' \in {journal} \cup (IF Doing(d, "append") THEN CutShort(proc[d].cur) ELSE {}),
           IF proc[d].ph = "recover" THEN SetProc(d, Halted(d)) /\ UNCHANGED <<lease, sess, batch, pending>>
                                     ELSE Break(d)
    PROVE  AgreeInv'
<1>1. CASE proc[d].ph # "recover"
    BY <1>1, BreakAgrees
<1>2. CASE proc[d].ph = "recover"
  <2> DEFINE r == Halted(d)
  <2>1. SetProc(d, r) /\ UNCHANGED <<lease, sess, pending>>
      BY <1>2
  <2>2. /\ r.steps = <<>> /\ r.ph = "recover" /\ r.todo = proc[d].todo /\ r.op = proc[d].op
        /\ r.own = proc[d].own /\ r.cur = NoMarker
      BY <1>2, HaltedFields DEF Held, IInv
  <2> HIDE DEF r
  <2>3. /\ Fit(proc[d]) /\ nextTx \in Nat /\ nextTx >= 1
        /\ proc'[d] = r /\ \A e \in Devices \ {d} : proc'[e] = proc[e]
      BY <2>1 DEF Held, AgreeInv, IInv, TypeOK, AnnounceInv, TagInv, SetProc
  <2>4. PICK x \in txns : Twin(x, proc[d].cur) /\ txns = {x}
    <3>1. ~Doing(d, "begin") /\ proc[d].cur.kind \notin Unmarked
        BY <1>2, <2>3 DEF Fit, Orderly, AtStep, Doing, Unmarked
    <3> QED BY <3>1, StepKinds
  <2>5. Covers(r)
    <3>1. r.op # "wait"
        BY <1>2, <2>2, <2>3 DEF Fit, Orderly
    <3> QED BY <2>4, <3>1 DEF Covers, Twin
  <2>6. OnlyPublish(r) /\ NotYet(r)
      BY <1>2, <2>2, <2>3 DEF OnlyPublish, NotYet, Fit
  <2>7. Ids(r, nextTx)
      BY <2>2, <2>3 DEF Fit, Ids, NoMarker, NoTxId
  <2>8. ClientsOK'
    <3>1. \A e \in Devices : proc'[e].op = proc[e].op
        BY <2>2, <2>3
    <3> QED BY <2>1, <3>1 DEF Held, AgreeInv, ClientsOK
  <2>9. PublishAlone'
      BY <2>1, <2>2, <2>3, AloneStays
  <2> QED BY <2>1, <2>2, <2>5, <2>6, <2>7, <2>8, <2>9, HaltAgrees
<1> QED BY <1>1, <1>2

\* A failed step that leaves the journal alone: what follows is the undo of a
\* move that was done, or the end of one that was not.
LEMMA FailStepAgrees ==
    ASSUME Held, TypeOK', NEW d \in Devices, NEW step \in {"begin", "move", "advance", "append"},
           FailStep(d, step), ~Spoils
    PROVE  AgreeInv'
<1> DEFINE m == proc[d].cur
           plan == FailedPlan(m, step)
           r == IF plan = <<>> THEN Halted(d) ELSE [proc[d] EXCEPT !.steps = plan]
<1>1. /\ proc[d].steps # <<>> /\ Head(proc[d].steps) = step /\ m.kind \notin {"NONE", "PUBLISH"}
      /\ UNCHANGED <<tree, trash, stray, txns, manifest, journal, lease, pending, nextTx>>
    BY DEF FailStep, Doing, RollsBack
<1>2. Fit(proc[d]) /\ nextTx \in Nat /\ nextTx >= 1 /\ TypeOK
    BY DEF Held, AgreeInv, IInv, TypeOK, AnnounceInv, TagInv
<1>3. /\ m.kind \in Moving \cup {"ABSENT"} /\ InSection(d) /\ Orderly(proc[d])
      /\ step \in StepsOf(m.kind) /\ (step \in {"begin", "move"} => m.kind \in Moving)
  <2>1. step \in StepsOf(m.kind) /\ m.kind \in Kinds /\ InSection(d) /\ Orderly(proc[d])
      BY <1>1, StepKinds
  <2>2. m.kind \in Moving \cup {"ABSENT"}
      BY <1>1, <2>1 DEF Kinds, Moving
  <2>3. step \in {"begin", "move"} => m.kind # "ABSENT"
      BY <2>1 DEF StepsOf
  <2> QED BY <2>1, <2>2, <2>3
<1>4. proc[d].ph = "body"
  <2>1. proc[d].ph # "recover"
    <3>1. CASE step \in {"begin", "move"}
        BY <1>1, <1>3, <3>1 DEF Orderly, AtStep
    <3>2. CASE step \in {"advance", "append"}
        BY <3>2 DEF Spoils
    <3> QED BY <3>1, <3>2
  <2> QED BY <1>3, <2>1 DEF InSection
<1>5. SetProc(d, r)
    BY <1>4 DEF FailStep
<1>6. /\ r.ph = "body" /\ r.op = proc[d].op /\ r.own = proc[d].own
      /\ plan = <<>> => r.steps = <<>> /\ r.cur = NoMarker
      /\ plan # <<>> => r.steps = plan /\ r.cur = m
    BY <1>2, <1>4, PlanFields, HaltedFields
<1>7. /\ step = "begin" => plan = <<>>
      /\ step = "move" => plan = <<"clear">>
      /\ step \in {"advance", "append"} => plan = IF m.kind = "ABSENT" THEN <<>> ELSE <<"undo", "clear">>
    BY DEF FailedPlan
<1> HIDE DEF r, plan
<1>8. proc'[d] = r /\ \A e \in Devices \ {d} : proc'[e] = proc[e]
    BY <1>2, <1>5 DEF SetProc, TypeOK
<1>9. \A e \in Devices : /\ sess'[e] \in {sess[e], "over"} /\ (e # d => sess'[e] = sess[e])
                         /\ proc'[e].op = proc[e].op
    BY <1>2, <1>6, <1>8 DEF FailStep, TypeOK
<1>10. ClientsOK'
    BY <1>1, <1>9 DEF Held, AgreeInv, ClientsOK
<1>11. PublishAlone'
    BY <1>1, <1>9, AloneStays
<1>12. Ids(r, nextTx) /\ NotYet(r) /\ Covers(r)
  <2>1. Ids(r, nextTx)
      BY <1>2, <1>6 DEF Fit, Ids, NoMarker, NoTxId
  <2>2. r.steps = <<>> \/ Head(r.steps) # "begin"
    <3>1. Head(<<"clear">>) = "clear" /\ Head(<<"undo", "clear">>) = "undo"
        OBVIOUS
    <3> QED BY <1>6, <1>7, <3>1
  <2> QED BY <1>6, <2>1, <2>2 DEF NotYet, AtStep, Covers
<1>13. OnlyPublish(r)
  <2>1. CASE step = "begin"
    <3>1. txns = {}
        BY <1>1, <1>2, <2>1 DEF Fit, Ready, AtStep
    <3> QED BY <3>1 DEF OnlyPublish
  <2>2. CASE m.kind = "ABSENT"
      BY <1>2, <1>4, <2>2 DEF Fit, OnlyPublish, Unmarked
  <2>3. CASE step # "begin" /\ m.kind # "ABSENT"
    <3>1. plan # <<>>
        BY <1>7, <2>3
    <3> QED BY <1>3, <1>6, <2>3, <3>1 DEF OnlyPublish, Unmarked, Moving
  <2> QED BY <2>1, <2>2, <2>3
<1>14. Orderly(r) /\ Opened(r) /\ Ready(r)
  <2>1. CASE plan = <<>>
      BY <1>6, <2>1 DEF Orderly, Opened, Ready, AtStep
  <2>2. CASE plan # <<>>
    <3>1. m.kind \in Moving /\ step # "begin"
        BY <1>3, <1>7, <2>2
    <3>2. PICK x \in txns : Twin(x, m) /\ txns = {x}
      <4>1. ~Doing(d, "begin") /\ m.kind \notin Unmarked
          BY <1>1, <3>1 DEF Doing, Moving, Unmarked
      <4> QED BY <1>1, <4>1, StepKinds
    <3>3. Opened(r)
        BY <1>6, <2>2, <3>2 DEF Opened
    <3>4. Orderly(r)
      <4>1. Linked(<<"clear">>, m.kind) /\ Linked(<<"undo", "clear">>, m.kind)
          BY <3>1 DEF Linked, StepsOf, Links, Moving, Unmarked
      <4>2. Linked(r.steps, m.kind)
          BY <1>6, <1>7, <2>2, <3>1, <4>1
      <4> QED BY <1>6, <2>2, <3>1, <4>2 DEF Orderly, Moving, Unmarked
    <3>5. CASE step = "move"
      <4>1. Prepared(m) /\ ~Committed(journal, m.tx)
          BY <1>1, <1>2, <3>1, <3>5 DEF Fit, Ready, AtStep, Moving
      <4>2. MarkerOK(x)
          BY DEF Held, AgreeInv, Agreed
      <4>3. Calm({})
        <5>1. x.tx = m.tx /\ x.kind = m.kind /\ x.from = m.from
            BY <3>2 DEF Twin
        <5>2. Exists(x.from)
            BY <4>1, <5>1 DEF Prepared
        <5> QED BY <3>1, <4>1, <4>2, <5>1, <5>2 DEF MarkerOK, Moved, Moving
      <4>4. r.steps # <<>> /\ Head(r.steps) = "clear"
          BY <1>6, <1>7, <2>2, <3>5
      <4>5. Ready(r)
          BY <4>3, <4>4 DEF Ready, AtStep
      <4> QED BY <3>3, <3>4, <4>5
    <3>6. CASE step \in {"advance", "append"}
      <4>1. /\ ~Committed(journal, m.tx) /\ Done(m) /\ Moved(m) /\ Restores(Recorded, m)
          BY <1>1, <1>2, <1>4, <3>1, <3>6 DEF Fit, Ready, AtStep, Moving, MayUndo
      <4>2. r.steps # <<>> /\ Head(r.steps) = "undo"
          BY <1>6, <1>7, <2>2, <3>6
      <4>3. Ready(r)
          BY <1>6, <2>2, <4>1, <4>2 DEF Ready, AtStep
      <4> QED BY <3>3, <3>4, <4>3
    <3> QED BY <3>1, <3>5, <3>6
  <2> QED BY <2>1, <2>2
<1>15. nextTx' >= nextTx /\ Ids(r, nextTx')
    BY <1>1, <1>2, <1>12
<1> QED BY <1>1, <1>5, <1>10, <1>11, <1>12, <1>13, <1>14, <1>15, TurnAgrees

-----------------------------------------------------------------------------
(* What an append and a rollback do to the record *)

\* A whole unit behind a clean journal is read, and its transaction committed.
LEMMA CleanAppend ==
    ASSUME NEW w \in Effects, NEW j \in Seq(Units), NEW u \in Units, u.end = "full",
           \A i \in DOMAIN j : j[i].end \in {"full", "line"}
    PROVE  /\ View(w, Append(j, u)) = Overlay(View(w, j), u.eff)
           /\ \A tx : Committed(Append(j, u), tx) <=> Committed(j, tx) \/ tx = u.tx
<1>1. /\ DOMAIN Append(j, u) = 1 .. Len(j) + 1 /\ DOMAIN j = 1 .. Len(j) /\ Len(j) \in Nat
      /\ \A i \in 1 .. Len(j) : Append(j, u)[i] = j[i]
      /\ Append(j, u)[Len(j) + 1] = u
    OBVIOUS
<1>2. Effective(Append(j, u), Len(j) + 1)
  <2>1. Len(j) + 1 > 1 => Len(j) \in 1 .. Len(j) /\ (Len(j) + 1) - 1 = Len(j)
      BY <1>1
  <2>2. Len(j) + 1 > 1 => Append(j, u)[(Len(j) + 1) - 1].end \in {"full", "line"}
      BY <1>1, <2>1
  <2> QED BY <1>1, <2>2 DEF Effective
<1>3. View(w, Append(j, u)) = Overlay(View(w, j), u.eff)
    BY <1>2, ViewOfAppend
<1>4. /\ \A i \in 1 .. Len(j) + 1 : i \in 1 .. Len(j) \/ i = Len(j) + 1
      /\ \A i \in 1 .. Len(j) : i \in 1 .. Len(j) + 1
      /\ Len(j) + 1 \in 1 .. Len(j) + 1
    BY <1>1
<1>5. \A tx : Committed(Append(j, u), tx) <=> Committed(j, tx) \/ tx = u.tx
    BY <1>1, <1>4 DEF Committed
<1> QED BY <1>3, <1>5

\* What StepAppend does to the record.
LEMMA AppendFacts ==
    ASSUME TypeOK, CleanLog, NEW m \in Markers, m.tx[1] < nextTx, nextTx' = nextTx, manifest' = manifest,
           journal' = Append(journal, UnitOf(m, "full"))
    PROVE  /\ Recorded' = Overlay(Recorded, m.eff)
           /\ \A tx : Committed(journal', tx) <=> Committed(journal, tx) \/ tx = m.tx
           /\ CleanLog' /\ Front(journal') = journal /\ View(manifest', Front(journal')) = Recorded
<1> DEFINE u == UnitOf(m, "full")
<1>1. u \in Units /\ u.end = "full" /\ u.tx = m.tx /\ u.eff = m.eff /\ journal \in Seq(Units)
          /\ manifest \in Effects
    BY DEF TypeOK, Markers, UnitOf, Units, Ends
<1>2. journal' = Append(journal, u)
    OBVIOUS
<1> HIDE DEF u
<1>3. \A i \in DOMAIN journal : journal[i].end \in {"full", "line"}
    BY DEF CleanLog
<1>4. /\ View(manifest, Append(journal, u)) = Overlay(View(manifest, journal), u.eff)
      /\ \A tx : Committed(Append(journal, u), tx) <=> Committed(journal, tx) \/ tx = u.tx
    BY <1>1, <1>3, CleanAppend
<1>5. Recorded' = Overlay(Recorded, m.eff)
    BY <1>1, <1>2, <1>4 DEF Recorded
<1>6. CleanLog'
  <2>1. /\ DOMAIN Append(journal, u) = 1 .. Len(journal) + 1 /\ DOMAIN journal = 1 .. Len(journal)
        /\ Len(journal) \in Nat
        /\ \A i \in 1 .. Len(journal) : Append(journal, u)[i] = journal[i]
        /\ Append(journal, u)[Len(journal) + 1] = u
      BY <1>1
  <2>2. \A i \in 1 .. Len(journal) + 1 : i \in 1 .. Len(journal) \/ i = Len(journal) + 1
      BY <2>1
  <2> QED BY <1>1, <1>2, <2>1, <2>2 DEF CleanLog
<1>7. Front(journal') = journal
    BY <1>1, <1>2, FrontOfAppend
<1>8. View(manifest', Front(journal')) = Recorded
    BY <1>7 DEF Recorded
<1> QED BY <1>1, <1>2, <1>4, <1>5, <1>6, <1>7, <1>8

\* What a rollback goes back to.
LEMMA FrontFacts ==
    ASSUME IInv, CleanLog, NEW d \in Devices, Doing(d, "bump")
    PROVE  /\ Recorded = Overlay(View(manifest, Front(journal)), proc[d].cur.eff)
           /\ \A tx : Committed(journal, tx) <=> Committed(Front(journal), tx) \/ tx = proc[d].cur.tx
           /\ \A i \in DOMAIN Front(journal) :
                  Front(journal)[i].end \in {"full", "line"} /\ Front(journal)[i].tx[1] < nextTx
<1> DEFINE u == UnitOf(proc[d].cur, "full")
           j == Front(journal)
<1>1. /\ manifest \in Effects /\ journal \in Seq(Units) /\ journal # <<>> /\ journal[Len(journal)] = u
    BY DEF IInv, TypeOK, BumpFindsUnit
<1>2. u \in Units /\ u.end = "full" /\ u.tx = proc[d].cur.tx /\ u.eff = proc[d].cur.eff
    BY DEF IInv, TypeOK, Procs, Markers, UnitOf, Units, Ends
<1>3. j \in Seq(Units) /\ journal = Append(j, u)
    BY <1>1, FrontOfAppend
<1> HIDE DEF u, j
<1>4. \A i \in DOMAIN j : i \in DOMAIN journal /\ journal[i] = j[i]
    BY <1>3
<1>5. \A i \in DOMAIN j : j[i].end \in {"full", "line"} /\ j[i].tx[1] < nextTx
    BY <1>4 DEF CleanLog
<1>6. /\ View(manifest, journal) = Overlay(View(manifest, j), u.eff)
      /\ \A tx : Committed(journal, tx) <=> Committed(j, tx) \/ tx = u.tx
    BY <1>1, <1>2, <1>3, <1>5, CleanAppend
<1> QED BY <1>2, <1>5, <1>6 DEF Recorded, j

\* The process under the lock changes the disk; the others only wait.
LEMMA SectionAgrees ==
    ASSUME Held, TypeOK', NEW d \in Devices, InSection(d), nextTx' = nextTx,
           \A e \in Devices \ {d} : proc'[e] = proc[e],
           OneMarker', CleanLog', Agreed', ClientsOK', PublishAlone',
           \A e \in Devices : NotYet(proc[e])',
           Ids(proc'[d], nextTx), Orderly(proc'[d]), Opened(proc[d])', Covers(proc[d])',
           OnlyPublish(proc[d])', Ready(proc[d])'
    PROVE  AgreeInv'
<1>1. Fit(proc[d])'
    BY DEF Fit
<1>2. ASSUME NEW e \in Devices \ {d} PROVE Fit(proc[e])'
  <2>1. proc'[e] = proc[e] /\ proc[e].steps = <<>> /\ proc[e].ph \notin {"recover", "body"}
          /\ Ids(proc[e], nextTx)
      BY DEF Held, IInv, StepsInSection, OneInSection, InSection, AgreeInv, Fit
  <2>2. Orderly(proc[e])' /\ Opened(proc[e])' /\ Covers(proc[e])' /\ OnlyPublish(proc[e])' /\ Ready(proc[e])'
      BY <2>1 DEF Orderly, Opened, Covers, OnlyPublish, Ready, AtStep
  <2> QED BY <2>1, <2>2 DEF Fit
<1> QED BY <1>1, <1>2 DEF AgreeInv

-----------------------------------------------------------------------------
(* The steps under the journal lock *)

\* What follows a step of a plan.
LEMMA LinkedTail ==
    ASSUME NEW s \in Seq(Steps), s # <<>>, NEW kind, Linked(s, kind)
    PROVE  /\ Head(s) \in StepsOf(kind)
           /\ Tail(s) # <<>> => /\ Linked(Tail(s), kind)
                                /\ <<Head(s), Head(Tail(s))>> \in Links
                                /\ Head(Tail(s)) \in StepsOf(kind)
           /\ kind \notin Unmarked /\ Tail(s) = <<>> => Head(s) = "clear"
<1>1. /\ Len(s) \in Nat /\ Len(s) >= 1 /\ Len(Tail(s)) = Len(s) - 1 /\ Head(s) = s[1]
      /\ \A i \in 1 .. Len(s) - 1 : Tail(s)[i] = s[i+1]
      /\ Tail(s) # <<>> => Len(s) > 1 /\ Head(Tail(s)) = s[2]
    OBVIOUS
<1>2. Tail(s) = <<>> => Len(s) = 1
  <2>1. Len(<<>>) = 0
      OBVIOUS
  <2>2. Tail(s) = <<>> => Len(Tail(s)) = Len(<<>>)
      OBVIOUS
  <2> QED BY <1>1, <2>1, <2>2
<1>3. /\ \A i \in 1 .. Len(s) : s[i] \in StepsOf(kind)
      /\ \A i \in 2 .. Len(s) : <<s[i-1], s[i]>> \in Links
      /\ kind \notin Unmarked => s[Len(s)] = "clear"
    BY DEF Linked
<1>4. Head(s) \in StepsOf(kind)
    BY <1>1, <1>3
<1>5. ASSUME Tail(s) # <<>>
      PROVE  /\ Linked(Tail(s), kind)
             /\ <<Head(s), Head(Tail(s))>> \in Links
             /\ Head(Tail(s)) \in StepsOf(kind)
  <2>1. 2 \in 1 .. Len(s) /\ 2 \in 2 .. Len(s) /\ 2 - 1 = 1
      BY <1>1, <1>5
  <2>2. <<Head(s), Head(Tail(s))>> \in Links /\ Head(Tail(s)) \in StepsOf(kind)
      BY <1>1, <1>3, <1>5, <2>1
  <2>3. ASSUME NEW i \in 1 .. Len(Tail(s)) PROVE Tail(s)[i] \in StepsOf(kind)
    <3>1. i + 1 \in 1 .. Len(s) /\ Tail(s)[i] = s[i+1]
        BY <1>1
    <3> QED BY <1>3, <3>1
  <2>4. ASSUME NEW i \in 2 .. Len(Tail(s)) PROVE <<Tail(s)[i-1], Tail(s)[i]>> \in Links
    <3>1. i + 1 \in 2 .. Len(s) /\ Tail(s)[i] = s[i+1] /\ Tail(s)[i-1] = s[i] /\ (i + 1) - 1 = i
        BY <1>1
    <3>2. <<s[(i + 1) - 1], s[i + 1]>> \in Links
        BY <1>3, <3>1
    <3> QED BY <3>1, <3>2
  <2>5. Tail(s)[Len(Tail(s))] = s[Len(s)]
    <3>1. Len(Tail(s)) \in 1 .. Len(s) - 1 /\ Len(Tail(s)) + 1 = Len(s)
        BY <1>1, <1>5
    <3> QED BY <1>1, <3>1
  <2>6. Linked(Tail(s), kind)
      BY <1>3, <2>3, <2>4, <2>5 DEF Linked
  <2> QED BY <2>2, <2>6
<1>6. kind \notin Unmarked /\ Tail(s) = <<>> => Head(s) = "clear"
    BY <1>1, <1>3, <1>2
<1> QED BY <1>4, <1>5, <1>6

\* The process after its step keeps its order.
LEMMA PoppedFits ==
    ASSUME Held, NEW d \in Devices, proc[d].steps # <<>>, SetProc(d, Popped(d))
    PROVE  /\ Orderly(proc'[d]) /\ Ids(proc'[d], nextTx)
           /\ proc'[d].steps = Tail(proc[d].steps) /\ proc'[d].ph = proc[d].ph
           /\ proc'[d].todo = proc[d].todo /\ proc'[d].op = proc[d].op /\ proc'[d].own = proc[d].own
           /\ Tail(proc[d].steps) # <<>> =>
                  /\ proc'[d].cur = proc[d].cur
                  /\ <<Head(proc[d].steps), Head(Tail(proc[d].steps))>> \in Links
           /\ \A e \in Devices \ {d} : proc'[e] = proc[e]
           /\ proc[d].cur.kind \notin Unmarked /\ ~Doing(d, "clear") => Tail(proc[d].steps) # <<>>
<1> DEFINE s == proc[d].steps
           q == proc[d]
           r == Popped(d)
<1>1. /\ proc'[d] = r /\ \A e \in Devices \ {d} : proc'[e] = proc[e]
      /\ r.steps = Tail(s) /\ r.ph = q.ph /\ r.todo = q.todo /\ r.op = q.op /\ r.own = q.own
      /\ Tail(s) # <<>> => r.cur = q.cur
    BY PoppedFields DEF Held, IInv
<1>2. r.cur \in {NoMarker, q.cur}
    BY DEF Popped, Held, IInv, TypeOK, Procs
<1> HIDE DEF r
<1>3. s \in Seq(Steps) /\ Orderly(q) /\ Ids(q, nextTx) /\ nextTx \in Nat /\ nextTx >= 1
    BY DEF Held, IInv, TypeOK, Procs, AgreeInv, Fit, AnnounceInv, TagInv
<1>4. Linked(s, q.cur.kind)
    BY <1>3 DEF Orderly
<1>5. /\ Head(s) \in StepsOf(q.cur.kind)
      /\ Tail(s) # <<>> => /\ Linked(Tail(s), q.cur.kind)
                           /\ <<Head(s), Head(Tail(s))>> \in Links
                           /\ Head(Tail(s)) \in StepsOf(q.cur.kind)
      /\ q.cur.kind \notin Unmarked /\ Tail(s) = <<>> => Head(s) = "clear"
    BY <1>3, <1>4, LinkedTail
<1>6. Ids(r, nextTx)
    BY <1>1, <1>2, <1>3 DEF Ids, NoMarker, NoTxId
<1>7. Orderly(r)
  <2> SUFFICES ASSUME r.steps # <<>> PROVE Orderly(r)
      BY DEF Orderly
  <2>1. Linked(r.steps, r.cur.kind) /\ r.cur = q.cur /\ Head(r.steps) = Head(Tail(s)) /\ Tail(s) # <<>>
      BY <1>1, <1>5
  <2>2. <<Head(s), Head(r.steps)>> \in Links
      BY <1>5, <2>1
  <2>3. /\ Head(r.steps) \notin {"begin", "undo"}
        /\ Head(r.steps) = "move" => Head(s) = "begin"
        /\ Head(r.steps) = "bump" => Head(s) = "append"
        /\ Head(r.steps) = "append" => Head(s) = "advance"
      BY <2>2 DEF Links
  <2>4. r.ph = "recover" => /\ r.cur.kind \notin Unmarked /\ ~AtStep(r, {"begin", "move", "undo"})
                            /\ r.cur.kind = "PUBLISH" => r.op # "wait"
      BY <1>1, <1>3, <2>1, <2>3 DEF Orderly, AtStep
  <2>5. r.cur.kind \in Unmarked /\ AtStep(r, {"append", "bump"}) => r.op \in {"append", "retry", "delete"}
    <3>1. r.cur.kind \in Unmarked => Head(s) # "advance"
        BY <1>5, <2>1 DEF StepsOf, Unmarked
    <3> QED BY <1>1, <1>3, <2>1, <2>3, <3>1 DEF Orderly, AtStep
  <2>6. r.ph = "body" /\ r.cur.kind = "PUBLISH" => r.op = "publish"
      BY <1>1, <1>3, <2>1 DEF Orderly
  <2> QED BY <2>1, <2>4, <2>5, <2>6 DEF Orderly
<1>8. q.cur.kind \notin Unmarked /\ ~Doing(d, "clear") => Tail(s) # <<>>
    BY <1>5 DEF Doing
<1> QED BY <1>1, <1>5, <1>6, <1>7, <1>8

\* A step is done that keeps every marker in its place.
LEMMA PopAgrees ==
    ASSUME Held, TypeOK', NEW d \in Devices, proc[d].steps # <<>>, ~Doing(d, "clear"),
           SetProc(d, Popped(d)), UNCHANGED <<nextTx, sess, lease, pending>>,
           OneMarker', CleanLog', Agreed',
           \A m \in txns' : \E x \in txns : Twin(x, m),
           proc[d].cur.kind \notin Unmarked => \E x \in txns' : Twin(x, proc[d].cur),
           \A e \in Devices : proc[e].op = "publish" /\ proc[e].ph \in {"lock", "recover"} =>
               ~Committed(journal', proc[e].own.tx),
           Ready(proc[d])'
    PROVE  AgreeInv'
<1> DEFINE s == proc[d].steps
           q == proc[d]
<1>1. /\ Orderly(proc'[d]) /\ Ids(proc'[d], nextTx)
      /\ proc'[d].steps = Tail(s) /\ proc'[d].ph = q.ph
      /\ proc'[d].todo = q.todo /\ proc'[d].op = q.op /\ proc'[d].own = q.own
      /\ Tail(s) # <<>> => /\ proc'[d].cur = q.cur
                           /\ <<Head(s), Head(Tail(s))>> \in Links
      /\ \A e \in Devices \ {d} : proc'[e] = proc[e]
      /\ q.cur.kind \notin Unmarked => Tail(s) # <<>>
    BY PoppedFits
<1>2. InSection(d) /\ Fit(q)
    BY DEF Held, IInv, StepsInSection, AgreeInv
<1>3. ClientsOK'
  <2>1. \A e \in Devices : proc'[e].op = proc[e].op
      BY <1>1
  <2> QED BY <2>1 DEF Held, AgreeInv, ClientsOK
<1>4. \A m \in txns' : m.kind = "PUBLISH" => \E x \in txns : x.kind = "PUBLISH"
    BY DEF Twin
<1>5. PublishAlone'
  <2>1. \A e \in Devices : proc'[e].op = proc[e].op
      BY <1>1
  <2> QED BY <1>4, <2>1 DEF Held, AgreeInv, PublishAlone
<1>6. \A e \in Devices : NotYet(proc[e])'
  <2> SUFFICES ASSUME NEW e \in Devices,
                      proc'[e].op = "publish",
                      proc'[e].ph \in {"lock", "recover"} \/ AtStep(proc'[e], {"begin"})
               PROVE  ~Committed(journal', proc'[e].own.tx) /\ \A m \in txns' : m.kind # "PUBLISH"
      BY DEF NotYet
  <2>1. proc'[e].op = proc[e].op /\ proc'[e].ph = proc[e].ph /\ proc'[e].own = proc[e].own
      BY <1>1
  <2>2. ~AtStep(proc'[e], {"begin"})
    <3>1. CASE e = d
        BY <1>1, <3>1 DEF AtStep, Links
    <3>2. CASE e # d
      <4>1. proc'[e].steps = <<>>
          BY <1>1, <1>2, <3>2 DEF Held, IInv, StepsInSection, OneInSection
      <4> QED BY <4>1 DEF AtStep
    <3> QED BY <3>1, <3>2
  <2>3. NotYet(proc[e])
      BY DEF Held, AgreeInv, Fit
  <2> QED BY <1>4, <2>1, <2>2, <2>3 DEF NotYet
<1>7. Opened(proc[d])'
    BY <1>1 DEF Opened
<1>8. Covers(proc[d])'
  <2> SUFFICES ASSUME q.ph = "recover", NEW m \in txns'
               PROVE  \/ m.tx \in q.todo
                      \/ proc'[d].steps # <<>> /\ proc'[d].cur.tx = m.tx
                      \/ m.kind = "PUBLISH" /\ q.op # "wait"
      BY <1>1 DEF Covers
  <2>1. q.cur.kind \notin Unmarked
      BY <1>2 DEF Fit, Orderly
  <2>2. PICK x \in txns : Twin(x, m)
      OBVIOUS
  <2>3. \/ x.tx \in q.todo
        \/ q.steps # <<>> /\ q.cur.tx = x.tx
        \/ x.kind = "PUBLISH" /\ q.op # "wait"
      BY <1>2 DEF Fit, Covers
  <2> QED BY <1>1, <2>1, <2>2, <2>3 DEF Twin
<1>9. OnlyPublish(proc[d])'
  <2> SUFFICES ASSUME q.ph = "body", proc'[d].steps = <<>> \/ proc'[d].cur.kind \in Unmarked
               PROVE  \A m \in txns' : m.kind = "PUBLISH"
      BY <1>1 DEF OnlyPublish
  <2>1. q.cur.kind \in Unmarked
      BY <1>1
  <2>2. \A x \in txns : x.kind = "PUBLISH"
      BY <1>2, <2>1 DEF Fit, OnlyPublish
  <2> QED BY <2>2 DEF Twin
<1> QED BY <1>1, <1>2, <1>3, <1>5, <1>6, <1>7, <1>8, <1>9, SectionAgrees

\* Share and journal stay; what a process knows of them does, too.
LEMMA ReadyStays ==
    ASSUME UNCHANGED <<tree, trash, stray, manifest, journal>>
    PROVE  /\ \A q : ~AtStep(q, {"begin"}) => (Ready(q)' <=> Ready(q))
           /\ \A m : MarkerOK(m)' <=> MarkerOK(m)
           /\ \A S : Calm(S)' <=> Calm(S)
<1>1. Recorded' = Recorded
    BY DEF Recorded
<1>2. \A p \in Paths : FileOf(Recorded'[p]) = FileOf(Recorded[p])
    BY <1>1
<1>3. \A S : Calm(S)' <=> Calm(S)
    BY <1>2, SameDisk
<1>4. \A m : /\ Done(m)' <=> Done(m)
             /\ Written(m)' <=> Written(m)
             /\ Prepared(m)' <=> Prepared(m)
             /\ Moved(m)' <=> Moved(m)
             /\ Exists(m.from)' <=> Exists(m.from)
             /\ BackupExists(m)' <=> BackupExists(m)
             /\ Restores(Recorded, m)' <=> Restores(Recorded, m)
    BY <1>2, SameDisk
<1>5. \A R, m : Restores(R, m)' <=> Restores(R, m)
    BY <1>2, SameDisk
<1>6. \A q : ~AtStep(q, {"begin"}) => (Ready(q)' <=> Ready(q))
  <2> SUFFICES ASSUME NEW q, ~AtStep(q, {"begin"}) PROVE Ready(q)' <=> Ready(q)
      OBVIOUS
  <2>1. Restores(View(manifest, Front(journal)), q.cur)' <=> Restores(View(manifest, Front(journal)), q.cur)
      BY <1>5
  <2> QED BY <1>1, <1>3, <1>4, <2>1 DEF Ready, AtStep, MayUndo
<1>7. \A m : MarkerOK(m)' <=> MarkerOK(m)
    BY <1>3, <1>4 DEF MarkerOK, Touched
<1> QED BY <1>3, <1>6, <1>7

\* Nothing that a marker says depends on its stage.
LEMMA TwinOK ==
    ASSUME NEW x, NEW m, Twin(x, m)
    PROVE  /\ MarkerOK(x) <=> MarkerOK(m)
           /\ Moved(x) <=> Moved(m)
           /\ Done(x) <=> Done(m)
           /\ Written(x) <=> Written(m)
           /\ Exists(x.from) <=> Exists(m.from)
           /\ BackupExists(x) <=> BackupExists(m)
<1>1. x.tx = m.tx /\ x.kind = m.kind /\ x.from = m.from /\ x.to = m.to /\ x.eff = m.eff
    BY DEF Twin
<1>2. Done(x) <=> Done(m)
    BY <1>1 DEF Done
<1>3. Written(x) <=> Written(m)
    BY <1>1 DEF Written
<1>4. (Renaming(x) <=> Renaming(m)) /\ Image(x) = Image(m) /\ Backups(x) = Backups(m)
    BY <1>1 DEF Renaming, Image, Backups
<1>5. Exists(x.from) <=> Exists(m.from)
    BY <1>1
<1>6. BackupExists(x) <=> BackupExists(m)
    BY <1>1, <1>4 DEF BackupExists
<1>7. Moved(x) <=> Moved(m)
    BY <1>1, <1>4, <1>5, <1>6 DEF Moved
<1>8. MarkerOK(x) <=> MarkerOK(m)
    BY <1>1, <1>2, <1>3, <1>5, <1>6, <1>7 DEF MarkerOK
<1> QED BY <1>2, <1>3, <1>5, <1>6, <1>7, <1>8

\* A publish that has not begun is not on record.
LEMMA NotYetRecorded ==
    ASSUME Held, NEW e \in Devices, proc[e].op = "publish", proc[e].ph \in {"lock", "recover"}
    PROVE  ~Committed(journal, proc[e].own.tx) /\ \A m \in txns : m.kind # "PUBLISH"
BY DEF Held, AgreeInv, Fit, NotYet

\* What is journaled without a marker is journaled while no marker is open.
LEMMA UnmarkedAlone ==
    ASSUME Held, NEW d \in Devices, Doing(d, "append") \/ Doing(d, "bump"),
           proc[d].cur.kind \in Unmarked
    PROVE  /\ txns = {} /\ proc[d].op \in {"append", "retry", "delete"} /\ lease = d
<1>1. Fit(proc[d]) /\ InSection(d) /\ proc[d].steps # <<>>
    BY DEF Held, IInv, StepsInSection, AgreeInv, Doing
<1>2. proc[d].op \in {"append", "retry", "delete"} /\ proc[d].ph = "body"
    BY <1>1 DEF Fit, Orderly, AtStep, Doing, InSection
<1>3. \A m \in txns : m.kind = "PUBLISH"
    BY <1>1, <1>2 DEF Fit, OnlyPublish
<1>4. \A m \in txns : m.kind # "PUBLISH"
    BY <1>2, NoPublishInUse
<1>5. lease = d
    BY <1>2 DEF Held, LostInv, LeaseInv
<1> QED BY <1>2, <1>3, <1>4, <1>5

\* advance: the marker changes its stage.
LEMMA AdvanceAgrees ==
    ASSUME Held, TypeOK', NEW d \in Devices, StepAdvance(d)
    PROVE  AgreeInv'
<1> DEFINE s == proc[d].steps
           c == proc[d].cur
<1>1. /\ s # <<>> /\ Head(s) = "advance" /\ SetProc(d, Popped(d))
      /\ txns' = {IF m.tx = c.tx THEN [m EXCEPT !.stage = "MOVED"] ELSE m : m \in txns}
      /\ UNCHANGED <<tree, trash, stray, manifest, journal, nextTx, sess, lease, pending>>
    BY DEF StepAdvance, Doing
<1>2. c.kind \notin Unmarked
    BY <1>1, StepKinds DEF StepsOf, Unmarked
<1>3. PICK x \in txns : Twin(x, c) /\ txns = {x}
    BY <1>1, <1>2, StepKinds DEF Doing
<1>4. txns \subseteq Markers
    BY DEF Held, IInv, TypeOK
<1>5. \A m \in txns' : Twin(x, m) /\ Twin(m, c)
    BY <1>1, <1>3, <1>4 DEF Twin, Markers
<1>6. (\E y \in txns' : Twin(y, c)) /\ \A m, n \in txns' : m = n
    BY <1>1, <1>3, <1>5
<1>7. Agreed'
  <2>1. MarkerOK(x)
      BY DEF Held, AgreeInv, Agreed
  <2>2. \A m \in txns' : MarkerOK(m)
      BY <1>5, <2>1, TwinOK
  <2>3. \A m \in txns' : MarkerOK(m)'
      BY <1>1, <2>2, ReadyStays
  <2> QED BY <1>6, <2>3 DEF Agreed
<1>8. /\ proc'[d].steps = Tail(s) /\ proc'[d].ph = proc[d].ph
      /\ Tail(s) # <<>> => proc'[d].cur = c /\ <<Head(s), Head(Tail(s))>> \in Links
      /\ Tail(s) # <<>>
    BY <1>1, <1>2, PoppedFits DEF Doing
<1>9. Ready(proc[d])'
  <2> DEFINE r == Popped(d)
  <2>1. proc'[d] = r
      BY <1>1 DEF SetProc, Held, IInv, TypeOK
  <2> HIDE DEF r
  <2>2. r.steps # <<>> /\ Head(r.steps) = "append" /\ r.cur = c /\ r.ph = proc[d].ph
      BY <1>1, <1>8, <2>1 DEF Links
  <2>3. Ready(proc[d])
      BY DEF Held, AgreeInv, Fit
  <2>4. Ready(r)
      BY <1>1, <2>2, <2>3 DEF Ready, AtStep, MayUndo
  <2>5. ~AtStep(r, {"begin"})
      BY <2>2 DEF AtStep
  <2> QED BY <1>1, <2>1, <2>4, <2>5, ReadyStays
<1>10. CleanLog' /\ OneMarker'
    BY <1>1, <1>6 DEF Held, AgreeInv, CleanLog, OneMarker
<1>11. \A e \in Devices : proc[e].op = "publish" /\ proc[e].ph \in {"lock", "recover"} =>
           ~Committed(journal', proc[e].own.tx)
    BY <1>1, NotYetRecorded
<1> QED BY <1>1, <1>3, <1>5, <1>6, <1>7, <1>9, <1>10, <1>11, PopAgrees DEF Doing

\* clear: the only marker goes.
LEMMA ClearAgrees ==
    ASSUME Held, TypeOK', NEW d \in Devices, StepClear(d)
    PROVE  AgreeInv'
<1> DEFINE s == proc[d].steps
           c == proc[d].cur
<1>1. /\ s # <<>> /\ Head(s) = "clear" /\ SetProc(d, Popped(d))
      /\ txns' = {m \in txns : m.tx # c.tx}
      /\ UNCHANGED <<tree, trash, stray, manifest, journal, nextTx, sess, lease, pending>>
    BY DEF StepClear, Doing
<1>2. c.kind \notin Unmarked /\ InSection(d)
    BY <1>1, StepKinds DEF StepsOf, Unmarked
<1>3. PICK x \in txns : Twin(x, c) /\ txns = {x}
    BY <1>1, <1>2, StepKinds DEF Doing
<1>4. txns' = {}
    BY <1>1, <1>3 DEF Twin
<1>5. /\ proc'[d].steps = Tail(s) /\ Orderly(proc'[d]) /\ Ids(proc'[d], nextTx)
      /\ Tail(s) # <<>> => <<Head(s), Head(Tail(s))>> \in Links
      /\ \A e \in Devices : proc'[e].op = proc[e].op /\ proc'[e].ph = proc[e].ph /\ proc'[e].own = proc[e].own
      /\ \A e \in Devices \ {d} : proc'[e] = proc[e]
    BY <1>1, PoppedFits
<1>6. proc'[d].steps = <<>>
    BY <1>1, <1>5 DEF Links
<1>7. Calm({})
    BY <1>1 DEF Held, AgreeInv, Fit, Ready, AtStep
<1>8. Agreed'
    BY <1>1, <1>4, <1>7, ReadyStays DEF Agreed
<1>9. OneMarker' /\ CleanLog' /\ PublishAlone'
    BY <1>1, <1>4 DEF Held, AgreeInv, CleanLog, OneMarker, PublishAlone
<1>10. ClientsOK'
    BY <1>1, <1>5 DEF Held, AgreeInv, ClientsOK
<1>11. \A e \in Devices : NotYet(proc[e])'
  <2> SUFFICES ASSUME NEW e \in Devices, proc'[e].op = "publish",
                      proc'[e].ph \in {"lock", "recover"} \/ AtStep(proc'[e], {"begin"})
               PROVE  ~Committed(journal', proc'[e].own.tx)
      BY <1>4 DEF NotYet
  <2>1. ~AtStep(proc'[e], {"begin"})
    <3>1. e # d => proc'[e].steps = <<>>
        BY <1>2, <1>5 DEF Held, IInv, StepsInSection, OneInSection
    <3> QED BY <1>6, <3>1 DEF AtStep
  <2> QED BY <1>1, <1>5, <2>1, NotYetRecorded
<1>12. Opened(proc[d])' /\ Covers(proc[d])' /\ OnlyPublish(proc[d])' /\ Ready(proc[d])'
    BY <1>4, <1>6 DEF Opened, Covers, OnlyPublish, Ready, AtStep
<1> QED BY <1>1, <1>2, <1>5, <1>8, <1>9, <1>10, <1>11, <1>12, SectionAgrees

\* begin: the marker of the transaction appears, with nothing moved yet.
LEMMA BeginAgrees ==
    ASSUME Held, TypeOK', NEW d \in Devices, StepBegin(d)
    PROVE  AgreeInv'
<1> DEFINE s == proc[d].steps
           q == proc[d]
           c == proc[d].cur
<1>1. /\ s # <<>> /\ Head(s) = "begin" /\ SetProc(d, Popped(d)) /\ txns' = txns \cup {c}
      /\ UNCHANGED <<tree, trash, stray, manifest, journal, nextTx, sess, lease, pending>>
    BY DEF StepBegin, Doing
<1>2. c.kind \notin Unmarked /\ c.kind \in Kinds /\ InSection(d) /\ Orderly(q)
    BY <1>1, StepKinds DEF StepsOf, Unmarked
<1>3. Ready(q) /\ txns = {} /\ ~Committed(journal, c.tx) /\ (c.kind \in Moving => Prepared(c))
    BY <1>1, <1>2 DEF Held, AgreeInv, Fit, Ready, AtStep, Unmarked
<1>4. txns' = {c}
    BY <1>1, <1>3
<1>5. /\ proc'[d].steps = Tail(s) /\ Tail(s) # <<>> /\ Orderly(proc'[d]) /\ Ids(proc'[d], nextTx)
      /\ proc'[d].cur = c /\ proc'[d].ph = q.ph
      /\ <<Head(s), Head(Tail(s))>> \in Links
      /\ \A e \in Devices : proc'[e].op = proc[e].op
      /\ \A e \in Devices \ {d} : proc'[e] = proc[e]
    BY <1>1, <1>2, PoppedFits DEF Doing
<1>6. q.ph = "body" /\ lease = d /\ (c.kind = "PUBLISH" => q.op = "publish")
  <2>1. q.ph = "body"
      BY <1>1, <1>2 DEF Orderly, AtStep, InSection
  <2>2. c.kind = "PUBLISH" => q.op = "publish"
      BY <1>1, <1>2, <2>1 DEF Orderly
  <2>3. c.kind \in Moving => q.op \in {"delete", "browse"}
      BY <1>1, <2>1 DEF Held, LostInv, MoveInv, MoveReady
  <2>4. c.kind \in Moving \/ c.kind = "PUBLISH"
      BY <1>2 DEF Kinds, Moving, Unmarked
  <2> QED BY <2>1, <2>2, <2>3, <2>4 DEF Held, LostInv, LeaseInv
<1>7. Agreed'
  <2>1. Calm({})
      BY <1>3 DEF Held, AgreeInv, Agreed
  <2>2. Calm(Touched(c.eff))
      BY <2>1 DEF Calm
  <2>3. c.kind # "PUBLISH" => c.kind \in Moving
      BY <1>2 DEF Kinds, Moving, Unmarked
  <2>4. MarkerOK(c)
      BY <1>2, <1>3, <2>1, <2>2, <2>3 DEF MarkerOK, Prepared
  <2>5. \A m \in txns' : MarkerOK(m)'
    <3>1. \A m : MarkerOK(m)' <=> MarkerOK(m)
        BY <1>1, ReadyStays
    <3> QED BY <1>4, <2>4, <3>1
  <2> QED BY <1>4, <2>5 DEF Agreed
<1>8. ClientsOK'
    BY <1>1, <1>5 DEF Held, AgreeInv, ClientsOK
<1>9. \A e \in Devices \ {d} : proc[e].op \in {"none", "compact"}
    BY <1>6 DEF Held, LostInv, LeaseInv
<1>10. PublishAlone'
  <2> SUFFICES ASSUME c.kind = "PUBLISH", NEW e \in Devices
               PROVE  sess[e] = "over" /\ proc[e].op \in {"none", "compact", "wait", "publish"}
      BY <1>1, <1>4, <1>5 DEF PublishAlone
  <2> QED BY <1>6, <1>9 DEF Held, AgreeInv, ClientsOK
<1>11. OneMarker' /\ CleanLog'
    BY <1>1, <1>4 DEF Held, AgreeInv, CleanLog, OneMarker
<1>12. Head(Tail(s)) \in {"move", "place"}
    BY <1>1, <1>5 DEF Links
<1>13. \A e \in Devices : NotYet(proc[e])'
  <2>1. ~AtStep(proc'[d], {"begin"})
      BY <1>5, <1>12 DEF AtStep
  <2> QED BY <1>5, <1>6, <1>9, <2>1 DEF NotYet
<1>14. Opened(proc[d])' /\ Covers(proc[d])' /\ OnlyPublish(proc[d])'
    BY <1>2, <1>4, <1>5, <1>6 DEF Opened, Covers, OnlyPublish, Twin
<1>15. Ready(proc[d])'
  <2> DEFINE r == Popped(d)
  <2>1. proc'[d] = r
      BY <1>1 DEF SetProc, Held, IInv, TypeOK
  <2> HIDE DEF r
  <2>2. r.steps # <<>> /\ Head(r.steps) \in {"move", "place"} /\ r.cur = c
      BY <1>5, <1>12, <2>1
  <2>3. Ready(r)
      BY <1>3, <2>2 DEF Ready, AtStep, MayUndo
  <2>4. ~AtStep(r, {"begin"})
      BY <2>2 DEF AtStep
  <2> QED BY <1>1, <2>1, <2>3, <2>4, ReadyStays
<1> QED BY <1>1, <1>2, <1>5, <1>7, <1>8, <1>10, <1>11, <1>13, <1>14, <1>15, SectionAgrees

\* Paths that the record tells truly need not be excepted.
LEMMA StrayShrinks ==
    ASSUME TypeOK, UNCHANGED <<tree, trash, manifest, journal>>, NEW e \in Effects,
           stray' = stray \ (Touched(e) \ Untrue(e)),
           \A p \in Touched(e) : FileOf(Recorded[p]) = FileOf(e[p])
    PROVE  /\ \A S : Calm(S) => Calm(S)'
           /\ \A m : m.eff = e /\ Done(m) => Done(m)'
           /\ \A m : Written(m) => Written(m)'
<1>1. Recorded' = Recorded
    BY DEF Recorded
<1>2. ASSUME NEW p \in Touched(e), p \notin Untrue(e)
      PROVE  p \in Paths /\ FileOf(e[p]) = tree[p] /\ e[p] # NoEntry
  <2>1. p \in Paths /\ e[p] = IF tree[p] = NoFile THEN Tomb ELSE tree[p]
      BY <1>2 DEF Untrue, Touched
  <2>2. tree[p] \in Versions \cup {NoFile}
      BY <2>1 DEF TypeOK
  <2>3. e[p] # NoEntry
      BY <1>2 DEF Touched
  <2> QED BY <2>1, <2>2, <2>3, EntryAssumption DEF FileOf
<1>3. \A p \in Paths : p \notin stray' => p \notin stray \/ (p \in Touched(e) /\ p \notin Untrue(e))
    OBVIOUS
<1>4. ASSUME NEW S, Calm(S) PROVE Calm(S)'
  <2>1. \A p \in Paths \ (stray' \cup S) : FileOf(Recorded'[p]) = tree'[p]
      BY <1>1, <1>2, <1>3, <1>4 DEF Calm
  <2> QED BY <2>1 DEF Calm, FileOf
<1>5. ASSUME NEW m, m.eff = e, Done(m) PROVE Done(m)'
  <2>1. \A p \in Paths \ stray' : FileOf(Overlay(Recorded', m.eff)[p]) = tree'[p]
    <3> SUFFICES ASSUME NEW p \in Paths \ stray'
                 PROVE  FileOf(Overlay(Recorded, e)[p]) = tree[p]
        BY <1>1, <1>5
    <3>1. CASE p \notin stray
        BY <1>5, <3>1 DEF Done
    <3>2. CASE p \in Touched(e) /\ p \notin Untrue(e)
        BY <1>2, <3>2, FileOfOverlay
    <3> QED BY <1>3, <3>1, <3>2
  <2> QED BY <2>1 DEF Done, FileOf
<1>6. \A m : Written(m) => Written(m)'
    BY <1>1 DEF Written, Touched, FileOf
<1> QED BY <1>4, <1>5, <1>6

\* Share and trash stay; what a marker says of them does, too.
LEMMA SameShare ==
    ASSUME UNCHANGED <<tree, trash>>
    PROVE  \A m : /\ Exists(m.from)' <=> Exists(m.from)
                  /\ BackupExists(m)' <=> BackupExists(m)
                  /\ Moved(m)' <=> Moved(m)
                  /\ Undone(m)' = Undone(m)
<1>1. \A m : /\ Exists(m.from)' <=> Exists(m.from)
             /\ BackupExists(m)' <=> BackupExists(m)
             /\ Moved(m)' <=> Moved(m)
    BY DEF Moved, Exists, Files, BackupExists, Renaming, Image, Backups
<1>2. \A m : Undone(m)' = Undone(m)
    BY DEF Undone, Renaming, Image, Backups
<1> QED BY <1>1, <1>2

\* bump: paths of the transaction that are true again are no longer excepted.
LEMMA BumpAgrees ==
    ASSUME Held, TypeOK', NEW d \in Devices, StepBump(d)
    PROVE  AgreeInv'
<1> DEFINE s == proc[d].steps
           c == proc[d].cur
<1>1. /\ s # <<>> /\ Head(s) \in {"bump", "announce"} /\ SetProc(d, Popped(d))
      /\ stray' = stray \ (Touched(c.eff) \ Untrue(c.eff))
      /\ UNCHANGED <<tree, trash, txns, manifest, journal, nextTx, sess, lease, pending>>
    BY DEF StepBump, Doing
<1>2. /\ Head(s) \in StepsOf(c.kind) /\ c.eff \in Effects /\ Fit(proc[d])
      /\ \A m \in txns : m.kind \notin Unmarked
    BY <1>1, StepKinds DEF Held, IInv, TypeOK, Procs, Markers, AgreeInv, Agreed, MarkerOK
<1>3. Written(c) /\ (c.kind # "NONE" => Calm({}))
    BY <1>1, <1>2 DEF Fit, Ready, AtStep
<1>4. /\ \A S : Calm(S) => Calm(S)'
      /\ \A m : m.eff = c.eff /\ Done(m) => Done(m)'
      /\ \A m : Written(m) => Written(m)'
  <2>1. TypeOK /\ \A p \in Touched(c.eff) : FileOf(Recorded[p]) = FileOf(c.eff[p])
      BY <1>3 DEF Held, IInv, Written
  <2> QED BY <1>1, <1>2, <2>1, StrayShrinks
<1>5. \A m \in txns : m.eff = c.eff /\ c.kind \notin Unmarked
  <2>1. CASE c.kind \in Unmarked
    <3>1. Head(s) # "announce"
        BY <1>2, <2>1 DEF StepsOf, Unmarked
    <3>2. txns = {}
        BY <1>1, <2>1, <3>1, UnmarkedAlone DEF Doing
    <3> QED BY <3>2
  <2>2. CASE c.kind \notin Unmarked
    <3>1. PICK x \in txns : Twin(x, c) /\ txns = {x}
        BY <1>1, <2>2, StepKinds DEF Doing
    <3> QED BY <2>2, <3>1 DEF Twin
  <2> QED BY <2>1, <2>2
<1>6. Agreed'
  <2>1. txns = {} => Calm({})'
      BY <1>4 DEF Held, AgreeInv, Agreed
  <2>2. ASSUME NEW m \in txns PROVE MarkerOK(m)'
    <3>1. MarkerOK(m) /\ m.eff = c.eff
        BY <1>5 DEF Held, AgreeInv, Agreed
    <3>2. /\ Calm({}) => Calm({})'
          /\ Done(m) => Done(m)'
          /\ Written(m) => Written(m)'
        BY <1>4, <3>1
    <3>3. Calm(Touched(m.eff)) =>
            \A p \in Paths \ (stray' \cup Touched(m.eff)) : FileOf(Recorded'[p]) = tree'[p]
      <4> DEFINE S == Touched(m.eff)
      <4>1. Calm(S) => Calm(S)'
        <5> HIDE DEF S
        <5> QED BY <1>4
      <4>2. \A p \in Paths : p \in stray \ stray' => p \in S
          BY <1>1, <3>1
      <4>3. Recorded' = Recorded /\ tree' = tree
          BY <1>1 DEF Recorded
      <4> QED BY <4>2, <4>3 DEF Calm
    <3>4. Calm(Touched(m.eff)) => Calm(Touched(m.eff))'
        BY <3>3 DEF Calm, Touched, FileOf
    <3>5. /\ Exists(m.from)' <=> Exists(m.from)
          /\ BackupExists(m)' <=> BackupExists(m)
          /\ Moved(m)' <=> Moved(m)
        BY <1>1, SameShare
    <3> QED BY <1>1, <3>1, <3>2, <3>4, <3>5 DEF MarkerOK
  <2> QED BY <1>1, <2>1, <2>2 DEF Agreed
<1>7. /\ proc'[d].steps = Tail(s)
      /\ Tail(s) # <<>> => proc'[d].cur = c /\ <<Head(s), Head(Tail(s))>> \in Links
    BY <1>1, PoppedFits
<1>8. Ready(proc[d])'
  <2>1. CASE proc'[d].steps = <<>>
      BY <2>1 DEF Ready, AtStep
  <2>2. CASE Tail(s) # <<>> /\ Head(Tail(s)) = "fold"
      BY <1>7, <2>2 DEF Ready, AtStep
  <2>3. CASE Tail(s) # <<>> /\ Head(Tail(s)) = "clear"
    <3>1. c.kind \notin Unmarked
      <4>1. s \in Seq(Steps) /\ Linked(s, c.kind)
          BY <1>1, StepKinds
      <4>2. "clear" \in StepsOf(c.kind)
          BY <1>1, <2>3, <4>1, LinkedTail
      <4> QED BY <4>2 DEF StepsOf, Unmarked
    <3>2. Calm({})'
        BY <1>3, <1>4, <3>1 DEF Unmarked
    <3> QED BY <1>7, <2>3, <3>2 DEF Ready, AtStep
  <2> QED BY <1>1, <1>7, <2>1, <2>2, <2>3 DEF Links
<1>9. CleanLog' /\ OneMarker'
    BY <1>1 DEF Held, AgreeInv, CleanLog, OneMarker
<1>10. \A e \in Devices : proc[e].op = "publish" /\ proc[e].ph \in {"lock", "recover"} =>
           ~Committed(journal', proc[e].own.tx)
    BY <1>1, NotYetRecorded
<1>11. c.kind \notin Unmarked => \E x \in txns' : Twin(x, c)
    BY <1>1, StepKinds DEF Doing
<1>12. \A m \in txns' : \E x \in txns : Twin(x, m)
    BY <1>1 DEF Twin
<1>13. ~Doing(d, "clear")
    BY <1>1 DEF Doing
<1> QED BY <1>1, <1>6, <1>8, <1>9, <1>10, <1>11, <1>12, <1>13, PopAgrees

\* A transaction that is appended does not commit a publish that waits.
LEMMA AppendsOthers ==
    ASSUME Held, NEW d \in Devices, Doing(d, "append"), NEW e \in Devices,
           proc[e].op = "publish", proc[e].ph \in {"lock", "recover"}
    PROVE  proc[e].own.tx # proc[d].cur.tx
<1> DEFINE c == proc[d].cur
<1>1. proc[d].steps # <<>> /\ Head(proc[d].steps) = "append"
    BY DEF Doing
<1>2. CASE c.kind \in Unmarked
  <2>1. lease = d /\ proc[d].op # "publish"
      BY <1>2, UnmarkedAlone
  <2>2. lease = e
      BY DEF Held, LostInv, LeaseInv
  <2> QED BY <2>1, <2>2
<1>3. CASE c.kind \notin Unmarked
  <2>1. PICK x \in txns : Twin(x, c)
      BY <1>1, <1>3, StepKinds DEF Doing
  <2>2. c.kind # "PUBLISH"
      BY <2>1, NotYetRecorded DEF Twin
  <2>3. Tag(c) \in Tags
      BY <1>1, <1>3 DEF Tags, Unmarked
  <2>4. c.tx[1] # 0
      BY <2>2, <2>3 DEF Held, AnnounceInv, TagInv, Tag
  <2>5. proc[e].own.tx[1] = 0
      BY DEF Held, AnnounceInv, WorkInv, Apt, OwnKind
  <2> QED BY <2>4, <2>5
<1> QED BY <1>2, <1>3

\* append: the transaction is on record, and the share agrees with it.
LEMMA AppendAgrees ==
    ASSUME Held, TypeOK', NEW d \in Devices, StepAppend(d)
    PROVE  AgreeInv'
<1> DEFINE s == proc[d].steps
           c == proc[d].cur
<1>1. /\ s # <<>> /\ Head(s) = "append" /\ SetProc(d, Popped(d)) /\ Doing(d, "append")
      /\ journal' = Append(journal, UnitOf(c, "full"))
      /\ stray' = IF c.kind = "NONE" THEN stray \cup Untrue(c.eff) ELSE stray
      /\ UNCHANGED <<tree, trash, txns, manifest, nextTx, sess, lease, pending>>
    BY DEF StepAppend, Doing
<1>2. c \in Markers /\ Fit(proc[d]) /\ InSection(d) /\ CleanLog /\ c.eff \in Effects
    BY <1>1, StepKinds DEF Held, IInv, TypeOK, Procs, Markers, AgreeInv
<1>3. /\ Recorded' = Overlay(Recorded, c.eff)
      /\ \A tx : Committed(journal', tx) <=> Committed(journal, tx) \/ tx = c.tx
      /\ CleanLog' /\ Front(journal') = journal /\ View(manifest', Front(journal')) = Recorded
  <2>1. TypeOK /\ c.tx[1] < nextTx
      BY <1>2 DEF Held, IInv, Fit, Ids
  <2> HIDE DEF c
  <2> QED BY <1>1, <1>2, <2>1, AppendFacts
<1>4. Ready(proc[d])
    BY <1>2 DEF Fit
<1>5. \A p \in Paths \ stray' : FileOf(Recorded'[p]) = tree'[p]
  <2>1. CASE c.kind # "NONE"
    <3>1. Done(c)
        BY <1>1, <1>4, <2>1 DEF Ready, AtStep
    <3> QED BY <1>1, <1>3, <2>1, <3>1 DEF Done
  <2>2. CASE c.kind = "NONE"
    <3>1. Calm({})
      <4>1. txns = {}
          BY <1>1, <2>2, UnmarkedAlone DEF Unmarked
      <4> QED BY <4>1 DEF Held, AgreeInv, Agreed
    <3> SUFFICES ASSUME NEW p \in Paths, p \notin stray, p \notin Untrue(c.eff)
                 PROVE  FileOf(Overlay(Recorded, c.eff)[p]) = tree[p]
        BY <1>1, <1>3, <2>2
    <3>2. CASE c.eff[p] = NoEntry
        BY <3>1, <3>2, FileOfOverlay DEF Calm
    <3>3. CASE c.eff[p] # NoEntry
      <4>1. c.eff[p] = IF tree[p] = NoFile THEN Tomb ELSE tree[p]
          BY <3>3 DEF Untrue, Touched
      <4>2. tree[p] \in Versions \cup {NoFile}
          BY DEF Held, IInv, TypeOK
      <4>3. FileOf(c.eff[p]) = tree[p]
          BY <4>1, <4>2, EntryAssumption DEF FileOf
      <4> QED BY <3>3, <4>3, FileOfOverlay
    <3> QED BY <3>2, <3>3
  <2> QED BY <2>1, <2>2
<1>6. Calm({})'
    BY <1>5 DEF Calm, FileOf
<1>7. \A p \in Touched(c.eff) : FileOf(Recorded'[p]) = FileOf(c.eff[p])
    BY <1>3, FileOfOverlay DEF Touched
<1>8. \A m : m.eff = c.eff => Written(m)'
    BY <1>7 DEF Written, Touched, FileOf
<1>9. Agreed'
  <2>1. ASSUME NEW m \in txns PROVE MarkerOK(m)'
    <3>1. c.kind \notin Unmarked
        BY <1>1, UnmarkedAlone
    <3>2. PICK x \in txns : Twin(x, c) /\ txns = {x}
        BY <1>1, <3>1, StepKinds DEF Doing
    <3>3. m.tx = c.tx /\ m.kind = c.kind /\ m.eff = c.eff
        BY <3>2 DEF Twin
    <3>4. Committed(journal', m.tx)
        BY <1>3, <3>3
    <3>5. Written(m)'
        BY <1>8, <3>3
    <3> QED BY <1>6, <3>1, <3>3, <3>4, <3>5 DEF MarkerOK
  <2> QED BY <1>1, <1>6, <2>1 DEF Agreed
<1>10. /\ proc'[d].steps = Tail(s) /\ proc'[d].ph = proc[d].ph
       /\ Tail(s) # <<>> => proc'[d].cur = c /\ <<Head(s), Head(Tail(s))>> \in Links
    BY <1>1, PoppedFits
<1>11. Ready(proc[d])'
  <2>1. CASE proc'[d].steps = <<>>
      BY <2>1 DEF Ready, AtStep
  <2>2. CASE Tail(s) # <<>>
    <3>1. proc'[d].steps # <<>> /\ Head(proc'[d].steps) = "bump" /\ proc'[d].cur = c
        BY <1>1, <1>10, <2>2 DEF Links
    <3>2. Calm({})'
        BY <1>6, <1>8
    <3>3. ASSUME proc[d].ph = "body", c.kind \in Moving \cup {"ABSENT"}
          PROVE  /\ ~Committed(Front(journal'), c.tx)
                 /\ \A p \in Paths \ stray' : FileOf(View(manifest', Front(journal'))[p]) = Undone(c)[p]
                 /\ c.kind # "ABSENT" => Moved(c)
      <4>1. c.kind # "NONE"
          BY <3>3 DEF Moving
      <4>2. ~Committed(journal, c.tx) /\ Restores(Recorded, c) /\ (c.kind # "ABSENT" => Moved(c))
          BY <1>1, <1>4, <3>3, <4>1 DEF Ready, AtStep, MayUndo
      <4>3. stray' = stray
          BY <1>1, <4>1
      <4> QED BY <1>3, <4>2, <4>3 DEF Restores
    <3>4. \A m : (Moved(m)' <=> Moved(m)) /\ Undone(m)' = Undone(m)
        BY <1>1, SameShare
    <3>5. MayUndo(proc[d])' => proc[d].ph = "body" /\ c.kind \in Moving \cup {"ABSENT"}
        BY <1>10, <3>1 DEF MayUndo
    <3>6. MayUndo(proc[d])' /\ c.kind # "ABSENT" => Moved(proc[d].cur)'
      <4>1. MayUndo(proc[d])' /\ c.kind # "ABSENT" => Moved(c)
          BY <3>3, <3>5
      <4> QED BY <3>1, <3>4, <4>1
    <3>7. MayUndo(proc[d])' => Restores(View(manifest, Front(journal)), proc[d].cur)'
      <4>1. Undone(proc[d].cur)' = Undone(c)
          BY <3>1, <3>4
      <4>2. MayUndo(proc[d])' =>
                \A p \in Paths \ stray' : FileOf(View(manifest', Front(journal'))[p]) = Undone(c)[p]
          BY <3>3, <3>5
      <4> QED BY <4>1, <4>2 DEF Restores, FileOf
    <3>8. MayUndo(proc[d])' => ~Committed(Front(journal'), proc'[d].cur.tx)
        BY <3>1, <3>3, <3>5
    <3>9. Written(proc[d].cur)'
        BY <3>1, <1>8
    <3> QED BY <3>1, <3>2, <3>6, <3>7, <3>8, <3>9 DEF Ready, AtStep
  <2> QED BY <1>10, <2>1, <2>2
<1>12. OneMarker'
    BY <1>1 DEF Held, AgreeInv, OneMarker
<1>13. \A e \in Devices : proc[e].op = "publish" /\ proc[e].ph \in {"lock", "recover"} =>
           ~Committed(journal', proc[e].own.tx)
    BY <1>1, <1>3, NotYetRecorded, AppendsOthers
<1>14. c.kind \notin Unmarked => \E x \in txns' : Twin(x, c)
    BY <1>1, StepKinds DEF Doing
<1>15. \A m \in txns' : \E x \in txns : Twin(x, m)
    BY <1>1 DEF Twin
<1>16. ~Doing(d, "clear")
    BY <1>1 DEF Doing
<1> QED BY <1>1, <1>3, <1>9, <1>11, <1>12, <1>13, <1>14, <1>15, <1>16, PopAgrees

\* fold and reset: the files on record are the same in the new manifest.
LEMMA FoldAgrees ==
    ASSUME Held, TypeOK', NEW d \in Devices, StepFold(d) \/ StepReset(d)
    PROVE  AgreeInv'
<1> DEFINE s == proc[d].steps
           c == proc[d].cur
<1>1. /\ s # <<>> /\ Head(s) \in {"fold", "reset"} /\ SetProc(d, Popped(d))
      /\ UNCHANGED <<tree, trash, stray, txns, nextTx, sess, lease, pending>>
    BY DEF StepFold, StepReset, Doing
<1>2. c.kind = "NONE" /\ Fit(proc[d]) /\ InSection(d)
  <2>1. Head(s) \in StepsOf(c.kind) /\ c.kind \in Kinds /\ InSection(d)
      BY <1>1, StepKinds
  <2> QED BY <1>1, <2>1 DEF StepsOf, Held, AgreeInv
<1>3. /\ manifest \in Effects /\ journal \in Seq(Units)
      /\ \A p \in Paths : FileOf(Recorded'[p]) = FileOf(Recorded[p])
  <2>1. manifest \in Effects /\ journal \in Seq(Units)
      BY DEF Held, IInv, TypeOK
  <2>2. CASE StepFold(d)
    <3>1. PICK X \in {{}, Paths} : manifest' = Sweep(View(manifest, journal), X) /\ journal' = journal
        BY <2>2 DEF StepFold
    <3>2. Recorded' = View(Sweep(View(manifest, journal), X), journal)
        BY <3>1 DEF Recorded
    <3> QED BY <2>1, <3>2, FoldKeepsFiles DEF Recorded
  <2>3. CASE StepReset(d)
    <3>1. manifest' = manifest /\ journal' = <<>> /\ Doing(d, "reset")
        BY <2>3 DEF StepReset
    <3>2. Recorded' = manifest
        BY <2>1, <3>1, ViewOfEmpty DEF Recorded
    <3>3. \A p \in Paths : FileOf(Recorded[p]) = FileOf(manifest[p])
        BY <3>1 DEF Held, IInv, ResetFindsFolded
    <3> QED BY <2>1, <3>2, <3>3
  <2> QED BY <2>1, <2>2, <2>3
<1>4. /\ \A S : Calm(S)' <=> Calm(S)
      /\ \A m : /\ Done(m)' <=> Done(m)
                /\ Written(m)' <=> Written(m)
                /\ Moved(m)' <=> Moved(m)
                /\ Exists(m.from)' <=> Exists(m.from)
                /\ BackupExists(m)' <=> BackupExists(m)
    BY <1>1, <1>3, SameDisk
<1>5. \A m \in txns : MarkerOK(m) /\ m.kind = "PUBLISH"
  <2>1. proc[d].ph = "body"
      BY <1>1, <1>2 DEF Fit, Orderly, InSection, Unmarked
  <2>2. \A m \in txns : m.kind = "PUBLISH"
      BY <1>2, <2>1 DEF Fit, OnlyPublish, Unmarked
  <2> QED BY <2>2 DEF Held, AgreeInv, Agreed
<1>6. Agreed'
  <2>1. txns' = {} => Calm({})'
      BY <1>1, <1>4 DEF Held, AgreeInv, Agreed
  <2>2. ASSUME NEW m \in txns PROVE MarkerOK(m)'
    <3>1. CASE journal' = journal
        BY <1>4, <1>5, <3>1 DEF MarkerOK, Touched
    <3>2. CASE journal' = <<>>
      <4>1. ~Committed(journal', m.tx)
          BY <3>2 DEF Committed
      <4>2. Calm({}) => Calm(Touched(m.eff))
          BY DEF Calm
      <4>3. Calm(Touched(m.eff))
          BY <1>5, <4>2 DEF MarkerOK
      <4>4. Calm(Touched(m.eff))'
        <5> DEFINE S == Touched(m.eff)
        <5>1. \A p \in Paths \ (stray \cup S) : FileOf(Recorded'[p]) = tree'[p]
            BY <1>1, <1>3, <4>3 DEF Calm
        <5> QED BY <1>1, <5>1 DEF Calm, Touched, FileOf
      <4> QED BY <1>5, <4>1, <4>4 DEF MarkerOK
    <3> QED BY <3>1, <3>2 DEF StepFold, StepReset
  <2> QED BY <1>1, <2>1, <2>2 DEF Agreed
<1>7. /\ proc'[d].steps = Tail(s)
      /\ Tail(s) # <<>> => <<Head(s), Head(Tail(s))>> \in Links
    BY <1>1, PoppedFits
<1>8. Ready(proc[d])'
  <2>1. CASE proc'[d].steps = <<>>
      BY <2>1 DEF Ready, AtStep
  <2>2. CASE Tail(s) # <<>>
    <3>1. Head(proc'[d].steps) = "reset"
        BY <1>1, <1>7, <2>2 DEF Links
    <3> QED BY <3>1 DEF Ready, AtStep
  <2> QED BY <1>7, <2>1, <2>2
<1>9. CleanLog' /\ OneMarker'
  <2>1. journal' = journal \/ journal' = <<>>
      BY DEF StepFold, StepReset
  <2>2. CleanLog'
      BY <1>1, <2>1 DEF Held, AgreeInv, CleanLog
  <2> QED BY <1>1, <2>2 DEF Held, AgreeInv, OneMarker
<1>10. \A e \in Devices : proc[e].op = "publish" /\ proc[e].ph \in {"lock", "recover"} =>
           ~Committed(journal', proc[e].own.tx)
  <2>1. journal' = journal \/ journal' = <<>>
      BY DEF StepFold, StepReset
  <2>2. \A tx : ~Committed(<<>>, tx)
      BY DEF Committed
  <2> QED BY <2>1, <2>2, NotYetRecorded
<1>11. c.kind \in Unmarked /\ ~Doing(d, "clear")
    BY <1>1, <1>2 DEF Unmarked, Doing
<1>12. \A m \in txns' : \E x \in txns : Twin(x, m)
    BY <1>1 DEF Twin
<1> QED BY <1>1, <1>6, <1>8, <1>9, <1>10, <1>11, <1>12, PopAgrees

\* What a move makes of share and trash: the transaction's effect, and a state
\* from which the undo restores the record.
LEMMA MoveFacts ==
    ASSUME Held, NEW d \in Devices, StepMove(d), NEW m, m = proc[d].cur, Prepared(m), Calm({})
    PROVE  \A y : Twin(y, m) => Moved(y)' /\ Done(y)' /\ Restores(Recorded, y)'
<1> DEFINE from == Files(m.from)
<1>1. /\ m \in Markers /\ m.from \subseteq Paths /\ m.to \in [Paths -> Paths] /\ from \subseteq m.from
      /\ tree \in [Paths -> Versions \cup {NoFile}]
      /\ \A p \in Paths : p \in from <=> p \in m.from /\ tree[p] # NoFile
    BY DEF Held, IInv, TypeOK, Procs, Markers, Files
<1>2. m.kind \in Moving /\ BeforeMove(m) /\ Recorded' = Recorded
    BY MovesInBody DEF Held, StepMove, Recorded
<1>3. from # {} /\ m.eff = MoveEffect(m)
    BY DEF Prepared, Exists
<1>4. \A p \in Paths \ stray : FileOf(Recorded[p]) = tree[p]
    BY DEF Calm
<1>5. ASSUME Renaming(m)
      PROVE  (\A y : Twin(y, m) => Moved(y)' /\ Done(y)') /\ Restores(Recorded, m)'
  <2>1. /\ trash' = trash
        /\ tree' = [p \in Paths |-> IF \E q \in from : m.to[q] = p
                                    THEN tree[CHOOSE q \in from : m.to[q] = p]
                                    ELSE IF p \in from THEN NoFile ELSE tree[p]]
        /\ stray' = IF m.kind = "BROWSE_RENAME_V1" THEN stray \cup Image(m) ELSE stray
      BY <1>5 DEF StepMove
  <2>2. OneToOne(m) /\ \A p \in Image(m) : tree[p] = NoFile
      BY <1>2, <1>5 DEF BeforeMove, Exists, Files
  <2>3. ASSUME NEW p \in m.from PROVE tree'[p] = NoFile /\ ~ \E q \in from : m.to[q] = p
    <3>1. ~ \E q \in from : m.to[q] = p
        BY <1>1, <2>2 DEF OneToOne
    <3> QED BY <1>1, <2>1, <3>1
  <2>4. ASSUME NEW p \in m.from PROVE m.to[p] \in Paths /\ tree'[m.to[p]] = tree[p]
    <3>1. m.to[p] \in Paths /\ m.to[p] \notin from /\ tree[m.to[p]] = NoFile
        BY <1>1, <2>2 DEF OneToOne, Image
    <3>2. \A q \in from : m.to[q] = m.to[p] => q = p
        BY <1>1, <2>2 DEF OneToOne
    <3>3. CASE p \in from
      <4>1. (CHOOSE q \in from : m.to[q] = m.to[p]) = p
          BY <3>2, <3>3
      <4> QED BY <2>1, <3>1, <3>3, <4>1
    <3>4. CASE p \notin from
      <4>1. ~ \E q \in from : m.to[q] = m.to[p]
          BY <3>2, <3>4
      <4> QED BY <1>1, <2>1, <3>1, <3>4, <4>1
    <3> QED BY <3>3, <3>4
  <2>5. \A p \in Paths : p \notin m.from /\ p \notin Image(m) => tree'[p] = tree[p]
    <3>1. \A p \in Paths : p \notin Image(m) => ~ \E q \in from : m.to[q] = p
        BY <1>1 DEF Image
    <3> QED BY <1>1, <2>1, <3>1
  <2>6. \A p \in Paths : tree[p] = IF p \in m.from THEN tree'[m.to[p]]
                                   ELSE IF p \in Image(m) THEN NoFile ELSE tree'[p]
      BY <2>2, <2>4, <2>5
  <2>7. \A p \in Paths : Undone(m)'[p] = tree[p]
    <3>1. Undone(m)' = [p \in Paths |-> IF p \in m.from THEN tree'[m.to[p]]
                                        ELSE IF p \in Image(m) THEN NoFile ELSE tree'[p]]
        BY <1>5 DEF Undone, Renaming, Image
    <3> QED BY <2>6, <3>1
  <2>8. Restores(Recorded, m)'
    <3>1. \A p \in Paths \ stray' : FileOf(Recorded'[p]) = Undone(m)'[p]
        BY <1>2, <1>4, <2>1, <2>7
    <3> QED BY <3>1 DEF Restores, FileOf
  <2>9. (\A p \in m.from : tree'[p] = NoFile) /\ \E p \in Image(m) : tree'[p] # NoFile
    <3>1. PICK q \in from : TRUE
        BY <1>3
    <3>2. q \in m.from /\ tree[q] # NoFile /\ m.to[q] \in Image(m)
        BY <1>1, <3>1 DEF Image
    <3> QED BY <2>3, <2>4, <3>2
  <2>10. ASSUME NEW p \in Paths \ stray'
         PROVE  FileOf(Overlay(Recorded, m.eff)[p]) = tree'[p]
    <3>1. p \notin stray /\ FileOf(Recorded[p]) = tree[p]
        BY <1>4, <2>1
    <3>2. CASE \E q \in from : m.to[q] = p
      <4> DEFINE q == CHOOSE q \in from : m.to[q] = p
      <4>1. q \in from /\ m.to[q] = p /\ p \in Image(m)
          BY <1>1, <3>2 DEF Image
      <4>2. m.kind = "BROWSE_RENAME_V2"
          BY <1>5, <2>1, <4>1 DEF Renaming
      <4>3. m.eff[p] = tree[q] /\ tree'[p] = tree[q]
          BY <1>3, <2>1, <3>2, <4>2 DEF MoveEffect
      <4>4. tree[q] \in Versions /\ tree[q] # NoEntry
          BY <1>1, <4>1, EntryAssumption
      <4> HIDE DEF q
      <4> QED BY <4>3, <4>4, FileOfOverlay DEF FileOf
    <3>3. CASE (~ \E q \in from : m.to[q] = p) /\ p \in from
      <4>1. m.eff[p] = Tomb /\ tree'[p] = NoFile
          BY <1>3, <2>1, <3>3 DEF MoveEffect
      <4> QED BY <4>1, FileOfOverlay, EntryAssumption DEF FileOf
    <3>4. CASE (~ \E q \in from : m.to[q] = p) /\ p \notin from
      <4>1. m.eff[p] = NoEntry /\ tree'[p] = tree[p]
          BY <1>3, <2>1, <3>4 DEF MoveEffect
      <4> QED BY <3>1, <4>1, FileOfOverlay
    <3> QED BY <3>2, <3>3, <3>4
  <2>11. ASSUME NEW y, Twin(y, m) PROVE Moved(y)' /\ Done(y)'
    <3>1. y.kind = m.kind /\ y.from = m.from /\ y.to = m.to /\ y.eff = m.eff
        BY <2>11 DEF Twin
    <3>2. Moved(y)'
        BY <1>5, <2>9, <3>1 DEF Moved, Exists, Files, BackupExists, Renaming, Image
    <3>3. Done(y)'
        BY <1>2, <2>10, <3>1 DEF Done, FileOf
    <3> QED BY <3>2, <3>3
  <2> QED BY <2>8, <2>11
<1>6. ASSUME ~Renaming(m)
      PROVE  (\A y : Twin(y, m) => Moved(y)' /\ Done(y)') /\ Restores(Recorded, m)'
  <2>1. /\ tree' = [p \in Paths |-> IF p \in from THEN NoFile ELSE tree[p]]
        /\ trash' = trash \cup {<<m.tx, p, tree[p]>> : p \in from}
        /\ stray' = stray
      BY <1>6 DEF StepMove, Renaming
  <2> DEFINE back == {e \in trash' : e[1] = m.tx}
  <2>2. back = {<<m.tx, p, tree[p]>> : p \in from}
    <3>1. \A e \in trash : e[1] # m.tx
        BY <1>2, <1>6 DEF BeforeMove, Backups
    <3> QED BY <2>1, <3>1
  <2>3. /\ \A e \in back : e[2] \in from /\ e[3] = tree[e[2]] /\ e[2] \in m.from
        /\ \A p \in from : <<m.tx, p, tree[p]>> \in back
      BY <1>1, <2>2
  <2>4. /\ \A e \in back : e[1] = m.tx
        /\ back # {} /\ \A p \in m.from : tree'[p] = NoFile
      BY <1>1, <1>3, <2>1, <2>3
  <2>5. ASSUME NEW p \in Paths
        PROVE  tree[p] = IF \E e \in back : e[2] = p
                         THEN (CHOOSE e \in back : e[2] = p)[3] ELSE tree'[p]
    <3>1. CASE p \in from
      <4>1. \E e \in back : e[2] = p
          BY <2>3, <3>1
      <4>2. (CHOOSE e \in back : e[2] = p) \in back /\ (CHOOSE e \in back : e[2] = p)[2] = p
          BY <4>1
      <4>3. (CHOOSE e \in back : e[2] = p)[3] = tree[p]
          BY <2>3, <4>2
      <4> QED BY <4>1, <4>3
    <3>2. CASE p \notin from
        BY <2>1, <2>3, <3>2
    <3> QED BY <3>1, <3>2
  <2>6. \A p \in Paths : Undone(m)'[p] = tree[p]
    <3>1. m.kind # "ABSENT"
        BY <1>2 DEF Moving
    <3>2. Undone(m)' = [p \in Paths |-> IF \E e \in back : e[2] = p
                                        THEN (CHOOSE e \in back : e[2] = p)[3] ELSE tree'[p]]
        BY <1>6, <3>1 DEF Undone, Renaming, Backups
    <3> HIDE DEF back
    <3> QED BY <2>5, <3>2
  <2>7. Restores(Recorded, m)'
    <3>1. \A p \in Paths \ stray' : FileOf(Recorded'[p]) = Undone(m)'[p]
        BY <1>2, <1>4, <2>1, <2>6
    <3> QED BY <3>1 DEF Restores, FileOf
  <2>8. ASSUME NEW p \in Paths \ stray'
        PROVE  FileOf(Overlay(Recorded, m.eff)[p]) = tree'[p]
    <3>1. FileOf(Recorded[p]) = tree[p] /\ m.kind # "BROWSE_RENAME_V2"
        BY <1>4, <1>6, <2>1 DEF Renaming
    <3>2. m.eff[p] = IF p \in from THEN Tomb ELSE NoEntry
        BY <1>3, <3>1 DEF MoveEffect
    <3>3. tree'[p] = IF p \in from THEN NoFile ELSE tree[p]
        BY <2>1
    <3> QED BY <3>1, <3>2, <3>3, FileOfOverlay, EntryAssumption DEF FileOf
  <2>9. ASSUME NEW y, Twin(y, m) PROVE Moved(y)' /\ Done(y)'
    <3>1. y.tx = m.tx /\ y.kind = m.kind /\ y.from = m.from /\ y.eff = m.eff
        BY <2>9 DEF Twin
    <3>2. (\E e \in trash' : e[1] = m.tx) /\ \A e \in trash' : e[1] = m.tx => e[2] \in m.from
        BY <2>3, <2>4
    <3>3. Moved(y)'
        BY <1>6, <2>4, <3>1, <3>2 DEF Moved, Exists, Files, BackupExists, Renaming, Backups
    <3>4. Done(y)'
        BY <1>2, <2>8, <3>1 DEF Done, FileOf
    <3> QED BY <3>3, <3>4
  <2> QED BY <2>7, <2>9
<1>7. ASSUME NEW y, Twin(y, m) PROVE Undone(y)' = Undone(m)'
    BY <1>7 DEF Twin, Undone, Renaming, Image, Backups
<1>8. ASSUME NEW y, Twin(y, m) PROVE Restores(Recorded, y)'
    BY <1>5, <1>6, <1>7, <1>8 DEF Restores, FileOf
<1> QED BY <1>5, <1>6, <1>8

\* A step of a moving command: its marker is the only one, and not on record.
LEMMA MoveMarker ==
    ASSUME Held, NEW d \in Devices, Doing(d, "move") \/ Doing(d, "undo")
    PROVE  /\ ~Committed(journal, proc[d].cur.tx) /\ proc[d].cur.kind \in Moving
           /\ MarkerOK(proc[d].cur) /\ \E x \in txns : Twin(x, proc[d].cur) /\ txns = {x}
<1>1. proc[d].steps # <<>> /\ Head(proc[d].steps) \in {"move", "undo"} /\ Fit(proc[d])
    BY DEF Doing, Held, AgreeInv
<1>2. proc[d].cur.kind \in Moving
    BY <1>1, StepKinds
<1>3. ~Committed(journal, proc[d].cur.tx)
    BY <1>1, <1>2 DEF Fit, Ready, AtStep, Moving
<1>4. PICK x \in txns : Twin(x, proc[d].cur) /\ txns = {x}
    BY <1>1, <1>2, StepKinds DEF Moving, Unmarked, Doing
<1>5. MarkerOK(proc[d].cur)
    BY <1>4, TwinOK DEF Held, AgreeInv, Agreed
<1> QED BY <1>2, <1>3, <1>4, <1>5

\* move: from now on the share agrees with the record and the effect.
LEMMA MoveAgrees ==
    ASSUME Held, TypeOK', NEW d \in Devices, StepMove(d)
    PROVE  AgreeInv'
<1> DEFINE s == proc[d].steps
           c == proc[d].cur
<1>1. /\ s # <<>> /\ Head(s) = "move" /\ SetProc(d, Popped(d)) /\ Doing(d, "move")
      /\ UNCHANGED <<txns, manifest, journal, nextTx, sess, lease, pending>>
    BY DEF StepMove, Doing
<1>2. /\ ~Committed(journal, c.tx) /\ c.kind \in Moving /\ MarkerOK(c)
      /\ c.kind \notin Unmarked /\ c.kind # "PUBLISH"
    BY <1>1, MoveMarker DEF Moving, Unmarked
<1>3. PICK x \in txns : Twin(x, c) /\ txns = {x}
    BY <1>1, MoveMarker
<1>4. Prepared(c) /\ proc[d].ph = "body"
  <2>1. Ready(proc[d]) /\ proc[d].ph = "body"
      BY <1>1, MovesInBody DEF Held, AgreeInv, Fit
  <2> QED BY <1>1, <1>2, <2>1 DEF Ready, AtStep
<1>5. Calm({})
    BY <1>2, <1>4 DEF MarkerOK, Moved, Prepared
<1>6. PICK m : m = c
    OBVIOUS
<1>7. \A y : Twin(y, m) => Moved(y)' /\ Done(y)' /\ Restores(Recorded, y)'
    BY <1>4, <1>5, <1>6, MoveFacts
<1>8. /\ proc'[d].steps = Tail(s) /\ Tail(s) # <<>> /\ proc'[d].cur = m
      /\ <<Head(s), Head(Tail(s))>> \in Links
    BY <1>1, <1>2, <1>6, PoppedFits DEF Doing
<1>9. Head(proc'[d].steps) = "advance"
    BY <1>1, <1>8 DEF Links
<1>10. Ready(proc[d])'
  <2>1. Twin(proc'[d].cur, m)
      BY <1>8 DEF Twin
  <2>2. Moved(proc[d].cur)' /\ Done(proc[d].cur)' /\ Restores(Recorded, proc[d].cur)'
      BY <1>7, <2>1
  <2>3. ~Committed(journal', proc'[d].cur.tx)
      BY <1>1, <1>2, <1>6, <1>8
  <2> QED BY <1>8, <1>9, <2>2, <2>3 DEF Ready, AtStep
<1>11. Agreed'
  <2>1. Moved(x)' /\ Done(x)' /\ x.kind = c.kind /\ x.tx = c.tx
      BY <1>3, <1>6, <1>7 DEF Twin
  <2>2. MarkerOK(x)'
      BY <1>1, <1>2, <2>1 DEF MarkerOK
  <2> QED BY <1>1, <1>3, <2>2 DEF Agreed
<1>12. CleanLog' /\ OneMarker'
    BY <1>1 DEF Held, AgreeInv, CleanLog, OneMarker
<1>13. \A e \in Devices : proc[e].op = "publish" /\ proc[e].ph \in {"lock", "recover"} =>
           ~Committed(journal', proc[e].own.tx)
    BY <1>1, NotYetRecorded
<1>14. \A y \in txns' : \E z \in txns : Twin(z, y)
    BY <1>1 DEF Twin
<1>15. ~Doing(d, "clear") /\ \E z \in txns' : Twin(z, c)
    BY <1>1, <1>3 DEF Doing
<1> QED BY <1>1, <1>10, <1>11, <1>12, <1>13, <1>14, <1>15, PopAgrees

\* What the undo of a finished move leaves.
LEMMA UndoFacts ==
    ASSUME Held, NEW d \in Devices, StepUndo(d), NEW m, m = proc[d].cur, Moved(m), Restores(Recorded, m)
    PROVE  /\ Calm({})'
           /\ \A y : Twin(y, m) => Exists(y.from)' /\ ~BackupExists(y)'
<1> DEFINE back == {e \in trash : e[1] = m.tx}
<1>1. /\ m \in Markers /\ m.from \subseteq Paths /\ m.to \in [Paths -> Paths]
      /\ tree \in [Paths -> Versions \cup {NoFile}] /\ trash \subseteq TxIds \X Paths \X Versions
    BY DEF Held, IInv, TypeOK, Procs, Markers
<1>2. /\ m.kind \in Moving /\ AfterMove(m) /\ Recorded' = Recorded /\ stray' = stray
    BY MovesInBody DEF Held, StepUndo, Recorded
<1>3. tree' = Undone(m)
    BY <1>2 DEF StepUndo, Undone, Backups, Moving
<1>4. Calm({})'
  <2>1. \A p \in Paths \ stray' : FileOf(Recorded'[p]) = tree'[p]
      BY <1>2, <1>3 DEF Restores
  <2> QED BY <2>1 DEF Calm, FileOf
<1>5. CASE Renaming(m)
  <2>1. tree' = [p \in Paths |-> IF p \in m.from THEN tree[m.to[p]]
                                 ELSE IF p \in Image(m) THEN NoFile ELSE tree[p]]
      BY <1>3, <1>5 DEF Undone
  <2>2. PICK q \in m.from : tree[m.to[q]] # NoFile
      BY <1>5 DEF Moved, BackupExists, Exists, Files, Image
  <2>3. tree'[q] # NoFile
      BY <1>1, <2>1, <2>2
  <2>4. \A p \in Image(m) : tree'[p] = NoFile
    <3>1. \A p \in Image(m) : p \in Paths /\ p \notin m.from
        BY <1>1, <1>2, <1>5 DEF AfterMove, OneToOne, Image
    <3> QED BY <2>1, <3>1
  <2>5. ASSUME NEW y, Twin(y, m) PROVE Exists(y.from)' /\ ~BackupExists(y)'
      BY <1>5, <2>2, <2>3, <2>4, <2>5 DEF Twin, Exists, Files, BackupExists, Renaming, Image
  <2> QED BY <1>4, <2>5
<1>6. CASE ~Renaming(m)
  <2>1. /\ tree' = [p \in Paths |-> IF \E e \in back : e[2] = p
                                    THEN (CHOOSE e \in back : e[2] = p)[3] ELSE tree[p]]
        /\ trash' = trash \ back
      BY <1>6 DEF StepUndo
  <2>2. PICK e \in back : e[2] \in m.from
      BY <1>6 DEF Moved, BackupExists, Backups
  <2>3. tree'[e[2]] # NoFile
    <3> DEFINE f == CHOOSE f \in back : f[2] = e[2]
    <3>1. f \in back /\ tree'[e[2]] = f[3]
        BY <1>1, <2>1, <2>2
    <3>2. f[3] \in Versions
        BY <1>1, <3>1
    <3> HIDE DEF f
    <3> QED BY <3>1, <3>2, ServerAssumption
  <2>4. \A g \in trash' : g[1] # m.tx
      BY <2>1
  <2>5. ASSUME NEW y, Twin(y, m) PROVE Exists(y.from)' /\ ~BackupExists(y)'
      BY <1>6, <2>2, <2>3, <2>4, <2>5 DEF Twin, Exists, Files, BackupExists, Renaming
  <2> QED BY <1>4, <2>5
<1> QED BY <1>5, <1>6

\* undo: share and record agree as before the command.
LEMMA UndoAgrees ==
    ASSUME Held, TypeOK', NEW d \in Devices, StepUndo(d)
    PROVE  AgreeInv'
<1> DEFINE s == proc[d].steps
           c == proc[d].cur
<1>1. /\ s # <<>> /\ Head(s) = "undo" /\ SetProc(d, Popped(d)) /\ Doing(d, "undo")
      /\ UNCHANGED <<txns, manifest, journal, nextTx, sess, lease, pending>>
    BY DEF StepUndo, Doing
<1>2. /\ ~Committed(journal, c.tx) /\ c.kind \in Moving
      /\ c.kind \notin Unmarked /\ c.kind # "PUBLISH"
    BY <1>1, MoveMarker DEF Moving, Unmarked
<1>3. PICK x \in txns : Twin(x, c) /\ txns = {x}
    BY <1>1, MoveMarker
<1>4. Moved(c) /\ Restores(Recorded, c)
  <2>1. Ready(proc[d]) /\ proc[d].ph = "body"
      BY <1>1, MovesInBody DEF Held, AgreeInv, Fit
  <2> QED BY <1>1, <1>2, <2>1 DEF Ready, AtStep, MayUndo, Moving
<1>5. PICK m : m = c
    OBVIOUS
<1>6. /\ Calm({})'
      /\ \A y : Twin(y, m) => Exists(y.from)' /\ ~BackupExists(y)'
    BY <1>4, <1>5, UndoFacts
<1>7. /\ proc'[d].steps = Tail(s)
      /\ Tail(s) # <<>> => <<Head(s), Head(Tail(s))>> \in Links
    BY <1>1, PoppedFits
<1>8. Ready(proc[d])'
  <2>1. Tail(s) # <<>> => Head(proc'[d].steps) = "clear"
      BY <1>1, <1>7 DEF Links
  <2> QED BY <1>6, <1>7, <2>1 DEF Ready, AtStep
<1>9. Agreed'
  <2>1. Exists(x.from)' /\ ~BackupExists(x)' /\ x.kind = c.kind /\ x.tx = c.tx
      BY <1>3, <1>5, <1>6 DEF Twin
  <2>2. MarkerOK(x)'
      BY <1>1, <1>2, <1>6, <2>1 DEF MarkerOK
  <2> QED BY <1>1, <1>3, <2>2 DEF Agreed
<1>10. CleanLog' /\ OneMarker'
    BY <1>1 DEF Held, AgreeInv, CleanLog, OneMarker
<1>11. \A e \in Devices : proc[e].op = "publish" /\ proc[e].ph \in {"lock", "recover"} =>
           ~Committed(journal', proc[e].own.tx)
    BY <1>1, NotYetRecorded
<1>12. \A y \in txns' : \E z \in txns : Twin(z, y)
    BY <1>1 DEF Twin
<1>13. ~Doing(d, "clear") /\ \E z \in txns' : Twin(z, c)
    BY <1>1, <1>3 DEF Doing
<1> QED BY <1>1, <1>8, <1>9, <1>10, <1>11, <1>12, <1>13, PopAgrees

\* place: one more file of the batch, or all of them are there.
LEMMA PlaceAgrees ==
    ASSUME Held, TypeOK', NEW d \in Devices, StepPlace(d)
    PROVE  AgreeInv'
<1> DEFINE s == proc[d].steps
           c == proc[d].cur
           S == Touched(c.eff)
<1>1. /\ s # <<>> /\ Head(s) = "place" /\ Doing(d, "place")
      /\ UNCHANGED <<trash, stray, txns, manifest, journal, nextTx, sess, lease, pending>>
    BY DEF StepPlace, Doing
<1>2. c.kind = "PUBLISH" /\ InSection(d) /\ Fit(proc[d])
    BY <1>1, StepKinds DEF StepsOf, Held, AgreeInv
<1>3. PICK x \in txns : Twin(x, c) /\ txns = {x}
    BY <1>1, <1>2, StepKinds DEF Unmarked, Doing
<1>4. ~Committed(journal, c.tx)
    BY <1>1, <1>2 DEF Fit, Ready, AtStep
<1>5. Calm(S)
  <2>1. MarkerOK(c)
      BY <1>3, TwinOK DEF Held, AgreeInv, Agreed
  <2> QED BY <1>2, <1>4, <2>1 DEF MarkerOK
<1>6. CleanLog' /\ OneMarker' /\ Recorded' = Recorded
    BY <1>1 DEF Held, AgreeInv, CleanLog, OneMarker, Recorded
<1>7. tree \in [Paths -> Versions \cup {NoFile}]
    BY DEF Held, IInv, TypeOK
<1>8. ASSUME SetProc(d, Popped(d)), UNCHANGED tree,
             \A p \in S : ~Misplaced(c.eff, p) /\ tree[p] # NoFile
      PROVE  AgreeInv'
  <2>1. Done(c)
    <3> SUFFICES ASSUME NEW p \in Paths \ stray
                 PROVE  FileOf(Overlay(Recorded, c.eff)[p]) = tree[p]
        BY DEF Done
    <3>1. CASE p \in S
      <4>1. tree[p] = c.eff[p] /\ tree[p] \in Versions
          BY <1>7, <1>8, <3>1 DEF Misplaced
      <4>2. c.eff[p] # NoEntry
          BY <3>1 DEF Touched
      <4> QED BY <4>1, <4>2, FileOfOverlay DEF FileOf
    <3>2. CASE p \notin S
      <4>1. c.eff[p] = NoEntry /\ FileOf(Recorded[p]) = tree[p]
          BY <1>5, <3>2 DEF Touched, Calm
      <4> QED BY <4>1, FileOfOverlay
    <3> QED BY <3>1, <3>2
  <2>2. Agreed'
    <3>1. \A m : MarkerOK(m)' <=> MarkerOK(m)
        BY <1>1, <1>8, ReadyStays
    <3> QED BY <1>1, <1>3, <3>1 DEF Agreed, Held, AgreeInv
  <2>3. /\ proc'[d].steps = Tail(s) /\ Tail(s) # <<>> /\ proc'[d].cur = c
        /\ <<Head(s), Head(Tail(s))>> \in Links
      BY <1>1, <1>2, <1>8, PoppedFits DEF Doing, Unmarked
  <2>4. Ready(proc[d])'
    <3> DEFINE r == Popped(d)
    <3>1. proc'[d] = r
        BY <1>8 DEF SetProc, Held, IInv, TypeOK
    <3> HIDE DEF r
    <3>2. r.steps # <<>> /\ Head(r.steps) = "advance" /\ r.cur = c
        BY <1>1, <2>3, <3>1 DEF Links
    <3>3. Ready(r)
        BY <1>2, <1>4, <2>1, <3>2 DEF Ready, AtStep, MayUndo, Moving
    <3>4. ~AtStep(r, {"begin"})
        BY <3>2 DEF AtStep
    <3> QED BY <1>1, <1>8, <3>1, <3>3, <3>4, ReadyStays
  <2>5. \A e \in Devices : proc[e].op = "publish" /\ proc[e].ph \in {"lock", "recover"} =>
            ~Committed(journal', proc[e].own.tx)
      BY <1>1, NotYetRecorded
  <2>6. \A y \in txns' : \E z \in txns : Twin(z, y)
      BY <1>1 DEF Twin
  <2>7. ~Doing(d, "clear") /\ \E z \in txns' : Twin(z, c)
      BY <1>1, <1>3 DEF Doing
  <2> QED BY <1>1, <1>6, <1>8, <2>2, <2>4, <2>5, <2>6, <2>7, PopAgrees
<1>9. ASSUME NEW p \in S, tree' = [tree EXCEPT ![p] = c.eff[p]], UNCHANGED proc
      PROVE  AgreeInv'
  <2>1. ASSUME NEW y, Twin(y, c) PROVE Calm(Touched(y.eff))'
    <3>1. y.eff = c.eff /\ \A q \in Paths \ (stray \cup S) : tree'[q] = tree[q]
        BY <1>7, <1>9, <2>1 DEF Twin
    <3>2. \A q \in Paths \ (stray \cup S) : FileOf(Recorded'[q]) = tree'[q]
        BY <1>5, <1>6, <3>1 DEF Calm
    <3> QED BY <1>1, <3>1, <3>2 DEF Calm, Touched, FileOf
  <2>2. Agreed'
    <3>1. x.kind = "PUBLISH" /\ x.tx = c.tx /\ Calm(Touched(x.eff))'
        BY <1>2, <1>3, <2>1 DEF Twin
    <3>2. MarkerOK(x)'
        BY <1>1, <1>4, <3>1 DEF MarkerOK, Unmarked
    <3> QED BY <1>1, <1>3, <3>2 DEF Agreed
  <2>3. ClientsOK' /\ PublishAlone'
      BY <1>1, <1>9 DEF Held, AgreeInv, ClientsOK, PublishAlone
  <2>4. /\ \A q : NotYet(q)' <=> NotYet(q)
        /\ \A q : Opened(q)' <=> Opened(q)
        /\ \A q : Covers(q)' <=> Covers(q)
        /\ \A q : OnlyPublish(q)' <=> OnlyPublish(q)
      BY <1>1 DEF NotYet, Opened, Covers, OnlyPublish
  <2>5. \A e \in Devices : NotYet(proc[e])'
    <3>1. \A e \in Devices : NotYet(proc[e])
        BY DEF Held, AgreeInv, Fit
    <3> QED BY <1>9, <2>4, <3>1
  <2>6. Opened(proc[d])' /\ Covers(proc[d])' /\ OnlyPublish(proc[d])'
      BY <1>2, <1>9, <2>4 DEF Fit
  <2>7. Ready(proc[d])'
      BY <1>1, <1>2, <1>4, <1>9 DEF Ready, AtStep
  <2>8. Ids(proc'[d], nextTx) /\ Orderly(proc'[d])
      BY <1>2, <1>9 DEF Fit
  <2> QED BY <1>1, <1>2, <1>6, <1>9, <2>2, <2>3, <2>5, <2>6, <2>7, <2>8, SectionAgrees
<1>10. \/ /\ SetProc(d, Popped(d)) /\ UNCHANGED tree
          /\ \A p \in S : ~Misplaced(c.eff, p) /\ tree[p] # NoFile
       \/ \E p \in S : tree' = [tree EXCEPT ![p] = c.eff[p]] /\ UNCHANGED proc
    BY DEF StepPlace
<1> QED BY <1>8, <1>9, <1>10

\* The bump fails in a command's body: the transaction is taken from the record
\* again, and the move, if there was one, is undone next.
LEMMA FailBumpAgrees ==
    ASSUME Held, TypeOK', NEW d \in Devices, FailStep(d, "bump"), ~Spoils
    PROVE  AgreeInv'
<1> DEFINE c == proc[d].cur
           W == View(manifest, Front(journal))
           plan == FailedPlan(c, "bump")
           r == IF plan = <<>> THEN Halted(d) ELSE [proc[d] EXCEPT !.steps = plan]
<1>1. /\ proc[d].steps # <<>> /\ Head(proc[d].steps) = "bump" /\ Doing(d, "bump")
      /\ c.kind \notin {"NONE", "PUBLISH"} /\ journal' = Front(journal)
      /\ UNCHANGED <<tree, trash, stray, txns, manifest, lease, pending, nextTx>>
    BY DEF FailStep, Doing, RollsBack
<1>2. Fit(proc[d]) /\ nextTx \in Nat /\ nextTx >= 1 /\ TypeOK
    BY DEF Held, AgreeInv, IInv, TypeOK, AnnounceInv, TagInv
<1>3. c.kind \in Moving \cup {"ABSENT"} /\ InSection(d)
  <2>1. c.kind \in Kinds /\ InSection(d)
      BY <1>1, StepKinds
  <2> QED BY <1>1, <2>1 DEF Kinds, Moving
<1>4. proc[d].ph = "body"
    BY <1>3 DEF Spoils, InSection
<1>5. SetProc(d, r)
    BY <1>4 DEF FailStep
<1>6. /\ r.ph = "body" /\ r.op = proc[d].op /\ r.own = proc[d].own
      /\ plan = <<>> => r.steps = <<>> /\ r.cur = NoMarker
      /\ plan # <<>> => r.steps = plan /\ r.cur = c
    BY <1>2, <1>4, PlanFields, HaltedFields
<1>7. plan = IF c.kind = "ABSENT" THEN <<>> ELSE <<"undo", "clear">>
    BY DEF FailedPlan
<1> HIDE DEF r, plan
<1>8. proc'[d] = r /\ \A e \in Devices \ {d} : proc'[e] = proc[e]
    BY <1>2, <1>5 DEF SetProc, TypeOK
<1>9. ClientsOK' /\ PublishAlone'
  <2>1. \A e \in Devices : /\ sess'[e] \in {sess[e], "over"} /\ (e # d => sess'[e] = sess[e])
                           /\ proc'[e].op = proc[e].op
      BY <1>2, <1>6, <1>8 DEF FailStep, TypeOK
  <2>2. PublishAlone'
      BY <1>1, <2>1, AloneStays
  <2> QED BY <1>1, <2>1, <2>2 DEF Held, AgreeInv, ClientsOK
<1>10. /\ Recorded = Overlay(W, c.eff) /\ Recorded' = W
       /\ \A tx : Committed(journal', tx) => Committed(journal, tx)
       /\ CleanLog'
  <2>1. /\ Recorded = Overlay(W, c.eff)
        /\ \A tx : Committed(journal, tx) <=> Committed(Front(journal), tx) \/ tx = c.tx
        /\ \A i \in DOMAIN Front(journal) :
               Front(journal)[i].end \in {"full", "line"} /\ Front(journal)[i].tx[1] < nextTx
      BY <1>1, FrontFacts DEF Held, AgreeInv
  <2> QED BY <1>1, <2>1 DEF Recorded, CleanLog
<1>11. /\ ~Committed(journal', c.tx) /\ Calm({})
       /\ \A p \in Paths \ stray : FileOf(W[p]) = Undone(c)[p]
       /\ c.kind # "ABSENT" => Moved(c)
    BY <1>1, <1>2, <1>3, <1>4 DEF Fit, Ready, AtStep, MayUndo, Restores
<1>12. \A y : Twin(y, c) => Done(y)'
  <2>1. \A p \in Paths \ stray : FileOf(Overlay(Recorded', c.eff)[p]) = tree[p]
      BY <1>10, <1>11 DEF Calm
  <2>2. ASSUME NEW y, y.eff = c.eff PROVE Done(y)'
      BY <1>1, <2>1, <2>2 DEF Done, FileOf
  <2> QED BY <2>2 DEF Twin
<1>13. \A m : /\ Moved(m)' <=> Moved(m)
              /\ Undone(m)' = Undone(m)
    BY <1>1, SameShare
<1>14. OneMarker' /\ \A e \in Devices : NotYet(proc[e])'
  <2>1. \A q : NotYet(q) => NotYet(q)'
      BY <1>1, <1>10 DEF NotYet
  <2>2. NotYet(r)
    <3>1. r.ph = "body" /\ ~AtStep(r, {"begin"})
        BY <1>6, <1>7 DEF AtStep
    <3> QED BY <3>1 DEF NotYet
  <2>3. \A e \in Devices : NotYet(proc[e])
      BY DEF Held, AgreeInv, Fit
  <2>4. \A e \in Devices : NotYet(proc[e])'
      BY <1>8, <2>1, <2>2, <2>3
  <2> QED BY <1>1, <2>4 DEF Held, AgreeInv, OneMarker
<1>15. Ids(r, nextTx) /\ Covers(r)
    BY <1>2, <1>6 DEF Fit, Ids, NoMarker, NoTxId, Covers
<1>16. CASE c.kind = "ABSENT"
  <2>1. txns = {} /\ r.steps = <<>>
      BY <1>1, <1>6, <1>7, <1>16, UnmarkedAlone DEF Unmarked
  <2>2. Calm({})'
    <3>1. Undone(c) = tree
        BY <1>16 DEF Undone, Renaming
    <3>2. \A p \in Paths \ stray : FileOf(Recorded'[p]) = tree[p]
        BY <1>10, <1>11, <3>1
    <3> QED BY <1>1, <3>2 DEF Calm, FileOf
  <2>3. Agreed'
      BY <1>1, <2>1, <2>2 DEF Agreed
  <2>4. Orderly(r) /\ Opened(r) /\ OnlyPublish(r)
      BY <2>1 DEF Orderly, Opened, OnlyPublish
  <2>5. Opened(proc[d])' /\ Covers(proc[d])' /\ OnlyPublish(proc[d])' /\ Ready(proc[d])'
      BY <1>1, <1>8, <2>1 DEF Opened, Covers, OnlyPublish, Ready, AtStep
  <2> QED BY <1>1, <1>3, <1>8, <1>9, <1>10, <1>14, <1>15, <2>3, <2>4, <2>5, SectionAgrees
<1>17. CASE c.kind # "ABSENT"
  <2>1. c.kind \in Moving /\ c.kind \notin Unmarked /\ c.kind # "PUBLISH"
      BY <1>3, <1>17 DEF Moving, Unmarked
  <2>2. PICK x \in txns : Twin(x, c) /\ txns = {x}
      BY <1>1, <2>1, StepKinds DEF Doing
  <2>3. /\ r.steps = <<"undo", "clear">> /\ r.cur = c /\ r.steps # <<>> /\ Head(r.steps) = "undo"
      BY <1>6, <1>7, <1>17
  <2>4. Agreed'
    <3>1. x.kind = c.kind /\ x.tx = c.tx /\ Done(x)'
        BY <1>12, <2>2 DEF Twin
    <3>2. Moved(x)'
        BY <1>11, <1>13, <1>17, <2>2, TwinOK
    <3>3. MarkerOK(x)'
        BY <1>11, <2>1, <3>1, <3>2 DEF MarkerOK
    <3> QED BY <1>1, <2>2, <3>3 DEF Agreed
  <2>5. Orderly(r)
    <3>1. Linked(<<"undo", "clear">>, c.kind)
        BY <2>1 DEF Linked, StepsOf, Links, Moving, Unmarked
    <3> QED BY <1>6, <2>1, <2>3, <3>1 DEF Orderly, AtStep
  <2>6. Opened(proc[d])' /\ Covers(proc[d])' /\ OnlyPublish(proc[d])'
      BY <1>1, <1>6, <1>8, <2>1, <2>2, <2>3 DEF Opened, Covers, OnlyPublish, Twin
  <2>7. Ready(proc[d])'
    <3>1. proc'[d].cur = c /\ Twin(c, c) /\ proc'[d].steps # <<>> /\ Head(proc'[d].steps) = "undo"
        BY <1>8, <2>3 DEF Twin
    <3>2. Moved(proc[d].cur)' /\ Done(proc[d].cur)'
      <4>1. Moved(c)
          BY <1>11, <1>17
      <4> QED BY <1>12, <1>13, <3>1, <4>1
    <3>3. Restores(Recorded, proc[d].cur)'
      <4>1. Undone(proc[d].cur)' = Undone(c)
          BY <1>13, <3>1
      <4> QED BY <1>1, <1>10, <1>11, <4>1 DEF Restores, FileOf
    <3>4. ~Committed(journal', proc'[d].cur.tx)
        BY <1>11, <3>1
    <3> QED BY <3>1, <3>2, <3>3, <3>4 DEF Ready, AtStep
  <2> QED BY <1>1, <1>3, <1>8, <1>9, <1>10, <1>14, <1>15, <2>4, <2>5, <2>6, <2>7, SectionAgrees
<1> QED BY <1>16, <1>17

-----------------------------------------------------------------------------
(* Recovery, and the body of each command *)

\* A process turns to other work of its command, and no client takes a step.
LEMMA WorkAgrees ==
    ASSUME Held, TypeOK', NEW d \in Devices, NEW r, SetProc(d, r), nextTx' >= nextTx, r.op = proc[d].op,
           UNCHANGED <<tree, trash, stray, txns, manifest, journal, sess, lease, pending>>,
           Ids(r, nextTx'), NotYet(r), Orderly(r), Opened(r), Covers(r), OnlyPublish(r), Ready(r)
    PROVE  AgreeInv'
<1>1. \A e \in Devices : proc'[e].op = proc[e].op
    BY DEF SetProc, Held, IInv, TypeOK
<1>2. \A e \in Devices : pending[e].tx[1] < nextTx'
  <2>1. \A e \in Devices : pending[e].tx[1] < nextTx /\ pending[e].tx[1] \in Nat
      BY DEF Held, AgreeInv, ClientsOK, IInv, TypeOK, TxIds
  <2> QED BY <2>1 DEF Held, IInv, TypeOK
<1>3. ClientsOK'
    BY <1>1, <1>2 DEF Held, AgreeInv, ClientsOK
<1>4. PublishAlone'
    BY <1>1 DEF Held, AgreeInv, PublishAlone
<1> QED BY <1>3, <1>4, TurnAgrees

\* At its body, a command has recovered all but the publishes that failed.
LEMMA BodyFinds ==
    ASSUME Held, NEW d \in Devices, NEW op, AtBody(d, op)
    PROVE  /\ \A m \in txns : m.kind = "PUBLISH" /\ op # "wait"
           /\ op \in {"append", "retry", "delete", "browse"} => txns = {}
           /\ proc[d].steps = <<>> /\ proc[d].ph = "recover" /\ proc[d].op = op /\ Fit(proc[d])
<1>1. Fit(proc[d]) /\ proc[d].ph = "recover" /\ proc[d].todo = {} /\ proc[d].steps = <<>> /\ proc[d].op = op
    BY DEF AtBody, Held, AgreeInv
<1>2. \A m \in txns : m.kind = "PUBLISH" /\ op # "wait"
    BY <1>1 DEF Fit, Covers
<1>3. op \in {"append", "retry", "delete", "browse"} => \A m \in txns : m.kind # "PUBLISH"
    BY <1>1, NoPublishInUse
<1> QED BY <1>1, <1>2, <1>3

\* The glob at the lock finds every marker.
LEMMA EnterAgrees ==
    ASSUME Held, TypeOK', NEW d \in Devices, Enter(d)
    PROVE  AgreeInv'
<1> DEFINE r == [proc[d] EXCEPT !.ph = "recover", !.todo = {m.tx : m \in txns}]
<1>1. /\ SetProc(d, r) /\ proc[d].ph = "lock" /\ nextTx' = nextTx
      /\ UNCHANGED <<tree, trash, stray, txns, manifest, journal, sess, lease, pending>>
    BY DEF Enter
<1>2. proc[d].steps = <<>> /\ Fit(proc[d]) /\ nextTx \in Nat
    BY <1>1 DEF Held, IInv, StepsInSection, InSection, AgreeInv, TypeOK
<1>3. /\ r.ph = "recover" /\ r.todo = {m.tx : m \in txns} /\ r.op = proc[d].op
      /\ r.own = proc[d].own /\ r.cur = proc[d].cur /\ r.steps = <<>>
    BY <1>2 DEF Held, IInv, TypeOK, Procs
<1> HIDE DEF r
<1>4. Ids(r, nextTx') /\ NotYet(r)
    BY <1>1, <1>2, <1>3 DEF Fit, Ids, NotYet, AtStep
<1>5. Orderly(r) /\ Opened(r) /\ Covers(r) /\ OnlyPublish(r) /\ Ready(r)
    BY <1>3 DEF Orderly, Opened, Covers, OnlyPublish, Ready, AtStep
<1>6. nextTx' >= nextTx
    BY <1>1, <1>2
<1> QED BY <1>1, <1>3, <1>4, <1>5, <1>6, WorkAgrees

\* What recovery plans for a marker fits what the marker says.
LEMMA PlanFits ==
    ASSUME Held, NEW m \in txns, NEW s, s = RecoveryPlan(m)
    PROVE  /\ s # <<>> /\ Linked(s, m.kind) /\ m.kind \notin Unmarked
           /\ Head(s) \in {"place", "append", "announce", "clear"}
           /\ Head(s) \in {"place", "append"} => ~Committed(journal, m.tx)
           /\ Head(s) = "append" => Done(m)
           /\ Head(s) = "announce" => Written(m)
           /\ Head(s) \in {"announce", "clear"} => Calm({})
<1>1. MarkerOK(m) /\ m.kind \in Kinds
    BY DEF Held, AgreeInv, Agreed, IInv, TypeOK, Markers
<1>2. CASE Committed(journal, m.tx)
  <2>1. s = IF m.kind \in {"DELETE", "PUBLISH"} THEN <<"announce", "clear">> ELSE <<"clear">>
      BY <1>2 DEF RecoveryPlan
  <2>2. Calm({}) /\ Written(m) /\ m.kind \notin Unmarked
      BY <1>1, <1>2 DEF MarkerOK
  <2>3. CASE m.kind \in {"DELETE", "PUBLISH"}
    <3>1. s = <<"announce", "clear">>
        BY <2>1, <2>3
    <3>2. Linked(s, m.kind)
        BY <2>3, <3>1 DEF Linked, StepsOf, Links, Unmarked
    <3> QED BY <2>2, <3>1, <3>2
  <2>4. CASE m.kind \notin {"DELETE", "PUBLISH"}
    <3>1. s = <<"clear">>
        BY <2>1, <2>4
    <3>2. Linked(s, m.kind)
        BY <2>2, <2>4, <3>1 DEF Linked, StepsOf, Links, Unmarked
    <3> QED BY <2>2, <3>1, <3>2
  <2> QED BY <2>3, <2>4
<1>3. CASE ~Committed(journal, m.tx) /\ m.kind = "PUBLISH"
  <2>1. s = <<"place", "advance", "append", "bump", "clear">>
      BY <1>3 DEF RecoveryPlan, PublishPlan
  <2>2. Linked(s, m.kind)
      BY <1>3, <2>1 DEF Linked, StepsOf, Links, Unmarked
  <2> QED BY <1>1, <1>3, <2>1, <2>2 DEF MarkerOK
<1>4. CASE ~Committed(journal, m.tx) /\ m.kind # "PUBLISH"
  <2>1. m.kind \notin Unmarked /\ (\/ Exists(m.from) /\ ~BackupExists(m) /\ Calm({})
                                   \/ Moved(m) /\ Done(m))
      BY <1>1, <1>4 DEF MarkerOK
  <2>2. CASE Exists(m.from)
    <3>1. s = <<"clear">> /\ Calm({})
        BY <1>4, <2>1, <2>2 DEF RecoveryPlan, Moved
    <3>2. Linked(s, m.kind)
        BY <1>4, <2>1, <3>1 DEF Linked, StepsOf, Links, Unmarked
    <3> QED BY <2>1, <3>1, <3>2
  <2>3. CASE ~Exists(m.from)
    <3>1. s = <<"append", "bump", "clear">> /\ Done(m)
        BY <1>4, <2>1, <2>3 DEF RecoveryPlan, Moved, RedoPlan
    <3>2. Linked(s, m.kind)
        BY <1>4, <2>1, <3>1 DEF Linked, StepsOf, Links, Unmarked
    <3> QED BY <1>4, <2>1, <3>1, <3>2
  <2> QED BY <2>2, <2>3
<1> QED BY <1>2, <1>3, <1>4

\* One marker is taken up by recovery.
LEMMA RecoverAgrees ==
    ASSUME Held, TypeOK', NEW d \in Devices, RecoverMarker(d)
    PROVE  AgreeInv'
<1>1. PICK m \in txns :
          /\ Recovering(d, m)
          /\ m.kind = "PUBLISH" => LockSeenHeld(d)
          /\ SetProc(d, [proc[d] EXCEPT !.todo = @ \ {m.tx}, !.steps = RecoveryPlan(m),
                                        !.cur = IF RecoveryPlan(m) = <<>> THEN NoMarker ELSE m])
    BY DEF RecoverMarker
<1>2. PICK s : s = RecoveryPlan(m)
    OBVIOUS
<1>3. /\ s # <<>> /\ Linked(s, m.kind) /\ m.kind \notin Unmarked
      /\ Head(s) \in {"place", "append", "announce", "clear"}
      /\ Head(s) \in {"place", "append"} => ~Committed(journal, m.tx)
      /\ Head(s) = "append" => Done(m)
      /\ Head(s) = "announce" => Written(m)
      /\ Head(s) \in {"announce", "clear"} => Calm({})
    BY <1>2, PlanFits
<1> DEFINE r == [proc[d] EXCEPT !.todo = @ \ {m.tx}, !.steps = s, !.cur = m]
<1>4. SetProc(d, r)
    BY <1>1, <1>2, <1>3
<1>5. /\ nextTx' = nextTx /\ UNCHANGED <<tree, trash, stray, txns, manifest, journal, sess, lease, pending>>
    BY DEF RecoverMarker
<1>6. /\ proc[d].ph = "recover" /\ proc[d].steps = <<>> /\ Fit(proc[d]) /\ nextTx \in Nat
      /\ m.kind = "PUBLISH" => proc[d].op # "wait"
    BY <1>1 DEF Recovering, LockSeenHeld, Held, AgreeInv, IInv, TypeOK
<1>7. /\ r.ph = "recover" /\ r.todo = proc[d].todo \ {m.tx} /\ r.op = proc[d].op
      /\ r.own = proc[d].own /\ r.cur = m /\ r.steps = s
    BY <1>6 DEF Held, IInv, TypeOK, Procs
<1> HIDE DEF r
<1>8. Ids(r, nextTx') /\ NotYet(r)
  <2>1. m.tx[1] < nextTx
    <3>1. Tag(m) \in Tags
        BY DEF Tags
    <3> QED BY <3>1 DEF Held, AnnounceInv, TagInv, Tag
  <2>2. Ids(r, nextTx')
      BY <1>5, <1>6, <1>7, <2>1 DEF Fit, Ids
  <2> QED BY <1>6, <1>7, <2>2 DEF Fit, NotYet
<1>9. Orderly(r)
    BY <1>3, <1>6, <1>7 DEF Orderly, AtStep
<1>10. Opened(r) /\ OnlyPublish(r)
    BY <1>7 DEF Opened, OnlyPublish, Twin
<1>11. Covers(r)
    BY <1>3, <1>6, <1>7 DEF Fit, Covers
<1>12. Ready(r)
    BY <1>3, <1>7 DEF Ready, AtStep, MayUndo
<1>13. nextTx' >= nextTx
    BY <1>5, <1>6
<1> QED BY <1>4, <1>5, <1>7, <1>8, <1>9, <1>10, <1>11, <1>12, <1>13, WorkAgrees

\* A body begins with a transaction that needs no marker, or with none.
LEMMA PlainBodyAgrees ==
    ASSUME Held, TypeOK', NEW d \in Devices, NEW op, AtBody(d, op), NEW m, NEW s,
           Run(d, m, s), nextTx' = nextTx,
           UNCHANGED <<tree, trash, stray, txns, manifest, journal, sess, lease, pending>>,
           m.kind = "NONE", m.tx[1] < nextTx, Linked(s, "NONE"), op # "publish",
           s = <<>> \/ (Head(s) = "append" /\ op \in {"append", "retry"}) \/ Head(s) = "fold"
    PROVE  AgreeInv'
<1> DEFINE r == [proc[d] EXCEPT !.ph = "body", !.cur = m, !.steps = s]
<1>1. /\ \A n \in txns : n.kind = "PUBLISH"
      /\ proc[d].op = op /\ Fit(proc[d]) /\ nextTx \in Nat /\ TypeOK
    BY BodyFinds DEF Held, IInv, TypeOK
<1>2. r.ph = "body" /\ r.cur = m /\ r.steps = s /\ r.op = op /\ r.own = proc[d].own
    BY <1>1 DEF TypeOK, Procs
<1>3. SetProc(d, r)
    BY DEF Run
<1> HIDE DEF r
<1>4. Ids(r, nextTx') /\ NotYet(r)
    BY <1>1, <1>2 DEF Fit, Ids, NotYet
<1>5. Orderly(r)
    BY <1>2 DEF Orderly, AtStep, Unmarked
<1>6. Opened(r) /\ Covers(r) /\ OnlyPublish(r)
    BY <1>1, <1>2 DEF Opened, Covers, OnlyPublish, Unmarked
<1>7. Ready(r)
    BY <1>2 DEF Ready, AtStep, MayUndo, Moving
<1>8. nextTx' >= nextTx
    BY <1>1
<1> QED BY <1>1, <1>2, <1>3, <1>4, <1>5, <1>6, <1>7, <1>8, WorkAgrees

\* A client's payload is appended unless it is on record; a compaction; a
\* checked delete.
LEMMA BodiesAgree ==
    ASSUME Held, TypeOK', NEW d \in Devices, AppendBody(d) \/ CompactBody(d) \/ DeleteBody(d)
    PROVE  AgreeInv'
<1>1. /\ nextTx' = nextTx /\ nextTx \in Nat /\ nextTx >= 1 /\ TypeOK
      /\ UNCHANGED <<tree, trash, stray, txns, manifest, journal, sess, lease>>
    BY DEF AppendBody, CompactBody, DeleteBody, Run, Succeed, Held, AnnounceInv, TagInv, IInv, TypeOK
<1>2. /\ Linked(<<"append", "bump">>, "NONE") /\ Linked(<<"append", "bump", "fold", "reset">>, "NONE")
      /\ Linked(<<"fold", "reset">>, "NONE") /\ Linked(<<>>, "NONE")
    BY DEF Linked, StepsOf, Links, Unmarked
<1>3. NoMarker.kind = "NONE" /\ NoMarker.tx[1] < nextTx
    BY <1>1 DEF NoMarker, NoTxId
<1>4. CASE AppendBody(d)
  <2>1. CASE SetProc(d, Idle) /\ Succeed(d)
    <3>1. \A e \in Devices : pending'[e] = pending[e] \/ pending'[e] = NoPayload
        BY <1>1, <2>1 DEF Succeed, TypeOK
    <3> QED BY <1>1, <2>1, <3>1, SucceedAgrees
  <2>2. ASSUME UNCHANGED pending,
               NEW s \in {<<"append", "bump">>, <<"append", "bump", "fold", "reset">>}, Run(d, proc[d].own, s)
        PROVE  AgreeInv'
    <3>1. PICK op \in {"append", "retry"} : AtBody(d, op)
        BY <1>4 DEF AppendBody
    <3>2. proc[d].own.kind = "NONE"
        BY <3>1, BodyFinds DEF Held, AnnounceInv, WorkInv, Apt, OwnKind
    <3>3. proc[d].own.tx[1] < nextTx
      <4>1. Ids(proc[d], nextTx) /\ proc[d].op = op
          BY <3>1, BodyFinds DEF Fit
      <4>2. proc[d].own.tx[1] \in Nat
          BY <1>1 DEF TypeOK, Procs, Markers, TxIds
      <4> QED BY <1>1, <4>1, <4>2 DEF Ids
    <3>4. Linked(s, "NONE") /\ s # <<>> /\ Head(s) = "append"
        BY <1>2
    <3> HIDE DEF Linked
    <3> QED BY <1>1, <2>2, <3>1, <3>2, <3>3, <3>4, PlainBodyAgrees
  <2> QED BY <1>4, <2>1, <2>2 DEF AppendBody, Succeed
<1>5. CASE CompactBody(d)
  <2>1. AtBody(d, "compact") /\ Run(d, NoMarker, <<"fold", "reset">>) /\ UNCHANGED pending
      BY <1>5 DEF CompactBody
  <2>2. <<"fold", "reset">> # <<>> /\ Head(<<"fold", "reset">>) = "fold"
      OBVIOUS
  <2> QED BY <1>1, <1>2, <1>3, <2>1, <2>2, PlainBodyAgrees
<1>6. CASE DeleteBody(d)
  <2>1. AtBody(d, "delete") /\ Run(d, NoMarker, <<>>) /\ UNCHANGED pending
      BY <1>6 DEF DeleteBody
  <2> QED BY <1>1, <1>2, <1>3, <2>1, PlainBodyAgrees
<1> QED BY <1>4, <1>5, <1>6

\* A command begins a move: nothing is open, and its id is new.
LEMMA NewMoveAgrees ==
    ASSUME Held, TypeOK', NEW d \in Devices, NEW r, SetProc(d, r), nextTx' = nextTx + 1, txns = {},
           UNCHANGED <<tree, trash, stray, txns, manifest, journal, sess, lease, pending>>,
           r.op = proc[d].op, r.own = proc[d].own, r.ph = "body", r.op \in {"delete", "browse"},
           r.cur.tx = FreshTx(nextTx), r.cur.kind \in Moving, r.steps = MovePlan,
           Exists(r.cur.from), Renaming(r.cur) => ~Exists(Image(r.cur)), r.cur.eff = MoveEffect(r.cur)
    PROVE  AgreeInv'
<1>1. nextTx \in Nat /\ FreshTx(nextTx)[1] = nextTx
    BY DEF Held, IInv, TypeOK, FreshTx
<1>2. r.steps # <<>> /\ Head(r.steps) = "begin" /\ r.cur.kind \notin Unmarked /\ r.cur.kind # "PUBLISH"
    BY DEF MovePlan, Moving, Unmarked
<1>3. Linked(MovePlan, r.cur.kind)
    BY DEF MovePlan, Linked, StepsOf, Links, Moving, Unmarked
<1>4. ~BackupExists(r.cur)
  <2>1. \A e \in trash : e[1] # r.cur.tx
      BY <1>1 DEF Held, LostInv, TrashInv
  <2> QED BY <2>1 DEF BackupExists
<1>5. ~Committed(journal, r.cur.tx)
    BY <1>1 DEF Held, AgreeInv, CleanLog, Committed
<1>6. Ids(r, nextTx') /\ NotYet(r)
    BY <1>1 DEF Ids, NotYet
<1>7. Orderly(r)
    BY <1>2, <1>3 DEF Orderly
<1>8. Opened(r) /\ Covers(r) /\ OnlyPublish(r)
    BY <1>2 DEF Opened, Covers, OnlyPublish, AtStep
<1>9. Ready(r)
    BY <1>2, <1>4, <1>5 DEF Ready, AtStep, Prepared
<1>10. nextTx' >= nextTx
    BY <1>1
<1> QED BY <1>6, <1>7, <1>8, <1>9, <1>10, WorkAgrees

\* The next path of a checked delete: skipped, journaled as gone, or moved.
LEMMA ItemAgrees ==
    ASSUME Held, TypeOK', NEW d \in Devices, NEW p \in Paths, DeleteItem(d, p)
    PROVE  AgreeInv'
<1> DEFINE item == [NoMarker EXCEPT !.tx = FreshTx(nextTx), !.from = {p},
                                    !.kind = IF tree[p] = NoFile THEN "ABSENT" ELSE "DELETE",
                                    !.eff = [NoEffect EXCEPT ![p] = Tomb]]
           stale == tree[p] # NoFile /\ tree[p] # proc[d].req[p]
           r == [proc[d] EXCEPT
                     !.req[p] = NoEntry,
                     !.cur = IF stale THEN NoMarker ELSE item,
                     !.steps = IF stale THEN <<>>
                               ELSE IF tree[p] = NoFile THEN <<"append", "bump">> ELSE MovePlan]
<1>1. /\ SetProc(d, r) /\ nextTx' = (IF stale THEN nextTx ELSE nextTx + 1)
      /\ proc[d].op = "delete" /\ proc[d].ph = "body" /\ proc[d].steps = <<>>
      /\ UNCHANGED <<tree, trash, stray, txns, manifest, journal, sess, lease, pending>>
    BY DEF DeleteItem
<1>2. Fit(proc[d]) /\ nextTx \in Nat /\ nextTx >= 1 /\ TypeOK /\ tree[p] \in Versions \cup {NoFile}
    BY DEF Held, AgreeInv, AnnounceInv, TagInv, IInv, TypeOK
<1>3. /\ r.op = "delete" /\ r.ph = "body" /\ r.own = proc[d].own
      /\ r.cur = (IF stale THEN NoMarker ELSE item)
      /\ r.steps = (IF stale THEN <<>> ELSE IF tree[p] = NoFile THEN <<"append", "bump">> ELSE MovePlan)
    BY <1>1, <1>2 DEF TypeOK, Procs
<1>4. /\ item.tx = FreshTx(nextTx) /\ item.from = {p} /\ item.eff = [NoEffect EXCEPT ![p] = Tomb]
      /\ item.kind = IF tree[p] = NoFile THEN "ABSENT" ELSE "DELETE"
    BY DEF NoMarker
<1> HIDE DEF r, item
<1>5. txns = {}
  <2>1. \A m \in txns : m.kind = "PUBLISH"
      BY <1>1, <1>2 DEF Fit, OnlyPublish
  <2>2. \A m \in txns : m.kind # "PUBLISH"
      BY <1>1, NoPublishInUse
  <2> QED BY <2>1, <2>2
<1>6. Calm({}) /\ FreshTx(nextTx)[1] = nextTx /\ ~Committed(journal, FreshTx(nextTx))
  <2>1. Calm({}) /\ FreshTx(nextTx)[1] = nextTx
      BY <1>5 DEF Held, AgreeInv, Agreed, FreshTx
  <2> QED BY <1>2, <2>1 DEF Held, AgreeInv, CleanLog, Committed
<1>7. CASE stale
  <2>1. r.steps = <<>> /\ r.cur = NoMarker /\ nextTx' = nextTx
      BY <1>1, <1>3, <1>7
  <2>2. Ids(r, nextTx') /\ NotYet(r)
      BY <1>2, <1>3, <2>1 DEF Ids, NotYet, NoMarker, NoTxId
  <2>3. Orderly(r) /\ Opened(r) /\ Covers(r) /\ OnlyPublish(r) /\ Ready(r)
      BY <1>3, <1>5, <2>1 DEF Orderly, Opened, Covers, OnlyPublish, Ready, AtStep
  <2>4. nextTx' >= nextTx /\ r.op = proc[d].op
      BY <1>1, <1>2, <1>3, <2>1
  <2> QED BY <1>1, <2>2, <2>3, <2>4, WorkAgrees
<1>8. CASE ~stale /\ tree[p] = NoFile
  <2>1. /\ r.steps = <<"append", "bump">> /\ r.cur = item /\ nextTx' = nextTx + 1 /\ item.kind = "ABSENT"
        /\ r.steps # <<>> /\ Head(r.steps) = "append"
      BY <1>1, <1>3, <1>4, <1>8
  <2>2. Linked(r.steps, "ABSENT")
      BY <2>1 DEF Linked, StepsOf, Links, Unmarked
  <2>3. Done(item)
    <3> SUFFICES ASSUME NEW q \in Paths \ stray
                 PROVE  FileOf(Overlay(Recorded, item.eff)[q]) = tree[q]
        BY DEF Done
    <3>1. item.eff[q] = IF q = p THEN Tomb ELSE NoEntry
        BY <1>4 DEF NoEffect
    <3>2. FileOf(Recorded[q]) = tree[q]
        BY <1>6 DEF Calm
    <3> QED BY <1>8, <3>1, <3>2, FileOfOverlay, EntryAssumption DEF FileOf
  <2>4. Restores(Recorded, item)
    <3>1. Undone(item) = tree
        BY <2>1 DEF Undone, Renaming
    <3> QED BY <1>6, <3>1 DEF Restores, Calm
  <2>5. Ids(r, nextTx') /\ NotYet(r)
      BY <1>2, <1>3, <1>4, <1>6, <2>1 DEF Ids, NotYet
  <2>6. Orderly(r)
      BY <1>3, <2>1, <2>2 DEF Orderly, AtStep
  <2>7. Opened(r) /\ Covers(r) /\ OnlyPublish(r)
      BY <1>3, <1>5, <2>1 DEF Opened, Covers, OnlyPublish, Unmarked
  <2>8. Ready(r)
      BY <1>4, <1>6, <2>1, <2>3, <2>4 DEF Ready, AtStep, MayUndo, Moving
  <2>9. nextTx' >= nextTx /\ r.op = proc[d].op
      BY <1>1, <1>2, <1>3, <2>1
  <2> QED BY <1>1, <2>5, <2>6, <2>7, <2>8, <2>9, WorkAgrees
<1>9. CASE ~stale /\ tree[p] # NoFile
  <2>1. /\ r.steps = MovePlan /\ r.cur = item /\ nextTx' = nextTx + 1
        /\ item.kind = "DELETE" /\ item.kind \in Moving /\ ~Renaming(item)
      BY <1>1, <1>3, <1>4, <1>9 DEF Moving, Renaming
  <2>2. Files(item.from) = {p}
      BY <1>4, <1>9 DEF Files
  <2>3. item.eff = MoveEffect(item)
    <3>1. MoveEffect(item) = [q \in Paths |-> IF q \in {p} THEN Tomb ELSE NoEntry]
        BY <2>1, <2>2 DEF MoveEffect
    <3> QED BY <1>4, <3>1 DEF NoEffect
  <2>4. Exists(item.from)
      BY <2>2 DEF Exists
  <2> QED BY <1>1, <1>3, <1>4, <1>5, <2>1, <2>3, <2>4, NewMoveAgrees
<1> QED BY <1>7, <1>8, <1>9

\* browse-delete and browse-rename under the lock.
LEMMA BrowseAgrees ==
    ASSUME Held, TypeOK', NEW d \in Devices, BrowseBody(d)
    PROVE  AgreeInv'
<1> DEFINE own == proc[d].own
           gone == [p \in Paths |-> IF p \in Files(own.from) THEN Tomb ELSE NoEntry]
           both == [p \in Paths |-> IF \E q \in Files(own.from) : own.to[q] = p
                                    THEN tree[CHOOSE q \in Files(own.from) : own.to[q] = p]
                                    ELSE gone[p]]
           m == [own EXCEPT !.tx = FreshTx(nextTx),
                            !.eff = IF own.kind = "BROWSE_RENAME_V2" THEN both ELSE gone]
           r == [proc[d] EXCEPT !.ph = "body", !.cur = m, !.steps = MovePlan]
<1>1. /\ AtBody(d, "browse") /\ own \in Markers /\ TypeOK
      /\ UNCHANGED <<tree, trash, stray, txns, manifest, journal, sess, lease, pending>>
    BY DEF BrowseBody, Held, IInv, TypeOK, Procs
<1>2. txns = {} /\ proc[d].op = "browse" /\ own.kind \in Moving \ {"DELETE"}
    BY <1>1, BodyFinds DEF Held, AnnounceInv, WorkInv, Apt, OwnKind
<1>3. CASE SetProc(d, Idle) /\ UNCHANGED nextTx
    BY <1>1, <1>3, SucceedAgrees
<1>4. CASE /\ Exists(own.from) /\ (Renaming(own) => ~Exists(Image(own)))
           /\ nextTx' = nextTx + 1 /\ Run(d, m, MovePlan)
  <2>1. /\ m.tx = FreshTx(nextTx) /\ m.kind = own.kind /\ m.from = own.from /\ m.to = own.to
        /\ m.eff = (IF own.kind = "BROWSE_RENAME_V2" THEN both ELSE gone)
      BY <1>1 DEF Markers
  <2>2. m.eff = MoveEffect(m)
    <3>1. CASE own.kind = "BROWSE_RENAME_V2"
      <4>1. m.eff = both
          BY <2>1, <3>1
      <4> QED BY <2>1, <3>1, <4>1 DEF MoveEffect
    <3>2. CASE own.kind # "BROWSE_RENAME_V2"
      <4>1. m.eff = gone
          BY <2>1, <3>2
      <4> QED BY <2>1, <3>2, <4>1 DEF MoveEffect
    <3> QED BY <3>1, <3>2
  <2>3. SetProc(d, r)
      BY <1>4 DEF Run
  <2> HIDE DEF m
  <2>4. r.ph = "body" /\ r.cur = m /\ r.steps = MovePlan /\ r.op = "browse" /\ r.own = proc[d].own
      BY <1>1, <1>2 DEF TypeOK, Procs
  <2> HIDE DEF r
  <2>5. Exists(m.from) /\ (Renaming(m) => ~Exists(Image(m))) /\ m.kind \in Moving
      BY <1>2, <1>4, <2>1 DEF Renaming, Image
  <2> QED BY <1>1, <1>2, <1>4, <2>1, <2>2, <2>3, <2>4, <2>5, NewMoveAgrees
<1>5. \/ SetProc(d, Idle) /\ UNCHANGED nextTx
      \/ /\ Exists(own.from) /\ (Renaming(own) => ~Exists(Image(own)))
         /\ nextTx' = nextTx + 1 /\ Run(d, m, MovePlan)
    BY DEF BrowseBody
<1> QED BY <1>3, <1>4, <1>5

\* A publish under the lock finds no marker, and its batch not on record.
LEMMA PublishAgrees ==
    ASSUME Held, TypeOK', NEW d \in Devices, PublishBody(d)
    PROVE  AgreeInv'
<1> DEFINE own == proc[d].own
           r == [proc[d] EXCEPT !.ph = "body", !.cur = own, !.steps = NewPublishPlan]
<1>1. /\ AtBody(d, "publish") /\ TypeOK /\ nextTx' = nextTx /\ nextTx \in Nat /\ nextTx >= 1
      /\ UNCHANGED <<tree, trash, stray, txns, manifest, journal, sess, lease, pending>>
    BY DEF PublishBody, Held, IInv, TypeOK, AnnounceInv, TagInv
<1>2. CASE SetProc(d, Idle)
    BY <1>1, <1>2, SucceedAgrees
<1>3. CASE Run(d, own, NewPublishPlan)
  <2>1. /\ proc[d].op = "publish" /\ proc[d].ph = "recover" /\ own.kind = "PUBLISH" /\ own.tx[1] = 0
        /\ \A m \in txns : m.kind = "PUBLISH"
      BY <1>1, BodyFinds DEF Held, AnnounceInv, WorkInv, Apt, OwnKind
  <2>2. ~Committed(journal, own.tx) /\ txns = {}
      BY <2>1, NotYetRecorded
  <2>3. r.ph = "body" /\ r.cur = own /\ r.steps = NewPublishPlan /\ r.op = "publish" /\ r.own = own
      BY <1>1, <2>1 DEF TypeOK, Procs
  <2>4. SetProc(d, r)
      BY <1>3 DEF Run
  <2> HIDE DEF r
  <2>5. r.steps # <<>> /\ Head(r.steps) = "begin"
      BY <2>3 DEF NewPublishPlan
  <2>6. Linked(NewPublishPlan, "PUBLISH")
      BY DEF NewPublishPlan, Linked, StepsOf, Links, Unmarked
  <2>7. Ids(r, nextTx') /\ NotYet(r)
      BY <1>1, <2>1, <2>2, <2>3 DEF Ids, NotYet
  <2>8. Orderly(r)
      BY <2>1, <2>3, <2>6 DEF Orderly, Unmarked
  <2>9. Opened(r) /\ Covers(r) /\ OnlyPublish(r)
      BY <2>2, <2>3, <2>5 DEF Opened, Covers, OnlyPublish, AtStep
  <2>10. Ready(r)
      BY <2>1, <2>2, <2>3, <2>5 DEF Ready, AtStep, Moving
  <2>11. nextTx' >= nextTx
      BY <1>1
  <2> QED BY <1>1, <2>1, <2>3, <2>4, <2>7, <2>8, <2>9, <2>10, <2>11, WorkAgrees
<1> QED BY <1>2, <1>3 DEF PublishBody

\* The lease is granted when no marker is left.
LEMMA GrantAgrees ==
    ASSUME Held, TypeOK', NEW d \in Devices, LeaseGranted(d)
    PROVE  AgreeInv'
<1>1. /\ AtBody(d, "wait") /\ SetProc(d, Idle) /\ sess' = [sess EXCEPT ![d] = "plan"]
      /\ nextTx' = nextTx /\ nextTx \in Nat /\ nextTx >= 1
      /\ UNCHANGED <<tree, trash, stray, txns, manifest, journal, lease, pending>>
    BY DEF LeaseGranted, Held, IInv, TypeOK, AnnounceInv, TagInv
<1>2. txns = {} /\ proc[d].op = "wait" /\ lease = d
    BY <1>1, BodyFinds DEF Held, LostInv, LeaseInv
<1>3. /\ Idle.steps = <<>> /\ ~Lockers(Idle) /\ Ids(Idle, nextTx) /\ NotYet(Idle) /\ Idle.op = "none"
    BY <1>1, IdleFits
<1>4. proc'[d].op = "none" /\ \A e \in Devices \ {d} : proc'[e] = proc[e] /\ sess'[e] = sess[e]
    BY <1>1, <1>3 DEF SetProc, Held, IInv, TypeOK
<1>5. ClientsOK'
    BY <1>1, <1>2, <1>4 DEF Held, AgreeInv, ClientsOK
<1>6. PublishAlone'
    BY <1>1, <1>2 DEF PublishAlone
<1>7. nextTx' >= nextTx
    BY <1>1
<1> QED BY <1>1, <1>3, <1>5, <1>6, <1>7, RestAgrees

\* A command ends, well or badly.
LEMMA EndsAgree ==
    ASSUME Held, TypeOK', Tears \subseteq {"line"}, NEW d \in Devices,
           Finish(d) \/ RecoverRefused(d) \/ PlaceConflict(d) \/ FailCommand(d) \/ Kill(d)
               \/ \E step \in {"begin", "place", "advance", "append", "bump"} : FailPublish(d, step)
    PROVE  AgreeInv'
<1>1. CASE Finish(d)
  <2>1. /\ SetProc(d, Idle) /\ nextTx' = nextTx
        /\ UNCHANGED <<tree, trash, stray, txns, manifest, journal, lease, sess>>
      BY <1>1 DEF Finish, Succeed
  <2>2. \A e \in Devices : pending'[e] = pending[e] \/ pending'[e] = NoPayload
      BY <1>1 DEF Finish, Succeed, Held, IInv, TypeOK
  <2> QED BY <2>1, <2>2, SucceedAgrees
<1>2. CASE RecoverRefused(d)
    BY <1>2, BreakAgrees DEF RecoverRefused
<1>3. CASE PlaceConflict(d)
  <2>1. /\ proc[d].steps # <<>> /\ Head(proc[d].steps) = "place"
        /\ nextTx' = nextTx /\ UNCHANGED <<tree, trash, stray, txns, manifest>> /\ journal' = journal
        /\ IF proc[d].ph = "recover" THEN SetProc(d, Halted(d)) /\ UNCHANGED <<lease, sess, batch, pending>>
                                     ELSE Break(d)
      BY <1>3 DEF PlaceConflict, Doing
  <2>2. proc[d].cur.kind = "PUBLISH"
      BY <2>1, StepKinds DEF StepsOf
  <2> QED BY <2>1, <2>2, PublishHaltAgrees
<1>4. CASE FailCommand(d)
    BY <1>4, BreakAgrees DEF FailCommand
<1>5. CASE Kill(d)
    BY <1>5, BreakAgrees DEF Kill
<1>6. ASSUME NEW step \in {"begin", "place", "advance", "append", "bump"}, FailPublish(d, step)
      PROVE  AgreeInv'
  <2>1. /\ proc[d].steps # <<>> /\ proc[d].cur.kind = "PUBLISH"
        /\ nextTx' = nextTx /\ UNCHANGED <<tree, trash, stray, txns, manifest>>
        /\ IF proc[d].ph = "recover" THEN SetProc(d, Halted(d)) /\ UNCHANGED <<lease, sess, batch, pending>>
                                     ELSE Break(d)
      BY <1>6 DEF FailPublish, Doing
  <2>2. journal' \in {journal} \cup (IF Doing(d, "append") THEN CutShort(proc[d].cur) ELSE {})
      BY <1>6 DEF FailPublish, Doing
  <2> QED BY <2>1, <2>2, PublishHaltAgrees
<1> QED BY <1>1, <1>2, <1>3, <1>4, <1>5, <1>6

-----------------------------------------------------------------------------
(* Agreement of record and share *)

\* A command from the lock to its end.
LEMMA CommandAgrees ==
    ASSUME Held, TypeOK', Tears \subseteq {"line"}, NEW d \in Devices, Command(d)
    PROVE  AgreeInv'
<1>1. CASE Enter(d)
    BY <1>1, EnterAgrees
<1>2. CASE RecoverMarker(d)
    BY <1>2, RecoverAgrees
<1>3. CASE RecoverRefused(d) \/ PlaceConflict(d) \/ Finish(d)
    BY <1>3, EndsAgree
<1>4. CASE LeaseGranted(d)
    BY <1>4, GrantAgrees
<1>5. CASE AppendBody(d) \/ CompactBody(d) \/ DeleteBody(d)
    BY <1>5, BodiesAgree
<1>6. CASE \E p \in Paths : DeleteItem(d, p)
    BY <1>6, ItemAgrees
<1>7. CASE BrowseBody(d)
    BY <1>7, BrowseAgrees
<1>8. CASE PublishBody(d)
    BY <1>8, PublishAgrees
<1>9. CASE StepBegin(d)
    BY <1>9, BeginAgrees
<1>10. CASE StepMove(d)
    BY <1>10, MoveAgrees
<1>11. CASE StepUndo(d)
    BY <1>11, UndoAgrees
<1>12. CASE StepPlace(d)
    BY <1>12, PlaceAgrees
<1>13. CASE StepAdvance(d)
    BY <1>13, AdvanceAgrees
<1>14. CASE StepAppend(d)
    BY <1>14, AppendAgrees
<1>15. CASE StepBump(d)
    BY <1>15, BumpAgrees
<1>16. CASE StepClear(d)
    BY <1>16, ClearAgrees
<1>17. CASE StepFold(d) \/ StepReset(d)
    BY <1>17, FoldAgrees
<1> QED BY <1>1, <1>2, <1>3, <1>4, <1>5, <1>6, <1>7, <1>8, <1>9, <1>10, <1>11, <1>12, <1>13, <1>14,
           <1>15, <1>16, <1>17 DEF Command

\* A failed step, a failed command, a kill.
LEMMA FailureAgrees ==
    ASSUME Held, TypeOK', Tears \subseteq {"line"}, NEW d \in Devices, Failure(d), ~Spoils
    PROVE  AgreeInv'
<1>1. CASE FailStep(d, "undo")
    BY <1>1 DEF Spoils
<1>2. CASE FailStep(d, "bump")
    BY <1>2, FailBumpAgrees
<1>3. CASE \E step \in {"begin", "move", "advance", "append"} : FailStep(d, step)
    BY <1>3, FailStepAgrees
<1>4. CASE FailCommand(d) \/ Kill(d)
               \/ \E step \in {"begin", "place", "advance", "append", "bump"} : FailPublish(d, step)
    BY <1>4, EndsAgree
<1> QED BY <1>1, <1>2, <1>3, <1>4 DEF Failure

\* Every step keeps the agreement of record, share and markers.
LEMMA AgreeStep ==
    ASSUME Held, ~Orphans, Tears \subseteq {"line"}, [Next /\ ~Spoils]_vars
    PROVE  AgreeInv'
<1>1. TypeOK'
    BY InvStep DEF Held, IInv
<1>2. CASE UNCHANGED vars
    BY <1>1, <1>2, StagingAgrees DEF vars
<1>3. ASSUME NEW d \in Devices, Request(d), ~Spoils PROVE AgreeInv'
    BY <1>1, <1>3, RequestAgrees
<1>4. ASSUME NEW d \in Devices, Command(d) PROVE AgreeInv'
    BY <1>1, <1>4, CommandAgrees
<1>5. ASSUME NEW d \in Devices, Failure(d), ~Spoils PROVE AgreeInv'
    BY <1>1, <1>5, FailureAgrees
<1>6. CASE \E b \in StageBatches : StageUpload(b)
    BY <1>1, <1>6, StagingAgrees DEF StageUpload
<1>7. CASE Restart
    BY <1>1, <1>7, RestartAgrees
<1> QED BY <1>2, <1>3, <1>4, <1>5, <1>6, <1>7 DEF Next

\* At first share and record are empty.
LEMMA AgreeInit == Init => AgreeInv
<1> SUFFICES ASSUME Init PROVE AgreeInv
    OBVIOUS
<1>1. /\ tree = [p \in Paths |-> NoFile] /\ journal = <<>> /\ manifest = NoEffect /\ txns = {} /\ stray = {}
      /\ nextTx = 1 /\ \A d \in Devices : proc[d] = Idle /\ sess[d] = "over" /\ pending[d] = NoPayload
    BY DEF Init
<1>2. Recorded = NoEffect
    BY <1>1, BaseTypes, ViewOfEmpty DEF Recorded
<1>3. Calm({})
    BY <1>1, <1>2, EntryAssumption DEF Calm, NoEffect, FileOf
<1>4. OneMarker /\ CleanLog /\ Agreed /\ PublishAlone
    BY <1>1, <1>3 DEF OneMarker, CleanLog, Agreed, PublishAlone
<1>5. ClientsOK
    BY <1>1 DEF ClientsOK, NoPayload, NoTxId, Idle
<1>6. Fit(Idle)
  <2>1. Idle.steps = <<>> /\ ~Lockers(Idle) /\ Ids(Idle, nextTx) /\ NotYet(Idle)
      BY <1>1, IdleFits
  <2> QED BY <2>1, RestFits DEF Fit
<1> QED BY <1>1, <1>4, <1>5, <1>6 DEF AgreeInv

\* Once no transaction is open, the agreement is that of both properties.
LEMMA AgreedIsTrue == Held => NoPhantom /\ NoUnrecorded
<1> SUFFICES ASSUME Held, Quiet, NEW p \in Paths \ stray
             PROVE  /\ Recorded[p] \in Versions => tree[p] = Recorded[p]
                    /\ tree[p] # NoFile => Recorded[p] = tree[p]
    BY DEF NoPhantom, NoUnrecorded
<1>1. FileOf(Recorded[p]) = tree[p]
    BY DEF Held, AgreeInv, Agreed, Quiet, Calm
<1> QED BY <1>1 DEF FileOf

\* The four invariants hold together, as long as none of the disturbances occurs.
LEMMA HeldAlways == ~Orphans /\ Tears \subseteq {"line"} => (CalmSpec => []Held)
<1> SUFFICES ASSUME ~Orphans, Tears \subseteq {"line"} PROVE CalmSpec => []Held
    OBVIOUS
<1>1. Init => Held
    BY InvInit, AnnounceInit, LostInit, AgreeInit DEF Held
<1>2. Held /\ [Next /\ ~Spoils]_vars => Held'
  <2> SUFFICES ASSUME Held, [Next /\ ~Spoils]_vars PROVE Held'
      OBVIOUS
  <2>1. [Next]_vars
      OBVIOUS
  <2>2. IInv' /\ AnnounceInv' /\ LostInv'
      BY <2>1, InvStep, AnnounceStep, LostStep DEF Held
  <2>3. AgreeInv'
      BY AgreeStep
  <2> QED BY <2>2, <2>3 DEF Held
<1> QED BY <1>1, <1>2, PTL DEF CalmSpec

\* Once no transaction is open, a file on record is on the share with that very
\* content, whichever commands were killed, failed, rolled back, recovered or
\* retried on the way: as long as no command outlives the lease of its device,
\* an append is interrupted between lines only, and none of the disturbances in
\* Spoils occurs, which the code does not repair.
THEOREM NoPhantomWhenCalm == ~Orphans /\ Tears \subseteq {"line"} => (CalmSpec => []NoPhantom)
<1> SUFFICES ASSUME ~Orphans, Tears \subseteq {"line"} PROVE CalmSpec => []NoPhantom
    OBVIOUS
<1>1. Held => NoPhantom
    BY AgreedIsTrue
<1> QED BY <1>1, HeldAlways, PTL

\* On the same terms a file on the share is on record with its content, so that
\* no upload, rename or publish is left which the other clients never hear of.
THEOREM NoUnrecordedWhenCalm == ~Orphans /\ Tears \subseteq {"line"} => (CalmSpec => []NoUnrecorded)
<1> SUFFICES ASSUME ~Orphans, Tears \subseteq {"line"} PROVE CalmSpec => []NoUnrecorded
    OBVIOUS
<1>1. Held => NoUnrecorded
    BY AgreedIsTrue
<1> QED BY <1>1, HeldAlways, PTL
=============================================================================
