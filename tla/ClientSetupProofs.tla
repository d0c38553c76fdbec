--------------------------- MODULE ClientSetupProofs ---------------------------
(* Proofs about ClientSetup: its types, that no update loses the client, and   *)
(* that a transfer that may delete runs between the folder the user chose and  *)
(* the share it was joined to.                                                 *)
EXTENDS ClientSetup, TLAPS

Idling == {"off", "started", "refused"}

(* The process that works has the lock; what an update is about to put in its  *)
(* place is there, and while nothing is in place what was there is set aside   *)
(* by a process that undoes that or is gone.                                   *)
ProcessInv(p) ==
    /\ proc[p].at \notin Idling => lock = p
    /\ proc[p].app => proc[p].at \notin Idling
    /\ proc[p].at \in {"staged", "aside"} => staging[p] # 0
    /\ proc[p].at = "aside" => backup[p] # 0
    /\ proc[p].at = "swapped" => dest # 0

SetAsideInv == dest = 0 => \E p \in Procs : backup[p] # 0 /\ proc[p].at \in {"off", "aside"}

InstallInv ==
    /\ InstallTypeOK
    /\ \A p \in Procs : ProcessInv(p)
    /\ SetAsideInv

(* What the marker says of the volume its folder is on. *)
MarkedContent == <<marker.root, marker.root \in Removable => marker.dev = marker.root>>

(* What the GUI thread is in the middle of, and a push, presuppose.            *)
ThreadInv ==
    /\ push.at # "idle" => mem.root # None
    /\ gui.at = "wizard" => mem.root = None
    /\ gui.at \in {"wizard", "folder"} => gui.root # None
    /\ gui.at \in {"bind", "write"} => gui.id # None /\ mem.root # None
    /\ pact = [content |-> pact.content, share |-> pact.share]

(* The marker is that of the folder the user chose, and of the share it was    *)
(* joined to as soon as it names one; a detection not yet written names it;    *)
(* what a check in progress has compared still holds.                          *)
MarkerInv ==
    /\ marker.state # "none" => pact.content = MarkedContent
    /\ marker.id \in {None, pact.share}
    /\ marker.state = "none" => mem.root = None /\ saved.root = None
    /\ gui.at \in {"wizard", "folder"} => marker.state = "ok"
    /\ gui.at = "folder" => marker.root = gui.root
    /\ gui.at = "bind" /\ marker.id = None => gui.id = pact.share
    /\ gui.at = "write" => marker.state = "torn" /\ gui.id = pact.share

CheckInv ==
    push.at = "check" /\ push.destructive /\ ~push.moved =>
        /\ marker.state # "none"
        /\ marker.root = mem.root /\ marker.dev = Device(mem.root)
        /\ marker.id # None
        /\ mem.id \in {None, marker.id}

PairInv ==
    /\ PairingTypeOK
    /\ ThreadInv
    /\ "lost" \notin happened => MarkerInv /\ CheckInv

IInv == InstallInv /\ PairInv
-----------------------------------------------------------------------------
(* The update. *)

(* The record of a process whose window opens from a version of the package.   *)
LEMMA OpenedType ==
    ASSUME NEW p \in Procs, proc \in [Procs -> Running], NEW v \in Version
    PROVE  /\ Opened(p, v) \in Running
           /\ Opened(p, v).at = "working" /\ Opened(p, v).app
<1>1. proc[p].code \cup {v} \in SUBSET Version
  BY DEF Running
<1>2. proc[p] \in Running
  OBVIOUS
<1> QED BY <1>1, <1>2 DEF Opened, Running, Steps

(* An action of the client's installation preserves its invariant. *)
LEMMA InstallStep == ASSUME InstallInv, InstallAct PROVE InstallInv'
<1> USE InstallAssumption
<1> USE DEF InstallInv, ProcessInv, SetAsideInv, InstallTypeOK, Idling, Steps, package, Off
<1>1. CASE Publish
  BY <1>1 DEF Publish, Happens, Version, Running
<1>2. ASSUME NEW p \in Procs, NEW service \in BOOLEAN, Start(p, service) PROVE InstallInv'
  <2>1. InstallTypeOK'
    <3>1. dest \in Version
      BY <1>2 DEF Start, Version, Running
    <3>2. {dest} \in SUBSET Version
      BY <3>1
    <3> QED BY <1>2, <3>2, SMTT(30) DEF Start, Happens, Running
  <2>2. \A q \in Procs : ProcessInv(q)'
    BY <1>2, SMTT(30) DEF Start, Happens, Running
  <2>3. SetAsideInv'
    BY <1>2, SMTT(30) DEF Start, Happens, Running
  <2> QED BY <2>1, <2>2, <2>3
<1>3. ASSUME NEW p \in Procs, Acquire(p) PROVE InstallInv'
  <2>1. InstallTypeOK'
    BY <1>3, SMTT(30) DEF Acquire, Step, Running
  <2>2. \A q \in Procs : ProcessInv(q)'
    BY <1>3, SMTT(30) DEF Acquire, Step, Running
  <2>3. SetAsideInv'
    BY <1>3, SMTT(30) DEF Acquire, Step, Running
  <2> QED BY <2>1, <2>2, <2>3
<1>4. ASSUME NEW p \in Procs, Exit(p) PROVE InstallInv'
  BY <1>4 DEF Exit, Happens, Gone, Running
<1>5. ASSUME NEW p \in Procs, OpenWindow(p) PROVE InstallInv'
  <2>1. dest \in Version
    BY <1>5 DEF OpenWindow, Version
  <2>2. Opened(p, dest) \in Running /\ Opened(p, dest).at = "working"
    BY <2>1, OpenedType
  <2> QED BY <1>5, <2>2 DEF OpenWindow
<1>6. ASSUME NEW p \in Procs, UpdateAtStart(p) PROVE InstallInv'
  BY <1>6 DEF UpdateAtStart, Accepts, Step, Running
<1>7. ASSUME NEW p \in Procs, UpdateInWindow(p) PROVE InstallInv'
  BY <1>7 DEF UpdateInWindow, Accepts, Step, Running
<1>8. ASSUME NEW p \in Procs, Stage(p) PROVE InstallInv'
  BY <1>8 DEF Stage, Materialized, Step, Version, Running
<1>9. ASSUME NEW p \in Procs, SetAside(p) PROVE InstallInv'
  BY <1>9 DEF SetAside, Step, Running
<1>10. ASSUME NEW p \in Procs, Swap(p) PROVE InstallInv'
  <2>1. InstallTypeOK'
    BY <1>10 DEF Swap, Step, Running
  <2>2. \A q \in Procs : ProcessInv(q)'
    BY <1>10, SMTT(30) DEF Swap, Step, Running
  <2>3. dest' # 0
    BY <1>10 DEF Swap
  <2> QED BY <2>1, <2>2, <2>3
<1>11. ASSUME NEW p \in Procs, UpdateFails(p) PROVE InstallInv'
  <2>1. /\ proc[p].at \in {"install", "staged", "aside", "swapped"} /\ lock = p
        /\ proc[p] \in Running
    BY <1>11 DEF UpdateFails
  <2>2. /\ dest' \in 0 .. Latest /\ staging' \in [Procs -> 0 .. Latest]
        /\ backup' \in [Procs -> 0 .. Latest] /\ bundle' \in Version
        /\ \A q \in Procs \ {p} : staging'[q] = staging[q] /\ backup'[q] = backup[q]
    BY <1>11 DEF UpdateFails
  <2>3. dest' = 0 => dest = 0 /\ backup' = backup /\ proc[p].at # "aside"
    BY <1>11, <2>1 DEF UpdateFails
  <2>4. CASE proc[p].app
    <3>1. proc' = Step(p, "working") /\ lock' = lock
      BY <1>11, <2>4 DEF UpdateFails, GoesOn
    <3>2. InstallTypeOK'
      BY <2>1, <2>2, <3>1 DEF Step, Running
    <3>3. \A q \in Procs : ProcessInv(q)'
      BY <2>1, <2>2, <3>1 DEF Step, Running
    <3>4. SetAsideInv'
      BY <2>1, <2>3, <3>1 DEF Step, Running
    <3> QED BY <3>2, <3>3, <3>4
  <2>5. CASE ~proc[p].app /\ dest' = 0
    <3>1. proc' = [proc EXCEPT ![p] = Off] /\ lock' = Free
      BY <1>11, <2>1, <2>5 DEF UpdateFails, GoesOn, Gone
    <3>2. InstallTypeOK'
      BY <2>1, <2>2, <3>1 DEF Running
    <3>3. \A q \in Procs : ProcessInv(q)'
      BY <2>1, <2>2, <3>1
    <3>4. SetAsideInv'
      BY <2>1, <2>3, <3>1
    <3> QED BY <3>2, <3>3, <3>4
  <2>6. CASE ~proc[p].app /\ dest' # 0
    <3>1. proc' = [proc EXCEPT ![p] = Opened(p, dest')] /\ lock' = lock
      BY <1>11, <2>6 DEF UpdateFails, GoesOn
    <3>2. dest' \in Version
      BY <2>2, <2>6 DEF Version
    <3>3. Opened(p, dest') \in Running /\ Opened(p, dest').at = "working"
      BY <3>2, OpenedType
    <3> QED BY <2>1, <2>2, <2>6, <3>1, <3>3
  <2> QED BY <2>4, <2>5, <2>6
<1>12. ASSUME NEW p \in Procs, ExitForRestart(p) PROVE InstallInv'
  BY <1>12 DEF ExitForRestart, Clean, Gone, Running
<1>13. ASSUME NEW p \in Procs, Reexec(p) PROVE InstallInv'
  <2> DEFINE again == [proc[p] EXCEPT !.at = "started", !.app = FALSE, !.code = {dest}]
  <2>1. dest \in Version
    BY <1>13 DEF Reexec, Clean, Version
  <2>2. proc[p] \in Running /\ {dest} \in SUBSET Version
    BY <2>1
  <2>3. again \in Running /\ again.at = "started" /\ again.app = FALSE
    BY <2>2 DEF Running
  <2>4. proc' = [proc EXCEPT ![p] = again]
    BY <1>13, Zenon DEF Reexec
  <2> HIDE DEF again
  <2>5. InstallTypeOK'
    BY <1>13, <2>3, <2>4 DEF Reexec, Clean
  <2>6. \A q \in Procs : ProcessInv(q)'
    BY <1>13, <2>3, <2>4, SMTT(30) DEF Reexec, Clean
  <2>7. SetAsideInv'
    BY <1>13, <2>1, <2>3, <2>4 DEF Reexec, Clean, Version
  <2> QED BY <2>5, <2>6, <2>7
<1>14. ASSUME NEW p \in Procs, Killed(p) PROVE InstallInv'
  BY <1>14 DEF Killed, Happens, Gone, Running
<1> QED BY <1>1, <1>2, <1>3, <1>4, <1>5, <1>6, <1>7, <1>8, <1>9, <1>10, <1>11, <1>12,
           <1>13, <1>14 DEF InstallAct
-----------------------------------------------------------------------------
(* Folder and share. *)

PairAct ==
    \/ GuiAct \/ RestartDaemon \/ Detect \/ \E r \in Roots : Relocate(r)
    \/ \E k \in BOOLEAN : UpdateServer(k) \/ PushJournals(k)
    \/ WorkerAct
    \/ \E r \in Removable : Mount(r)
    \/ \E sh \in Shares \cup {None} : Exchange(sh)
    \/ DaemonDies \/ Reload \/ UNCHANGED pairing
    \/ MarkerLost /\ "lost" \in happened'

(* An action on folder, share or configuration preserves their invariant.      *)
LEMMA PairStep ==
    ASSUME PairInv, PairAct, happened \subseteq happened'
    PROVE  PairInv'
<1> USE PairingAssumption
<1> USE DEF PairInv, PairingTypeOK, Id, NoMarker, NoAnswer, GuiIdle, NoPush
<1>1. ASSUME NEW r \in Roots, NEW k \in BOOLEAN, FinishWizard(r, k) PROVE PairInv'
  <2>1. PairingTypeOK'
    <3>1. marker' \in Marker
      BY <1>1 DEF FinishWizard, Idle, Initialize, Bound, Marker, Device, Config, Answered
    <3>2. gui' \in Gui
      BY <1>1 DEF FinishWizard, Idle, Initialize, Bound, Gui, Config, Answered
    <3>3. detect' \in Answered
      BY <1>1 DEF FinishWizard, Idle, Initialize, Bound, Answered
    <3> QED BY <1>1, <3>1, <3>2, <3>3 DEF FinishWizard, Idle, Initialize, Bound
  <2>2. ThreadInv'
    BY <1>1 DEF FinishWizard, Idle, Initialize, Bound, ThreadInv, Config, Gui, Push, Marker
  <2>3. "lost" \notin happened' => MarkerInv'
    BY <1>1 DEF FinishWizard, Idle, Initialize, Bound, ThreadInv, MarkerInv,
       MarkedContent, Content, Device, Config, Gui, Push, Marker
  <2>4. "lost" \notin happened' => CheckInv'
    BY <1>1 DEF FinishWizard, Idle, Initialize, Bound, ThreadInv, MarkerInv, CheckInv,
       MarkedContent, Device, Config, Gui, Push, Marker
  <2> QED BY <2>1, <2>2, <2>3, <2>4
<1>2. CASE DetectInWizard
  <2>1. PairingTypeOK'
    <3>1. detect' \in Answered
      BY <1>2 DEF DetectInWizard, Detected, Answer, Answered, Nas
    <3> QED BY <1>2, <3>1 DEF DetectInWizard, Detected, Answer
  <2>2. ThreadInv'
    BY <1>2 DEF DetectInWizard, Detected, Answer, ThreadInv, Config, Gui, Push, Marker
  <2>3. "lost" \notin happened' => MarkerInv'
    BY <1>2 DEF DetectInWizard, Detected, Answer, ThreadInv, MarkerInv, MarkedContent,
       Content, Device, Config, Gui, Push, Marker
  <2>4. "lost" \notin happened' => CheckInv'
    BY <1>2 DEF DetectInWizard, Detected, Answer, ThreadInv, MarkerInv, CheckInv,
       MarkedContent, Device, Config, Gui, Push, Marker
  <2> QED BY <2>1, <2>2, <2>3, <2>4
<1>3. CASE SaveChoice
  <2>1. PairingTypeOK'
    <3>1. mem' \in Config
      BY <1>3 DEF SaveChoice, Saves, Config, Gui
    <3>2. saved' \in Config
      BY <1>3 DEF SaveChoice, Saves, Config, Gui
    <3>3. gui' \in Gui
      BY <1>3 DEF SaveChoice, Saves, Gui
    <3> QED BY <1>3, <3>1, <3>2, <3>3 DEF SaveChoice, Saves
  <2>2. ThreadInv'
    BY <1>3 DEF SaveChoice, Saves, ThreadInv, Config, Gui, Push, Marker
  <2>3. "lost" \notin happened' => MarkerInv'
    BY <1>3 DEF SaveChoice, Saves, ThreadInv, MarkerInv, MarkedContent, Content, Device,
       Config, Gui, Push, Marker
  <2>4. "lost" \notin happened' => CheckInv'
    BY <1>3 DEF SaveChoice, Saves, ThreadInv, MarkerInv, CheckInv, MarkedContent,
       Device, Config, Gui, Push, Marker
  <2> QED BY <2>1, <2>2, <2>3, <2>4
<1>4. CASE ApplyDetection
  <2>1. PairingTypeOK'
    <3>1. mem' \in Config
      BY <1>4 DEF ApplyDetection, Idle, Disturbed, Config, Answered
    <3>2. gui' \in Gui
      BY <1>4 DEF ApplyDetection, Idle, Disturbed, Gui, Answered
    <3>3. detect' \in Answered
      BY <1>4 DEF ApplyDetection, Idle, Disturbed, Answered
    <3>4. push' \in Push
      BY <1>4 DEF ApplyDetection, Idle, Disturbed, Push
    <3> QED BY <1>4, <3>1, <3>2, <3>3, <3>4 DEF ApplyDetection, Idle, Disturbed
  <2>2. ThreadInv'
    BY <1>4 DEF ApplyDetection, Idle, Disturbed, ThreadInv, Config, Gui, Push, Marker
  <2>3. "lost" \notin happened' => MarkerInv'
    BY <1>4 DEF ApplyDetection, Idle, Disturbed, ThreadInv, MarkerInv, MarkedContent,
       Content, Device, Config, Gui, Push, Marker
  <2>4. "lost" \notin happened' => CheckInv'
    BY <1>4 DEF ApplyDetection, Idle, Disturbed, ThreadInv, MarkerInv, CheckInv,
       MarkedContent, Device, Config, Gui, Push, Marker
  <2> QED BY <2>1, <2>2, <2>3, <2>4
<1>5. CASE Bind
  <2>1. PairingTypeOK'
    <3>1. marker' \in Marker
      BY <1>5 DEF Bind, Bindable, Initialize, Bound, Marker, Device, Gui, Config
    <3>2. gui' \in Gui
      BY <1>5 DEF Bind, Bindable, Initialize, Bound, Gui
    <3> QED BY <1>5, <3>1, <3>2 DEF Bind, Bindable, Initialize, Bound
  <2>2. ThreadInv'
    BY <1>5 DEF Bind, Bindable, Initialize, Bound, ThreadInv, Config, Gui, Push, Marker
  <2>3. "lost" \notin happened' => MarkerInv'
    BY <1>5 DEF Bind, Bindable, Initialize, Bound, ThreadInv, MarkerInv, MarkedContent,
       Content, Device, Config, Gui, Push, Marker
  <2>4. "lost" \notin happened' => CheckInv'
    BY <1>5 DEF Bind, Bindable, Initialize, Bound, ThreadInv, MarkerInv, CheckInv,
       MarkedContent, Device, Config, Gui, Push, Marker
  <2> QED BY <2>1, <2>2, <2>3, <2>4
<1>6. CASE WriteMarker
  <2>1. PairingTypeOK'
    <3>1. marker' \in Marker
      BY <1>6 DEF WriteMarker, Marker, Gui
    <3>2. gui' \in Gui
      BY <1>6 DEF WriteMarker, Gui
    <3> QED BY <1>6, <3>1, <3>2 DEF WriteMarker
  <2>2. ThreadInv'
    BY <1>6 DEF WriteMarker, ThreadInv, Config, Gui, Push, Marker
  <2>3. "lost" \notin happened' => MarkerInv'
    BY <1>6 DEF WriteMarker, ThreadInv, MarkerInv, MarkedContent, Content, Device,
       Config, Gui, Push, Marker
  <2>4. "lost" \notin happened' => CheckInv'
    BY <1>6 DEF WriteMarker, ThreadInv, MarkerInv, CheckInv, MarkedContent, Device,
       Config, Gui, Push, Marker
  <2> QED BY <2>1, <2>2, <2>3, <2>4
<1>7. CASE SaveDetection
  <2>1. PairingTypeOK'
    <3>1. gui' \in Gui
      BY <1>7 DEF SaveDetection, Gui
    <3> QED BY <1>7, <3>1 DEF SaveDetection
  <2>2. ThreadInv'
    BY <1>7 DEF SaveDetection, ThreadInv, Config, Gui, Push, Marker
  <2>3. "lost" \notin happened' => MarkerInv'
    BY <1>7 DEF SaveDetection, ThreadInv, MarkerInv, MarkedContent, Content, Device,
       Config, Gui, Push, Marker
  <2>4. "lost" \notin happened' => CheckInv'
    BY <1>7 DEF SaveDetection, ThreadInv, MarkerInv, CheckInv, MarkedContent, Device,
       Config, Gui, Push, Marker
  <2> QED BY <2>1, <2>2, <2>3, <2>4
<1>8. CASE RestartDaemon
  <2>1. PairingTypeOK'
    <3>1. nas' \in Nas
      BY <1>8 DEF RestartDaemon, Restarted, Nas
    <3> QED BY <1>8, <3>1 DEF RestartDaemon, Restarted
  <2>2. ThreadInv'
    BY <1>8 DEF RestartDaemon, Restarted, ThreadInv, Config, Gui, Push, Marker
  <2>3. "lost" \notin happened' => MarkerInv'
    BY <1>8 DEF RestartDaemon, Restarted, ThreadInv, MarkerInv, MarkedContent, Content,
       Device, Config, Gui, Push, Marker
  <2>4. "lost" \notin happened' => CheckInv'
    BY <1>8 DEF RestartDaemon, Restarted, ThreadInv, MarkerInv, CheckInv, MarkedContent,
       Device, Config, Gui, Push, Marker
  <2> QED BY <2>1, <2>2, <2>3, <2>4
<1>9. ASSUME NEW r \in Roots, Relocate(r) PROVE PairInv'
  <2>1. PairingTypeOK'
    <3>1. marker' \in Marker
      BY <1>9 DEF Relocate, Idle, Initialize, Bound, Disturbed, Marker, Device, Config
    <3>2. gui' \in Gui
      BY <1>9 DEF Relocate, Idle, Initialize, Bound, Disturbed, Gui
    <3>3. push' \in Push
      BY <1>9 DEF Relocate, Idle, Initialize, Bound, Disturbed, Push
    <3> QED BY <1>9, <3>1, <3>2, <3>3 DEF Relocate, Idle, Initialize, Bound, Disturbed
  <2>2. ThreadInv'
    BY <1>9 DEF Relocate, Idle, Initialize, Bound, Disturbed, ThreadInv, Config, Gui,
       Push, Marker
  <2>3. "lost" \notin happened' => MarkerInv'
    BY <1>9 DEF Relocate, Idle, Initialize, Bound, Disturbed, ThreadInv, MarkerInv,
       MarkedContent, Content, Device, Config, Gui, Push, Marker
  <2>4. "lost" \notin happened' => CheckInv'
    BY <1>9 DEF Relocate, Idle, Initialize, Bound, Disturbed, ThreadInv, MarkerInv,
       CheckInv, MarkedContent, Device, Config, Gui, Push, Marker
  <2> QED BY <2>1, <2>2, <2>3, <2>4
<1>10. CASE Detect
  <2>1. PairingTypeOK'
    <3>1. detect' \in Answered
      BY <1>10 DEF Detect, Detected, Answer, Answered, Nas
    <3> QED BY <1>10, <3>1 DEF Detect, Detected, Answer
  <2>2. ThreadInv'
    BY <1>10 DEF Detect, Detected, Answer, ThreadInv, Config, Gui, Push, Marker
  <2>3. "lost" \notin happened' => MarkerInv'
    BY <1>10 DEF Detect, Detected, Answer, ThreadInv, MarkerInv, MarkedContent, Content,
       Device, Config, Gui, Push, Marker
  <2>4. "lost" \notin happened' => CheckInv'
    BY <1>10 DEF Detect, Detected, Answer, ThreadInv, MarkerInv, CheckInv,
       MarkedContent, Device, Config, Gui, Push, Marker
  <2> QED BY <2>1, <2>2, <2>3, <2>4
<1>11. ASSUME NEW k \in BOOLEAN, UpdateServer(k) PROVE PairInv'
  <2>1. PairingTypeOK'
    <3>1. nas' \in Nas
      BY <1>11 DEF UpdateServer, Nas
    <3> QED BY <1>11, <3>1 DEF UpdateServer
  <2>2. ThreadInv'
    BY <1>11 DEF UpdateServer, ThreadInv, Config, Gui, Push, Marker
  <2>3. "lost" \notin happened' => MarkerInv'
    BY <1>11 DEF UpdateServer, ThreadInv, MarkerInv, MarkedContent, Content, Device,
       Config, Gui, Push, Marker
  <2>4. "lost" \notin happened' => CheckInv'
    BY <1>11 DEF UpdateServer, ThreadInv, MarkerInv, CheckInv, MarkedContent, Device,
       Config, Gui, Push, Marker
  <2> QED BY <2>1, <2>2, <2>3, <2>4
<1>12. CASE AskHealth
  <2>1. PairingTypeOK'
    <3>1. poll' \in Answered
      BY <1>12 DEF AskHealth, Answer, Answered, Nas
    <3> QED BY <1>12, <3>1 DEF AskHealth, Answer
  <2>2. ThreadInv'
    BY <1>12 DEF AskHealth, Answer, ThreadInv, Config, Gui, Push, Marker
  <2>3. "lost" \notin happened' => MarkerInv'
    BY <1>12 DEF AskHealth, Answer, ThreadInv, MarkerInv, MarkedContent, Content,
       Device, Config, Gui, Push, Marker
  <2>4. "lost" \notin happened' => CheckInv'
    BY <1>12 DEF AskHealth, Answer, ThreadInv, MarkerInv, CheckInv, MarkedContent,
       Device, Config, Gui, Push, Marker
  <2> QED BY <2>1, <2>2, <2>3, <2>4
<1>13. CASE ApplyHealth
  <2>1. PairingTypeOK'
    <3>1. mem' \in Config
      BY <1>13 DEF ApplyHealth, Restarted, Disturbed, Config, Answered
    <3>2. saved' \in Config
      BY <1>13 DEF ApplyHealth, Restarted, Disturbed, Config, Answered
    <3>3. nas' \in Nas
      BY <1>13 DEF ApplyHealth, Restarted, Disturbed, Nas
    <3>4. poll' \in Answered
      BY <1>13 DEF ApplyHealth, Restarted, Disturbed, Answered
    <3>5. push' \in Push
      BY <1>13 DEF ApplyHealth, Restarted, Disturbed, Push
    <3> QED BY <1>13, <3>1, <3>2, <3>3, <3>4, <3>5 DEF ApplyHealth, Restarted, Disturbed
  <2>2. ThreadInv'
    BY <1>13 DEF ApplyHealth, Restarted, Disturbed, ThreadInv, Config, Gui, Push, Marker
  <2>3. "lost" \notin happened' => MarkerInv'
    BY <1>13 DEF ApplyHealth, Restarted, Disturbed, ThreadInv, MarkerInv, MarkedContent,
       Content, Device, Config, Gui, Push, Marker
  <2>4. "lost" \notin happened' => CheckInv'
    BY <1>13 DEF ApplyHealth, Restarted, Disturbed, ThreadInv, MarkerInv, CheckInv,
       MarkedContent, Device, Config, Gui, Push, Marker
  <2> QED BY <2>1, <2>2, <2>3, <2>4
<1>14. ASSUME NEW k \in BOOLEAN, PushBegins(k) PROVE PairInv'
  <2>1. PairingTypeOK'
    <3>1. mem' \in Config
      BY <1>14 DEF PushBegins, Saves, LocalOk, Config
    <3>2. saved' \in Config
      BY <1>14 DEF PushBegins, Saves, LocalOk, Config
    <3>3. push' \in Push
      <4>1. CASE push' = [at |-> "check", destructive |-> k, moved |-> FALSE]
        BY <4>1 DEF Push
      <4>2. CASE push' = NoPush
        BY <4>2 DEF Push
      <4>3. CASE push' = push
        BY <4>3
      <4> QED BY <1>14, <4>1, <4>2, <4>3 DEF PushBegins
    <3> QED BY <1>14, <3>1, <3>2, <3>3 DEF PushBegins, Saves
  <2>2. ThreadInv'
    BY <1>14 DEF PushBegins, Saves, LocalOk, ThreadInv, Config, Gui, Push, Marker
  <2>3. "lost" \notin happened' => MarkerInv'
    BY <1>14 DEF PushBegins, Saves, LocalOk, ThreadInv, MarkerInv, MarkedContent,
       Content, Device, Config, Gui, Push, Marker
  <2>4. "lost" \notin happened' => CheckInv'
    BY <1>14 DEF PushBegins, Saves, LocalOk, ThreadInv, MarkerInv, CheckInv,
       MarkedContent, Device, Config, Gui, Push, Marker
  <2> QED BY <2>1, <2>2, <2>3, <2>4
<1>15. CASE PushChecks
  <2>1. PairingTypeOK'
    <3>1. push' \in Push
      BY <1>15 DEF PushChecks, Push
    <3> QED BY <1>15, <3>1 DEF PushChecks
  <2>2. ThreadInv'
    BY <1>15 DEF PushChecks, ThreadInv, Config, Gui, Push, Marker
  <2>3. "lost" \notin happened' => MarkerInv'
    BY <1>15 DEF PushChecks, ThreadInv, MarkerInv, MarkedContent, Content, Device,
       Config, Gui, Push, Marker
  <2>4. "lost" \notin happened' => CheckInv'
    BY <1>15 DEF PushChecks, ThreadInv, MarkerInv, CheckInv, MarkedContent, Device,
       Config, Gui, Push, Marker
  <2> QED BY <2>1, <2>2, <2>3, <2>4
<1>16. ASSUME NEW k \in BOOLEAN, PushJournals(k) PROVE PairInv'
  <2>1. PairingTypeOK'
    <3>1. mem' \in Config
      BY <1>16 DEF PushJournals, Saves, Config
    <3>2. saved' \in Config
      BY <1>16 DEF PushJournals, Saves, Config
    <3>3. push' \in Push
      BY <1>16 DEF PushJournals, Saves, Push
    <3> QED BY <1>16, <3>1, <3>2, <3>3 DEF PushJournals, Saves, Config
  <2>2. ThreadInv'
    BY <1>16 DEF PushJournals, Saves, ThreadInv, Config, Gui, Push, Marker
  <2>3. "lost" \notin happened' => MarkerInv'
    BY <1>16 DEF PushJournals, Saves, ThreadInv, MarkerInv, MarkedContent, Content,
       Device, Config, Gui, Push, Marker
  <2>4. "lost" \notin happened' => CheckInv'
    BY <1>16 DEF PushJournals, Saves, ThreadInv, MarkerInv, CheckInv, MarkedContent,
       Device, Config, Gui, Push, Marker
  <2> QED BY <2>1, <2>2, <2>3, <2>4
<1>17. ASSUME NEW r \in Removable, Mount(r) PROVE PairInv'
  <2>1. PairingTypeOK'
    <3>1. push' \in Push
      BY <1>17 DEF Mount, Disturbed, Push
    <3> QED BY <1>17, <3>1 DEF Mount, Disturbed
  <2>2. ThreadInv'
    BY <1>17 DEF Mount, Disturbed, ThreadInv, Config, Gui, Push, Marker
  <2>3. "lost" \notin happened' => MarkerInv'
    BY <1>17 DEF Mount, Disturbed, ThreadInv, MarkerInv, MarkedContent, Content, Device,
       Config, Gui, Push, Marker
  <2>4. "lost" \notin happened' => CheckInv'
    BY <1>17 DEF Mount, Disturbed, ThreadInv, MarkerInv, CheckInv, MarkedContent,
       Device, Config, Gui, Push, Marker
  <2> QED BY <2>1, <2>2, <2>3, <2>4
<1>18. ASSUME NEW sh \in Shares \cup {None}, Exchange(sh) PROVE PairInv'
  <2>1. PairingTypeOK'
    <3>1. nas' \in Nas
      BY <1>18 DEF Exchange, Disturbed, Nas
    <3>2. push' \in Push
      BY <1>18 DEF Exchange, Disturbed, Push
    <3> QED BY <1>18, <3>1, <3>2 DEF Exchange, Disturbed
  <2>2. ThreadInv'
    BY <1>18 DEF Exchange, Disturbed, ThreadInv, Config, Gui, Push, Marker
  <2>3. "lost" \notin happened' => MarkerInv'
    BY <1>18 DEF Exchange, Disturbed, ThreadInv, MarkerInv, MarkedContent, Content,
       Device, Config, Gui, Push, Marker
  <2>4. "lost" \notin happened' => CheckInv'
    BY <1>18 DEF Exchange, Disturbed, ThreadInv, MarkerInv, CheckInv, MarkedContent,
       Device, Config, Gui, Push, Marker
  <2> QED BY <2>1, <2>2, <2>3, <2>4
<1>19. CASE DaemonDies
  <2>1. PairingTypeOK'
    <3>1. nas' \in Nas
      BY <1>19 DEF DaemonDies, Nas
    <3> QED BY <1>19, <3>1 DEF DaemonDies
  <2>2. ThreadInv'
    BY <1>19 DEF DaemonDies, ThreadInv, Config, Gui, Push, Marker
  <2>3. "lost" \notin happened' => MarkerInv'
    BY <1>19 DEF DaemonDies, ThreadInv, MarkerInv, MarkedContent, Content, Device,
       Config, Gui, Push, Marker
  <2>4. "lost" \notin happened' => CheckInv'
    BY <1>19 DEF DaemonDies, ThreadInv, MarkerInv, CheckInv, MarkedContent, Device,
       Config, Gui, Push, Marker
  <2> QED BY <2>1, <2>2, <2>3, <2>4
<1>20. CASE MarkerLost /\ "lost" \in happened'
  <2>1. PairingTypeOK'
    <3>1. marker' \in Marker
      BY <1>20 DEF MarkerLost, Marker
    <3> QED BY <1>20, <3>1 DEF MarkerLost
  <2>2. ThreadInv'
    BY <1>20 DEF MarkerLost, ThreadInv, Config, Gui, Push, Marker
  <2>3. "lost" \notin happened' => MarkerInv'
    BY <1>20 DEF MarkerLost, ThreadInv, MarkerInv, MarkedContent, Content, Device,
       Config, Gui, Push, Marker
  <2>4. "lost" \notin happened' => CheckInv'
    BY <1>20 DEF MarkerLost, ThreadInv, MarkerInv, CheckInv, MarkedContent, Device,
       Config, Gui, Push, Marker
  <2> QED BY <2>1, <2>2, <2>3, <2>4
<1>21. CASE Reload
  <2>1. PairingTypeOK'
    <3>1. poll' \in Answered
      BY <1>21 DEF Reload, Answered
    <3>2. detect' \in Answered
      BY <1>21 DEF Reload, Answered
    <3>3. gui' \in Gui
      BY <1>21 DEF Reload, Gui
    <3>4. push' \in Push
      BY <1>21 DEF Reload, Push
    <3> QED BY <1>21, <3>1, <3>2, <3>3, <3>4 DEF Reload
  <2>2. ThreadInv'
    BY <1>21 DEF Reload, ThreadInv, Config, Gui, Push, Marker
  <2>3. "lost" \notin happened' => MarkerInv'
    BY <1>21 DEF Reload, ThreadInv, MarkerInv, MarkedContent, Content, Device, Config,
       Gui, Push, Marker
  <2>4. "lost" \notin happened' => CheckInv'
    BY <1>21 DEF Reload, ThreadInv, MarkerInv, CheckInv, MarkedContent, Device, Config,
       Gui, Push, Marker
  <2> QED BY <2>1, <2>2, <2>3, <2>4
<1>22. CASE UNCHANGED pairing
  <2>1. PairingTypeOK'
    BY <1>22 DEF pairing
  <2>2. ThreadInv'
    BY <1>22 DEF pairing, ThreadInv, Config, Gui, Push, Marker
  <2>3. "lost" \notin happened' => MarkerInv'
    BY <1>22 DEF pairing, ThreadInv, MarkerInv, MarkedContent, Content, Device, Config,
       Gui, Push, Marker
  <2>4. "lost" \notin happened' => CheckInv'
    BY <1>22 DEF pairing, ThreadInv, MarkerInv, CheckInv, MarkedContent, Device, Config,
       Gui, Push, Marker
  <2> QED BY <2>1, <2>2, <2>3, <2>4
<1> QED BY <1>1, <1>2, <1>3, <1>4, <1>5, <1>6, <1>7, <1>8, <1>9, <1>10, <1>11, <1>12,
           <1>13, <1>14, <1>15, <1>16, <1>17, <1>18, <1>19, <1>20, <1>21,
           <1>22 DEF PairAct, GuiAct, WorkerAct
-----------------------------------------------------------------------------
(* Both together. *)

(* What has happened has happened. *)
LEMMA HappenedGrows == ASSUME Next PROVE happened \subseteq happened'
<1>1. CASE Process
  BY <1>1 DEF Process, InstallAct, Publish, Start, Acquire, Exit, OpenWindow, UpdateAtStart,
              UpdateInWindow, Accepts, Stage, SetAside, Swap, UpdateFails, ExitForRestart,
              Reexec, Clean, Killed, Happens
<1>2. CASE User
  BY <1>2 DEF User, Happens
<1>3. CASE Workers
  BY <1>3 DEF Workers, Happens
<1>4. CASE World
  BY <1>4 DEF World, Happens
<1> QED BY <1>1, <1>2, <1>3, <1>4 DEF Next

(* A step is one of the two parts.                                             *)
LEMMA NextParts ==
    ASSUME Next
    PROVE  /\ InstallAct \/ UNCHANGED install
           /\ PairAct
<1>1. CASE Process
  BY <1>1 DEF Process, PairAct
<1>2. CASE User
  BY <1>2 DEF User, PairAct
<1>3. CASE Workers
  BY <1>3 DEF Workers, PairAct
<1>4. CASE World
  BY <1>4 DEF World, PairAct, Happens
<1> QED BY <1>1, <1>2, <1>3, <1>4 DEF Next

(* The invariant holds at first.                                               *)
LEMMA InitInv == Init => IInv
<1> SUFFICES ASSUME Init PROVE IInv
  OBVIOUS
<1> USE InstallAssumption, PairingAssumption DEF Init
<1>1. InstallInv
  BY DEF InstallInit, InstallInv, InstallTypeOK, ProcessInv, SetAsideInv, Idling, Running,
         Off, Steps, Version
<1>2. PairingTypeOK
  <2>1. saved \in Config
    <3>1. nas.share \in Id
      BY DEF PairingInit, Id
    <3>2. CASE saved = Blank
      BY <3>2 DEF Blank, Config, Id
    <3>3. ASSUME NEW r \in Roots,
                 saved = [root |-> r, id |-> nas.share, known |-> TRUE, error |-> FALSE]
          PROVE  saved \in Config
      BY <3>1, <3>3 DEF Config
    <3> QED BY <3>2, <3>3 DEF PairingInit
  <2>2. marker \in Marker
    BY DEF PairingInit, NoMarker, Bound, Device, Marker, Id
  <2>3. nas \in Nas
    BY DEF PairingInit, Nas, Id
  <2>4. poll \in Answered /\ detect \in Answered
    BY DEF PairingInit, NoAnswer, Answered, Id
  <2>5. gui \in Gui /\ push \in Push
    BY DEF PairingInit, GuiIdle, NoPush, Gui, Push, Id
  <2> QED BY <2>1, <2>2, <2>3, <2>4, <2>5 DEF PairingInit, PairingTypeOK, Id
<1>3. ThreadInv
  BY DEF PairingInit, ThreadInv, Blank, GuiIdle, NoPush
<1>4. MarkerInv
  BY DEF PairingInit, MarkerInv, MarkedContent, Content, Device, Blank, NoMarker,
     GuiIdle, Bound
<1>5. CheckInv
  BY DEF PairingInit, CheckInv, NoPush
<1> QED BY <1>1, <1>2, <1>3, <1>4, <1>5 DEF IInv, PairInv

(* The invariant is inductive.                                                 *)
LEMMA NextInv == IInv /\ [Next]_vars => IInv'
<1> SUFFICES ASSUME IInv, [Next]_vars PROVE IInv'
  OBVIOUS
<1>1. CASE UNCHANGED vars
  <2>1. PairInv'
    BY <1>1, PairStep DEF IInv, vars, PairAct
  <2>2. InstallInv'
    BY <1>1 DEF IInv, vars, install, package, InstallInv, InstallTypeOK, ProcessInv,
       SetAsideInv
  <2> QED BY <2>1, <2>2 DEF IInv
<1>2. CASE Next
  <2>1. PairInv'
    BY <1>2, PairStep, NextParts, HappenedGrows DEF IInv
  <2>2. CASE InstallAct
    BY <2>1, <2>2, InstallStep DEF IInv
  <2>3. CASE UNCHANGED install
    BY <2>1, <2>3 DEF IInv, install, package, InstallInv, InstallTypeOK, ProcessInv,
       SetAsideInv
  <2> QED BY <1>2, <2>2, <2>3, NextParts
<1> QED BY <1>1, <1>2

(* Every reachable state is well typed, and the process whose window is open   *)
(* has the lock.                                                               *)
THEOREM TypeCorrect == Spec => []TypeOK
<1>1. IInv => TypeOK
  BY DEF IInv, InstallInv, ProcessInv, PairInv, TypeOK
<1> QED BY <1>1, InitInv, NextInv, PTL DEF Spec

(* An update never costs the client: at every moment a whole package is in its *)
(* place or set aside.                                                         *)
THEOREM ClientKept == Spec => []KeepsClient
<1>1. IInv => KeepsClient
  BY DEF IInv, InstallInv, SetAsideInv, KeepsClient
<1> QED BY <1>1, InitInv, NextInv, PTL DEF Spec

(* A transfer that may delete begins only between the folder the user chose    *)
(* and the share it was joined to.                                             *)
THEOREM PairKept == Spec => RightPair
<1>1. IInv /\ [Next]_vars =>
        [push.at # "transfer" /\ push'.at = "transfer" /\ push'.destructive
           /\ ~push'.moved /\ "lost" \notin happened
         => pact = [content |-> Content(mem.root), share |-> nas.share]]_vars
  <2> SUFFICES ASSUME IInv, Next, push.at # "transfer", push'.at = "transfer",
                      push'.destructive, ~push'.moved, "lost" \notin happened
               PROVE  pact = [content |-> Content(mem.root), share |-> nas.share]
    OBVIOUS
  <2>1. push \in Push /\ PairAct
    BY NextParts DEF IInv, PairInv, PairingTypeOK
  <2>2. CASE GuiAct
    BY <2>1, <2>2 DEF GuiAct, FinishWizard, DetectInWizard, SaveChoice, ApplyDetection, Bind,
                      WriteMarker, SaveDetection, Disturbed, Push
  <2>3. CASE \/ RestartDaemon \/ Detect \/ DaemonDies \/ MarkerLost
             \/ \E k \in BOOLEAN : UpdateServer(k)
    BY <2>3 DEF RestartDaemon, Detect, DaemonDies, MarkerLost, UpdateServer
  <2>4. CASE Reload \/ UNCHANGED pairing
    BY <2>4 DEF Reload, NoPush, pairing
  <2>5. CASE \/ \E r \in Roots : Relocate(r)
             \/ \E r \in Removable : Mount(r)
             \/ \E sh \in Shares \cup {None} : Exchange(sh)
    BY <2>1, <2>5 DEF Relocate, Mount, Exchange, Disturbed, Push
  <2>6. CASE AskHealth \/ ApplyHealth \/ \E k \in BOOLEAN : PushBegins(k) \/ PushJournals(k)
    BY <2>1, <2>6 DEF AskHealth, ApplyHealth, PushBegins, PushJournals, Disturbed, NoPush, Push
  <2>7. CASE PushChecks
    <3>1. push.at = "check" /\ push.destructive /\ ~push.moved /\ RemoteOk
      BY <2>7 DEF PushChecks, IInv, PairInv, PairingTypeOK, Push, NoPush
    <3>2. pact.share = nas.share
      BY <3>1 DEF IInv, PairInv, MarkerInv, CheckInv, RemoteOk
    <3>3. pact.content = Content(mem.root)
      BY <3>1, PairingAssumption DEF IInv, PairInv, PairingTypeOK, Marker, MarkerInv, CheckInv,
         MarkedContent, Content, Device, ThreadInv, Config
    <3> QED BY <3>2, <3>3 DEF IInv, PairInv, ThreadInv
  <2> QED BY <2>1, <2>2, <2>3, <2>4, <2>5, <2>6, <2>7 DEF PairAct, WorkerAct
<1> QED BY <1>1, InitInv, NextInv, PTL DEF Spec, RightPair
===============================================================================
