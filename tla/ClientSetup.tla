----------------------------- MODULE ClientSetup -----------------------------
(* The client from its start to its transfers: processes that come and go,     *)
(* updates included, over a folder and a share that are paired by the user     *)
(* while volumes are exchanged.                                                *)
EXTENDS ClientInstall, Pairing

Kinds == {"second", "quit", "publish", "fault", "crash", "relocate", "detect", "unmount",
          "mount", "exchange", "return", "daemon", "lost", "server", "halfscript", "unanswered"}

ASSUME ScenarioAssumption == \A s \in Scenarios : s \subseteq Kinds

vars == <<install, happened, pairing>>

Init == InstallInit /\ PairingInit

(* A main window that opens or goes begins or ends a session.                  *)
Process ==
    /\ InstallAct
    /\ IF Up' = Up THEN UNCHANGED pairing ELSE Reload /\ UNCHANGED mounted

(* The GUI thread does not go on while it installs an update.                  *)
GuiFree == \E p \in Procs : proc[p].app /\ proc[p].at = "working"

User ==
    /\ GuiFree
    /\ \/ (GuiAct \/ RestartDaemon) /\ UNCHANGED happened
       \/ (\E r \in Roots : Relocate(r)) /\ Happens("relocate")
       \/ Detect /\ Happens("detect")
       \/ UpdateServer(TRUE) /\ Happens("server")
       \/ UpdateServer(FALSE) /\ Happens("halfscript")
    /\ UNCHANGED install

Workers ==
    /\ Up
    /\ \/ WorkerAct /\ UNCHANGED happened
       \/ PushJournals(FALSE) /\ Happens("unanswered")
    /\ UNCHANGED install

World ==
    /\ \/ \E r \in Removable : Mount(r) /\ Happens(IF r \in mounted THEN "unmount" ELSE "mount")
       \/ \E s \in Shares \cup {None} :
            Exchange(s) /\ Happens(IF "exchange" \in happened THEN "return" ELSE "exchange")
       \/ DaemonDies /\ Happens("daemon")
       \/ MarkerLost /\ Happens("lost")
    /\ UNCHANGED install

Next == Process \/ User \/ Workers \/ World

Spec == Init /\ [][Next]_vars

(* The engine and the workers have timers of their own; the GUI thread and the *)
(* update go through what they have begun.                                     *)
Fairness ==
    /\ WF_vars(Up /\ AskHealth /\ UNCHANGED <<install, happened>>)
    /\ WF_vars(Up /\ ApplyHealth /\ UNCHANGED <<install, happened>>)
    /\ WF_vars(Up /\ PushBegins(TRUE) /\ UNCHANGED <<install, happened>>)
    /\ WF_vars(Up /\ (PushChecks \/ PushJournals(TRUE)) /\ UNCHANGED <<install, happened>>)
    /\ WF_vars(GuiFree /\ GuiAct /\ UNCHANGED <<install, happened>>)

FairSpec == Spec /\ Fairness

-----------------------------------------------------------------------------
(* Types of the variables; a client with workers holds the lock.               *)
TypeOK ==
    /\ InstallTypeOK
    /\ PairingTypeOK
    /\ \A p \in Procs : proc[p].app => lock = p

(* A transfer that may delete begins only between the folder the user chose    *)
(* and the share it was joined to: not between others because a volume was     *)
(* exchanged, a detection refused, a choice or a session cut short or an old   *)
(* answer applied late (rsync_ops.py validate_transfer_safety).  It may if the *)
(* folder, a volume or the id of the configuration is replaced while the check *)
(* runs, as the id is read twice, and after the marker was lost.               *)
RightPair ==
    [][push.at # "transfer" /\ push'.at = "transfer" /\ push'.destructive
         /\ ~push'.moved /\ "lost" \notin happened
       => pact = [content |-> Content(mem.root), share |-> nas.share]]_vars

(* Nothing is left blocked: with the share, the volume and the server back,    *)
(* the ids, the error and the waiting journal clear up without the user, and   *)
(* transfers begin again (engine.py _check_server_health).                     *)
Ready ==
    /\ Up /\ mem.known /\ mem.root # None
    /\ marker = [state |-> "ok", root |-> mem.root, dev |-> Device(mem.root), id |-> nas.share]
    /\ nas.share # None /\ nas.script = "ok"
    /\ journal \in {None, nas.share}

Resumes == <>[]Ready => []<>(push.at = "transfer")
=============================================================================
