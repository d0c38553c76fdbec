------------------------------- MODULE Pairing -------------------------------
(* Which folder of the PC goes with which share of the NAS: the configuration, *)
(* the marker of the folder, the setup and the detection by the user, the      *)
(* health check of the engine, and the checks before a transfer.               *)
EXTENDS FiniteSets

CONSTANTS
    Roots,          \* folders
    Removable,      \* those on a volume of their own
    Shares,         \* shares, each named by its repository id
    None,           \* no folder, share or id
    System          \* the device of what is on no volume of its own

ASSUME PairingAssumption ==
    /\ Removable \subseteq Roots
    /\ None \notin Roots \cup Shares
    /\ System \notin Roots

VARIABLES
    mounted,    \* the volumes that are mounted
    marker,     \* repository-marker.json
    mem, saved, \* the configuration, in memory and on disk
    nas,        \* the share at SHARE_ROOT, the daemon, the server script
    journal,    \* share of the journal payload that waits for its retry
    poll,       \* the answer a health check has got
    detect,     \* the answer a detection has got
    gui,        \* what the GUI thread is doing
    push,       \* the transfer
    pact        \* history: the folder the user chose and the share it was joined to

pairing == <<mounted, marker, mem, saved, nas, journal, poll, detect, gui, push, pact>>

(* known: script and path are those of the server; error: journal_error.       *)
Blank == [root |-> None, id |-> None, known |-> FALSE, error |-> FALSE]
NoMarker == [state |-> "none", root |-> None, dev |-> None, id |-> None]
NoAnswer == [got |-> FALSE, share |-> None, daemon |-> FALSE]
GuiIdle == [at |-> "idle", root |-> None, id |-> None, known |-> FALSE]
NoPush == [at |-> "idle", destructive |-> FALSE, moved |-> FALSE]

Device(r) == IF r \in mounted THEN r ELSE System

(* An unmounted volume leaves its empty mount point. *)
Content(r) == <<r, r \in Removable => r \in mounted>>

Bound(r, id) == [state |-> "ok", root |-> r, dev |-> Device(r), id |-> id]

(* A PC that has never been set up, or one that has.                           *)
PairingInit ==
    /\ mounted = Removable
    /\ nas \in [share : Shares, daemon : {TRUE}, script : {"ok", "old"}]
    /\ \/ saved = Blank /\ marker = NoMarker /\ pact = [content |-> None, share |-> None]
       \/ \E r \in Roots :
            /\ saved = [root |-> r, id |-> nas.share, known |-> TRUE, error |-> FALSE]
            /\ marker = Bound(r, nas.share)
            /\ pact = [content |-> Content(r), share |-> nas.share]
    /\ mem = saved
    /\ journal = None
    /\ poll = NoAnswer /\ detect = NoAnswer /\ gui = GuiIdle /\ push = NoPush

(* Config.set with persist saves all of it. *)
Saves(new) == mem' = new /\ saved' = new

Answers == nas.script # "broken"

(* --print-config: the id of the marker in SHARE_ROOT and the daemon.          *)
Answer == [got |-> TRUE, share |-> nas.share, daemon |-> nas.daemon]

-----------------------------------------------------------------------------
(* repository_safety.py *)

\* mutant of LocalOk: what the marker is bound to is not compared.
LocalOkAnyId(destructive) ==
    /\ marker.state = "ok"
    /\ marker.root = mem.root
    /\ marker.dev = Device(mem.root)

(* validate_local_root *)
LocalOk(destructive) ==
    IF marker.state # "ok" THEN ~destructive /\ mem.id = None
    ELSE /\ marker.root = mem.root
         /\ marker.dev = Device(mem.root)
         /\ None \in {mem.id, marker.id} \/ marker.id = mem.id
         /\ destructive => marker.id # None

(* The rest of validate_transfer_safety: what the server says of itself.       *)
RemoteOk ==
    /\ ~mem.error
    /\ mem.id # None /\ mem.known
    /\ nas.script = "ok"
    /\ nas.share # None /\ nas.share = mem.id

(* initialize_local_root: a temporary file and a rename.                       *)
Initialize(r, id) == marker' = Bound(r, id)

(* bind_repository: refused if the marker cannot be read or has another id.    *)
Bindable(id) == marker.state = "ok" /\ marker.id \in {None, id}

-----------------------------------------------------------------------------
(* The GUI thread: first setup, change of folder, detection of the server.     *)

Idle == gui.at = "idle"

(* A check under way when folder, volume or id are exchanged has looked at     *)
(* both.                                                                       *)
Disturbed == push' = [push EXCEPT !.moved = push.at # "idle"]

(* FirstRunSetupWizard, with or without a detection before its last page.      *)
FinishWizard(r, known) ==
    LET id == IF detect.got THEN detect.share ELSE mem.id
    IN  /\ Idle /\ mem.root = None
        /\ detect.got => known
        /\ Initialize(r, id)
        /\ gui' = [at |-> "wizard", root |-> r, id |-> id, known |-> known]
        /\ detect' = NoAnswer
        /\ pact' = [content |-> Content(r), share |-> id]
        /\ UNCHANGED <<mounted, mem, saved, nas, journal, poll, push>>

(* "Cambia percorso" *)
Relocate(r) ==
    /\ Idle
    /\ Initialize(r, mem.id)
    /\ gui' = [GuiIdle EXCEPT !.at = "folder", !.root = r]
    /\ pact' = [content |-> Content(r), share |-> mem.id]
    /\ Disturbed
    /\ UNCHANGED <<mounted, mem, saved, nas, journal, poll, detect>>

(* What was chosen is saved after the marker has been written.                 *)
SaveChoice ==
    /\ gui.at \in {"wizard", "folder"}
    /\ Saves(IF gui.at = "folder" THEN [mem EXCEPT !.root = gui.root]
             ELSE [mem EXCEPT !.root = gui.root, !.id = gui.id, !.known = gui.known])
    /\ gui' = GuiIdle
    /\ UNCHANGED <<mounted, marker, nas, journal, poll, detect, push, pact>>

(* discover_remote_scripts: the script of a daemon that runs. *)
ScriptRuns == nas.daemon

(* _detect_worker: the script that is known or the one that runs is asked.     *)
Detected == IF (mem.known \/ ScriptRuns) /\ Answers THEN Answer ELSE NoAnswer

(* In the last page of the wizard nothing is saved.                            *)
DetectInWizard ==
    /\ Idle /\ mem.root = None
    /\ detect' = Detected
    /\ UNCHANGED <<mounted, marker, mem, saved, nas, journal, poll, gui, push, pact>>

(* "Rileva dal NAS" saves the settings and asks in the background.             *)
Detect ==
    /\ Idle /\ ~detect.got
    /\ saved' = mem
    /\ detect' = Detected
    /\ UNCHANGED <<mounted, marker, mem, nas, journal, poll, gui, push, pact>>

(* The answer goes into memory, is bound to the folder, and is saved.          *)
ApplyDetection ==
    LET id == detect.share
    IN  /\ Idle /\ detect.got
        /\ mem' = [mem EXCEPT !.known = TRUE, !.id = IF id = None THEN @ ELSE id]
        /\ gui' = [GuiIdle EXCEPT !.id = id,
                               !.at = IF None \in {id, mem.root} THEN "save" ELSE "bind"]
        /\ detect' = NoAnswer
        /\ pact' = IF marker.id = None THEN [pact EXCEPT !.share = id] ELSE pact
        /\ IF mem'.id = mem.id THEN UNCHANGED push ELSE Disturbed
        /\ UNCHANGED <<mounted, marker, saved, nas, journal, poll>>

(* The marker is written in place: first it is empty, then it is complete.     *)
Bind ==
    /\ gui.at = "bind"
    /\ IF marker.state = "none"
       THEN Initialize(mem.root, gui.id) /\ gui' = [gui EXCEPT !.at = "save"]
       ELSE IF Bindable(gui.id)
       THEN marker' = [marker EXCEPT !.state = "torn"] /\ gui' = [gui EXCEPT !.at = "write"]
       ELSE UNCHANGED marker /\ gui' = [gui EXCEPT !.at = "save"]
    /\ UNCHANGED <<mounted, mem, saved, nas, journal, poll, detect, push, pact>>

WriteMarker ==
    /\ gui.at = "write"
    /\ marker' = [marker EXCEPT !.state = "ok", !.id = gui.id]
    /\ gui' = [gui EXCEPT !.at = "save"]
    /\ UNCHANGED <<mounted, mem, saved, nas, journal, poll, detect, push, pact>>

SaveDetection ==
    /\ gui.at = "save"
    /\ saved' = mem
    /\ gui' = GuiIdle
    /\ UNCHANGED <<mounted, marker, mem, nas, journal, poll, detect, push, pact>>

GuiAct ==
    \/ \E r \in Roots : \E known \in BOOLEAN : FinishWizard(r, known)
    \/ DetectInWizard \/ SaveChoice \/ ApplyDetection \/ Bind \/ WriteMarker \/ SaveDetection

-----------------------------------------------------------------------------
(* The engine: the health of the server, every minute.                         *)

AskHealth ==
    /\ mem.known /\ ~poll.got /\ Answers
    /\ poll' = Answer
    /\ UNCHANGED <<mounted, marker, mem, saved, nas, journal, detect, gui, push, pact>>

(* --start, idempotent, if the script can do it *)
Restarted == [nas EXCEPT !.daemon = @ \/ Answers]

\* mutant of ApplyHealth: an id once known is kept.
ApplyHealthOnce ==
    /\ poll.got
    /\ mem' = [mem EXCEPT !.id = IF @ = None THEN poll.share ELSE @]
    /\ saved' = mem' \/ (mem' = mem /\ UNCHANGED saved)
    /\ nas' = IF poll.daemon THEN nas ELSE Restarted
    /\ poll' = NoAnswer
    /\ IF mem'.id = mem.id THEN UNCHANGED push ELSE Disturbed
    /\ UNCHANGED <<mounted, marker, journal, detect, gui, pact>>

(* The id of the answer is taken, whatever it was; a daemon that was down is   *)
(* started.                                                                    *)
ApplyHealth ==
    /\ poll.got
    /\ mem' = [mem EXCEPT !.id = poll.share]
    /\ saved' = mem' \/ (mem' = mem /\ UNCHANGED saved)
    /\ nas' = IF poll.daemon THEN nas ELSE Restarted
    /\ poll' = NoAnswer
    /\ IF mem'.id = mem.id THEN UNCHANGED push ELSE Disturbed
    /\ UNCHANGED <<mounted, marker, journal, detect, gui, pact>>

(* The user restarts it from the settings, which are saved first. *)
RestartDaemon ==
    /\ Idle /\ mem.known
    /\ nas' = Restarted
    /\ saved' = mem
    /\ UNCHANGED <<mounted, marker, mem, journal, poll, detect, gui, push, pact>>

(* discover_remote_server_update: a newer script lies beside the old one.      *)
UpdateFound == nas.script = "old"

(* update_remote_server_script copies it over the old one, restarts the daemon *)
(* and asks it; a lost connection leaves half a script.                        *)
UpdateServer(whole) ==
    /\ UpdateFound /\ mem.known
    /\ nas' = [nas EXCEPT !.script = IF whole THEN "ok" ELSE "broken", !.daemon = whole \/ @]
    /\ UNCHANGED <<mounted, marker, mem, saved, journal, poll, detect, gui, push, pact>>

-----------------------------------------------------------------------------
(* A transfer: the waiting journal first, then the two checks.                 *)

Flushes == journal = None \/ (Answers /\ mem.known /\ nas.share = journal)

PushBegins(destructive) ==
    /\ push.at = "idle" /\ mem.root # None /\ mem.known
    /\ IF Flushes
       THEN /\ journal' = None
            /\ Saves([mem EXCEPT !.error = FALSE])
            /\ push' = IF LocalOk(destructive)
                       THEN [at |-> "check", destructive |-> destructive, moved |-> FALSE]
                       ELSE NoPush
       ELSE Saves([mem EXCEPT !.error = TRUE]) /\ UNCHANGED <<journal, push>>
    /\ UNCHANGED <<mounted, marker, nas, poll, detect, gui, pact>>

PushChecks ==
    /\ push.at = "check"
    /\ push' = IF RemoteOk THEN [push EXCEPT !.at = "transfer"] ELSE NoPush
    /\ UNCHANGED <<mounted, marker, mem, saved, nas, journal, poll, detect, gui, pact>>

(* The journal refuses a payload of another repository; the payload is made    *)
(* again, with the id of the moment, and kept.                                 *)
PushJournals(answered) ==
    /\ push.at = "transfer"
    /\ IF answered /\ Answers /\ mem.id # None /\ nas.share = mem.id
       THEN UNCHANGED <<mem, saved, journal>>
       ELSE Saves([mem EXCEPT !.error = TRUE]) /\ journal' = IF mem.id = None THEN journal ELSE mem.id
    /\ push' = NoPush
    /\ UNCHANGED <<mounted, marker, nas, poll, detect, gui, pact>>

WorkerAct ==
    \/ AskHealth \/ ApplyHealth
    \/ \E destructive \in BOOLEAN : PushBegins(destructive)
    \/ PushChecks \/ PushJournals(TRUE)

-----------------------------------------------------------------------------
(* Volumes that come and go, on either side.                                   *)

Mount(r) ==
    /\ mounted' = IF r \in mounted THEN mounted \ {r} ELSE mounted \cup {r}
    /\ Disturbed
    /\ UNCHANGED <<marker, mem, saved, nas, journal, poll, detect, gui, pact>>

Exchange(s) ==
    /\ s # nas.share
    /\ nas' = [nas EXCEPT !.share = s]
    /\ Disturbed
    /\ UNCHANGED <<mounted, marker, mem, saved, journal, poll, detect, gui, pact>>

DaemonDies ==
    /\ nas.daemon
    /\ nas' = [nas EXCEPT !.daemon = FALSE]
    /\ UNCHANGED <<mounted, marker, mem, saved, journal, poll, detect, gui, push, pact>>

MarkerLost ==
    /\ marker.state # "none"
    /\ marker' = NoMarker
    /\ UNCHANGED <<mounted, mem, saved, nas, journal, poll, detect, gui, push, pact>>

(* The process ends, whatever it was doing, or starts and loads what is saved. *)
Reload ==
    /\ mem' = saved
    /\ poll' = NoAnswer /\ detect' = NoAnswer /\ gui' = GuiIdle /\ push' = NoPush
    /\ UNCHANGED <<mounted, marker, saved, nas, journal, pact>>

Id == Shares \cup {None}
Config == [root : Roots \cup {None}, id : Id, known : BOOLEAN, error : BOOLEAN]
Marker == [state : {"none", "torn", "ok"}, root : Roots \cup {None},
           dev : Roots \cup {System, None}, id : Id]
Nas == [share : Id, daemon : BOOLEAN, script : {"ok", "old", "broken"}]
Answered == [got : BOOLEAN, share : Id, daemon : BOOLEAN]
Gui == [at : {"idle", "wizard", "folder", "bind", "write", "save"},
        root : Roots \cup {None}, id : Id, known : BOOLEAN]
Push == [at : {"idle", "check", "transfer"}, destructive : BOOLEAN, moved : BOOLEAN]

PairingTypeOK ==
    /\ mounted \subseteq Removable
    /\ marker \in Marker
    /\ mem \in Config /\ saved \in Config
    /\ nas \in Nas
    /\ journal \in Id
    /\ poll \in Answered /\ detect \in Answered
    /\ gui \in Gui /\ push \in Push
=============================================================================
