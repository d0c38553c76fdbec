---------------------------- MODULE ClientInstall ----------------------------
(* The client's package on disk, the processes started from it, the lock that  *)
(* lets one of them work, and the update that replaces the package under it.   *)
EXTENDS Integers, FiniteSets

CONSTANTS
    Procs,          \* processes of one user
    Latest,         \* bound: versions of the package are 1 .. Latest
    Free,           \* nobody holds the lock
    Scenarios       \* bound: which events may happen in one run

ASSUME InstallAssumption ==
    /\ Free \notin Procs
    /\ Latest \in Nat \ {0}

VARIABLES
    dest,       \* version of the package in its directory, 0 for none
    staging,    \* staging[p]: complete copy beside it that p makes
    backup,     \* backup[p]: the package p has set aside
    bundle,     \* version of the newest update offered
    proc,       \* the processes
    lock,       \* the process whose descriptor has the flock
    happened    \* the events there were

package == <<dest, staging, backup>>
install == <<package, bundle, proc, lock>>

Version == 1 .. Latest

Steps == {"off", "started", "refused", "ready", "working",
          "install", "staged", "aside", "swapped"}

(* code: the versions its modules were loaded from; app: the main window and   *)
(* its workers run; service: systemd started it.                               *)
Running == [at : Steps, code : SUBSET Version, app : BOOLEAN, service : BOOLEAN]
Off == [at |-> "off", code |-> {}, app |-> FALSE, service |-> FALSE]

InstallInit ==
    /\ dest = 1
    /\ staging = [p \in Procs |-> 0]
    /\ backup = [p \in Procs |-> 0]
    /\ bundle = 1
    /\ proc = [p \in Procs |-> Off]
    /\ lock = Free
    /\ happened = {}

Happens(kind) ==
    /\ kind \notin happened
    /\ \E s \in Scenarios : happened \cup {kind} \subseteq s
    /\ happened' = happened \cup {kind}

Step(p, at) == [proc EXCEPT ![p].at = at]

-----------------------------------------------------------------------------
(* main.py *)

(* A second one is started by hand, or after a crash by systemd. *)
Start(p, service) ==
    /\ proc[p].at = "off" /\ dest # 0
    /\ IF \A q \in Procs : proc[q].at = "off" THEN UNCHANGED happened ELSE Happens("second")
    /\ proc' = [proc EXCEPT ![p] = [at |-> "started", code |-> {dest}, app |-> FALSE,
                                     service |-> service]]
    /\ UNCHANGED <<package, bundle, lock>>

\* mutant of Acquire: the lock that another one has is no reason to stop.
AcquireAnyway(p) ==
    /\ proc[p].at = "started"
    /\ lock' = (IF lock = Free THEN p ELSE lock)
    /\ proc' = Step(p, "ready")
    /\ UNCHANGED <<package, bundle, happened>>

(* instance_lock.acquire: the file is opened anew, so that a flock of the      *)
(* process itself, through a descriptor it has inherited, is in the way too.   *)
Acquire(p) ==
    /\ proc[p].at = "started"
    /\ IF lock = Free
       THEN lock' = p /\ proc' = Step(p, "ready")
       ELSE proc' = Step(p, "refused") /\ UNCHANGED lock
    /\ UNCHANGED <<package, bundle, happened>>

Gone(p) ==
    /\ proc' = [proc EXCEPT ![p] = Off]
    /\ lock' = IF lock = p THEN Free ELSE lock

(* A refused process exits with status 0, a working one when its user quits.   *)
Exit(p) ==
    /\ proc[p].at \in {"refused", "working"}
    /\ proc[p].at = "working" => Happens("quit")
    /\ proc[p].at = "refused" => UNCHANGED happened
    /\ Gone(p)
    /\ UNCHANGED <<package, bundle>>

(* find_update, beside the client or on the NAS: newer than the version the    *)
(* process was started with.                                                   *)
Offered(p) == \E v \in proc[p].code : bundle > v

(* The main window is imported from what the directory holds now. *)
Opened(p, v) == [proc[p] EXCEPT !.at = "working", !.app = TRUE, !.code = @ \cup {v}]

OpenWindow(p) ==
    /\ proc[p].at = "ready" /\ dest # 0
    /\ proc[p].service => ~Offered(p)
    /\ proc' = [proc EXCEPT ![p] = Opened(p, dest)]
    /\ UNCHANGED <<package, bundle, lock, happened>>

-----------------------------------------------------------------------------
(* updater.install_update *)

Accepts(p) ==
    /\ Offered(p)
    /\ proc' = Step(p, "install")
    /\ UNCHANGED <<package, bundle, lock, happened>>

(* A service does not ask; else the user is asked before the window is built,  *)
(* or follows the link in it later.                                            *)
UpdateAtStart(p) == proc[p].at = "ready" /\ Accepts(p)

UpdateInWindow(p) == proc[p].at = "working" /\ Accepts(p)

(* materialize: what the place of the bundle holds by now. *)
Materialized == bundle

(* copytree, and the tests of the old package *)
Stage(p) ==
    /\ proc[p].at = "install"
    /\ staging' = [staging EXCEPT ![p] = Materialized]
    /\ proc' = Step(p, "staged")
    /\ UNCHANGED <<dest, backup, bundle, lock, happened>>

SetAside(p) ==
    /\ proc[p].at = "staged" /\ dest # 0
    /\ backup' = [backup EXCEPT ![p] = dest]
    /\ dest' = 0
    /\ proc' = Step(p, "aside")
    /\ UNCHANGED <<staging, bundle, lock, happened>>

\* mutant of Swap: the backup goes as soon as its name is free.
SwapEarly(p) ==
    /\ proc[p].at = "aside"
    /\ backup' = [backup EXCEPT ![p] = 0]
    /\ proc' = Step(p, "swapped")
    /\ UNCHANGED <<dest, staging, bundle, lock, happened>>

Swap(p) ==
    /\ proc[p].at = "aside"
    /\ dest' = staging[p]
    /\ staging' = [staging EXCEPT ![p] = 0]
    /\ proc' = Step(p, "swapped")
    /\ UNCHANGED <<backup, bundle, lock, happened>>

(* After a failed update a process goes on, from the window or to open it,     *)
(* with whatever the directory holds by then.                                  *)
GoesOn(p) ==
    IF proc[p].app THEN proc' = Step(p, "working") /\ UNCHANGED lock
    ELSE IF dest' = 0 THEN Gone(p)
    ELSE /\ proc' = [proc EXCEPT ![p] = Opened(p, dest')]
         /\ UNCHANGED lock

(* Before the package is set aside nothing is lost; a failed second rename is  *)
(* undone; a backup that cannot be removed stays, beside the new package.  A   *)
(* package that an interrupted update left aside cannot be set aside.          *)
UpdateFails(p) ==
    /\ proc[p].at \in {"install", "staged", "aside", "swapped"}
    /\ IF proc[p].at = "staged" /\ dest = 0 THEN UNCHANGED happened ELSE Happens("fault")
    /\ staging' = [staging EXCEPT ![p] = 0]
    /\ IF proc[p].at = "aside"
       THEN dest' = backup[p] /\ backup' = [backup EXCEPT ![p] = 0]
       ELSE UNCHANGED <<dest, backup>>
    /\ GoesOn(p)
    /\ UNCHANGED bundle

Clean(p) ==
    /\ proc[p].at = "swapped"
    /\ backup' = [backup EXCEPT ![p] = 0]
    /\ UNCHANGED <<dest, staging, bundle, happened>>

(* A service that starts exits with status 75, and systemd starts it again.    *)
ExitForRestart(p) ==
    /\ Clean(p)
    /\ proc[p].service /\ ~proc[p].app
    /\ Gone(p)

(* Otherwise, also in the window of a service, execv replaces the process,     *)
(* which keeps the descriptor of the lock.                                     *)
Reexec(p) ==
    /\ Clean(p)
    /\ proc[p].service => proc[p].app
    /\ proc' = [proc EXCEPT ![p] = [@ EXCEPT !.at = "started", !.app = FALSE, !.code = {dest}]]
    /\ UNCHANGED lock

-----------------------------------------------------------------------------
(* A new bundle appears beside the client or on the NAS. *)
Publish ==
    /\ bundle < Latest
    /\ Happens("publish")
    /\ bundle' = bundle + 1
    /\ UNCHANGED <<package, proc, lock>>

(* The process is killed, or the PC loses power. *)
Killed(p) ==
    /\ proc[p].at # "off"
    /\ Happens("crash")
    /\ Gone(p)
    /\ UNCHANGED <<package, bundle>>

InstallAct ==
    \/ Publish
    \/ \E p \in Procs :
         \/ \E service \in BOOLEAN : Start(p, service)
         \/ Acquire(p) \/ Exit(p) \/ OpenWindow(p) \/ UpdateAtStart(p) \/ UpdateInWindow(p)
         \/ Stage(p) \/ SetAside(p) \/ Swap(p) \/ UpdateFails(p) \/ ExitForRestart(p)
         \/ Reexec(p) \/ Killed(p)

(* The main window and its workers are there. *)
Up == \E p \in Procs : proc[p].app

InstallTypeOK ==
    /\ dest \in 0 .. Latest
    /\ staging \in [Procs -> 0 .. Latest]
    /\ backup \in [Procs -> 0 .. Latest]
    /\ bundle \in Version
    /\ proc \in [Procs -> Running]
    /\ lock \in Procs \cup {Free}

-----------------------------------------------------------------------------
(* An update never costs the client: through failed and interrupted updates,   *)
(* and those of a process with the number of an earlier one, a whole package   *)
(* is in its place or set aside (updater.py install_update).                   *)
KeepsClient == dest # 0 \/ \E p \in Procs : backup[p] # 0

(* The lock is refused only if another client owns it (instance_lock.py:15).   *)
RefusedForAnother == \A p \in Procs : proc[p].at = "refused" => lock # p
=============================================================================
