---------------------------- MODULE TransferLease ----------------------------
(***************************************************************************)
(* The NAS lease: cmd_transfer_wait of server/sync-daemon-server.sh and    *)
(* its client half, RemoteLock of rsync_ops.py.                            *)
(*                                                                         *)
(* A lease session is an SSH process that files a ticket, polls until its  *)
(* ticket heads the queue and the sync lock (fd 8) is free, recovers what  *)
(* killed commands left, names its device in the owner file and then keeps *)
(* the lock until its input ends.  The queue lock (fd 7) covers filing and *)
(* polling.  Commands of other SSH processes look at the sync lock and at  *)
(* the owner file to find out whether their device holds the lease, and    *)
(* that look takes the sync lock for a moment when it is free.  The        *)
(* retention daemon takes it to prune.                                     *)
(***************************************************************************)
EXTENDS Naturals

CONSTANTS Sessions,    \* lease sessions, each run again and again
          Devices,
          DeviceOf,    \* the device of each session
          Priority,    \* the priority its client asks with; 0 is served first
          Daemon,      \* the retention daemon
          Nobody,      \* a lock that is free, an owner file that is missing
          Orphans,     \* TRUE: a command may outlive its client's lease
          MaxTime,     \* seconds of queueing told apart
          MaxKills     \* SIGKILLs of lease sessions per behaviour

ASSUME LeaseAssumption ==
    /\ DeviceOf \in [Sessions -> Devices]
    /\ Priority \in [Sessions -> Nat]
    /\ Sessions \cap Devices = {}
    /\ Nobody \notin Sessions \cup Devices \cup {Daemon}
    /\ Daemon \notin Sessions \cup Devices
    /\ Orphans \in BOOLEAN
    /\ MaxTime \in Nat /\ MaxKills \in Nat

VARIABLES tickets,    \* TRANSFER_QUEUE_DIR: tickets, of live and of dead processes
          queueLock,  \* holder of TRANSFER_QUEUE_LOCK_FILE
          syncLock,   \* holder of SYNC_LOCK_FILE
          ownerFile,  \* the device named in SYNC_LOCK_OWNER_FILE
          pc,         \* where the server process of a session is
          cl,         \* the client's side of a session (RemoteLock)
          cmd,        \* the owner check of each device's current command
          now, kills  \* the clock and a counter, bounded by MaxTime and MaxKills

vars == <<tickets, queueLock, syncLock, ownerFile, pc, cl, cmd, now, kills>>

Tickets == [ses : Sessions, prio : Nat, at : Nat, pid : {"alive", "dead"}]

(***************************************************************************)
(* pc: off -> start -> wait -> won -> held -> exitHeld -> off; "exit" ends *)
(* a session that did not get as far as the owner file.                    *)
(***************************************************************************)
Stages == {"off", "start", "wait", "won", "held", "exit", "exitHeld"}

\* RemoteLock: not in use, __enter__ waits, entered, connection given up.
ClientStages == {"off", "asking", "in", "gone"}

\* sync_transfer_lock_owned_by: sent, holds the free lock, reads the owner file.
Checks == {"idle", "sent", "probe", "read", "pass", "refused"}

TypeOK ==
    /\ tickets \subseteq Tickets
    /\ queueLock \in Sessions \cup {Nobody}
    /\ syncLock \in Sessions \cup Devices \cup {Daemon, Nobody}
    /\ ownerFile \in Devices \cup {Nobody}
    /\ pc \in [Sessions -> Stages]
    /\ cl \in [Sessions -> ClientStages]
    /\ cmd \in [Devices -> Checks]
    /\ now \in Nat /\ kills \in Nat

Init ==
    /\ tickets = {} /\ queueLock = Nobody /\ syncLock = Nobody /\ ownerFile = Nobody
    /\ pc = [s \in Sessions |-> "off"]
    /\ cl = [s \in Sessions |-> "off"]
    /\ cmd = [d \in Devices |-> "idle"]
    /\ now = 0 /\ kills = 0

Goto(s, stage) == pc' = [pc EXCEPT ![s] = stage]
Client(s, stage) == cl' = [cl EXCEPT ![s] = stage]
Command(d, stage) == cmd' = [cmd EXCEPT ![d] = stage]

Dropped(lock, s) == IF lock = s THEN Nobody ELSE lock

\* The client of a session whose server process is gone: one that waited gets
\* an error, one that had the lease does not notice.
ClientAfter(s) == IF cl[s] = "in" THEN "in" ELSE "off"

-----------------------------------------------------------------------------
(* The client: RemoteLock *)

Request(s) ==
    /\ cl[s] = "off" /\ pc[s] = "off"
    /\ Client(s, "asking") /\ Goto(s, "start")
    /\ UNCHANGED <<tickets, queueLock, syncLock, ownerFile, cmd, now, kills>>

\* NASBOX_LOCKED arrives before the timeout.
Told(s) ==
    /\ cl[s] = "asking" /\ pc[s] = "held"
    /\ Client(s, "in")
    /\ UNCHANGED <<tickets, queueLock, syncLock, ownerFile, pc, cmd, now, kills>>

\* release(abort=True): stdin closed, SSH terminated.  The server process may
\* or may not be told (Hangup); without it it keeps its place in the queue.
Timeout(s) ==
    /\ cl[s] = "asking" /\ pc[s] # "off"
    /\ Client(s, "gone")
    /\ UNCHANGED <<tickets, queueLock, syncLock, ownerFile, pc, cmd, now, kills>>

\* release(), a crash of the client, or a lost connection.
Leave(s) ==
    /\ cl[s] = "in"
    /\ Orphans \/ cmd[DeviceOf[s]] = "idle"
    /\ Client(s, IF pc[s] = "off" THEN "off" ELSE "gone")
    /\ UNCHANGED <<tickets, queueLock, syncLock, ownerFile, pc, cmd, now, kills>>

-----------------------------------------------------------------------------
(* The server process of a session: cmd_transfer_wait *)

Ticket(s, at) == [ses |-> s, prio |-> Priority[s], at |-> at, pid |-> "alive"]

\* The time on the ticket was read before the wait for the queue lock.
Enqueue(s) ==
    /\ pc[s] = "start" /\ queueLock = Nobody
    /\ \E at \in 0 .. now : tickets' = tickets \cup {Ticket(s, at)}
    /\ Goto(s, "wait")
    /\ UNCHANGED <<queueLock, syncLock, ownerFile, cl, cmd, now, kills>>

Before(t, u) == t.prio < u.prio \/ (t.prio = u.prio /\ t.at < u.at)

\* Mutant of LiveTickets: tickets of dead processes are not pruned.
AllTickets == tickets

\* transfer_queue_prune_stale: kill -0 tells the dead processes.
LiveTickets == {t \in tickets : t.pid = "alive"}

OwnTickets(s) == {t \in tickets : t.ses = s /\ t.pid = "alive"}

\* transfer_queue_head: sort -n by priority, then by time.  Tickets of the same
\* second are told apart by their random names.
AtHead(s) == \E t \in OwnTickets(s) : \A u \in LiveTickets : ~Before(u, t)

\* One turn of the loop under the queue lock, from the head of the queue to
\* flock -n 8.
Win(s) ==
    /\ pc[s] = "wait" /\ queueLock = Nobody
    /\ AtHead(s) /\ syncLock = Nobody
    /\ tickets' = LiveTickets
    /\ queueLock' = s /\ syncLock' = s
    /\ Goto(s, "won")
    /\ UNCHANGED <<ownerFile, cl, cmd, now, kills>>

\* A turn that does not win only prunes.
PruneTickets(s) ==
    /\ pc[s] = "wait" /\ queueLock = Nobody
    /\ ~(AtHead(s) /\ syncLock = Nobody)
    /\ tickets # LiveTickets /\ tickets' = LiveTickets
    /\ UNCHANGED <<queueLock, syncLock, ownerFile, pc, cl, cmd, now, kills>>

\* Mutant of Granted: the owner file names the session, not the device.
GrantedToSession(s) ==
    /\ pc[s] = "won"
    /\ tickets' = tickets \ OwnTickets(s)
    /\ ownerFile' = s
    /\ queueLock' = Nobody
    /\ Goto(s, "held")
    /\ UNCHANGED <<syncLock, cl, cmd, now, kills>>

\* Recovery done: the ticket goes, the owner file names the device, the queue
\* lock is released and the client is told.
Granted(s) ==
    /\ pc[s] = "won"
    /\ tickets' = tickets \ OwnTickets(s)
    /\ ownerFile' = DeviceOf[s]
    /\ queueLock' = Nobody
    /\ Goto(s, "held")
    /\ UNCHANGED <<syncLock, cl, cmd, now, kills>>

\* Mutant of RecoveryFailed: the client is told although recovery failed.  The
\* probe inside recovery has already dropped the sync lock.
GrantedAnyway(s) ==
    /\ pc[s] = "won"
    /\ tickets' = tickets \ OwnTickets(s)
    /\ ownerFile' = DeviceOf[s]
    /\ queueLock' = Nobody /\ syncLock' = Nobody
    /\ Goto(s, "held")
    /\ UNCHANGED <<cl, cmd, now, kills>>

\* Recovery fails, or finds a publish and drops the lock by looking at it, or
\* the owner file cannot be written: all locks are released, the process ends.
RecoveryFailed(s) ==
    /\ pc[s] = "won"
    /\ queueLock' = Nobody /\ syncLock' = Nobody
    /\ Goto(s, "exit")
    /\ UNCHANGED <<tickets, ownerFile, cl, cmd, now, kills>>

\* An ACTIVITY_V1 frame rewrites the owner file.
Activity(s) ==
    /\ pc[s] = "held" /\ cl[s] = "in"
    /\ ownerFile' = DeviceOf[s]
    /\ UNCHANGED <<tickets, queueLock, syncLock, pc, cl, cmd, now, kills>>

\* Mutant of EndOfInput: a child process still has the descriptor open.
EndOfInputKeepsLock(s) ==
    /\ pc[s] = "held" /\ cl[s] = "gone"
    /\ Goto(s, "exitHeld")
    /\ UNCHANGED <<tickets, queueLock, syncLock, ownerFile, cl, cmd, now, kills>>

\* End of input: the lock is released first ...
EndOfInput(s) ==
    /\ pc[s] = "held" /\ cl[s] = "gone"
    /\ syncLock' = Nobody
    /\ Goto(s, "exitHeld")
    /\ UNCHANGED <<tickets, queueLock, ownerFile, cl, cmd, now, kills>>

\* Mutant of CleanupTicket: the trap forgets the owner file.
CleanupKeepsOwner(s) ==
    /\ tickets' = tickets \ OwnTickets(s)
    /\ UNCHANGED ownerFile

\* cleanup_transfer_ticket
CleanupTicket(s) ==
    /\ tickets' = tickets \ OwnTickets(s)
    /\ ownerFile' = IF pc[s] \in {"held", "exitHeld"} THEN Nobody ELSE ownerFile

\* ... and the EXIT trap removes the files afterwards.
Exit(s) ==
    /\ pc[s] \in {"exit", "exitHeld"}
    /\ CleanupTicket(s)
    /\ Goto(s, "off") /\ Client(s, ClientAfter(s))
    /\ UNCHANGED <<queueLock, syncLock, cmd, now, kills>>

\* trap 'exit 143' HUP INT TERM: the trap runs, then the descriptors close.
Hangup(s) ==
    /\ cl[s] = "gone" /\ pc[s] \in {"start", "wait", "won", "held"}
    /\ CleanupTicket(s)
    /\ queueLock' = Dropped(queueLock, s) /\ syncLock' = Dropped(syncLock, s)
    /\ Goto(s, "off") /\ Client(s, "off")
    /\ UNCHANGED <<cmd, now, kills>>

\* SIGKILL: no trap; the ticket and the owner file stay.
Kill(s) ==
    /\ pc[s] # "off" /\ kills < MaxKills /\ kills' = kills + 1
    /\ tickets' = {IF t.ses = s THEN [t EXCEPT !.pid = "dead"] ELSE t : t \in tickets}
    /\ queueLock' = Dropped(queueLock, s) /\ syncLock' = Dropped(syncLock, s)
    /\ Goto(s, "off") /\ Client(s, ClientAfter(s))
    /\ UNCHANGED <<ownerFile, cmd, now>>

-----------------------------------------------------------------------------
(* Other processes that look at the sync lock *)

\* A command of a device whose client believes it has the lease.
Send(d) ==
    /\ cmd[d] = "idle"
    /\ \E s \in Sessions : DeviceOf[s] = d /\ cl[s] = "in"
    /\ Command(d, "sent")
    /\ UNCHANGED <<tickets, queueLock, syncLock, ownerFile, pc, cl, now, kills>>

\* sync_transfer_lock_is_held: flock -n 8 takes a lock that is free.
Probe(d) ==
    /\ cmd[d] = "sent"
    /\ IF syncLock = Nobody THEN syncLock' = d /\ Command(d, "probe")
                            ELSE UNCHANGED syncLock /\ Command(d, "read")
    /\ UNCHANGED <<tickets, queueLock, ownerFile, pc, cl, now, kills>>

ProbeEnds(d) ==
    /\ cmd[d] = "probe"
    /\ syncLock' = Nobody /\ Command(d, "refused")
    /\ UNCHANGED <<tickets, queueLock, ownerFile, pc, cl, now, kills>>

\* sync_transfer_lock_owned_by reads the owner file.
CheckOwner(d) ==
    /\ cmd[d] = "read"
    /\ Command(d, IF ownerFile = d THEN "pass" ELSE "refused")
    /\ UNCHANGED <<tickets, queueLock, syncLock, ownerFile, pc, cl, now, kills>>

CommandEnds(d) ==
    /\ cmd[d] \in {"pass", "refused"}
    /\ Command(d, "idle")
    /\ UNCHANGED <<tickets, queueLock, syncLock, ownerFile, pc, cl, now, kills>>

\* run_once_pass takes the lock with flock -n 8 to remove what it has found;
\* the load monitor and the diagnostics probe it in the same way.
PruneBegins ==
    /\ syncLock = Nobody /\ syncLock' = Daemon
    /\ UNCHANGED <<tickets, queueLock, ownerFile, pc, cl, cmd, now, kills>>

PruneEnds ==
    /\ syncLock = Daemon /\ syncLock' = Nobody
    /\ UNCHANGED <<tickets, queueLock, ownerFile, pc, cl, cmd, now, kills>>

Tick ==
    /\ now < MaxTime /\ now' = now + 1
    /\ UNCHANGED <<tickets, queueLock, syncLock, ownerFile, pc, cl, cmd, kills>>

-----------------------------------------------------------------------------
Serve(s) == Granted(s) \/ RecoveryFailed(s) \/ EndOfInput(s) \/ Exit(s)

Check(d) == Probe(d) \/ ProbeEnds(d) \/ CheckOwner(d) \/ CommandEnds(d)

Next ==
    \/ \E s \in Sessions :
           \/ Request(s) \/ Told(s) \/ Timeout(s) \/ Leave(s)
           \/ Enqueue(s) \/ Win(s) \/ PruneTickets(s) \/ Serve(s) \/ Activity(s) \/ Hangup(s) \/ Kill(s)
    \/ \E d \in Devices : Send(d) \/ Check(d)
    \/ PruneBegins \/ PruneEnds \/ Tick

Spec == Init /\ [][Next]_vars

(***************************************************************************)
(* Running processes take their steps; a client leaves its lease (the      *)
(* transfer ends, the process dies); a session polls every two seconds and *)
(* meets the lock free again and again, since probes hold it for an        *)
(* instant and pruning is bounded; a queue that is asked for by flock -x 7 *)
(* is obtained.                                                            *)
(***************************************************************************)
Fairness ==
    /\ \A s \in Sessions : /\ WF_vars(Serve(s)) /\ SF_vars(Enqueue(s)) /\ SF_vars(Win(s))
                           /\ WF_vars(Told(s)) /\ SF_vars(Leave(s))
    /\ \A d \in Devices : WF_vars(Check(d))
    /\ WF_vars(PruneEnds)

FairSpec == Spec /\ Fairness

-----------------------------------------------------------------------------
(* Properties *)

(***************************************************************************)
(* A client that was told NASBOX_LOCKED, and whose session lives, has the  *)
(* sync lock, whatever recovery did with the descriptor before: so at most *)
(* one client at a time is told that it has the lease.                     *)
(***************************************************************************)
HeldHasLock == \A s \in Sessions : pc[s] = "held" => syncLock = s

(***************************************************************************)
(* Sessions that end by themselves or on a signal leave nothing behind:    *)
(* with no session running and none ever killed, no ticket and no owner    *)
(* file are left.                                                          *)
(***************************************************************************)
LeavesNothing ==
    (kills = 0 /\ \A s \in Sessions : pc[s] = "off") => tickets = {} /\ ownerFile = Nobody

(***************************************************************************)
(* A request of the highest priority does not wait for ever, even when     *)
(* killed sessions left tickets ahead of it and clients that gave up left  *)
(* their server processes in the queue.                                    *)
(***************************************************************************)
TopServed ==
    \A s \in Sessions :
        (\A r \in Sessions : r = s \/ Priority[s] < Priority[r])
            => (pc[s] = "wait" ~> pc[s] # "wait")

(***************************************************************************)
(* A lease ends: whatever becomes of its client, the lock of a session is  *)
(* released (LOAD_TESTS: a client crash during an upload).                 *)
(***************************************************************************)
LeaseEnds == \A s \in Sessions : pc[s] = "held" ~> syncLock # s
=============================================================================
