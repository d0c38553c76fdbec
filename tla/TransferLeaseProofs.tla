------------------------- MODULE TransferLeaseProofs -------------------------
(***************************************************************************)
(* TransferLease for any number of sessions, devices, priorities and kills *)
(* and any interleaving of probes, pruning and owner checks.               *)
(***************************************************************************)
EXTENDS TransferLease, TLAPS

\* A session between flock -n 8 and its release has the lock, and so has a
\* command whose probe took it.
SessionsHold == \A s \in Sessions : pc[s] \in {"won", "held"} => syncLock = s
ProbesHold == \A d \in Devices : cmd[d] = "probe" => syncLock = d

LockInv == TypeOK /\ SessionsHold /\ ProbesHold

USE DEF Stages, ClientStages, Checks

\* Every step keeps the types.
LEMMA TypeStep == ASSUME TypeOK, [Next]_vars PROVE TypeOK'
<1> USE LeaseAssumption DEF TypeOK
<1>1. ASSUME NEW s \in Sessions, Request(s) \/ Told(s) \/ Timeout(s) \/ Leave(s)
      PROVE  TypeOK'
  BY <1>1 DEF Request, Told, Timeout, Leave, Client, Goto
<1>2. ASSUME NEW s \in Sessions, Enqueue(s)
      PROVE  TypeOK'
  <2>1. PICK at \in 0 .. now : tickets' = tickets \cup {Ticket(s, at)}
    BY <1>2 DEF Enqueue
  <2>2. at \in Nat /\ Priority[s] \in Nat
    BY 0 .. now \subseteq Nat
  <2>3. Ticket(s, at) \in Tickets
    BY <2>2 DEF Ticket, Tickets
  <2> QED BY <1>2, <2>1, <2>3 DEF Enqueue, Goto
<1>3. ASSUME NEW s \in Sessions, Win(s) \/ PruneTickets(s) \/ Granted(s)
      PROVE  TypeOK'
  BY <1>3 DEF Win, PruneTickets, Granted, LiveTickets, OwnTickets, Goto
<1>4. ASSUME NEW s \in Sessions, RecoveryFailed(s) \/ EndOfInput(s) \/ Activity(s)
      PROVE  TypeOK'
  BY <1>4 DEF RecoveryFailed, EndOfInput, Activity, Goto
<1>5. ASSUME NEW s \in Sessions, Exit(s) \/ Hangup(s)
      PROVE  TypeOK'
  BY <1>5 DEF Exit, Hangup, CleanupTicket, OwnTickets, LiveTickets, Goto, Client, ClientAfter, Dropped
<1>6. ASSUME NEW s \in Sessions, Kill(s)
      PROVE  TypeOK'
  <2>1. \A t \in tickets : [t EXCEPT !.pid = "dead"] \in Tickets /\ t \in Tickets
    BY DEF Tickets
  <2>2. tickets' \subseteq Tickets
    BY <1>6, <2>1 DEF Kill
  <2> QED BY <1>6, <2>2 DEF Kill, Goto, Client, ClientAfter, Dropped
<1>7. ASSUME NEW d \in Devices, Send(d) \/ Check(d)
      PROVE  TypeOK'
  BY <1>7 DEF Send, Check, Probe, ProbeEnds, CheckOwner, CommandEnds, Command
<1>8. CASE PruneBegins \/ PruneEnds \/ Tick
  BY <1>8 DEF PruneBegins, PruneEnds, Tick
<1>9. CASE UNCHANGED vars
  BY <1>9 DEF vars
<1> QED BY <1>1, <1>2, <1>3, <1>4, <1>5, <1>6, <1>7, <1>8, <1>9 DEF Next, Serve

\* Types: in every interleaving a lock or an owner file names a session, a
\* device, the daemon or nobody, and a ticket is that of a session
\* (cmd_transfer_wait, RemoteLock).
THEOREM TypeCorrect == Spec => []TypeOK
<1>1. Init => TypeOK
  BY LeaseAssumption DEF Init, TypeOK
<1>2. TypeOK /\ [Next]_vars => TypeOK'
  BY TypeStep
<1> QED BY <1>1, <1>2, PTL DEF Spec

\* Every step keeps the locks where they are needed: a holder is the only one
\* that gives the sync lock up, and it is taken only when it is free.
LEMMA LockStep == ASSUME LockInv, [Next]_vars PROVE LockInv'
<1> USE LeaseAssumption DEF LockInv, SessionsHold, ProbesHold
<1>0. TypeOK'
  BY TypeStep
<1>t. /\ pc \in [Sessions -> Stages] /\ cmd \in [Devices -> Checks]
  BY DEF TypeOK
<1>1. ASSUME NEW s \in Sessions, Request(s) \/ Told(s) \/ Timeout(s) \/ Leave(s)
      PROVE  SessionsHold' /\ ProbesHold'
  BY <1>1, <1>t DEF Request, Told, Timeout, Leave, Client, Goto
<1>2. ASSUME NEW s \in Sessions, Enqueue(s) \/ PruneTickets(s) \/ Granted(s)
      PROVE  SessionsHold' /\ ProbesHold'
  BY <1>2, <1>t DEF Enqueue, PruneTickets, Granted, Goto
<1>3. ASSUME NEW s \in Sessions, Win(s)
      PROVE  SessionsHold' /\ ProbesHold'
  BY <1>3, <1>t DEF Win, Goto
<1>4. ASSUME NEW s \in Sessions, RecoveryFailed(s) \/ EndOfInput(s) \/ Activity(s)
      PROVE  SessionsHold' /\ ProbesHold'
  BY <1>4, <1>t DEF RecoveryFailed, EndOfInput, Activity, Goto
<1>5. ASSUME NEW s \in Sessions, Exit(s) \/ Hangup(s) \/ Kill(s)
      PROVE  SessionsHold' /\ ProbesHold'
  <2>1. /\ pc' = [pc EXCEPT ![s] = "off"] /\ cmd' = cmd
        /\ syncLock' = syncLock \/ syncLock' = Dropped(syncLock, s)
    BY <1>5 DEF Exit, Hangup, Kill, Goto
  <2>2. \A r \in Sessions : r # s /\ syncLock = r => syncLock' = r
    BY <2>1 DEF Dropped
  <2>3. \A d \in Devices : syncLock = d => syncLock' = d
    BY <2>1 DEF Dropped
  <2> QED BY <2>1, <2>2, <2>3, <1>t
<1>6. ASSUME NEW d \in Devices, Send(d) \/ Check(d)
      PROVE  SessionsHold' /\ ProbesHold'
  <2>1. CASE Send(d) \/ CheckOwner(d) \/ CommandEnds(d)
    BY <2>1, <1>t DEF Send, CheckOwner, CommandEnds, Command
  <2>2. CASE Probe(d)
    BY <2>2, <1>t DEF Probe, Command
  <2>3. CASE ProbeEnds(d)
    <3>1. syncLock = d /\ syncLock' = Nobody /\ pc' = pc /\ cmd' = [cmd EXCEPT ![d] = "refused"]
      BY <2>3 DEF ProbeEnds, Command
    <3>2. \A s \in Sessions : pc[s] \notin {"won", "held"}
      BY <3>1
    <3>3. \A e \in Devices : cmd'[e] # "probe"
      BY <3>1, <1>t
    <3> QED BY <3>1, <3>2, <3>3
  <2> QED BY <1>6, <2>1, <2>2, <2>3 DEF Check
<1>7. CASE PruneBegins \/ PruneEnds \/ Tick
  BY <1>0, <1>7, <1>t DEF PruneBegins, PruneEnds, Tick
<1>8. CASE UNCHANGED vars
  BY <1>0, <1>8 DEF vars
<1> QED BY <1>0, <1>1, <1>2, <1>3, <1>4, <1>5, <1>6, <1>7, <1>8 DEF Next, Serve

\* The lease is exclusive for any number of clients: a session whose client was
\* told NASBOX_LOCKED has the sync lock until it gives it up (cmd_transfer_wait).
THEOREM LeaseExclusive == Spec => []HeldHasLock
<1>1. Init => LockInv
  BY LeaseAssumption DEF Init, LockInv, TypeOK, SessionsHold, ProbesHold
<1>2. LockInv /\ [Next]_vars => LockInv'
  BY LockStep
<1>3. LockInv => HeldHasLock
  BY DEF LockInv, SessionsHold, HeldHasLock
<1> QED BY <1>1, <1>2, <1>3, PTL DEF Spec

-----------------------------------------------------------------------------
\* Without kills every ticket is that of a session that will remove it, and an
\* owner file has a session that will.
TicketsKept ==
    \A t \in tickets : t.pid = "alive" /\ pc[t.ses] \in {"wait", "won", "exit"}
OwnerKept == ownerFile # Nobody => \E s \in Sessions : pc[s] \in {"held", "exitHeld"}

FilesInv == TypeOK /\ (kills = 0 => TicketsKept /\ OwnerKept)

LEMMA FilesStep == ASSUME FilesInv, [Next]_vars PROVE FilesInv'
<1> USE LeaseAssumption DEF FilesInv, TicketsKept, OwnerKept
<1>0. TypeOK'
  BY TypeStep
<1>t. /\ pc \in [Sessions -> Stages] /\ tickets \subseteq Tickets
      /\ \A t \in tickets : t.ses \in Sessions
      /\ kills \in Nat
  BY DEF TypeOK, Tickets
<1> SUFFICES ASSUME kills' = 0 PROVE TicketsKept' /\ OwnerKept'
  BY <1>0
<1>1. ASSUME NEW s \in Sessions, Request(s) \/ Told(s) \/ Timeout(s) \/ Leave(s)
      PROVE  TicketsKept' /\ OwnerKept'
  BY <1>1, <1>t DEF Request, Told, Timeout, Leave, Client, Goto
<1>2. ASSUME NEW s \in Sessions, Enqueue(s)
      PROVE  TicketsKept' /\ OwnerKept'
  <2>1. PICK at \in 0 .. now : tickets' = tickets \cup {Ticket(s, at)}
    BY <1>2 DEF Enqueue
  <2>2. pc' = [pc EXCEPT ![s] = "wait"] /\ pc[s] = "start" /\ ownerFile' = ownerFile /\ kills = 0
    BY <1>2 DEF Enqueue, Goto
  <2>3. Ticket(s, at).ses = s /\ Ticket(s, at).pid = "alive"
    BY DEF Ticket
  <2> QED BY <2>1, <2>2, <2>3, <1>t
<1>3. ASSUME NEW s \in Sessions, Win(s) \/ PruneTickets(s) \/ Granted(s)
      PROVE  TicketsKept' /\ OwnerKept'
  BY <1>3, <1>t DEF Win, PruneTickets, Granted, LiveTickets, OwnTickets, Goto
<1>4. ASSUME NEW s \in Sessions, RecoveryFailed(s) \/ EndOfInput(s) \/ Activity(s)
      PROVE  TicketsKept' /\ OwnerKept'
  BY <1>4, <1>t DEF RecoveryFailed, EndOfInput, Activity, Goto
<1>5. ASSUME NEW s \in Sessions, Exit(s) \/ Hangup(s)
      PROVE  TicketsKept' /\ OwnerKept'
  <2>1. /\ tickets' = tickets \ OwnTickets(s) /\ kills = 0
        /\ pc[s] \in {"held", "exitHeld"} => ownerFile' = Nobody
        /\ pc[s] \notin {"held", "exitHeld"} => ownerFile' = ownerFile
        /\ pc' = [pc EXCEPT ![s] = "off"]
    <3>1. CASE Exit(s)
      BY <3>1 DEF Exit, CleanupTicket, Goto
    <3>2. CASE Hangup(s)
      BY <3>2 DEF Hangup, CleanupTicket, Goto
    <3> QED BY <1>5, <3>1, <3>2
  <2>2. TicketsKept'
    BY <2>1, <1>t DEF OwnTickets, LiveTickets
  <2>3. OwnerKept'
    BY <2>1, <1>t
  <2> QED BY <2>2, <2>3
<1>6. ASSUME NEW s \in Sessions, Kill(s)
      PROVE  FALSE
  BY <1>6, <1>t DEF Kill
<1>7. ASSUME NEW d \in Devices, Send(d) \/ Check(d)
      PROVE  TicketsKept' /\ OwnerKept'
  BY <1>7 DEF Send, Check, Probe, ProbeEnds, CheckOwner, CommandEnds
<1>8. CASE PruneBegins \/ PruneEnds \/ Tick
  BY <1>8 DEF PruneBegins, PruneEnds, Tick
<1>9. CASE UNCHANGED vars
  BY <1>9 DEF vars
<1> QED BY <1>1, <1>2, <1>3, <1>4, <1>5, <1>6, <1>7, <1>8, <1>9 DEF Next, Serve

\* Sessions that are not killed clean up after themselves, whatever signals and
\* timeouts end them (cleanup_transfer_ticket).
THEOREM SessionsCleanUp == Spec => []LeavesNothing
<1>1. Init => FilesInv
  BY LeaseAssumption DEF Init, FilesInv, TypeOK, TicketsKept, OwnerKept
<1>2. FilesInv /\ [Next]_vars => FilesInv'
  BY FilesStep
<1>3. FilesInv => LeavesNothing
  BY DEF FilesInv, TypeOK, Tickets, TicketsKept, OwnerKept, LeavesNothing
<1> QED BY <1>1, <1>2, <1>3, PTL DEF Spec
=============================================================================
