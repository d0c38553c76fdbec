------------------------------ MODULE Reconcile ------------------------------
(* Per-path reconciliation: vector clocks (CausalVersion) and plan_path, the   *)
(* decision taken from the common base, the local file and the live NAS state. *)
(* A version stands for a content with its digest, size and modification time. *)
EXTENDS Integers

CONSTANTS
    Devices,        \* the PCs, each a component of the clocks
    Versions,       \* contents a file may have
    Second,         \* Second[v]: whole-second modification time of v
    None,           \* no file
    Unknown,        \* no row in the entry table
    DeleteEnabled   \* Config.allows_remote_deletions

ASSUME ReconcileAssumption ==
    /\ Second \in [Versions -> Nat]
    /\ None \notin Versions
    /\ Unknown \notin Versions
    /\ None # Unknown
    /\ DeleteEnabled \in BOOLEAN

-----------------------------------------------------------------------------
(* Vector clocks.  A missing clock (None in the code) is the zero vector: the  *)
(* empty text is parsed to a missing clock, and observations start at one.     *)

Clock == [Devices -> Nat]

NoClock == [e \in Devices |-> 0]

Merge(a, b) == [e \in Devices |-> IF a[e] < b[e] THEN b[e] ELSE a[e]]

Increment(a, d) == [a EXCEPT ![d] = @ + 1]

Dominates(a, b) ==
    /\ a # NoClock
    /\ b # NoClock
    /\ \A e \in Devices : a[e] >= b[e]
    /\ a # b

-----------------------------------------------------------------------------
(* base is Unknown, None (a tombstone) or a version; local is None or a        *)
(* version; remote is a record of kind, version and clock.                     *)

RemoteKinds == {"absent", "file", "tombstone", "other"}

RemoteStates == [kind : RemoteKinds, v : Versions \cup {None}, vc : Clock]

Actions == {"nothing", "adopt", "upload", "delete_remote", "remote_wins",
            "conflict_local_wins", "conflict_remote_wins", "block"}

(* mtime breaks ties; equal seconds go to the NAS. *)
EventIsNewer(local, remote) == Second[local] > Second[remote.v]

CausalWinner(lvc, remote) ==
    CASE Dominates(lvc, remote.vc) -> "local"
      [] Dominates(remote.vc, lvc) -> "remote"
      [] OTHER -> "none"

(* Two different contents without a common base: one of them is kept aside.    *)
Clash(local, lvc, remote) ==
    LET winner == CausalWinner(lvc, remote)
    IN  IF winner = "local" \/ (winner = "none" /\ EventIsNewer(local, remote))
        THEN "conflict_local_wins"
        ELSE "conflict_remote_wins"

(* plan_path with no file locally. *)
PlanAbsent(base, lvc, remote) ==
    LET winner == CausalWinner(lvc, remote)
        deletes == /\ DeleteEnabled
                   /\ winner = "local" \/ (winner = "none" /\ remote.v = base)
    IN  IF base = Unknown
        THEN IF remote.kind = "tombstone" THEN "adopt" ELSE "remote_wins"
        ELSE IF remote.kind # "file" THEN "adopt"
        ELSE IF base # None /\ deletes THEN "delete_remote"
        ELSE "remote_wins"

(* plan_path with a local file and no base version. *)
PlanNew(base, local, lvc, remote) ==
    CASE remote.kind = "absent" -> "upload"
      [] remote.kind = "tombstone" ->
           IF base = Unknown \/ CausalWinner(lvc, remote) = "remote"
           THEN "conflict_remote_wins" ELSE "upload"
      [] remote.kind = "file" ->
           IF local = remote.v THEN "adopt" ELSE Clash(local, lvc, remote)

\* mutant of PlanKnown: a file the NAS has lost is uploaded again
PlanKnownRestores(base, local, lvc, remote) ==
    IF remote.kind # "file" THEN "upload"
    ELSE IF local = remote.v THEN "adopt"
    ELSE IF remote.v = base THEN "upload"
    ELSE IF local = base THEN "remote_wins"
    ELSE Clash(local, lvc, remote)

(* plan_path with a local file and a base version. *)
PlanKnown(base, local, lvc, remote) ==
    IF remote.kind # "file"
    THEN CASE local = base -> "remote_wins"
           [] local # base -> IF CausalWinner(lvc, remote) = "local"
                              THEN "upload" ELSE "conflict_remote_wins"
    ELSE IF local = remote.v THEN "adopt"
    ELSE IF remote.v = base THEN "upload"
    ELSE IF local = base THEN "remote_wins"
    ELSE Clash(local, lvc, remote)

PlanPath(base, local, lvc, remote) ==
    IF remote.kind = "other"
    THEN IF base \notin Versions /\ local = None THEN "nothing" ELSE "block"
    ELSE IF local = None THEN PlanAbsent(base, lvc, remote)
    ELSE IF base \notin Versions THEN PlanNew(base, local, lvc, remote)
    ELSE PlanKnown(base, local, lvc, remote)
=============================================================================
