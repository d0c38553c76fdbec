---------------------------- MODULE ManifestStore ----------------------------
(***************************************************************************)
(* What the NAS promises its clients about the record of the share: a map  *)
(* from paths to versions that changes by one whole transaction at a time, *)
(* and only by a transaction that some running command offers.  Journal,   *)
(* manifest, compaction, markers, rollbacks and recovery are the server's  *)
(* way of keeping this promise and do not show here.                       *)
(***************************************************************************)
CONSTANTS Paths, Versions,
          Gone,        \* no file at this path
          Unmentioned  \* a transaction says nothing of this path

VARIABLES files,   \* the record: a version or Gone for each path
          offers   \* the transactions of the commands now running

Transactions == [Paths -> Versions \cup {Gone, Unmentioned}]

Apply(f, t) == [p \in Paths |-> IF t[p] = Unmentioned THEN f[p] ELSE t[p]]

Init == files = [p \in Paths |-> Gone] /\ offers \subseteq Transactions

\* Commands start, stop and move on to other transactions.
Offer == files' = files /\ offers' \subseteq Transactions

Commit == /\ \E t \in offers : files' = Apply(files, t)
          /\ offers' \subseteq Transactions

Next == Offer \/ Commit

Spec == Init /\ [][Next]_<<files, offers>>
=============================================================================
