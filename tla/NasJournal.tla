----------------------------- MODULE NasJournal -----------------------------
(***************************************************************************)
(* The NAS-side record of which files exist: a manifest file and the       *)
(* journal of transactions appended since it was last compacted            *)
(* (server/sync-daemon-server.sh, JOURNAL_FILE and MANIFEST_FILE).         *)
(*                                                                         *)
(* One transaction is the run of lines BEGIN, PUT/DELETE..., COMMIT that   *)
(* one `cat "$tmp" >> "$JOURNAL_FILE"` adds.  It is a unit here: its id,   *)
(* its effect on each path, and how far the append got.  Module            *)
(* JournalLines checks that these operators give what the awk replay of    *)
(* the lines gives.                                                        *)
(***************************************************************************)
EXTENDS Naturals, Sequences

CONSTANTS Paths,     \* relative paths of the share
          Versions,  \* file contents: digest, size and mtime together
          Tomb,      \* a path recorded as deleted
          NoEntry    \* a path with no record

ASSUME EntryAssumption == /\ Tomb \notin Versions
                          /\ NoEntry \notin Versions
                          /\ Tomb # NoEntry

Entries == Versions \cup {Tomb, NoEntry}

\* What a transaction, or the whole manifest, says of every path.
Effects == [Paths -> Entries]

NoEffect == [p \in Paths |-> NoEntry]

\* A transaction id: a fresh one (a number), or, for a staged publish, the
\* one derived from what is published (push_worker._staging_transaction_id).
TxIds == Nat \X Effects

(***************************************************************************)
(* How an append ended: complete, or cut short (a kill or a full disk) at  *)
(* a line boundary, inside the BEGIN line, or inside a later line.         *)
(***************************************************************************)
Ends == {"full", "line", "begin", "record"}

Units == [tx : TxIds, eff : Effects, end : Ends]

\* Mutant of Effective: a torn line before the BEGIN does no harm.
EffectiveIfFull(j, i) == j[i].end = "full"

(***************************************************************************)
(* Unit i is applied by the replay: it is complete and its BEGIN line is   *)
(* read as one.  A BEGIN that lands on the tail of a torn line is lost,    *)
(* and the COMMIT then matches no open transaction, unless the torn unit   *)
(* had opened a transaction with the same id.                              *)
(***************************************************************************)
Effective(j, i) ==
    /\ j[i].end = "full"
    /\ i > 1 => /\ j[i-1].end # "begin"
                /\ j[i-1].end = "record" => j[i-1].tx = j[i].tx

Writers(j, p) == {i \in DOMAIN j : Effective(j, i) /\ j[i].eff[p] # NoEntry}

LastOf(S) == CHOOSE i \in S : \A k \in S : k <= i

\* The awk replay: the last applied record of a path wins over the manifest.
View(m, j) ==
    [p \in Paths |-> IF Writers(j, p) = {} THEN m[p]
                                           ELSE j[LastOf(Writers(j, p))].eff[p]]

\* grep -Fq "COMMIT<tab>txid" on the journal file.
Committed(j, tx) == \E i \in DOMAIN j : j[i].tx = tx /\ j[i].end = "full"

Overlay(m, e) == [p \in Paths |-> IF e[p] = NoEntry THEN m[p] ELSE e[p]]

\* Compaction drops tombstones older than TOMBSTONE_TTL_DAYS; X is that set.
Sweep(m, X) == [p \in Paths |-> IF p \in X /\ m[p] = Tomb THEN NoEntry ELSE m[p]]
=============================================================================
