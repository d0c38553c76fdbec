---------------------------- MODULE JournalLines ----------------------------
(***************************************************************************)
(* The journal file as the lines it holds, and the awk program of          *)
(* compact_manifest_unlocked that replays them.  Every journal the server  *)
(* can build from a bounded number of appends, torn ones included, is      *)
(* replayed line by line and compared with NasJournal's View, so that the  *)
(* other modules may reason about whole transactions.                      *)
(***************************************************************************)
EXTENDS NasJournal, FiniteSetsExt, SequencesExt

CONSTANTS EffectOf,    \* the effect of each transaction id (a retry repeats it)
          Tears,       \* how an append may be cut short: a subset of Ends
          Garbled,     \* the argument of two lines run together: no id, no path
          NoTx,        \* awk's tx = "": no open transaction
          MaxUnits     \* appends per behaviour

Ids == DOMAIN EffectOf

ASSUME LinesAssumption == /\ Tears \subseteq Ends \ {"full"}
                          /\ MaxUnits \in Nat
                          /\ EffectOf \in [Ids -> Effects]
                          /\ Ids \subseteq TxIds

VARIABLES lines,   \* the file after its header; the last one may lack a newline
          open,    \* TRUE when the last line has no newline
          units    \* the same appends as NasJournal units

vars == <<lines, open, units>>

\* A line is a kind and its first argument; `val` is the rest of a record.
BeginLine(tx)   == [kind |-> "BEGIN", arg |-> tx, val |-> NoEntry]
CommitLine(tx)  == [kind |-> "COMMIT", arg |-> tx, val |-> NoEntry]
RecordLine(p, v) == [kind |-> IF v = Tomb THEN "DELETE" ELSE "PUT", arg |-> p, val |-> v]

\* One record line per path the transaction touches.
RecordsOf(eff) == LET touched == SetToSeq({p \in Paths : eff[p] # NoEntry})
                  IN  [i \in DOMAIN touched |-> RecordLine(touched[i], eff[touched[i]])]

UnitLines(tx) == <<BeginLine(tx)>> \o RecordsOf(EffectOf[tx]) \o <<CommitLine(tx)>>

\* cat "$tmp" >> "$JOURNAL_FILE": the text goes after whatever the file ends
\* with, so its first line is lost when the last one has no newline.
CatOnto(text) == lines \o (IF open THEN Tail(text) ELSE text)

\* A line cut short keeps its kind; its argument is no longer an id or a path.
Torn(text) == [text EXCEPT ![Len(text)].arg = Garbled]

\* The prefixes of a unit that an append cut short leaves behind: how many
\* lines, the last of them without its end unless the cut is at a boundary.
CutLengths(text, end) ==
    CASE end = "line"   -> 1 .. Len(text) - 1
      [] end = "begin"  -> {1}
      [] end = "record" -> 2 .. Len(text)

Init == lines = <<>> /\ open = FALSE /\ units = <<>>

\* A complete append.
AppendUnit ==
    \E tx \in Ids :
        /\ Len(units) < MaxUnits
        /\ lines' = CatOnto(UnitLines(tx))
        /\ open' = FALSE
        /\ units' = Append(units, [tx |-> tx, eff |-> EffectOf[tx], end |-> "full"])

\* An append cut short.  One unterminated line at a time: the next append
\* after a torn one is complete.
AppendCut ==
    \E tx \in Ids, end \in Tears :
        /\ Len(units) < MaxUnits
        /\ ~open
        /\ \E n \in CutLengths(UnitLines(tx), end) :
               LET kept == SubSeq(UnitLines(tx), 1, n)
               IN  lines' = CatOnto(IF end = "line" THEN kept ELSE Torn(kept))
        /\ open' = (end # "line")
        /\ units' = Append(units, [tx |-> tx, eff |-> EffectOf[tx], end |-> end])

Next == AppendUnit \/ AppendCut

Spec == Init /\ [][Next]_vars

\* Mutant of AwkLine: the tombstone of a path with no live entry is dropped.
AwkDropsTombs(s, line) ==
    CASE line.kind = "BEGIN"  -> [s EXCEPT !.tx = line.arg, !.pend = <<>>]
      [] line.kind \in {"PUT", "DELETE"} /\ s.tx # NoTx ->
             [s EXCEPT !.pend = Append(s.pend, line)]
      [] line.kind = "COMMIT" /\ s.tx # NoTx /\ s.tx = line.arg ->
             [tx |-> NoTx, pend |-> <<>>,
              state |-> FoldLeft(LAMBDA m, r :
                                     IF r.arg \notin Paths THEN m
                                     ELSE IF r.val = Tomb /\ m[r.arg] \notin Versions
                                     THEN [m EXCEPT ![r.arg] = NoEntry]
                                     ELSE [m EXCEPT ![r.arg] = r.val],
                                 s.state, s.pend)]
      [] OTHER -> s

(***************************************************************************)
(* The awk program: `tx` is the open transaction, `pend` the records read  *)
(* since its BEGIN, `state` the entries built so far.                      *)
(***************************************************************************)
AwkLine(s, line) ==
    CASE line.kind = "BEGIN"  -> [s EXCEPT !.tx = line.arg, !.pend = <<>>]
      [] line.kind \in {"PUT", "DELETE"} /\ s.tx # NoTx ->
             [s EXCEPT !.pend = Append(s.pend, line)]
      [] line.kind = "COMMIT" /\ s.tx # NoTx /\ s.tx = line.arg ->
             [tx |-> NoTx, pend |-> <<>>,
              state |-> FoldLeft(LAMBDA m, r : IF r.arg \in Paths
                                               THEN [m EXCEPT ![r.arg] = r.val] ELSE m,
                                 s.state, s.pend)]
      [] OTHER -> s

AwkReplay(m, text) ==
    FoldLeft(AwkLine, [tx |-> NoTx, pend |-> <<>>, state |-> m], text).state

(***************************************************************************)
(* The unit view agrees with the line-by-line replay on every journal the  *)
(* appends can build, torn ones included, whatever the manifest held.      *)
(***************************************************************************)
ViewMatchesReplay ==
    \A m \in {NoEffect} \cup Range(EffectOf) : AwkReplay(m, lines) = View(m, units)

(***************************************************************************)
(* Replaying a journal again over the manifest it produced changes         *)
(* nothing: a crash between the two renames of compact_manifest_unlocked   *)
(* leaves exactly that state.                                              *)
(***************************************************************************)
ReplayIdempotent ==
    \A m \in {NoEffect} \cup Range(EffectOf) :
        AwkReplay(AwkReplay(m, lines), lines) = AwkReplay(m, lines)
=============================================================================
