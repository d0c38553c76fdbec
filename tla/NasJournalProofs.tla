-------------------------- MODULE NasJournalProofs --------------------------
(***************************************************************************)
(* Facts about the journal's replay, for every set of paths and versions   *)
(* and every journal: what one more append does to the view, and that      *)
(* compaction does not change it.                                          *)
(***************************************************************************)
EXTENDS NasJournal, WellFoundedInduction, TLAPS

\* A non-empty set of positions has a last one.
LEMMA LastOfExists ==
    ASSUME NEW n \in Nat, NEW S, S \subseteq 1 .. n, S # {}
    PROVE  LastOf(S) \in S /\ \A k \in S : k <= LastOf(S)
<1> DEFINE T == {n - i : i \in S}
           R == OpToRel(<, Nat)
<1>1. T \subseteq Nat
  <2>1. \A i \in S : i \in Nat /\ i <= n
      OBVIOUS
  <2>2. \A i \in S : n - i \in Nat
      BY <2>1
  <2> QED BY <2>2
<1>2. T # {}
    OBVIOUS
<1>3. PICK x \in T : \A y \in T : x <= y
  <2>1. PICK x \in T : \A y \in T : ~(<<y, x>> \in R)
      BY <1>1, <1>2, NatLessThanWellFounded, WFMin
  <2>2. \A y \in T : ~(<<y, x>> \in R) => x <= y
    <3> TAKE y \in T
    <3>1. x \in Nat /\ y \in Nat
        BY <1>1
    <3>2. y < x => <<y, x>> \in R
        BY <3>1 DEF OpToRel
    <3> HIDE DEF R, T
    <3> QED BY <3>1, <3>2
  <2> QED BY <2>1, <2>2
<1>4. PICK i \in S : x = n - i
    OBVIOUS
<1>5. \A k \in S : k <= i
  <2> TAKE k \in S
  <2>1. n - k \in T
      OBVIOUS
  <2>2. n - i <= n - k
      BY <2>1, <1>3, <1>4
  <2> QED BY <2>2
<1> QED BY <1>5 DEF LastOf

\* The positions that write a path are positions of the journal.
LEMMA WritersAreFinite ==
    ASSUME NEW j \in Seq(Units), NEW p
    PROVE  Writers(j, p) \subseteq 1 .. Len(j) /\ Len(j) \in Nat
BY DEF Writers

\* The replay of a journal is a manifest.
LEMMA ViewType ==
    ASSUME NEW m \in Effects, NEW j \in Seq(Units)
    PROVE  View(m, j) \in Effects
<1> SUFFICES ASSUME NEW p \in Paths
             PROVE  View(m, j)[p] \in Entries
    BY DEF View, Effects
<1>1. CASE Writers(j, p) = {}
    BY <1>1 DEF View, Effects
<1>2. CASE Writers(j, p) # {}
  <2>1. LastOf(Writers(j, p)) \in Writers(j, p)
      BY <1>2, WritersAreFinite, LastOfExists
  <2>2. j[LastOf(Writers(j, p))] \in Units
      BY <2>1 DEF Writers
  <2> QED BY <1>2, <2>2 DEF View, Units, Effects
<1> QED BY <1>1, <1>2

(***************************************************************************)
(* One append: a unit the replay applies overlays its whole effect on what *)
(* was on record; a torn unit, or one whose BEGIN is lost, changes         *)
(* nothing.                                                                *)
(***************************************************************************)
THEOREM ViewOfAppend ==
    ASSUME NEW m \in Effects, NEW j \in Seq(Units), NEW u \in Units
    PROVE  View(m, Append(j, u)) =
               IF Effective(Append(j, u), Len(j) + 1) THEN Overlay(View(m, j), u.eff)
                                                      ELSE View(m, j)
<1> DEFINE n == Len(j)
           k == Append(j, u)
<1>1. /\ n \in Nat /\ k \in Seq(Units) /\ Len(k) = n + 1 /\ k[n + 1] = u
      /\ \A i \in 1 .. n : k[i] = j[i]
    OBVIOUS
<1>2. \A i \in 1 .. n : Effective(k, i) <=> Effective(j, i)
  <2> TAKE i \in 1 .. n
  <2>1. k[i] = j[i] /\ (i > 1 => k[i - 1] = j[i - 1])
      BY <1>1
  <2> HIDE DEF k, n
  <2> QED BY <2>1 DEF Effective
<1>3. ASSUME NEW p \in Paths
      PROVE  View(m, k)[p] = IF Effective(k, n + 1) /\ u.eff[p] # NoEntry
                             THEN u.eff[p] ELSE View(m, j)[p]
  <2>1. Writers(k, p) = Writers(j, p) \cup
            (IF Effective(k, n + 1) /\ u.eff[p] # NoEntry THEN {n + 1} ELSE {})
    <3>1. DOMAIN k = 1 .. n + 1 /\ DOMAIN j = 1 .. n /\ 1 .. n + 1 = (1 .. n) \cup {n + 1}
        BY <1>1
    <3> HIDE DEF k, n
    <3> QED BY <1>1, <1>2, <3>1 DEF Writers
  <2>2. Writers(j, p) \subseteq 1 .. n
      BY WritersAreFinite
  <2>3. CASE Effective(k, n + 1) /\ u.eff[p] # NoEntry
    <3>1. n + 1 \in Writers(k, p) /\ \A i \in Writers(k, p) : i \in Nat /\ i <= n + 1
        BY <1>1, <2>1, <2>2, <2>3
    <3> HIDE DEF k, n
    <3>2. LastOf(Writers(k, p)) = n + 1
        BY <1>1, <3>1 DEF LastOf
    <3> QED BY <1>1, <2>3, <3>1, <3>2 DEF View
  <2>4. CASE ~(Effective(k, n + 1) /\ u.eff[p] # NoEntry)
    <3>1. Writers(k, p) = Writers(j, p)
        BY <2>1, <2>4
    <3>2. Writers(j, p) # {} => LastOf(Writers(j, p)) \in 1 .. n
        BY <1>1, <2>2, LastOfExists
    <3> HIDE DEF k, n
    <3> QED BY <1>1, <2>4, <3>1, <3>2 DEF View
  <2> QED BY <2>3, <2>4
<1> HIDE DEF k, n
<1>4. \A p \in Paths : View(m, k)[p] = (IF Effective(k, n + 1) THEN Overlay(View(m, j), u.eff)
                                                               ELSE View(m, j))[p]
    BY <1>3 DEF Overlay
<1>5. View(m, k) = [p \in Paths |-> View(m, k)[p]] /\ View(m, j) = [p \in Paths |-> View(m, j)[p]]
    BY DEF View
<1>6. Overlay(View(m, j), u.eff) = [p \in Paths |-> Overlay(View(m, j), u.eff)[p]]
    BY DEF Overlay
<1> QED BY <1>4, <1>5, <1>6 DEF k, n

\* An append that was cut short changes nothing.
COROLLARY ViewOfCut ==
    ASSUME NEW m \in Effects, NEW j \in Seq(Units), NEW u \in Units, u.end # "full"
    PROVE  View(m, Append(j, u)) = View(m, j)
<1>1. ~Effective(Append(j, u), Len(j) + 1)
    BY DEF Effective
<1> QED BY <1>1, ViewOfAppend

\* An empty journal leaves the manifest as it is.
LEMMA ViewOfEmpty ==
    ASSUME NEW m \in Effects
    PROVE  View(m, <<>>) = m
<1>1. \A p \in Paths : Writers(<<>>, p) = {}
    BY DEF Writers
<1> QED BY <1>1 DEF View, Effects

(***************************************************************************)
(* Compaction replaced the manifest and was killed before it emptied the   *)
(* journal: replaying the same journal again shows every path as before,   *)
(* except that a tombstone swept by its age may be gone.                   *)
(***************************************************************************)
THEOREM ViewOfFold ==
    ASSUME NEW m \in Effects, NEW j \in Seq(Units), NEW X, NEW p \in Paths
    PROVE  View(Sweep(View(m, j), X), j)[p] \in {View(m, j)[p], Sweep(View(m, j), X)[p]}
BY DEF View, Sweep
=============================================================================
