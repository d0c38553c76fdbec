---------------------------- MODULE ReconcileProofs ----------------------------
(* Proofs about Reconcile: vector clocks, and what a plan may overwrite.       *)
EXTENDS Reconcile, TLAPS

(* Dominance orders clocks strictly, so that two clients never both find that  *)
(* their own version follows the other one (CausalVersion.dominates).          *)
THEOREM DominanceOrder ==
    ASSUME NEW a \in Clock, NEW b \in Clock, NEW c \in Clock
    PROVE  /\ ~Dominates(a, a)
           /\ Dominates(a, b) => ~Dominates(b, a)
           /\ Dominates(a, b) /\ Dominates(b, c) => Dominates(a, c)
<1>1. ~Dominates(a, a)
  BY DEF Dominates
<1>2. ASSUME Dominates(a, b), Dominates(b, a) PROVE FALSE
  <2>1. ASSUME NEW e \in Devices PROVE a[e] = b[e]
    <3>1. a[e] \in Nat /\ b[e] \in Nat
      BY DEF Clock
    <3>2. a[e] >= b[e] /\ b[e] >= a[e]
      BY <1>2 DEF Dominates
    <3> QED BY <3>1, <3>2
  <2>2. a = b
    BY <2>1 DEF Clock
  <2> QED BY <1>2, <2>2 DEF Dominates
<1>3. ASSUME Dominates(a, b), Dominates(b, c) PROVE Dominates(a, c)
  <2>1. ASSUME NEW e \in Devices PROVE a[e] >= b[e] /\ b[e] >= c[e] /\ a[e] >= c[e]
    <3>1. a[e] \in Nat /\ b[e] \in Nat /\ c[e] \in Nat
      BY DEF Clock
    <3>2. a[e] >= b[e] /\ b[e] >= c[e]
      BY <1>3 DEF Dominates
    <3> QED BY <3>1, <3>2
  <2>2. a # c
    <3> SUFFICES ASSUME a = c PROVE FALSE
      OBVIOUS
    <3>1. ASSUME NEW e \in Devices PROVE a[e] = b[e]
      <4>1. a[e] \in Nat /\ b[e] \in Nat
        BY DEF Clock
      <4> QED BY <2>1, <4>1
    <3>2. a = b
      BY <3>1 DEF Clock
    <3> QED BY <1>3, <3>2 DEF Dominates
  <2> QED BY <1>3, <2>1, <2>2 DEF Dominates
<1> QED BY <1>1, <1>2, <1>3

(* A clock that was merged with another one and then incremented by its device *)
(* dominates both: a local edit follows the baseline it was made on and what   *)
(* the client observed before (record_fingerprints with CausalVersion.merge    *)
(* and increment).                                                             *)
THEOREM EditFollows ==
    ASSUME NEW a \in Clock, NEW b \in Clock, NEW d \in Devices
    PROVE  /\ Increment(Merge(a, b), d) \in Clock
           /\ a # NoClock => Dominates(Increment(Merge(a, b), d), a)
           /\ b # NoClock => Dominates(Increment(Merge(a, b), d), b)
<1> DEFINE m == Merge(a, b)
           i == Increment(m, d)
<1>1. m \in Clock /\ \A e \in Devices : m[e] >= a[e] /\ m[e] >= b[e]
  BY DEF Merge, Clock
<1> HIDE DEF m
<1>2. i \in Clock /\ i[d] = m[d] + 1 /\ \A e \in Devices : i[e] >= m[e]
  BY <1>1 DEF Increment, Clock
<1> HIDE DEF i
<1>3. /\ \A e \in Devices : i[e] >= a[e] /\ i[e] >= b[e]
      /\ i[d] > a[d] /\ i[d] > b[d]
  BY <1>1, <1>2 DEF Clock
<1>4. i # NoClock /\ i # a /\ i # b
  BY <1>1, <1>2, <1>3 DEF NoClock, Clock
<1>5. i \in Clock /\ (a # NoClock => Dominates(i, a)) /\ (b # NoClock => Dominates(i, b))
  BY <1>2, <1>3, <1>4 DEF Dominates
<1> QED BY <1>5 DEF i, m

(* What plan_path lets one side overwrite without keeping it aside is what     *)
(* both had in common: an upload replaces only the base version on the NAS,    *)
(* the NAS replaces only the base version of the PC, and the NAS loses a file  *)
(* only to a deletion of the base version or of one its clock follows.         *)
THEOREM PlanKeeps ==
    ASSUME NEW base \in Versions \cup {None, Unknown}, NEW local \in Versions \cup {None},
           NEW lvc \in Clock, NEW remote \in RemoteStates
    PROVE  LET plan == PlanPath(base, local, lvc, remote)
           IN  /\ plan = "upload" /\ remote.kind = "file" => remote.v = base
               /\ plan = "remote_wins" /\ local # None => local = base
               /\ plan = "adopt" /\ local # None /\ remote.kind = "file" => local = remote.v
               /\ plan = "delete_remote" =>
                    /\ local = None /\ base \in Versions /\ remote.kind = "file"
                    /\ remote.v = base \/ Dominates(lvc, remote.vc)
BY ReconcileAssumption DEF PlanPath, PlanAbsent, PlanNew, PlanKnown, Clash, CausalWinner,
                           RemoteStates, RemoteKinds
===============================================================================
