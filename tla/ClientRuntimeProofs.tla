------------------------- MODULE ClientRuntimeProofs -------------------------
(* Proofs about ClientRuntime: its types, that one thread at a time has the   *)
(* gate, that connections are stable and current, and that a change always    *)
(* has a retry trigger.                                                       *)

EXTENDS ClientRuntime, SequenceTheorems, TLAPS

(* The types of the gate and the places, of the connections, and of the rest. *)
GateType ==
    /\ active \in Kinds \cup {None}
    /\ waiting \in Seq([who : Threads, age : 0..MaxAge])
    /\ held \in [Kinds -> BOOLEAN]
    /\ at \in [Threads -> Places]

LineType ==
    /\ route \in {None, Route}
    /\ inbox \in [Clients -> {<<>>, <<None>>, <<Route>>}]
    /\ conn \in [Clients -> {None, Route}]
    /\ deferred \in [Workers -> {<<>>, <<None>>, <<Route>>}]

RestType ==
    /\ left \in 0..Chunks
    /\ cancel \in [Workers -> BOOLEAN]
    /\ stale \in [Workers -> BOOLEAN]
    /\ watching \in BOOLEAN /\ dirty \in BOOLEAN /\ pending \in BOOLEAN
    /\ force \in BOOLEAN /\ backoff \in BOOLEAN /\ paused \in BOOLEAN
    /\ unsynced \in {"no", "new", "taken"}
    /\ mode \in {"both", "pull_only"}
    /\ stopping \in 0..5
    /\ events \in 0..MaxEvents

(* TypeOK in its three parts.                                                 *)
LEMMA Parts == /\ TypeOK <=> GateType /\ LineType /\ RestType
               /\ TypeOK' <=> GateType' /\ LineType' /\ RestType'
BY DEF TypeOK, GateType, LineType, RestType

(* The kinds of the threads.                                                  *)
LEMMA KindOf ==
    /\ Kind("push") = "push" /\ Kind("pull") = "pull" /\ Kind("preview") = "preview"
    /\ \A t \in Threads : Kind(t) \in Kinds
BY RuntimeAssumption DEF Kind, Threads, Clients, Workers, Kinds

(* Each of the module's helpers keeps the types.                              *)
LEMMA ReleaseType ==
    ASSUME NEW k \in Kinds, GateType, Release(k), at' \in [Threads -> Places]
    PROVE  GateType'
BY DEF GateType, Release

(* A new request.                                                             *)
LEMMA RequestType ==
    ASSUME NEW t \in Threads, GateType, Request(t), at' \in [Threads -> Places],
           UNCHANGED <<active, held>>
    PROVE  GateType'
<1>1. [who |-> t, age |-> 0] \in [who : Threads, age : 0..MaxAge]
  BY RuntimeAssumption
<1> QED BY <1>1 DEF GateType, Request

(* A request that is granted or given up.                                     *)
LEMMA RemoveType ==
    ASSUME NEW i \in DOMAIN waiting, GateType
    PROVE  RemoveAt(waiting, i) \in Seq([who : Threads, age : 0..MaxAge])
<1> DEFINE R == [who : Threads, age : 0..MaxAge]
<1>1. waiting \in Seq(R) /\ i \in 1..Len(waiting)
  BY DEF GateType
<1> HIDE DEF R
<1>2. /\ i - 1 \in Int /\ i + 1 \in Int /\ Len(waiting) \in Int
      /\ \A j \in 1..(i-1) : waiting[j] \in R
      /\ \A j \in (i+1)..Len(waiting) : waiting[j] \in R
  BY <1>1
<1>3. SubSeq(waiting, 1, i-1) \in Seq(R) /\ SubSeq(waiting, i+1, Len(waiting)) \in Seq(R)
  BY <1>2, SubSeqProperties
<1>4. SubSeq(waiting, 1, i-1) \o SubSeq(waiting, i+1, Len(waiting)) \in Seq(R)
  BY <1>3
<1> QED BY <1>4 DEF RemoveAt, R

(* Requests that grow older.                                                  *)
LEMMA AgeType ==
    ASSUME GateType, Age
    PROVE  GateType'
<1> DEFINE R == [who : Threads, age : 0..MaxAge]
           older(i) == IF waiting[i].who \in Workers
                       THEN [waiting[i] EXCEPT !.age = @ + 1] ELSE waiting[i]
<1>1. waiting \in Seq(R)
  BY DEF GateType
<1>2. ASSUME NEW i \in 1..Len(waiting) PROVE older(i) \in R
  <2>1. waiting[i] \in R /\ waiting[i].age < MaxAge
    <3>1. \A j \in DOMAIN waiting : waiting[j].age < MaxAge
      BY DEF Age
    <3> HIDE DEF R
    <3>2. i \in DOMAIN waiting /\ waiting[i] \in R
      BY <1>1
    <3> QED BY <3>1, <3>2
  <2>2. waiting[i].age + 1 \in 0..MaxAge
    BY <2>1, RuntimeAssumption
  <2>3. ASSUME NEW r \in R, NEW a \in 0..MaxAge PROVE [r EXCEPT !.age = a] \in R
    OBVIOUS
  <2>4. [waiting[i] EXCEPT !.age = @ + 1] \in R
    BY <2>1, <2>2, <2>3
  <2> HIDE DEF R
  <2> QED BY <2>1, <2>4
<1>3. waiting' = [i \in 1..Len(waiting) |-> older(i)]
  BY <1>1 DEF Age
<1>4. Len(waiting) \in Nat
  BY <1>1
<1> HIDE DEF older, R
<1>5. waiting' \in Seq(R)
  BY <1>2, <1>3, <1>4
<1> QED BY <1>5 DEF GateType, Age, R

(* A thread goes to another place.                                            *)
LEMMA MoveType ==
    ASSUME NEW t \in Threads, NEW w \in Places, at \in [Threads -> Places], Goto(t, w)
    PROVE  at' \in [Threads -> Places]
BY DEF Goto

(* The end of a connection's operation.                                       *)
LEMMA EndType ==
    ASSUME NEW t \in Workers, LineType, EndConnection(t), UNCHANGED <<route, inbox>>
    PROVE  LineType'
<1>1. deferred[t] # <<>> => Head(deferred[t]) \in {None, Route}
  BY DEF LineType
<1>2. conn' \in [Clients -> {None, Route}]
  BY <1>1 DEF LineType, EndConnection
<1>3. deferred' \in [Workers -> {<<>>, <<None>>, <<Route>>}]
  BY DEF LineType, EndConnection
<1> QED BY <1>2, <1>3 DEF LineType

(* The end of a tick that had the gate.                                       *)
LEMMA LeaveType ==
    ASSUME NEW t \in Workers, GateType, LineType, Leave(t)
    PROVE  GateType' /\ LineType'
<1>1. t \in Threads /\ "sleep" \in Places /\ Kind(t) \in Kinds
  BY KindOf DEF Threads, Clients, Places
<1>2. at' \in [Threads -> Places]
  BY <1>1, MoveType DEF Leave, GateType
<1> QED BY <1>1, <1>2, ReleaseType, EndType DEF Leave

(* The end of a tick that had not.                                            *)
LEMMA ReturnType ==
    ASSUME NEW t \in Workers, GateType, LineType, Return(t)
    PROVE  GateType' /\ LineType'
<1>1. t \in Threads /\ "sleep" \in Places
  BY DEF Threads, Clients, Places
<1>2. at' \in [Threads -> Places]
  BY <1>1, MoveType DEF Return, GateType
<1> QED BY <1>2, EndType DEF Return, gate, GateType

(* Whose request is in the queue waits for it, and has no other one.          *)
QueueInv ==
    /\ \A i \in DOMAIN waiting : at[waiting[i].who] = "wait"
    /\ \A i, j \in DOMAIN waiting : waiting[i].who = waiting[j].who => i = j

(* Whoever is inside has the gate for its kind, and is alone.                 *)
GateInv ==
    /\ \A t \in Threads : Inside(t) => active = Kind(t)
    /\ OneAtATime

(* What a client of the engine knows, or will know as soon as its tick ends,  *)
(* is the last report that was delivered to it.                               *)
LineInv ==
    /\ \A t \in Clients : inbox[t] \in {<<>>, <<route>>}
    /\ \A t \in Workers : ~InTick(t) => deferred[t] = <<>>
    /\ \A t \in Clients : inbox[t] = <<>> =>
         IF t \in Workers /\ deferred[t] # <<>> THEN Head(deferred[t]) = route
         ELSE conn[t] = route

(* What the push has taken is in the durable queue. A newer change has its    *)
(* mark, is being looked at, or is left to a push that is not in a tick.      *)
TriggerInv ==
    /\ unsynced = "taken" => pending
    /\ unsynced = "new" /\ watching =>
         \/ dirty
         \/ at["push"] = "resolve"
         \/ at["push"] \in {"sleep", "stopped"} /\ (pending \/ force)

(* What a step does to the gate: nothing, a thread inside leaves, or one       *)
(* enters while the gate is free.                                              *)
OthersOut(t) == \A u \in Threads \ {t} : Inside(u)' => Inside(u)

Keeps == active' = active /\ \A u \in Threads : Inside(u)' => Inside(u)
Gives(t) == Inside(t) /\ ~Inside(t)' /\ active' \in {active, None} /\ OthersOut(t)
Takes(t) == active = None /\ active' = Kind(t) /\ OthersOut(t)

GateStep == Keeps \/ \E t \in Threads : Gives(t) \/ Takes(t)

(* What a step does to the connections: a tick ends, the engine reports, a    *)
(* report is delivered, or nothing; ticks may begin.                          *)
Ends(t) ==
    /\ EndConnection(t) /\ UNCHANGED <<route, inbox>>
    /\ ~InTick(t)'
    /\ \A u \in Workers \ {t} : ~InTick(u)' => ~InTick(u)

Silent == UNCHANGED lines /\ \A u \in Workers : ~InTick(u)' => ~InTick(u)

LineStep ==
    \/ Silent
    \/ \E t \in Workers : Ends(t)
    \/ \E c \in {None, Route} : Resolve(c)
    \/ \E t \in Clients : Deliver(t)

-----------------------------------------------------------------------------
(* Every action keeps the types.                                              *)
LEMMA TypeStep ==
    ASSUME GateType, LineType, RestType, [Next]_vars
    PROVE  GateType' /\ LineType' /\ RestType'
<1> USE RuntimeAssumption
<1>1. CASE PushTick
  <2>1. GateType' /\ LineType'
    BY <1>1 DEF PushTick, Goto, GateType, LineType, Threads, Clients, Workers, Kinds,
       Places, InTick, gate, lines
  <2>2. RestType'
    BY <1>1 DEF PushTick, RestType, folder, user, Workers
  <2> QED BY <2>1, <2>2
<1>2. CASE PushResolve
  <2>1. at' \in [Threads -> Places]
    BY <1>2 DEF PushResolve, Goto, GateType, Threads, Clients, Workers, Places
  <2>2. GateType' /\ LineType'
    BY <1>2, <2>1, RequestType DEF PushResolve, lines, LineType, Threads, Clients, Workers
  <2>3. RestType'
    BY <1>2 DEF PushResolve, RestType, folder, user, Workers
  <2> QED BY <2>2, <2>3
<1>3. CASE PushUnstable
  <2>1. GateType' /\ LineType'
    BY <1>3, ReturnType DEF PushUnstable, Workers
  <2>2. events' \in 0..MaxEvents
    BY <1>3 DEF PushUnstable, Event, RestType
  <2>3. dirty' \in BOOLEAN
    BY <1>3 DEF PushUnstable, MarkCaptured
  <2>4. RestType'
    BY <1>3, <2>2, <2>3 DEF PushUnstable, RestType, folder, user
  <2> QED BY <2>1, <2>4
<1>4. CASE PushNothing
  <2>1. GateType' /\ LineType'
    BY <1>4, ReturnType DEF PushNothing, Workers
  <2>2. RestType'
    BY <1>4 DEF PushNothing, RestType, folder, user, Workers
  <2> QED BY <2>1, <2>2
<1>5. CASE PushStops
  <2>1. GateType' /\ LineType'
    BY <1>5, LeaveType DEF PushStops, Workers
  <2>2. RestType'
    BY <1>5 DEF PushStops, RestType, folder, user, Workers
  <2> QED BY <2>1, <2>2
<1>6. CASE PushPrepare
  <2>1. GateType' /\ LineType'
    BY <1>6 DEF PushPrepare, GateType, LineType, Threads, Clients, Workers, Kinds,
       Places, InTick, gate, lines
  <2>2. left' \in 0..Chunks
    BY <1>6 DEF PushPrepare
  <2>3. RestType'
    BY <1>6, <2>2 DEF PushPrepare, RestType, folder, user
  <2> QED BY <2>1, <2>3
<1>7. CASE PushChunk
  <2>1. GateType' /\ LineType'
    BY <1>7 DEF PushChunk, Goto, GateType, LineType, Threads, Clients, Workers, Kinds,
       Places, InTick, gate, lines
  <2>2. RestType'
    BY <1>7 DEF PushChunk, RestType, folder, user, Workers
  <2> QED BY <2>1, <2>2
<1>8. CASE PushCut
  <2>1. GateType' /\ LineType'
    BY <1>8, LeaveType DEF PushCut, PushFails, Workers
  <2>2. RestType'
    BY <1>8 DEF PushCut, PushFails, MarkCaptured, RestType, folder, user, Workers
  <2> QED BY <2>1, <2>2
<1>9. CASE PushTransfers
  <2>1. GateType' /\ LineType'
    BY <1>9 DEF PushTransfers, Goto, GateType, LineType, Threads, Clients, Workers,
       Kinds, Places, InTick, gate, lines
  <2>2. RestType'
    BY <1>9 DEF PushTransfers, RestType, folder, user, Workers
  <2> QED BY <2>1, <2>2
<1>10. CASE PushDone
  <2>1. GateType' /\ LineType'
    BY <1>10, LeaveType DEF PushDone, Workers
  <2>2. pending' \in BOOLEAN
    <3>1. (unsynced = "new") \in BOOLEAN
      OBVIOUS
    <3> QED BY <1>10, <3>1, Zenon DEF PushDone
  <2>3. left' \in 0..Chunks /\ unsynced' \in {"no", "new", "taken"}
    BY <1>10 DEF PushDone, RestType
  <2>4. RestType'
    BY <1>10, <2>2, <2>3 DEF PushDone, RestType, folder, user
  <2> QED BY <2>1, <2>4
<1>11. CASE PushYield
  <2>1. at' \in [Threads -> Places]
    BY <1>11 DEF PushYield, Goto, GateType, Threads, Clients, Workers, Places
  <2>2. GateType' /\ LineType'
    BY <1>11, <2>1, ReleaseType DEF PushYield, lines, LineType, Kinds
  <2>3. RestType'
    BY <1>11 DEF PushYield, RestType, folder, user, Workers
  <2> QED BY <2>2, <2>3
<1>12. CASE PushAgain
  <2>1. at' \in [Threads -> Places]
    BY <1>12 DEF PushAgain, Goto, GateType, Threads, Clients, Workers, Places
  <2>2. GateType' /\ LineType'
    BY <1>12, <2>1, RequestType DEF PushAgain, lines, LineType, Threads, Clients, Workers
  <2>3. RestType'
    BY <1>12 DEF PushAgain, RestType, folder, user, Workers
  <2> QED BY <2>2, <2>3
<1>13. CASE PushBusy
  <2>1. GateType' /\ LineType'
    BY <1>13, LeaveType DEF PushBusy, PushFails, Workers
  <2>2. RestType'
    BY <1>13 DEF PushBusy, PushFails, MarkCaptured, RestType, folder, user, Workers
  <2> QED BY <2>1, <2>2
<1>14. CASE PushError
  <2>1. GateType' /\ LineType'
    BY <1>14, LeaveType DEF PushError, PushFails, Workers
  <2>2. RestType'
    BY <1>14 DEF PushError, Event, PushFails, MarkCaptured, RestType, folder, user, Workers
  <2> QED BY <2>1, <2>2
<1>15. CASE PullTick
  <2>1. at' \in [Threads -> Places]
    BY <1>15 DEF PullTick, Goto, GateType, Threads, Clients, Workers, Places
  <2>2. GateType'
    BY <1>15, <2>1, RequestType DEF PullTick, gate, GateType, Threads, Clients, Workers
  <2>3. GateType' /\ LineType'
    BY <1>15, <2>2 DEF PullTick, lines, LineType
  <2>4. RestType'
    BY <1>15 DEF PullTick, RestType, folder, user, Workers
  <2> QED BY <2>3, <2>4
<1>16. CASE PullNews
  <2>1. at' \in [Threads -> Places]
    BY <1>16 DEF PullNews, Goto, GateType, Threads, Clients, Workers, Places
  <2>2. GateType' /\ LineType'
    BY <1>16, <2>1, RequestType DEF PullNews, lines, LineType, Threads, Clients, Workers
  <2>3. RestType'
    BY <1>16 DEF PullNews, RestType, folder, user, Workers
  <2> QED BY <2>2, <2>3
<1>17. CASE PullSilence
  <2>1. GateType' /\ LineType'
    BY <1>17, ReturnType DEF PullSilence, Workers
  <2>2. RestType'
    BY <1>17 DEF PullSilence, RestType, folder, user, Workers
  <2> QED BY <2>1, <2>2
<1>18. CASE PullReturns
  <2>1. GateType' /\ LineType'
    BY <1>18, LeaveType DEF PullReturns, Workers
  <2>2. RestType'
    BY <1>18 DEF PullReturns, RestType, folder, user, Workers
  <2> QED BY <2>1, <2>2
<1>19. CASE PullDefers
  <2>1. GateType' /\ LineType'
    BY <1>19, LeaveType DEF PullDefers, Workers
  <2>2. RestType'
    BY <1>19 DEF PullDefers, MarkCaptured, RestType, folder, user, Workers
  <2> QED BY <2>1, <2>2
<1>20. CASE PullStarts
  <2>1. GateType' /\ LineType'
    BY <1>20 DEF PullStarts, Goto, GateType, LineType, Threads, Clients, Workers, Kinds,
       Places, InTick, gate, lines
  <2>2. RestType'
    BY <1>20 DEF PullStarts, RestType, folder, user, Workers
  <2> QED BY <2>1, <2>2
<1>21. CASE PullEnds
  <2>1. GateType' /\ LineType'
    BY <1>21, LeaveType DEF PullEnds, Workers
  <2>2. RestType'
    BY <1>21 DEF PullEnds, RestType, folder, user, Workers
  <2> QED BY <2>1, <2>2
<1>22. CASE PullBusy
  <2>1. GateType' /\ LineType'
    BY <1>22, LeaveType DEF PullBusy, Workers
  <2>2. RestType'
    BY <1>22 DEF PullBusy, RestType, folder, user, Workers
  <2> QED BY <2>1, <2>2
<1>23. ASSUME NEW m \in Mirrors, MirrorTick(m) PROVE GateType' /\ LineType' /\ RestType'
  <2>1. at' \in [Threads -> Places]
    BY <1>23 DEF MirrorTick, Goto, GateType, Threads, Clients, Workers, Places
  <2>2. GateType' /\ LineType'
    BY <1>23, <2>1, RequestType DEF MirrorTick, lines, LineType, Threads, Clients, Workers
  <2>3. RestType'
    BY <1>23 DEF MirrorTick, Event, RestType, folder, user, Workers
  <2> QED BY <2>2, <2>3
<1>24. ASSUME NEW m \in Mirrors, MirrorTimeout(m) PROVE GateType' /\ LineType' /\ RestType'
  <2>1. /\ at' \in [Threads -> Places]
        /\ active' \in Kinds \cup {None}
        /\ held' \in [Kinds -> BOOLEAN]
    BY <1>24, KindOf DEF MirrorTimeout, Goto, GateType, Threads, Kinds, Places
  <2>2. waiting' \in Seq([who : Threads, age : 0..MaxAge])
    BY <1>24, RemoveType DEF MirrorTimeout
  <2>3. GateType' /\ LineType'
    BY <1>24, <2>1, <2>2 DEF MirrorTimeout, lines, LineType, GateType
  <2>4. RestType'
    BY <1>24 DEF MirrorTimeout, RestType, folder, user, Workers
  <2> QED BY <2>3, <2>4
<1>25. ASSUME NEW m \in Mirrors, MirrorRetry(m) PROVE GateType' /\ LineType' /\ RestType'
  <2>1. at' \in [Threads -> Places]
    BY <1>25 DEF MirrorRetry, Goto, GateType, Threads, Clients, Workers, Places
  <2>2. GateType' /\ LineType'
    BY <1>25, <2>1, RequestType DEF MirrorRetry, lines, LineType, Threads, Clients, Workers
  <2>3. RestType'
    BY <1>25 DEF MirrorRetry, RestType, folder, user, Workers
  <2> QED BY <2>2, <2>3
<1>26. ASSUME NEW m \in Mirrors, MirrorDone(m) PROVE GateType' /\ LineType' /\ RestType'
  <2>1. at' \in [Threads -> Places]
    BY <1>26 DEF MirrorDone, Goto, GateType, Threads, Clients, Workers, Places
  <2>2. GateType' /\ LineType'
    BY <1>26, <2>1, ReleaseType DEF MirrorDone, lines, LineType, Kinds
  <2>3. RestType'
    BY <1>26 DEF MirrorDone, RestType, folder, user, Workers
  <2> QED BY <2>2, <2>3
<1>27. CASE ScanStart
  <2>1. GateType' /\ LineType'
    BY <1>27 DEF ScanStart, Goto, GateType, LineType, Threads, Clients, Workers, Kinds,
       Places, InTick, gate, lines
  <2>2. RestType'
    BY <1>27 DEF ScanStart, RestType, folder, user, Workers
  <2> QED BY <2>1, <2>2
<1>28. CASE ScanEnd
  <2>1. at' \in [Threads -> Places]
    BY <1>28 DEF ScanEnd, Goto, GateType, Threads, Clients, Workers, Places
  <2>2. GateType' /\ LineType'
    BY <1>28, <2>1, ReleaseType DEF ScanEnd, lines, LineType, Kinds
  <2>3. RestType'
    BY <1>28 DEF ScanEnd, RestType, folder, user, Workers
  <2> QED BY <2>2, <2>3
<1>29. ASSUME NEW t \in Threads, Grant(t) PROVE GateType' /\ LineType' /\ RestType'
  <2>1. /\ at' \in [Threads -> Places]
        /\ active' \in Kinds \cup {None}
        /\ held' \in [Kinds -> BOOLEAN]
    BY <1>29, KindOf DEF Grant, Goto, GateType, Threads, Kinds, Places
  <2>2. waiting' \in Seq([who : Threads, age : 0..MaxAge])
    BY <1>29, RemoveType DEF Grant
  <2>3. GateType' /\ LineType'
    BY <1>29, <2>1, <2>2 DEF Grant, lines, LineType, GateType
  <2>4. RestType'
    BY <1>29 DEF Grant, RestType, folder, user, Workers
  <2> QED BY <2>3, <2>4
<1>30. ASSUME NEW t \in Threads, Exit(t) PROVE GateType' /\ LineType' /\ RestType'
  <2>1. GateType' /\ LineType'
    BY <1>30 DEF Exit, Goto, GateType, LineType, Threads, Clients, Workers, Kinds,
       Places, InTick, gate, lines
  <2>2. RestType'
    BY <1>30 DEF Exit, RestType, folder, user, Workers
  <2> QED BY <2>1, <2>2
<1>31. CASE Age
  <2>1. GateType' /\ LineType'
    BY <1>31, AgeType DEF Age, lines, LineType
  <2>2. RestType'
    BY <1>31 DEF Age, RestType, folder, user, Workers
  <2> QED BY <2>1, <2>2
<1>32. CASE FindRoute
  <2>1. GateType' /\ LineType'
    BY <1>32 DEF FindRoute, Resolve, GateType, LineType, Threads, Clients, Workers,
       Kinds, Places, InTick, gate, lines
  <2>2. RestType'
    BY <1>32 DEF FindRoute, Resolve, RestType, folder, user, Workers
  <2> QED BY <2>1, <2>2
<1>33. CASE LoseRoute
  <2>1. GateType' /\ LineType'
    BY <1>33 DEF LoseRoute, Resolve, Event, GateType, LineType, Threads, Clients,
       Workers, Kinds, Places, InTick, gate, lines
  <2>2. RestType'
    BY <1>33 DEF LoseRoute, Resolve, Event, RestType, folder, user, Workers
  <2> QED BY <2>1, <2>2
<1>34. ASSUME NEW t \in Clients, Deliver(t) PROVE GateType' /\ LineType' /\ RestType'
  <2>1. GateType' /\ LineType'
    BY <1>34 DEF Deliver, SetConnection, GateType, LineType, Threads, Clients, Workers,
       Kinds, Places, InTick, gate, lines
  <2>2. RestType'
    BY <1>34 DEF Deliver, RestType, folder, user, Workers
  <2> QED BY <2>1, <2>2
<1>35. CASE WatcherOff
  <2>1. GateType' /\ LineType'
    BY <1>35 DEF WatcherOff, GateType, LineType, Threads, Clients, Workers, Kinds,
       Places, InTick, gate, lines
  <2>2. RestType'
    BY <1>35 DEF WatcherOff, RestType, folder, user, Workers
  <2> QED BY <2>1, <2>2
<1>36. CASE WatcherOn
  <2>1. GateType' /\ LineType'
    BY <1>36 DEF WatcherOn, GateType, LineType, Threads, Clients, Workers, Kinds,
       Places, InTick, gate, lines
  <2>2. RestType'
    BY <1>36 DEF WatcherOn, RestType, folder, user, Workers
  <2> QED BY <2>1, <2>2
<1>37. CASE BackoffOver
  <2>1. GateType' /\ LineType'
    BY <1>37 DEF BackoffOver, GateType, LineType, Threads, Clients, Workers, Kinds,
       Places, InTick, gate, lines
  <2>2. RestType'
    BY <1>37 DEF BackoffOver, RestType, folder, user, Workers
  <2> QED BY <2>1, <2>2
<1>38. CASE Edit
  <2>1. GateType' /\ LineType'
    BY <1>38 DEF Edit, GateType, LineType, Threads, Clients, Workers, Kinds, Places,
       InTick, gate, lines
  <2>2. RestType'
    BY <1>38 DEF Edit, RestType, folder, user, Workers
  <2> QED BY <2>1, <2>2
<1>39. CASE SyncNow
  <2>1. GateType' /\ LineType'
    BY <1>39 DEF SyncNow, Event, FullSync, GateType, LineType, Threads, Clients,
       Workers, Kinds, Places, InTick, gate, lines
  <2>2. RestType'
    BY <1>39 DEF SyncNow, Event, FullSync, RestType, folder, user, Workers
  <2> QED BY <2>1, <2>2
<1>40. CASE Pause
  <2>1. GateType' /\ LineType'
    BY <1>40 DEF Pause, Event, GateType, LineType, Threads, Clients, Workers, Kinds,
       Places, InTick, gate, lines
  <2>2. RestType'
    BY <1>40 DEF Pause, Event, RestType, folder, user, Workers
  <2> QED BY <2>1, <2>2
<1>41. CASE Resume
  <2>1. GateType' /\ LineType'
    BY <1>41 DEF Resume, GateType, LineType, Threads, Clients, Workers, Kinds, Places,
       InTick, gate, lines
  <2>2. RestType'
    BY <1>41 DEF Resume, RestType, folder, user, Workers
  <2> QED BY <2>1, <2>2
<1>42. CASE SetMode
  <2>1. GateType' /\ LineType'
    BY <1>42 DEF SetMode, Event, GateType, LineType, Threads, Clients, Workers, Kinds,
       Places, InTick, gate, lines
  <2>2. RestType'
    BY <1>42 DEF SetMode, Event, RestType, folder, user, Workers
  <2> QED BY <2>1, <2>2
<1>43. CASE QuitStep
  <2>1. GateType' /\ LineType'
    BY <1>43 DEF QuitStep, Event, GateType, LineType, Threads, Clients, Workers, Kinds,
       Places, InTick, gate, lines
  <2>2. RestType'
    BY <1>43 DEF QuitStep, Event, RestType, folder, user, Workers
  <2> QED BY <2>1, <2>2
<1>44. CASE UNCHANGED vars
  BY <1>44 DEF vars, gate, lines, folder, user, GateType, LineType, RestType
<1> QED BY <1>1, <1>2, <1>3, <1>4, <1>5, <1>6, <1>7, <1>8, <1>9, <1>10, <1>11, <1>12,
           <1>13, <1>14, <1>15, <1>16, <1>17, <1>18, <1>19, <1>20, <1>21, <1>22, <1>23,
           <1>24, <1>25, <1>26, <1>27, <1>28, <1>29, <1>30, <1>31, <1>32, <1>33, <1>34,
           <1>35, <1>36, <1>37, <1>38, <1>39, <1>40, <1>41, <1>42, <1>43,
           <1>44 DEF Next, PushWorks, PullWorks

-----------------------------------------------------------------------------
(* Which action does what to the gate.                                        *)
LEMMA GateSteps ==
    ASSUME GateType, [Next]_vars
    PROVE  GateStep
<1> USE RuntimeAssumption DEF GateType, GateStep, Keeps, Gives, Takes, OthersOut,
           Inside, gate, lines, folder, user, Threads, Clients, Workers, Kinds
<1>1. CASE PushTick
  BY <1>1 DEF PushTick, Goto
<1>2. CASE PushResolve
  BY <1>2 DEF PushResolve, Goto, Request
<1>3. CASE PushUnstable
  BY <1>3 DEF PushUnstable, Event, MarkCaptured, Return, Goto, EndConnection
<1>4. CASE PushNothing
  BY <1>4 DEF PushNothing, Return, Goto, EndConnection
<1>5. CASE PushStops
  BY <1>5 DEF PushStops, Leave, Goto, Release, Kind, EndConnection
<1>6. CASE PushPrepare
  BY <1>6 DEF PushPrepare
<1>7. CASE PushChunk
  BY <1>7 DEF PushChunk, Goto
<1>8. CASE PushCut
  BY <1>8 DEF PushCut, PushFails, MarkCaptured, Leave, Goto, Release, Kind, EndConnection
<1>9. CASE PushTransfers
  BY <1>9 DEF PushTransfers, Goto
<1>10. CASE PushDone
  BY <1>10 DEF PushDone, Leave, Goto, Release, Kind, EndConnection
<1>11. CASE PushYield
  BY <1>11 DEF PushYield, Goto, Release
<1>12. CASE PushAgain
  BY <1>12 DEF PushAgain, Goto, Request
<1>13. CASE PushBusy
  BY <1>13 DEF PushBusy, PushFails, MarkCaptured, Leave, Goto, Release, Kind, EndConnection
<1>14. CASE PushError
  BY <1>14 DEF PushError, Event, PushFails, MarkCaptured, Leave, Goto, Release, Kind,
     EndConnection
<1>15. CASE PullTick
  BY <1>15 DEF PullTick, Goto, Request
<1>16. CASE PullNews
  BY <1>16 DEF PullNews, Goto, Request
<1>17. CASE PullSilence
  BY <1>17 DEF PullSilence, Return, Goto, EndConnection
<1>18. CASE PullReturns
  BY <1>18 DEF PullReturns, Leave, Goto, Release, Kind, EndConnection
<1>19. CASE PullDefers
  BY <1>19 DEF PullDefers, MarkCaptured, Leave, Goto, Release, Kind, EndConnection
<1>20. CASE PullStarts
  BY <1>20 DEF PullStarts, Goto
<1>21. CASE PullEnds
  BY <1>21 DEF PullEnds, Leave, Goto, Release, Kind, EndConnection
<1>22. CASE PullBusy
  BY <1>22 DEF PullBusy, Leave, Goto, Release, Kind, EndConnection
<1>23. ASSUME NEW m \in Mirrors, MirrorTick(m) PROVE GateStep
  BY <1>23 DEF MirrorTick, Event, Goto, Request
<1>24. ASSUME NEW m \in Mirrors, MirrorTimeout(m) PROVE GateStep
  BY <1>24 DEF MirrorTimeout, Goto
<1>25. ASSUME NEW m \in Mirrors, MirrorRetry(m) PROVE GateStep
  BY <1>25 DEF MirrorRetry, Goto, Request
<1>26. ASSUME NEW m \in Mirrors, MirrorDone(m) PROVE GateStep
  BY <1>26 DEF MirrorDone, Goto, Release
<1>27. CASE ScanStart
  <2>1. "preview" \in Threads /\ active' = Kind("preview") /\ active = None
    BY <1>27, KindOf DEF ScanStart, Threads, Clients
  <2>2. OthersOut("preview")
    BY <1>27 DEF ScanStart, Goto, GateType, OthersOut, Inside
  <2> QED BY <2>1, <2>2 DEF GateStep, Takes
<1>28. CASE ScanEnd
  BY <1>28 DEF ScanEnd, Goto, Release
<1>29. ASSUME NEW t \in Threads, Grant(t) PROVE GateStep
  BY <1>29 DEF Grant, Goto
<1>30. ASSUME NEW t \in Threads, Exit(t) PROVE GateStep
  BY <1>30 DEF Exit, Goto
<1>31. CASE Age
  BY <1>31 DEF Age
<1>32. CASE FindRoute
  BY <1>32 DEF FindRoute, Resolve
<1>33. CASE LoseRoute
  BY <1>33 DEF LoseRoute, Resolve, Event
<1>34. ASSUME NEW t \in Clients, Deliver(t) PROVE GateStep
  BY <1>34 DEF Deliver, SetConnection
<1>35. CASE WatcherOff
  BY <1>35 DEF WatcherOff
<1>36. CASE WatcherOn
  BY <1>36 DEF WatcherOn
<1>37. CASE BackoffOver
  BY <1>37 DEF BackoffOver
<1>38. CASE Edit
  BY <1>38 DEF Edit
<1>39. CASE SyncNow
  BY <1>39 DEF SyncNow, Event, FullSync
<1>40. CASE Pause
  BY <1>40 DEF Pause, Event
<1>41. CASE Resume
  BY <1>41 DEF Resume
<1>42. CASE SetMode
  BY <1>42 DEF SetMode, Event
<1>43. CASE QuitStep
  BY <1>43 DEF QuitStep, Event
<1>44. CASE UNCHANGED vars
  BY <1>44 DEF vars
<1> QED BY <1>1, <1>2, <1>3, <1>4, <1>5, <1>6, <1>7, <1>8, <1>9, <1>10, <1>11, <1>12,
           <1>13, <1>14, <1>15, <1>16, <1>17, <1>18, <1>19, <1>20, <1>21, <1>22, <1>23,
           <1>24, <1>25, <1>26, <1>27, <1>28, <1>29, <1>30, <1>31, <1>32, <1>33, <1>34,
           <1>35, <1>36, <1>37, <1>38, <1>39, <1>40, <1>41, <1>42, <1>43,
           <1>44 DEF Next, PushWorks, PullWorks

(* A thread enters only while nobody is inside, as whoever is inside has the  *)
(* gate; and only the one inside gives it back.                               *)
LEMMA GateKept ==
    ASSUME GateType, GateInv, [Next]_vars
    PROVE  GateInv'
<1>1. \A t \in Threads : Kind(t) # None
  BY KindOf, RuntimeAssumption DEF Kinds
<1>2. CASE Keeps
  BY <1>2 DEF Keeps, GateInv, OneAtATime
<1>3. ASSUME NEW t \in Threads, Gives(t) PROVE GateInv'
  BY <1>3 DEF Gives, OthersOut, GateInv, OneAtATime
<1>4. ASSUME NEW t \in Threads, Takes(t) PROVE GateInv'
  BY <1>1, <1>4 DEF Takes, OthersOut, GateInv, OneAtATime
<1> QED BY <1>2, <1>3, <1>4, GateSteps DEF GateStep

-----------------------------------------------------------------------------
(* Which action does what to the connections.                                 *)
LEMMA LineSteps ==
    ASSUME GateType, LineType, [Next]_vars
    PROVE  LineStep
<1> USE RuntimeAssumption DEF GateType, LineStep, Ends, Silent, InTick, gate, lines,
           folder, user, Threads, Clients, Workers, Kinds
<1>1. CASE PushTick
  BY <1>1 DEF PushTick, Goto
<1>2. CASE PushResolve
  BY <1>2 DEF PushResolve, Goto, Request
<1>3. CASE PushUnstable
  BY <1>3 DEF PushUnstable, Event, MarkCaptured, Return, Goto, EndConnection
<1>4. CASE PushNothing
  BY <1>4 DEF PushNothing, Return, Goto, EndConnection
<1>5. CASE PushStops
  BY <1>5 DEF PushStops, Leave, Goto, Release, Kind, EndConnection
<1>6. CASE PushPrepare
  BY <1>6 DEF PushPrepare
<1>7. CASE PushChunk
  BY <1>7 DEF PushChunk, Goto
<1>8. CASE PushCut
  BY <1>8 DEF PushCut, PushFails, MarkCaptured, Leave, Goto, Release, Kind, EndConnection
<1>9. CASE PushTransfers
  BY <1>9 DEF PushTransfers, Goto
<1>10. CASE PushDone
  BY <1>10 DEF PushDone, Leave, Goto, Release, Kind, EndConnection
<1>11. CASE PushYield
  BY <1>11 DEF PushYield, Goto, Release
<1>12. CASE PushAgain
  BY <1>12 DEF PushAgain, Goto, Request
<1>13. CASE PushBusy
  BY <1>13 DEF PushBusy, PushFails, MarkCaptured, Leave, Goto, Release, Kind, EndConnection
<1>14. CASE PushError
  BY <1>14 DEF PushError, Event, PushFails, MarkCaptured, Leave, Goto, Release, Kind,
     EndConnection
<1>15. CASE PullTick
  BY <1>15 DEF PullTick, Goto, Request
<1>16. CASE PullNews
  BY <1>16 DEF PullNews, Goto, Request
<1>17. CASE PullSilence
  BY <1>17 DEF PullSilence, Return, Goto, EndConnection
<1>18. CASE PullReturns
  BY <1>18 DEF PullReturns, Leave, Goto, Release, Kind, EndConnection
<1>19. CASE PullDefers
  BY <1>19 DEF PullDefers, MarkCaptured, Leave, Goto, Release, Kind, EndConnection
<1>20. CASE PullStarts
  BY <1>20 DEF PullStarts, Goto
<1>21. CASE PullEnds
  BY <1>21 DEF PullEnds, Leave, Goto, Release, Kind, EndConnection
<1>22. CASE PullBusy
  BY <1>22 DEF PullBusy, Leave, Goto, Release, Kind, EndConnection
<1>23. ASSUME NEW m \in Mirrors, MirrorTick(m) PROVE LineStep
  BY <1>23 DEF MirrorTick, Event, Goto, Request
<1>24. ASSUME NEW m \in Mirrors, MirrorTimeout(m) PROVE LineStep
  BY <1>24 DEF MirrorTimeout, Goto
<1>25. ASSUME NEW m \in Mirrors, MirrorRetry(m) PROVE LineStep
  BY <1>25 DEF MirrorRetry, Goto, Request
<1>26. ASSUME NEW m \in Mirrors, MirrorDone(m) PROVE LineStep
  BY <1>26 DEF MirrorDone, Goto, Release
<1>27. CASE ScanStart
  BY <1>27 DEF ScanStart, Goto
<1>28. CASE ScanEnd
  BY <1>28 DEF ScanEnd, Goto, Release
<1>29. ASSUME NEW t \in Threads, Grant(t) PROVE LineStep
  BY <1>29 DEF Grant, Goto
<1>30. ASSUME NEW t \in Threads, Exit(t) PROVE LineStep
  BY <1>30 DEF Exit, Goto
<1>31. CASE Age
  BY <1>31 DEF Age
<1>32. CASE FindRoute
  BY <1>32 DEF FindRoute, Resolve
<1>33. CASE LoseRoute
  BY <1>33 DEF LoseRoute, Resolve, Event
<1>34. ASSUME NEW t \in Clients, Deliver(t) PROVE LineStep
  BY <1>34 DEF Deliver, SetConnection
<1>35. CASE WatcherOff
  BY <1>35 DEF WatcherOff
<1>36. CASE WatcherOn
  BY <1>36 DEF WatcherOn
<1>37. CASE BackoffOver
  BY <1>37 DEF BackoffOver
<1>38. CASE Edit
  BY <1>38 DEF Edit
<1>39. CASE SyncNow
  BY <1>39 DEF SyncNow, Event, FullSync
<1>40. CASE Pause
  BY <1>40 DEF Pause, Event
<1>41. CASE Resume
  BY <1>41 DEF Resume
<1>42. CASE SetMode
  BY <1>42 DEF SetMode, Event
<1>43. CASE QuitStep
  BY <1>43 DEF QuitStep, Event
<1>44. CASE UNCHANGED vars
  BY <1>44 DEF vars
<1> QED BY <1>1, <1>2, <1>3, <1>4, <1>5, <1>6, <1>7, <1>8, <1>9, <1>10, <1>11, <1>12,
           <1>13, <1>14, <1>15, <1>16, <1>17, <1>18, <1>19, <1>20, <1>21, <1>22, <1>23,
           <1>24, <1>25, <1>26, <1>27, <1>28, <1>29, <1>30, <1>31, <1>32, <1>33, <1>34,
           <1>35, <1>36, <1>37, <1>38, <1>39, <1>40, <1>41, <1>42, <1>43,
           <1>44 DEF Next, PushWorks, PullWorks

(* A report is applied, or kept until the tick ends; the connection of a tick *)
(* does not change.                                                           *)
LEMMA LineKept ==
    ASSUME GateType, LineType, LineInv, [Next]_vars
    PROVE  /\ LineInv'
           /\ \A t \in Workers : InTick(t) /\ InTick(t)' => conn'[t] = conn[t]
<1> DEFINE Good == /\ LineInv'
                   /\ \A t \in Workers : InTick(t) /\ InTick(t)' => conn'[t] = conn[t]
<1>1. CASE Silent
  BY <1>1 DEF Silent, lines, LineInv
<1>2. ASSUME NEW t \in Workers, Ends(t) PROVE Good
  BY <1>2 DEF Ends, EndConnection, LineInv, LineType, Clients
<1>3. ASSUME NEW c \in {None, Route}, Resolve(c) PROVE Good
  BY <1>3 DEF Resolve, LineInv, LineType, InTick
<1>4. ASSUME NEW t \in Clients, Deliver(t) PROVE Good
  BY <1>4 DEF Deliver, SetConnection, LineInv, LineType, InTick, Clients, gate
<1> QED BY <1>1, <1>2, <1>3, <1>4, LineSteps DEF LineStep

-----------------------------------------------------------------------------
(* Marks, durable queue and force flag together never lose a change.          *)
LEMMA TriggerKept ==
    ASSUME GateType, RestType, QueueInv, TriggerInv, [Next]_vars
    PROVE  TriggerInv'
<1> USE RuntimeAssumption DEF GateType, RestType, QueueInv, TriggerInv, gate, lines,
           folder, user, Threads, Clients, Workers, Kinds
<1>1. CASE PushTick
  BY <1>1 DEF PushTick, Goto
<1>2. CASE PushResolve
  BY <1>2 DEF PushResolve, Goto, Request
<1>3. CASE PushUnstable
  BY <1>3 DEF PushUnstable, Event, MarkCaptured, Return, Goto, EndConnection
<1>4. CASE PushNothing
  BY <1>4 DEF PushNothing, Return, Goto, EndConnection
<1>5. CASE PushStops
  BY <1>5 DEF PushStops, Leave, Goto, Release, Kind, EndConnection
<1>6. CASE PushPrepare
  BY <1>6 DEF PushPrepare
<1>7. CASE PushChunk
  BY <1>7 DEF PushChunk, Goto
<1>8. CASE PushCut
  BY <1>8 DEF PushCut, PushFails, MarkCaptured, Leave, Goto, Release, Kind, EndConnection
<1>9. CASE PushTransfers
  BY <1>9 DEF PushTransfers, Goto
<1>10. CASE PushDone
  BY <1>10 DEF PushDone, Leave, Goto, Release, Kind, EndConnection
<1>11. CASE PushYield
  BY <1>11 DEF PushYield, Goto, Release
<1>12. CASE PushAgain
  BY <1>12 DEF PushAgain, Goto, Request
<1>13. CASE PushBusy
  BY <1>13 DEF PushBusy, PushFails, MarkCaptured, Leave, Goto, Release, Kind, EndConnection
<1>14. CASE PushError
  BY <1>14 DEF PushError, Event, PushFails, MarkCaptured, Leave, Goto, Release, Kind,
     EndConnection
<1>15. CASE PullTick
  BY <1>15 DEF PullTick, Goto, Request
<1>16. CASE PullNews
  BY <1>16 DEF PullNews, Goto, Request
<1>17. CASE PullSilence
  BY <1>17 DEF PullSilence, Return, Goto, EndConnection
<1>18. CASE PullReturns
  BY <1>18 DEF PullReturns, Leave, Goto, Release, Kind, EndConnection
<1>19. CASE PullDefers
  BY <1>19 DEF PullDefers, MarkCaptured, Leave, Goto, Release, Kind, EndConnection
<1>20. CASE PullStarts
  BY <1>20 DEF PullStarts, Goto
<1>21. CASE PullEnds
  BY <1>21 DEF PullEnds, Leave, Goto, Release, Kind, EndConnection
<1>22. CASE PullBusy
  BY <1>22 DEF PullBusy, Leave, Goto, Release, Kind, EndConnection
<1>23. ASSUME NEW m \in Mirrors, MirrorTick(m) PROVE TriggerInv'
  BY <1>23 DEF MirrorTick, Event, Goto, Request
<1>24. ASSUME NEW m \in Mirrors, MirrorTimeout(m) PROVE TriggerInv'
  BY <1>24 DEF MirrorTimeout, Goto
<1>25. ASSUME NEW m \in Mirrors, MirrorRetry(m) PROVE TriggerInv'
  BY <1>25 DEF MirrorRetry, Goto, Request
<1>26. ASSUME NEW m \in Mirrors, MirrorDone(m) PROVE TriggerInv'
  BY <1>26 DEF MirrorDone, Goto, Release
<1>27. CASE ScanStart
  BY <1>27 DEF ScanStart, Goto
<1>28. CASE ScanEnd
  BY <1>28 DEF ScanEnd, Goto, Release
<1>29. ASSUME NEW t \in Threads, Grant(t) PROVE TriggerInv'
  BY <1>29 DEF Grant, Goto
<1>30. ASSUME NEW t \in Threads, Exit(t) PROVE TriggerInv'
  BY <1>30 DEF Exit, Goto
<1>31. CASE Age
  BY <1>31 DEF Age
<1>32. CASE FindRoute
  BY <1>32 DEF FindRoute, Resolve
<1>33. CASE LoseRoute
  BY <1>33 DEF LoseRoute, Resolve, Event
<1>34. ASSUME NEW t \in Clients, Deliver(t) PROVE TriggerInv'
  BY <1>34 DEF Deliver, SetConnection
<1>35. CASE WatcherOff
  BY <1>35 DEF WatcherOff
<1>36. CASE WatcherOn
  BY <1>36 DEF WatcherOn
<1>37. CASE BackoffOver
  BY <1>37 DEF BackoffOver
<1>38. CASE Edit
  BY <1>38 DEF Edit
<1>39. CASE SyncNow
  BY <1>39 DEF SyncNow, Event, FullSync
<1>40. CASE Pause
  BY <1>40 DEF Pause, Event
<1>41. CASE Resume
  BY <1>41 DEF Resume
<1>42. CASE SetMode
  BY <1>42 DEF SetMode, Event
<1>43. CASE QuitStep
  BY <1>43 DEF QuitStep, Event
<1>44. CASE UNCHANGED vars
  BY <1>44 DEF vars
<1> QED BY <1>1, <1>2, <1>3, <1>4, <1>5, <1>6, <1>7, <1>8, <1>9, <1>10, <1>11, <1>12,
           <1>13, <1>14, <1>15, <1>16, <1>17, <1>18, <1>19, <1>20, <1>21, <1>22, <1>23,
           <1>24, <1>25, <1>26, <1>27, <1>28, <1>29, <1>30, <1>31, <1>32, <1>33, <1>34,
           <1>35, <1>36, <1>37, <1>38, <1>39, <1>40, <1>41, <1>42, <1>43,
           <1>44 DEF Next, PushWorks, PullWorks

-----------------------------------------------------------------------------
(* The queue without one of its requests.                                     *)
LEMMA RemoveEntries ==
    ASSUME NEW i \in DOMAIN waiting, GateType, waiting' = RemoveAt(waiting, i)
    PROVE  /\ DOMAIN waiting' = 1 .. (Len(waiting) - 1)
           /\ \A j \in DOMAIN waiting' :
                waiting'[j] = waiting[IF j < i THEN j ELSE j + 1]
<1> DEFINE R == [who : Threads, age : 0..MaxAge]
           a == SubSeq(waiting, 1, i - 1)
           b == SubSeq(waiting, i + 1, Len(waiting))
<1>1. waiting \in Seq(R)
  BY DEF GateType
<1> HIDE DEF R
<1>2. i \in 1 .. Len(waiting) /\ Len(waiting) \in Nat /\ \A j \in 1 .. Len(waiting) : waiting[j] \in R
  BY <1>1
<1>3. a \in Seq(R) /\ Len(a) = i - 1 /\ \A j \in 1 .. (i - 1) : a[j] = waiting[j]
  <2>1. 1 \in Int /\ i - 1 \in Int /\ \A j \in 1 .. (i - 1) : waiting[j] \in R
    BY <1>2
  <2>2. /\ a \in Seq(R) /\ Len(a) = IF 1 <= i - 1 THEN (i - 1) - 1 + 1 ELSE 0
        /\ \A j \in 1 .. ((i - 1) - 1 + 1) : a[j] = waiting[1 + j - 1]
    BY <2>1, SubSeqProperties
  <2> HIDE DEF a
  <2> QED BY <1>2, <2>2
<1>4. /\ b \in Seq(R) /\ Len(b) = Len(waiting) - i
      /\ \A j \in 1 .. (Len(waiting) - i) : b[j] = waiting[j + i]
  <2> DEFINE n == Len(waiting)
  <2>1. i + 1 \in Int /\ n \in Int /\ \A j \in (i + 1) .. n : waiting[j] \in R
    BY <1>2
  <2>2. /\ b \in Seq(R) /\ Len(b) = IF i + 1 <= n THEN n - (i + 1) + 1 ELSE 0
        /\ \A j \in 1 .. (n - (i + 1) + 1) : b[j] = waiting[(i + 1) + j - 1]
    BY <2>1, SubSeqProperties
  <2> HIDE DEF b
  <2>3. \A j \in 1 .. (n - i) : b[j] = waiting[j + i]
    <3> SUFFICES ASSUME NEW j \in 1 .. (n - i) PROVE b[j] = waiting[j + i]
      OBVIOUS
    <3>1. j \in 1 .. (n - (i + 1) + 1) /\ (i + 1) + j - 1 = j + i
      BY <1>2
    <3> QED BY <2>2, <3>1
  <2> QED BY <1>2, <2>2, <2>3
<1>5. waiting' = a \o b
  BY DEF RemoveAt
<1> HIDE DEF a, b
<1>6. /\ waiting' \in Seq(R) /\ Len(waiting') = Len(a) + Len(b)
      /\ \A j \in 1 .. Len(a) + Len(b) :
           waiting'[j] = IF j <= Len(a) THEN a[j] ELSE b[j - Len(a)]
  BY <1>3, <1>4, <1>5, ConcatProperties
<1>7. DOMAIN waiting' = 1 .. (Len(waiting) - 1)
  BY <1>2, <1>3, <1>4, <1>6
<1>8. ASSUME NEW j \in 1 .. (Len(waiting) - 1)
      PROVE  waiting'[j] = waiting[IF j < i THEN j ELSE j + 1]
  <2>1. waiting'[j] = IF j <= i - 1 THEN a[j] ELSE b[j - (i - 1)]
    BY <1>2, <1>3, <1>4, <1>6
  <2>2. CASE j < i
    BY <1>2, <1>3, <2>1, <2>2
  <2>3. CASE ~(j < i)
    <3>1. j - (i - 1) \in 1 .. (Len(waiting) - i) /\ (j - (i - 1)) + i = j + 1
      BY <1>2, <2>3
    <3> QED BY <1>2, <1>4, <2>1, <2>3, <3>1
  <2> QED BY <2>2, <2>3
<1> QED BY <1>7, <1>8

(* A thread that does not wait asks for the gate.                             *)
LEMMA RequestQueue ==
    ASSUME NEW t \in Threads, GateType, QueueInv, Request(t), at[t] # "wait", Goto(t,
               "wait")
    PROVE  QueueInv'
<1> DEFINE R == [who : Threads, age : 0..MaxAge]
           new == [who |-> t, age |-> 0]
<1>1. waiting \in Seq(R) /\ new \in R
  BY RuntimeAssumption DEF GateType
<1>2. new.who = t
  OBVIOUS
<1> HIDE DEF R, new
<1>3. waiting' = Append(waiting, new)
  BY DEF Request, new
<1>4. /\ DOMAIN waiting = 1 .. Len(waiting) /\ Len(waiting) \in Nat
      /\ DOMAIN waiting' = 1 .. (Len(waiting) + 1)
      /\ \A j \in 1 .. Len(waiting) : waiting'[j] = waiting[j] /\ waiting[j].who # t
      /\ waiting'[Len(waiting) + 1].who = t
  BY <1>1, <1>2, <1>3 DEF QueueInv
<1>5. \A j \in DOMAIN waiting' : j \in DOMAIN waiting \/ j = Len(waiting) + 1
  BY <1>4
<1>6. \A j \in DOMAIN waiting' : at'[waiting'[j].who] = "wait"
  <2>1. \A j \in DOMAIN waiting : at'[waiting[j].who] = "wait"
    BY <1>4 DEF QueueInv, Goto, GateType
  <2>2. at'[t] = "wait"
    BY DEF Goto, GateType
  <2> QED BY <1>4, <1>5, <2>1, <2>2
<1>7. \A i, j \in DOMAIN waiting' : waiting'[i].who = waiting'[j].who => i = j
  BY <1>4, <1>5 DEF QueueInv
<1> QED BY <1>6, <1>7 DEF QueueInv

(* A request leaves the queue, and its thread goes elsewhere.                 *)
LEMMA RemoveQueue ==
    ASSUME GateType, QueueInv, NEW i \in DOMAIN waiting, waiting' = RemoveAt(waiting, i),
           NEW t \in Threads, waiting[i].who = t, NEW w, Goto(t, w)
    PROVE  QueueInv'
<1> DEFINE old(j) == IF j < i THEN j ELSE j + 1
<1>1. DOMAIN waiting = 1 .. Len(waiting) /\ Len(waiting) \in Nat
  BY DEF GateType
<1>2. \A j \in DOMAIN waiting' : old(j) \in DOMAIN waiting /\ old(j) # i
  BY <1>1, RemoveEntries
<1>3. \A j, k \in DOMAIN waiting' : old(j) = old(k) => j = k
  BY <1>1, RemoveEntries
<1>4. \A j \in DOMAIN waiting' : waiting'[j] = waiting[old(j)]
  BY RemoveEntries
<1> HIDE DEF old
<1>5. \A j \in DOMAIN waiting' : at'[waiting'[j].who] = "wait"
  <2> SUFFICES ASSUME NEW j \in DOMAIN waiting' PROVE at'[waiting'[j].who] = "wait"
    OBVIOUS
  <2>1. waiting[old(j)].who # t /\ at[waiting[old(j)].who] = "wait"
    BY <1>2 DEF QueueInv
  <2>2. waiting[old(j)].who \in Threads
    <3> DEFINE R == [who : Threads, age : 0..MaxAge]
    <3>1. waiting \in Seq(R) /\ \A r \in R : r.who \in Threads
      BY DEF GateType
    <3> HIDE DEF R
    <3>2. waiting[old(j)] \in R
      BY <1>1, <1>2, <3>1
    <3> QED BY <3>1, <3>2
  <2> QED BY <1>4, <2>1, <2>2 DEF Goto, GateType
<1>6. \A j, k \in DOMAIN waiting' : waiting'[j].who = waiting'[k].who => j = k
  BY <1>2, <1>3, <1>4 DEF QueueInv
<1> QED BY <1>5, <1>6 DEF QueueInv

(* A thread has one request while it waits, and none otherwise.               *)
LEMMA QueueKept ==
    ASSUME GateType, QueueInv, [Next]_vars
    PROVE  QueueInv'
<1> USE RuntimeAssumption DEF GateType, QueueInv, gate, lines, folder, user, Threads,
           Clients, Workers, Kinds
<1>1. CASE PushTick
  BY <1>1 DEF PushTick, Goto
<1>2. CASE PushResolve
  BY <1>2, RequestQueue DEF PushResolve, Threads, Clients, Workers
<1>3. CASE PushUnstable
  BY <1>3 DEF PushUnstable, Event, MarkCaptured, Return, Goto, EndConnection
<1>4. CASE PushNothing
  BY <1>4 DEF PushNothing, Return, Goto, EndConnection
<1>5. CASE PushStops
  BY <1>5 DEF PushStops, Leave, Goto, Release, Kind, EndConnection
<1>6. CASE PushPrepare
  BY <1>6 DEF PushPrepare
<1>7. CASE PushChunk
  BY <1>7 DEF PushChunk, Goto
<1>8. CASE PushCut
  BY <1>8 DEF PushCut, PushFails, MarkCaptured, Leave, Goto, Release, Kind, EndConnection
<1>9. CASE PushTransfers
  BY <1>9 DEF PushTransfers, Goto
<1>10. CASE PushDone
  BY <1>10 DEF PushDone, Leave, Goto, Release, Kind, EndConnection
<1>11. CASE PushYield
  BY <1>11 DEF PushYield, Goto, Release
<1>12. CASE PushAgain
  BY <1>12, RequestQueue DEF PushAgain, Threads, Clients, Workers
<1>13. CASE PushBusy
  BY <1>13 DEF PushBusy, PushFails, MarkCaptured, Leave, Goto, Release, Kind, EndConnection
<1>14. CASE PushError
  BY <1>14 DEF PushError, Event, PushFails, MarkCaptured, Leave, Goto, Release, Kind,
     EndConnection
<1>15. CASE PullTick
  <2>1. CASE Request("pull") /\ Goto("pull", "wait")
    BY <1>15, <2>1, RequestQueue DEF PullTick, Threads, Clients, Workers
  <2>2. CASE UNCHANGED gate /\ Goto("pull", "feed")
    BY <1>15, <2>2 DEF PullTick, Goto, gate, GateType, QueueInv
  <2> QED BY <1>15, <2>1, <2>2 DEF PullTick
<1>16. CASE PullNews
  BY <1>16, RequestQueue DEF PullNews, Threads, Clients, Workers
<1>17. CASE PullSilence
  BY <1>17 DEF PullSilence, Return, Goto, EndConnection
<1>18. CASE PullReturns
  BY <1>18 DEF PullReturns, Leave, Goto, Release, Kind, EndConnection
<1>19. CASE PullDefers
  BY <1>19 DEF PullDefers, MarkCaptured, Leave, Goto, Release, Kind, EndConnection
<1>20. CASE PullStarts
  BY <1>20 DEF PullStarts, Goto
<1>21. CASE PullEnds
  BY <1>21 DEF PullEnds, Leave, Goto, Release, Kind, EndConnection
<1>22. CASE PullBusy
  BY <1>22 DEF PullBusy, Leave, Goto, Release, Kind, EndConnection
<1>23. ASSUME NEW m \in Mirrors, MirrorTick(m) PROVE QueueInv'
  BY <1>23, RequestQueue DEF MirrorTick, Threads, Clients, Workers
<1>24. ASSUME NEW m \in Mirrors, MirrorTimeout(m) PROVE QueueInv'
  <2>1. PICK w : Goto(m, w)
    BY <1>24 DEF MirrorTimeout
  <2> QED BY <1>24, <2>1, RemoveQueue DEF MirrorTimeout, Threads
<1>25. ASSUME NEW m \in Mirrors, MirrorRetry(m) PROVE QueueInv'
  BY <1>25, RequestQueue DEF MirrorRetry, Threads, Clients, Workers
<1>26. ASSUME NEW m \in Mirrors, MirrorDone(m) PROVE QueueInv'
  BY <1>26 DEF MirrorDone, Goto, Release
<1>27. CASE ScanStart
  BY <1>27 DEF ScanStart, Goto, GateType, QueueInv
<1>28. CASE ScanEnd
  BY <1>28 DEF ScanEnd, Goto, Release
<1>29. ASSUME NEW t \in Threads, Grant(t) PROVE QueueInv'
  BY <1>29, RemoveQueue DEF Grant
<1>30. ASSUME NEW t \in Threads, Exit(t) PROVE QueueInv'
  BY <1>30 DEF Exit, Goto
<1>31. CASE Age
  <2>1. DOMAIN waiting' = DOMAIN waiting /\ at' = at
    BY <1>31 DEF Age
  <2>2. \A i \in DOMAIN waiting : waiting'[i].who = waiting[i].who
    BY <1>31 DEF Age, GateType
  <2> QED BY <2>1, <2>2 DEF QueueInv
<1>32. CASE FindRoute
  BY <1>32 DEF FindRoute, Resolve
<1>33. CASE LoseRoute
  BY <1>33 DEF LoseRoute, Resolve, Event
<1>34. ASSUME NEW t \in Clients, Deliver(t) PROVE QueueInv'
  BY <1>34 DEF Deliver, SetConnection
<1>35. CASE WatcherOff
  BY <1>35 DEF WatcherOff
<1>36. CASE WatcherOn
  BY <1>36 DEF WatcherOn
<1>37. CASE BackoffOver
  BY <1>37 DEF BackoffOver
<1>38. CASE Edit
  BY <1>38 DEF Edit
<1>39. CASE SyncNow
  BY <1>39 DEF SyncNow, Event, FullSync
<1>40. CASE Pause
  BY <1>40 DEF Pause, Event
<1>41. CASE Resume
  BY <1>41 DEF Resume
<1>42. CASE SetMode
  BY <1>42 DEF SetMode, Event
<1>43. CASE QuitStep
  BY <1>43 DEF QuitStep, Event
<1>44. CASE UNCHANGED vars
  BY <1>44 DEF vars
<1> QED BY <1>1, <1>2, <1>3, <1>4, <1>5, <1>6, <1>7, <1>8, <1>9, <1>10, <1>11, <1>12,
           <1>13, <1>14, <1>15, <1>16, <1>17, <1>18, <1>19, <1>20, <1>21, <1>22, <1>23,
           <1>24, <1>25, <1>26, <1>27, <1>28, <1>29, <1>30, <1>31, <1>32, <1>33, <1>34,
           <1>35, <1>36, <1>37, <1>38, <1>39, <1>40, <1>41, <1>42, <1>43,
           <1>44 DEF Next, PushWorks, PullWorks

-----------------------------------------------------------------------------
(* The inductive invariant.                                                   *)
IInv == TypeOK /\ QueueInv /\ GateInv /\ LineInv /\ TriggerInv

(* It holds at the start.                                                     *)
LEMMA InitInv == Init => IInv
<1> SUFFICES ASSUME Init PROVE IInv
  OBVIOUS
<1> USE RuntimeAssumption
<1>1. waiting \in Seq([who : Threads, age : 0..MaxAge])
  BY DEF Init
<1>2. GateType
  BY <1>1 DEF Init, GateType, Kinds, Threads, Places
<1>3. LineType
  BY DEF Init, LineType
<1>4. RestType
  <2>1. left \in 0..Chunks /\ stopping \in 0..5 /\ events \in 0..MaxEvents
    BY DEF Init
  <2>2. cancel \in [Workers -> BOOLEAN] /\ stale \in [Workers -> BOOLEAN]
    BY DEF Init
  <2> QED BY <2>1, <2>2 DEF Init, RestType
<1>5. QueueInv /\ GateInv /\ LineInv /\ TriggerInv
  BY DEF Init, QueueInv, GateInv, OneAtATime, Inside, LineInv, TriggerInv, InTick,
         Threads, Clients, Workers
<1> QED BY <1>5, <1>2, <1>3, <1>4, Parts DEF IInv

(* Every step keeps it.                                                       *)
LEMMA NextInv == IInv /\ [Next]_vars => IInv'
BY Parts, TypeStep, QueueKept, GateKept, LineKept, TriggerKept DEF IInv

-----------------------------------------------------------------------------
(* Every reachable state of the threads is well typed.                        *)
THEOREM TypeCorrect == Spec => []TypeOK
<1>1. IInv => TypeOK
  BY DEF IInv
<1> QED BY <1>1, InitInv, NextInv, PTL DEF Spec

(* At most one thread of a client works on the folder or the NAS, however     *)
(* many mirrors share one permit (transfer_scheduler.py).                     *)
THEOREM OneThread == Spec => []OneAtATime
<1>1. IInv => OneAtATime
  BY DEF IInv, GateInv
<1> QED BY <1>1, InitInv, NextInv, PTL DEF Spec

(* A worker between two ticks has the last connection the engine reported, if *)
(* it was delivered (transfer_worker.py set_connection).                      *)
THEOREM ConnectionCurrent == Spec => []ConnCurrent
<1>1. IInv => ConnCurrent
  BY DEF IInv, LineInv, ConnCurrent
<1> QED BY <1>1, InitInv, NextInv, PTL DEF Spec

(* The connection of a worker does not change during a tick                   *)
(* (transfer_worker.py _begin_operation_connection).                          *)
THEOREM ConnectionStable == Spec => ConnStable
<1>1. IInv /\ [Next]_vars =>
        [\A t \in Workers : InTick(t) /\ InTick(t)' => conn'[t] = conn[t]]_vars
  BY Parts, LineKept DEF IInv
<1> QED BY <1>1, InitInv, NextInv, PTL DEF Spec, ConnStable

(* A change that is not on the NAS has a mark, a durable path, the force flag *)
(* or a push that is looking at it, through failures, pauses and new watchers *)
(* (push_worker.py _tick).                                                    *)
THEOREM TriggerLeft == Spec => []NoLostTrigger
<1>1. IInv => NoLostTrigger
  BY DEF IInv, TriggerInv, NoLostTrigger, TypeOK
<1> QED BY <1>1, InitInv, NextInv, PTL DEF Spec

===============================================================================
