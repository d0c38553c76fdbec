---------------------------- MODULE ClientRuntime ----------------------------
(* The threads of one NASBox client: the push and pull workers, the queue      *)
(* preview, the mirror watchers, the engine and the GUI thread.  They share a  *)
(* fair gate for work on the folder, a backoff for the NAS lease, the file     *)
(* watcher and the connection the engine resolves.                             *)
EXTENDS Integers, Sequences, SequencesExt

CONSTANTS
    None,
    Route,      \* the connection to the NAS, when there is one
    Mirrors,    \* the external folders mirrored into the NASBox folder
    Chunks,     \* bound: chunks of one push
    MaxAge,     \* bound: units of 30 seconds a request is seen to wait
    MaxEvents   \* bound: pauses, lost routes, mode changes and faults

ASSUME RuntimeAssumption ==
    /\ Route # None
    /\ None \notin {"push", "pull", "mirror", "preview"}
    /\ Mirrors \cap {"push", "pull", "preview", "engine"} = {}
    /\ Chunks \in Nat \ {0}
    /\ MaxAge \in Nat
    /\ MaxEvents \in Nat

VARIABLES
    active,     \* kind of the operation that has the gate
    waiting,    \* requests for the gate in order of arrival
    held,       \* TransferPermit._held of each kind
    at,         \* where each thread is
    left,       \* chunks the push still has to run, 0 before it prepared them
    route,      \* the connection of the engine
    inbox,      \* connection_changed signals the GUI thread has not delivered
    conn,       \* _conn of each worker
    deferred,   \* connection reported during a tick
    cancel,     \* _cancel_requested of the two transfer workers
    watching,   \* there is a file watcher
    dirty,      \* it has dirty marks
    stale,      \* the watcher was replaced since the tick of a worker began
    pending,    \* the durable queue has paths
    force,      \* a full push is requested
    unsynced,   \* the folder differs from the base: a new change or a taken one
    backoff,    \* the lock coordinator defers attempts
    paused, mode,
    stopping,   \* how many of the threads the shutdown has stopped
    events      \* how many bounded events there were

gate == <<active, waiting, held>>
lines == <<route, inbox, conn, deferred>>
folder == <<watching, dirty, stale, pending, force, unsynced>>
user == <<paused, mode, stopping, events>>
vars == <<gate, at, left, lines, cancel, folder, backoff, user>>

Kinds == {"push", "pull", "mirror", "preview"}
Workers == {"push", "pull"}
Clients == Workers \cup {"preview"}
Threads == Clients \cup Mirrors
Kind(t) == IF t \in Mirrors THEN "mirror" ELSE t

\* PRIORITY
Priority == [push |-> 0, pull |-> 1, mirror |-> 2, preview |-> 3]

Init ==
    /\ active = None
    /\ waiting = <<>>
    /\ held = [k \in Kinds |-> FALSE]
    /\ at = [t \in Threads |-> "sleep"]
    /\ left = 0
    /\ route = None
    /\ inbox = [t \in Clients |-> <<>>]
    /\ conn = [t \in Clients |-> None]
    /\ deferred = [t \in Workers |-> <<>>]
    /\ cancel = [t \in Workers |-> FALSE]
    /\ watching = FALSE
    /\ dirty = FALSE
    /\ stale = [t \in Workers |-> FALSE]
    /\ pending = FALSE
    /\ force = FALSE
    /\ unsynced = "no"
    /\ backoff = FALSE
    /\ paused = FALSE
    /\ mode = "both"
    /\ stopping = 0
    /\ events = 0

Goto(t, where) == at' = [at EXCEPT ![t] = where]

Event == events < MaxEvents /\ events' = events + 1

\* the order of MainWindow._shutdown
Place(t) == CASE t = "push" -> 1 [] t = "pull" -> 2 [] t = "engine" -> 3
              [] t \in Mirrors -> 4 [] t = "preview" -> 5

Stopped(t) == Place(t) <= stopping

-----------------------------------------------------------------------------
(* The gate. *)

\* mutant of SortKey: no aging
SortKeyYoung(i) == Priority[Kind(waiting[i].who)]

(* _sort_key, in units of 30 seconds *)
SortKey(i) == Priority[Kind(waiting[i].who)] - waiting[i].age

First(i) ==
    \A j \in DOMAIN waiting \ {i} :
        \/ SortKey(i) < SortKey(j)
        \/ SortKey(i) = SortKey(j) /\ i < j

(* A request enters the queue with the next sequence number. *)
Request(t) == waiting' = Append(waiting, [who |-> t, age |-> 0])

(* A waiting thread is first and nobody is active. *)
Grant(t) ==
    /\ active = None
    /\ \E i \in DOMAIN waiting :
          /\ waiting[i].who = t
          /\ First(i)
          /\ waiting' = RemoveAt(waiting, i)
    /\ active' = Kind(t)
    /\ held' = [held EXCEPT ![Kind(t)] = TRUE]
    /\ Goto(t, "gate")
    /\ UNCHANGED <<left, lines, cancel, folder, backoff, user>>

(* TransferPermit.release: only a permit that believes it holds the gate. *)
Release(k) ==
    /\ IF held[k]
       THEN held' = [held EXCEPT ![k] = FALSE] /\ active' = None
       ELSE UNCHANGED <<held, active>>
    /\ waiting' = waiting

(* The requests of push and pull grow older; one of a mirror lasts 0.2 s.      *)
Age ==
    /\ \E i \in DOMAIN waiting : waiting[i].who \in Workers
    /\ \A i \in DOMAIN waiting : waiting[i].age < MaxAge
    /\ waiting' = [i \in DOMAIN waiting |->
                     IF waiting[i].who \in Workers
                     THEN [waiting[i] EXCEPT !.age = @ + 1] ELSE waiting[i]]
    /\ UNCHANGED <<active, held, at, left, lines, cancel, folder, backoff, user>>

-----------------------------------------------------------------------------
(* The connection of a worker. *)

InTick(t) == at[t] \notin {"sleep", "stopped"}

(* The engine looks for the NAS and reports what it found to every worker.     *)
Resolve(c) ==
    /\ ~Stopped("engine")
    /\ \A t \in Clients : inbox[t] = <<>>
    /\ route' = c
    /\ inbox' = [t \in Clients |-> <<c>>]
    /\ UNCHANGED <<gate, at, left, conn, deferred, cancel, folder, backoff,
                   paused, mode, stopping>>

Reconnect == route # Route \/ conn # [t \in Clients |-> Route]

FindRoute == Reconnect /\ Resolve(Route) /\ events' = events

LoseRoute == Resolve(None) /\ Event

\* mutant of SetConnection: also during a tick
SetConnectionNow(t, c) ==
    /\ conn' = [conn EXCEPT ![t] = c]
    /\ deferred' = deferred

\* mutant of SetConnection: every report of a tick is kept
SetConnectionQueues(t, c) ==
    IF t \in Workers /\ InTick(t)
    THEN deferred' = [deferred EXCEPT ![t] = Append(@, c)] /\ conn' = conn
    ELSE conn' = [conn EXCEPT ![t] = c] /\ deferred' = deferred

(* set_connection: a tick of push or pull keeps the connection it began with. *)
SetConnection(t, c) ==
    IF t \in Workers /\ InTick(t)
    THEN deferred' = [deferred EXCEPT ![t] = <<c>>] /\ conn' = conn
    ELSE conn' = [conn EXCEPT ![t] = c] /\ deferred' = deferred

\* the order in which MainWindow connects the slots
Order(t) == CASE t = "preview" -> 1 [] t = "push" -> 2 [] t = "pull" -> 3

(* The GUI thread delivers the signals in this order. *)
Deliver(t) ==
    /\ inbox[t] # <<>>
    /\ \A u \in Clients : Order(u) < Order(t) => inbox[u] = <<>>
    /\ inbox' = [inbox EXCEPT ![t] = <<>>]
    /\ SetConnection(t, Head(inbox[t]))
    /\ UNCHANGED <<gate, at, left, route, cancel, folder, backoff, user>>

\* mutant of EndConnection: a report of the tick is dropped
EndConnectionForgets(t) ==
    /\ conn' = conn
    /\ deferred' = [deferred EXCEPT ![t] = <<>>]

(* _end_operation_connection *)
EndConnection(t) ==
    /\ conn' = IF deferred[t] = <<>> THEN conn
               ELSE [conn EXCEPT ![t] = Head(deferred[t])]
    /\ deferred' = [deferred EXCEPT ![t] = <<>>]

(* A tick that got the gate ends: the gate and the connection are given back.  *)
Leave(t) ==
    /\ Goto(t, "sleep")
    /\ Release(Kind(t))
    /\ EndConnection(t)
    /\ UNCHANGED <<route, inbox>>

(* A tick that never asked for the gate ends. *)
Return(t) ==
    /\ Goto(t, "sleep")
    /\ EndConnection(t)
    /\ UNCHANGED <<gate, route, inbox>>

-----------------------------------------------------------------------------
(* The user, the engine and the watcher. *)

(* A change in the folder, reported by the watcher if there is one.            *)
Edit ==
    /\ stopping = 0
    /\ unsynced' = "new"
    /\ dirty' = watching
    /\ UNCHANGED <<gate, at, left, lines, cancel, watching, stale, pending, force,
                   backoff, user>>

(* request_full_sync: the force flag and an unknown-path mark *)
FullSync(mark) ==
    /\ force' = TRUE
    /\ dirty' = mark

SyncNow ==
    /\ stopping = 0
    /\ mode = "both"
    /\ Event
    /\ FullSync(watching)
    /\ UNCHANGED <<gate, at, left, lines, cancel, watching, stale, pending, unsynced,
                   backoff, paused, mode, stopping>>

(* Pause also cancels the transfers under way. *)
Pause ==
    /\ stopping = 0 /\ ~paused
    /\ Event
    /\ paused' = TRUE
    /\ cancel' = [t \in Workers |-> TRUE]
    /\ UNCHANGED <<gate, at, left, lines, folder, backoff, mode, stopping>>

(* By the user, the timer of the pause or the end of a scheduled window. *)
Resume ==
    /\ paused
    /\ paused' = FALSE
    /\ UNCHANGED <<gate, at, left, lines, cancel, folder, backoff, mode, stopping, events>>

SetMode ==
    /\ stopping = 0
    /\ Event
    /\ mode' = IF mode = "both" THEN "pull_only" ELSE "both"
    /\ UNCHANGED <<gate, at, left, lines, cancel, folder, backoff, paused, stopping>>

(* _reconcile_watcher without push: the watcher and its marks go.              *)
WatcherOff ==
    /\ ~Stopped("engine")
    /\ mode # "both" /\ watching
    /\ watching' = FALSE
    /\ dirty' = FALSE
    /\ stale' = [t \in Workers |-> TRUE]
    /\ UNCHANGED <<gate, at, left, lines, cancel, pending, force, unsynced, backoff, user>>

(* A new watcher starts dirty if the folder has content, entry rows or pending *)
(* paths; content or pending paths also request a full push.                   *)
WatcherOn ==
    /\ ~Stopped("engine")
    /\ mode = "both" /\ ~watching
    /\ watching' = TRUE
    /\ \E content, entries \in BOOLEAN :
          /\ unsynced # "no" => content \/ entries
          /\ dirty' = (content \/ entries \/ pending)
          /\ force' = (force \/ content \/ pending)
    /\ UNCHANGED <<gate, at, left, lines, cancel, stale, pending, unsynced, backoff, user>>

(* The deferral of the lock coordinator expires. *)
BackoffOver ==
    /\ backoff
    /\ backoff' = FALSE
    /\ UNCHANGED <<gate, at, left, lines, cancel, folder, user>>

-----------------------------------------------------------------------------
(* PushWorker *)

(* mark_dirty on the watcher the tick began with *)
MarkCaptured(t) == dirty' = (dirty \/ (watching /\ ~stale[t]))

PushTick ==
    /\ at["push"] = "sleep" /\ ~Stopped("push")
    /\ mode = "both" /\ conn["push"] # None /\ ~paused /\ ~backoff
    /\ dirty \/ pending \/ force
    /\ Goto("push", "resolve")
    /\ dirty' = FALSE
    /\ stale' = [stale EXCEPT !["push"] = ~watching]
    /\ UNCHANGED <<gate, left, lines, cancel, watching, pending, force, unsynced,
                   backoff, user>>

\* mutant of PushResolve: the paths are not put in the durable queue
PushResolveVolatile ==
    /\ at["push"] = "resolve"
    /\ unsynced # "no"
    /\ unsynced' = "taken"
    /\ Goto("push", "wait")
    /\ Request("push")
    /\ UNCHANGED <<active, held, left, lines, cancel, watching, dirty, stale, pending,
                   force, backoff, user>>

(* The changed paths enter the durable queue and the push asks for the gate.   *)
PushResolve ==
    /\ at["push"] = "resolve"
    /\ unsynced # "no"
    /\ unsynced' = "taken"
    /\ pending' = TRUE
    /\ Goto("push", "wait")
    /\ Request("push")
    /\ UNCHANGED <<active, held, left, lines, cancel, watching, dirty, stale, force,
                   backoff, user>>

(* Some file is still being written: only a mark is left for it.               *)
PushUnstable ==
    /\ at["push"] = "resolve"
    /\ unsynced = "new"
    /\ Event
    /\ pending' = TRUE
    /\ MarkCaptured("push")
    /\ force' = FALSE
    /\ Return("push")
    /\ UNCHANGED <<left, cancel, watching, stale, unsynced, backoff,
                   paused, mode, stopping>>

(* Nothing to push after all. *)
PushNothing ==
    /\ at["push"] = "resolve"
    /\ unsynced = "no"
    /\ pending' = FALSE
    /\ force' = FALSE
    /\ Return("push")
    /\ UNCHANGED <<left, cancel, watching, dirty, stale, unsynced, backoff, user>>

(* The failure paths of _tick: a mark and the force flag are the retry trigger. *)
PushFails ==
    /\ MarkCaptured("push")
    /\ force' = TRUE
    /\ left' = 0
    /\ Leave("push")
    /\ UNCHANGED <<cancel, watching, stale, pending, unsynced,
                   paused, mode, stopping>>

(* RemoteLockBusy *)
PushBusy ==
    /\ at["push"] = "gate"
    /\ backoff' = TRUE
    /\ PushFails
    /\ events' = events

(* Another error of the lease, the journal, the safety check or the transfer.  *)
PushError ==
    /\ at["push"] \in {"gate", "rsync"}
    /\ Event
    /\ PushFails
    /\ backoff' = backoff

\* mutant of PushStops: returns without giving the gate back
PushStopsHolding ==
    /\ at["push"] = "gate" /\ left = 0
    /\ Stopped("push")
    /\ backoff' = FALSE
    /\ Return("push")
    /\ UNCHANGED <<left, cancel, folder, user>>

(* The stop flag is seen under the first lease. *)
PushStops ==
    /\ at["push"] = "gate" /\ left = 0
    /\ Stopped("push")
    /\ backoff' = FALSE
    /\ Leave("push")
    /\ UNCHANGED <<left, cancel, folder, user>>

(* The first lease: journal payload, safety check, remote folder; the changed  *)
(* paths are cut in chunks.                                                    *)
PushPrepare ==
    /\ at["push"] = "gate" /\ left = 0
    /\ ~Stopped("push")
    /\ backoff' = FALSE
    /\ left' \in 1..Chunks
    /\ UNCHANGED <<gate, at, lines, cancel, folder, user>>

(* A chunk takes its lease, plans and starts rsync; an earlier cancel is       *)
(* forgotten.                                                                  *)
PushChunk ==
    /\ at["push"] = "gate" /\ left > 0
    /\ ~Stopped("push")
    /\ backoff' = FALSE
    /\ cancel' = [cancel EXCEPT !["push"] = FALSE]
    /\ Goto("push", "rsync")
    /\ UNCHANGED <<gate, left, lines, folder, user>>

(* The stop flag is seen under the lease of a chunk, or rsync was cancelled.   *)
PushCut ==
    /\ \/ at["push"] = "gate" /\ left > 0 /\ Stopped("push")
       \/ at["push"] = "rsync" /\ (Stopped("push") \/ cancel["push"])
    /\ PushFails
    /\ UNCHANGED <<backoff, events>>

PushTransfers ==
    /\ at["push"] = "rsync"
    /\ ~Stopped("push") /\ ~cancel["push"]
    /\ Goto("push", "confirm")
    /\ UNCHANGED <<gate, left, lines, cancel, folder, backoff, user>>

(* The last chunk is committed: its paths leave the queue, unless they changed *)
(* again.                                                                      *)
PushDone ==
    /\ at["push"] = "confirm" /\ left = 1
    /\ left' = 0
    /\ unsynced' = IF unsynced = "taken" THEN "no" ELSE unsynced
    /\ pending' \in {FALSE, unsynced = "new"}
    /\ force' = FALSE
    /\ Leave("push")
    /\ UNCHANGED <<cancel, watching, dirty, stale, backoff, user>>

(* _yield_local_transfer_lock, first half: the other threads of this client    *)
(* get a turn between two chunks.                                              *)
PushYield ==
    /\ at["push"] = "confirm" /\ left > 1
    /\ left' = left - 1
    /\ Goto("push", "yield")
    /\ Release("push")
    /\ UNCHANGED <<lines, cancel, folder, backoff, user>>

\* mutant of PushAgain: goes on with the next chunk without the gate
PushAgainUngated ==
    /\ at["push"] = "yield"
    /\ Goto("push", "gate")
    /\ UNCHANGED <<gate, left, lines, cancel, folder, backoff, user>>

PushAgain ==
    /\ at["push"] = "yield"
    /\ Goto("push", "wait")
    /\ Request("push")
    /\ UNCHANGED <<active, held, left, lines, cancel, folder, backoff, user>>

-----------------------------------------------------------------------------
(* PullWorker *)

(* With a manifest cursor the pull first waits in the change feed.             *)
PullTick ==
    /\ at["pull"] = "sleep" /\ ~Stopped("pull")
    /\ conn["pull"] # None /\ ~paused /\ ~backoff
    /\ ~(mode = "both" /\ dirty)
    /\ stale' = [stale EXCEPT !["pull"] = ~watching]
    /\ \/ Goto("pull", "feed") /\ UNCHANGED gate
       \/ Goto("pull", "wait") /\ Request("pull") /\ UNCHANGED <<active, held>>
    /\ UNCHANGED <<left, lines, cancel, watching, dirty, pending, force, unsynced,
                   backoff, user>>

(* The change feed reports a revision, or the full reconciliation is due.      *)
PullNews ==
    /\ at["pull"] = "feed"
    /\ Goto("pull", "wait")
    /\ Request("pull")
    /\ UNCHANGED <<active, held, left, lines, cancel, folder, backoff, user>>

(* The change feed times out or is not available. *)
PullSilence ==
    /\ at["pull"] = "feed"
    /\ Return("pull")
    /\ UNCHANGED <<left, cancel, folder, backoff, user>>

(* RemoteLockBusy *)
PullBusy ==
    /\ at["pull"] = "gate"
    /\ backoff' = TRUE
    /\ Leave("pull")
    /\ UNCHANGED <<left, cancel, folder, user>>

(* The lease is held: stopped, blocked by the journal or the safety check, or  *)
(* no news.                                                                    *)
PullReturns ==
    /\ at["pull"] = "gate"
    /\ backoff' = FALSE
    /\ Leave("pull")
    /\ UNCHANGED <<left, cancel, folder, user>>

(* _defer_if_local_changes_pending *)
PullDefers ==
    /\ at["pull"] = "gate" /\ ~Stopped("pull")
    /\ mode = "both"
    /\ pending \/ unsynced # "no"
    /\ backoff' = FALSE
    /\ MarkCaptured("pull")
    /\ Leave("pull")
    /\ UNCHANGED <<left, cancel, watching, stale, pending, force, unsynced, user>>

PullStarts ==
    /\ at["pull"] = "gate" /\ ~Stopped("pull")
    /\ backoff' = FALSE
    /\ cancel' = [cancel EXCEPT !["pull"] = FALSE]
    /\ Goto("pull", "rsync")
    /\ UNCHANGED <<gate, left, lines, folder, user>>

\* mutant of PullEnds: a transfer that was cancelled keeps the gate
PullEndsHolding ==
    /\ at["pull"] = "rsync"
    /\ dirty' \in {dirty, watching}
    /\ IF cancel["pull"] THEN Return("pull") ELSE Leave("pull")
    /\ UNCHANGED <<left, cancel, watching, stale, pending, force, unsynced, backoff, user>>

(* rsync ends or is cut short by a cancel or a local change; the watcher may   *)
(* report what it wrote.                                                       *)
PullEnds ==
    /\ at["pull"] = "rsync"
    /\ dirty' \in {dirty, watching}
    /\ Leave("pull")
    /\ UNCHANGED <<left, cancel, watching, stale, pending, force, unsynced, backoff, user>>

-----------------------------------------------------------------------------
(* MirrorWatcher *)

(* A change of the source, the periodic copy, or a copy the user asks for.     *)
MirrorTick(m) ==
    /\ at[m] = "sleep" /\ ~Stopped(m)
    /\ IF paused THEN Event ELSE events' = events
    /\ Goto(m, "wait")
    /\ Request(m)
    /\ UNCHANGED <<active, held, left, lines, cancel, folder, backoff, paused, mode, stopping>>

(* acquire(timeout=0.2) gives up: _held becomes False in the permit that all   *)
(* mirror watchers share.                                                      *)
MirrorTimeout(m) ==
    /\ \E i \in DOMAIN waiting : waiting[i].who = m /\ waiting' = RemoveAt(waiting, i)
    /\ held' = [held EXCEPT !["mirror"] = FALSE]
    /\ Goto(m, IF Stopped(m) THEN "sleep" ELSE "retry")
    /\ UNCHANGED <<active, left, lines, cancel, folder, backoff, user>>

MirrorRetry(m) ==
    /\ at[m] = "retry"
    /\ Goto(m, "wait")
    /\ Request(m)
    /\ UNCHANGED <<active, held, left, lines, cancel, folder, backoff, user>>

(* The copy ends, fails or is terminated; it may have changed the folder.      *)
MirrorDone(m) ==
    /\ at[m] = "gate"
    /\ \/ UNCHANGED folder
       \/ /\ unsynced' = "new"
          /\ dirty' = watching
          /\ UNCHANGED <<watching, stale, pending, force>>
    /\ Goto(m, "sleep")
    /\ Release("mirror")
    /\ UNCHANGED <<left, lines, cancel, backoff, user>>

-----------------------------------------------------------------------------
(* ScanWorker *)

(* _scan_once: never ahead of a push that is due, and only on a free gate that *)
(* nobody waits for.                                                           *)
ScanStart ==
    /\ at["preview"] = "sleep" /\ ~Stopped("preview")
    /\ conn["preview"] # None /\ ~backoff
    /\ mode = "both" => ~force /\ ~dirty /\ ~pending
    /\ active = None /\ waiting = <<>>
    /\ active' = "preview"
    /\ held' = [held EXCEPT !["preview"] = TRUE]
    /\ Goto("preview", "gate")
    /\ UNCHANGED <<waiting, left, lines, cancel, folder, backoff, user>>

(* The preview read the manifest under a lease, found it busy or needed none.  *)
ScanEnd ==
    /\ at["preview"] = "gate"
    /\ backoff' \in BOOLEAN
    /\ Goto("preview", "sleep")
    /\ Release("preview")
    /\ UNCHANGED <<left, lines, cancel, folder, user>>

-----------------------------------------------------------------------------
(* MainWindow._shutdown *)

(* The next thread gets its stop flag and its process is terminated; after it, *)
(* or after a time limit, comes the thread behind it.                          *)
QuitStep ==
    /\ stopping < 5
    /\ IF stopping = 0 THEN Event ELSE events' = events
    /\ stopping' = stopping + 1
    /\ cancel' = [t \in Workers |-> cancel[t] \/ Place(t) = stopping + 1]
    /\ watching' = (watching /\ stopping + 1 # Place("engine"))
    /\ dirty' = (dirty /\ watching')
    /\ stale' = IF watching = watching' THEN stale ELSE [t \in Workers |-> TRUE]
    /\ UNCHANGED <<gate, at, left, lines, pending, force, unsynced, backoff,
                   paused, mode>>

(* The loop of a thread sees its stop flag. *)
Exit(t) ==
    /\ at[t] = "sleep" /\ Stopped(t)
    /\ Goto(t, "stopped")
    /\ UNCHANGED <<gate, left, lines, cancel, folder, backoff, user>>

-----------------------------------------------------------------------------
PushWorks == \/ PushResolve \/ PushUnstable \/ PushNothing \/ PushStops
             \/ PushPrepare \/ PushChunk \/ PushCut \/ PushTransfers
             \/ PushDone \/ PushYield \/ PushAgain

PullWorks == \/ PullNews \/ PullSilence \/ PullReturns \/ PullDefers
             \/ PullStarts \/ PullEnds

Next ==
    \/ PushTick \/ PushWorks \/ PushBusy \/ PushError
    \/ PullTick \/ PullWorks \/ PullBusy
    \/ \E m \in Mirrors : \/ MirrorTick(m) \/ MirrorTimeout(m)
                          \/ MirrorRetry(m) \/ MirrorDone(m)
    \/ ScanStart \/ ScanEnd
    \/ \E t \in Threads : Grant(t) \/ Exit(t)
    \/ Age
    \/ FindRoute \/ LoseRoute \/ \E t \in Clients : Deliver(t)
    \/ WatcherOff \/ WatcherOn \/ BackoffOver
    \/ Edit \/ SyncNow \/ Pause \/ Resume \/ SetMode \/ QuitStep

Spec == Init /\ [][Next]_vars

(* Every thread goes on: SSH commands and rsync have time limits, a timed      *)
(* pause ends, the NAS comes back, time passes.  The push looks every second   *)
(* and a deferral lasts longer, so it does not miss every free moment; the     *)
(* queue of the NAS serves it in the end.                                      *)
Fairness ==
    /\ WF_vars(PushWorks) /\ WF_vars(PullWorks)
    /\ SF_vars(PushTick) /\ SF_vars(PushPrepare) /\ SF_vars(PushChunk)
    /\ WF_vars(Age)
    /\ WF_vars(FindRoute) /\ WF_vars(Resume) /\ WF_vars(BackoffOver)
    /\ WF_vars(WatcherOff) /\ WF_vars(WatcherOn)
    /\ WF_vars(ScanEnd)
    /\ WF_vars(stopping > 0 /\ QuitStep)
    /\ \A t \in Clients : WF_vars(Deliver(t))
    /\ \A t \in Threads : WF_vars(Grant(t)) /\ WF_vars(Exit(t))
    /\ \A m \in Mirrors : WF_vars(MirrorDone(m)) /\ WF_vars(MirrorRetry(m))
                          /\ WF_vars(Stopped(m) /\ MirrorTimeout(m))

FairSpec == Spec /\ Fairness

-----------------------------------------------------------------------------
(* Properties. *)

Places == {"sleep", "stopped", "resolve", "feed", "wait", "retry", "gate",
           "rsync", "confirm", "yield"}

TypeOK ==
    /\ active \in Kinds \cup {None}
    /\ waiting \in Seq([who : Threads, age : 0..MaxAge])
    /\ held \in [Kinds -> BOOLEAN]
    /\ at \in [Threads -> Places]
    /\ left \in 0..Chunks
    /\ route \in {None, Route}
    /\ inbox \in [Clients -> {<<>>, <<None>>, <<Route>>}]
    /\ conn \in [Clients -> {None, Route}]
    /\ deferred \in [Workers -> {<<>>, <<None>>, <<Route>>}]
    /\ cancel \in [Workers -> BOOLEAN]
    /\ stale \in [Workers -> BOOLEAN]
    /\ {watching, dirty, pending, force, backoff, paused} \subseteq BOOLEAN
    /\ unsynced \in {"no", "new", "taken"}
    /\ mode \in {"both", "pull_only"}
    /\ stopping \in 0..5
    /\ events \in 0..MaxEvents

Inside(t) == at[t] \in {"gate", "rsync", "confirm"}

(* At most one thread works on the folder or the NAS. *)
OneAtATime == \A s, t \in Threads : Inside(s) /\ Inside(t) => s = t

(* Every report of the engine reaches a worker, at the latest after its tick.  *)
ConnCurrent ==
    \A t \in Clients : inbox[t] = <<>> /\ ~InTick(t) => conn[t] = route

(* The connection of a worker does not change in the middle of a tick.         *)
ConnStable == [][\A t \in Workers : InTick(t) /\ InTick(t)' => conn'[t] = conn[t]]_vars

(* A change that is not on the NAS yet has a retry trigger: a mark, a durable  *)
(* pending path, the force flag, or the push that is looking at it.            *)
NoLostTrigger ==
    unsynced # "no" /\ watching => dirty \/ pending \/ force \/ at["push"] = "resolve"

(* A push or a pull that waits for the gate gets it, however busy the others   *)
(* are.                                                                        *)
Served == \A t \in Workers : at[t] = "wait" ~> at[t] # "wait"

(* A change in the folder is pushed, through contention, lost connections,     *)
(* pauses, failures and new watchers.                                          *)
Delivered ==
    unsynced # "no" ~> at["push"] = "confirm" \/ mode # "both" \/ stopping > 0

(* Once the user quits, every thread comes to its end. *)
AllStopped == stopping > 0 ~> \A t \in Threads : at[t] = "stopped"
=============================================================================
