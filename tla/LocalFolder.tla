----------------------------- MODULE LocalFolder -----------------------------
(* The NASBox folder of one PC: its files and directories, what its user does  *)
(* to them, the watcher, the rows of the SQLite store, the local trash and the *)
(* conflict resolver.  Files live in directories one level deep; a conflict    *)
(* copy is named after the content it keeps, as its token is a digest.         *)
EXTENDS Reconcile, FiniteSets

CONSTANTS
    Dirs,           \* directories
    Plain,          \* the ordinary file name; the others are conflict copies
    UnknownPath,    \* the mark of a path nobody knows, UNKNOWN_PATH
    Initial,        \* Initial[d]: version of d/Plain, in step at the start
    Scenarios       \* bound: what users, faults and other clients may do in one run

Names == {Plain} \cup Versions
Path == Dirs \X Names
Contents == Versions \cup {None}

Kinds == {"write", "move", "movedir", "delete", "exclude", "unmount", "relocate",
          "restore", "prune", "resolve", "oserror", "fault", "crash", "unstable", "other",
          "otherdel", "oob"}

ASSUME FolderAssumption ==
    /\ Devices = {}                                \* a server without clocks
    /\ DOMAIN Initial \subseteq Dirs
    /\ \A d \in DOMAIN Initial : Initial[d] \in Versions
    /\ Plain \notin Versions
    /\ Dirs \cap Path = {}                          \* a directory is no file
    /\ IsFiniteSet(Dirs)
    /\ \A s \in Scenarios : s \subseteq Kinds

VARIABLES
    local,      \* the files
    dirs,       \* the directories
    mounted,    \* the volume of the folder is mounted
    excluded,   \* selective_sync_excludes
    base,       \* entry rows: the common version of a path
    pending,    \* pending rows: the durable push queue
    events,     \* changes the watcher has not reported yet
    marks,      \* its dirty paths
    ltrash,     \* the local trash
    gui,        \* the conflict resolver: step, original, candidates, temporary
    used,       \* history: contents that existed
    dropped,    \* history: contents somebody replaced or deleted
    happened    \* the events there were

folder == <<local, dirs, mounted, excluded, ltrash, gui>>
store == <<base, pending>>
watch == <<events, marks>>
history == <<used, dropped, happened>>
localVars == <<folder, store, watch, history>>

Closed == [at |-> "idle", orig |-> <<>>, moved |-> FALSE, todo |-> {}, tmp |-> None]

First(p) ==
    IF p[2] = Plain /\ p[1] \in DOMAIN Initial THEN Initial[p[1]] ELSE None

LocalInit ==
    /\ local = [p \in Path |-> First(p)]
    /\ dirs = DOMAIN Initial
    /\ mounted = TRUE
    /\ excluded = {}
    /\ base = [p \in Path |-> IF First(p) = None THEN Unknown ELSE First(p)]
    /\ pending = {}
    /\ events = {}
    /\ marks = {}
    /\ ltrash = {}
    /\ gui = Closed
    /\ used = {Initial[d] : d \in DOMAIN Initial}
    /\ dropped = {}
    /\ happened = {}

-----------------------------------------------------------------------------
(* Reading the folder. *)

Under(d) == {d} \X Names

Top(e) == IF e \in Dirs THEN e ELSE e[1]

\* mutant of Excluded: the prefixes of a path are not looked at.
ExcludedExactly(e) == e \in excluded

(* path_is_excluded *)
Excluded(e) == Top(e) \in excluded

Moved(p, d) == <<d, p[2]>>

CopyPath(p, v) == <<p[1], v>>

Contained(f) == {f[p] : p \in Path} \cap Versions

(* An unmounted volume leaves its empty mount point. *)
Seen(p) == IF mounted THEN local[p] ELSE None

SeenDirs == IF mounted THEN dirs ELSE {}

(* changed_paths *)
Changed ==
    {p \in Path : IF Seen(p) = None THEN base[p] \in Versions ELSE base[p] # Seen(p)}

(* A set of <<path, content>> laid over a map of the files. *)
Overlay(f, S) ==
    [p \in Path |-> IF \E c \in Contents : <<p, c>> \in S
                    THEN CHOOSE c \in Contents : <<p, c>> \in S ELSE f[p]]

Put(p, c) == Overlay(local, {<<p, c>>})

-----------------------------------------------------------------------------
(* The user. *)

Happens(kind) ==
    /\ kind \notin happened
    /\ \E s \in Scenarios : happened \cup {kind} \subseteq s
    /\ happened' = happened \cup {kind}

Drop(S) == dropped' = dropped \cup (S \ {None})

(* Files and directories the watcher will report. *)
Touch(S) == events' = events \cup S

UserWrite(p, v) ==
    /\ mounted /\ v \notin used
    /\ Happens("write")
    /\ local' = Put(p, v)
    /\ dirs' = dirs \cup {p[1]}
    /\ used' = used \cup {v}
    /\ Drop({local[p]})
    /\ Touch({p} \cup ({p[1]} \ dirs))
    /\ UNCHANGED <<mounted, excluded, ltrash, gui, store, marks>>

UserMove(p, q) ==
    /\ mounted /\ local[p] # None /\ local[q] = None
    /\ Happens("move")
    /\ local' = Overlay(local, {<<p, None>>, <<q, local[p]>>})
    /\ dirs' = dirs \cup {q[1]}
    /\ Touch({p, q} \cup ({q[1]} \ dirs))
    /\ UNCHANGED <<mounted, excluded, ltrash, gui, store, marks, used>>
    /\ Drop(IF Excluded(q) THEN {local[p]} ELSE {})

(* inotify reports the two directories, not the files in them. *)
UserMoveDir(d, e) ==
    /\ mounted /\ d \in dirs /\ e \notin dirs
    /\ Happens("movedir")
    /\ local' = [p \in Path |-> CASE p[1] = d -> None
                                  [] p[1] = e -> local[Moved(p, d)]
                                  [] OTHER -> local[p]]
    /\ dirs' = (dirs \ {d}) \cup {e}
    /\ Touch({d, e})
    /\ Drop(IF Excluded(e) THEN {local[p] : p \in Under(d)} ELSE {})
    /\ UNCHANGED <<mounted, excluded, ltrash, gui, store, marks, used>>

UserDelete(S) ==
    /\ Happens("delete")
    /\ mounted
    /\ local' = Overlay(local, S \X {None})
    /\ Drop({local[p] : p \in S})
    /\ Touch(S)
    /\ UNCHANGED <<dirs, mounted, excluded, ltrash, gui, store, marks, used>>

(* A folder is taken out of selective sync.  It stays on both sides; what was  *)
(* only here and not uploaded yet is no longer NASBox's business.              *)
Exclude(d) ==
    /\ d \notin excluded
    /\ Happens("exclude")
    /\ excluded' = excluded \cup {d}
    /\ Drop({local[p] : p \in Under(d)})
    /\ UNCHANGED <<local, dirs, mounted, ltrash, gui, store, watch, used>>

Unmount ==
    /\ Happens("unmount")
    /\ mounted' = FALSE
    /\ UNCHANGED <<local, dirs, excluded, ltrash, gui, store, watch, used, dropped>>

Remount ==
    /\ ~mounted
    /\ mounted' = TRUE
    /\ UNCHANGED <<local, dirs, excluded, ltrash, gui, store, watch, history>>

(* "Cambia percorso" to an empty folder: the marker follows, the rows of the   *)
(* store stay, and the new watcher asks for a full sweep because there are     *)
(* rows.                                                                       *)
Relocate ==
    /\ Happens("relocate")
    /\ mounted
    /\ local' = [p \in Path |-> None]
    /\ dirs' = {}
    /\ events' = {}
    /\ marks' = {UnknownPath}
    /\ Drop(Contained(local))
    /\ UNCHANGED <<mounted, excluded, ltrash, gui, store, used>>

(* FolderWatcher: an event of an excluded path is ignored. *)
Notice(e) ==
    /\ e \in events
    /\ events' = events \ {e}
    /\ marks' = IF Excluded(e) THEN marks ELSE marks \cup {e}
    /\ UNCHANGED <<folder, store, history>>

(* Valid: the checks of the local marker and of the NAS that open a transfer;  *)
(* the device of the folder tells an unmounted volume.                         *)
Valid == mounted

-----------------------------------------------------------------------------
(* The local trash and the conflict resolver. *)

Trashed(S) == {<<p, local[p]>> : p \in {q \in S : local[q] # None}}

(* restore_version copies over the current file, which is not kept. *)
Restore(p, v) ==
    /\ mounted /\ <<p, v>> \in ltrash
    /\ Happens("restore")
    /\ local' = Put(p, v)
    /\ dirs' = dirs \cup {p[1]}
    /\ Drop({local[p]} \ {v})
    /\ Touch({p} \cup ({p[1]} \ dirs))
    /\ UNCHANGED <<mounted, excluded, ltrash, gui, store, marks, used>>

(* prune_local and delete_version *)
Prune(p, v) ==
    /\ <<p, v>> \in ltrash
    /\ Happens("prune")
    /\ ltrash' = ltrash \ {<<p, v>>}
    /\ Drop({v})
    /\ UNCHANGED <<local, dirs, mounted, excluded, gui, store, watch, used>>

Original(p) == <<p[1], Plain>>

(* scan_conflict_groups *)
Candidates(p) == {q \in Under(p[1]) \ {p} : local[q] # None}

ResolveStart(p, chosen) ==
    /\ mounted /\ p = Original(p) /\ Candidates(p) # {}
    /\ chosen \in Candidates(p) \cup {p}
    /\ Happens("resolve")
    /\ gui' = [at |-> IF chosen = p THEN "clean" ELSE "copied", orig |-> p,
               moved |-> chosen # p, todo |-> Candidates(p),
               tmp |-> IF chosen = p THEN None ELSE local[chosen]]
    /\ UNCHANGED <<local, dirs, mounted, excluded, ltrash, store, watch, used, dropped>>

(* move_to_local_trash *)
ToTrash(p) ==
    /\ mounted
    /\ ltrash' = ltrash \cup Trashed({p})
    /\ local' = Put(p, None)
    /\ Touch(IF local[p] = None THEN {} ELSE {p})

ResolveMove ==
    /\ gui.at = "copied"
    /\ ToTrash(gui.orig)
    /\ gui' = [gui EXCEPT !.at = "moved"]
    /\ UNCHANGED <<dirs, mounted, excluded, store, marks, history>>

ResolvePlace ==
    /\ gui.at = "moved"
    /\ mounted
    /\ local' = Put(gui.orig, gui.tmp)
    /\ dirs' = dirs \cup {gui.orig[1]}
    /\ Drop({local[gui.orig]} \ {gui.tmp})
    /\ Touch({gui.orig})
    /\ gui' = [gui EXCEPT !.at = "clean", !.tmp = None]
    /\ UNCHANGED <<mounted, excluded, ltrash, store, marks, used, happened>>

ResolveTrash(q) ==
    /\ gui.at = "clean"
    /\ q \in gui.todo
    /\ ToTrash(q)
    /\ gui' = [gui EXCEPT !.todo = @ \ {q}]
    /\ UNCHANGED <<dirs, mounted, excluded, store, marks, history>>

ResolveDone ==
    /\ gui.at = "clean" /\ gui.todo = {}
    /\ pending' = IF gui.moved THEN pending \cup {gui.orig} ELSE pending
    /\ gui' = Closed
    /\ UNCHANGED <<local, dirs, mounted, excluded, ltrash, base, watch, history>>

(* An OSError: the temporary copy is removed, what was trashed stays there.    *)
ResolveFails ==
    /\ gui.at # "idle"
    /\ Happens("oserror")
    /\ gui' = Closed
    /\ UNCHANGED <<local, dirs, mounted, excluded, ltrash, store, watch, used, dropped>>

\* mutant of Restart: the new watcher asks for a sweep for the queue only.
RestartQuiet ==
    /\ Happens("crash")
    /\ events' = {}
    /\ marks' = IF pending # {} THEN {UnknownPath} ELSE {}
    /\ gui' = Closed
    /\ UNCHANGED <<local, dirs, mounted, excluded, ltrash, store, used, dropped>>

(* The client is killed and started again: marks and unreported events are     *)
(* gone; the new watcher asks for a sweep if there are files, rows or a queue. *)
Restart ==
    /\ Happens("crash")
    /\ events' = {}
    /\ marks' = IF (\E p \in Path : Seen(p) # None) \/ pending # {} \/ (\E p \in Path : base[p] # Unknown)
                THEN {UnknownPath} ELSE {}
    /\ gui' = Closed
    /\ UNCHANGED <<local, dirs, mounted, excluded, ltrash, store, used, dropped>>

UserAct ==
    \/ \E p \in Dirs \X {Plain}, v \in Versions : UserWrite(p, v)
    \/ \E p \in Path, d \in Dirs : UserMove(p, Moved(p, d))
    \/ \E d, e \in Dirs : UserMoveDir(d, e)
    \/ \E S \in (SUBSET {p \in Path : local[p] # None}) \ {{}} : UserDelete(S)
    \/ \E d \in Dirs : Exclude(d)
    \/ Unmount \/ Remount \/ Relocate
    \/ \E c \in ltrash : Restore(c[1], c[2]) \/ Prune(c[1], c[2])
    \/ \E p \in Path : \E q \in Under(p[1]) : ResolveStart(p, q)

ResolverAct ==
    \/ ResolveMove \/ ResolvePlace \/ ResolveDone \/ ResolveFails
    \/ \E q \in gui.todo : ResolveTrash(q)

-----------------------------------------------------------------------------
LocalTypeOK ==
    /\ local \in [Path -> Contents]
    /\ dirs \subseteq Dirs
    /\ \A p \in Path : local[p] # None => p[1] \in dirs
    /\ mounted \in BOOLEAN
    /\ excluded \subseteq Dirs
    /\ base \in [Path -> Contents \cup {Unknown}]
    /\ pending \subseteq Path
    /\ events \subseteq Path \cup Dirs
    /\ marks \subseteq Path \cup Dirs \cup {UnknownPath}
    /\ ltrash \subseteq Path \X Versions
    /\ gui.at \in {"idle", "copied", "moved", "clean"}
    /\ gui.todo \subseteq Path
    /\ gui.tmp \in Contents
    /\ used \subseteq Versions /\ dropped \subseteq used
    /\ happened \subseteq Kinds
=============================================================================
