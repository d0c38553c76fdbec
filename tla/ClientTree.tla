------------------------------ MODULE ClientTree ------------------------------
(* A push over the whole folder: the sweep that finds the paths, the chunks,   *)
(* the plan of a chunk with its renames and conflict copies, the transfers and *)
(* the confirmation, among a user, a pull and other clients of the NAS.        *)
EXTENDS LocalFolder

CONSTANTS
    ChunkSize,      \* paths of a chunk
    MaxDeletes      \* Config.max_delete_files

ASSUME TreeAssumption ==
    /\ ChunkSize \in Nat \ {0}
    /\ MaxDeletes \in Nat \ {0}

VARIABLES
    nas,        \* the files of the share
    nasDirs,    \* its directories
    rec,        \* manifest: version, None for a tombstone, Unknown for no record
    oob,        \* history: paths changed behind the journal
    taken,      \* history: what somebody took away from a path
    job         \* the push that runs

remote == <<nas, nasDirs, rec, oob>>
vars == <<localVars, remote, taken, job>>

Steps == {"idle", "chunk", "plan", "staged", "publish", "rename", "moving",
          "settle", "send", "adopt", "delete", "confirm"}

(* todo and new: the paths left and those of them that may be staged; without: *)
(* the folders excluded at its start; chunk: the running one; ren, done,       *)
(* failed: renames to do, done and refused; up, del, adopt, wins, adp, copies: *)
(* the plan; sent: what was uploaded; dels: deletions of this push.            *)
Idle == [at |-> "idle", todo |-> {}, new |-> {}, without |-> {}, chunk |-> {},
         dirEv |-> {}, try |-> FALSE, ren |-> {}, done |-> {}, failed |-> {},
         up |-> {}, del |-> {}, adopt |-> {}, wins |-> {}, adp |-> {},
         copies |-> {}, sent |-> {}, dels |-> 0]

Init ==
    /\ LocalInit
    /\ nas = [p \in Path |-> First(p)]
    /\ nasDirs = DOMAIN Initial
    /\ rec = [p \in Path |-> IF First(p) = None THEN Unknown ELSE First(p)]
    /\ oob = {}
    /\ taken = {}
    /\ job = Idle

-----------------------------------------------------------------------------
(* The tick: which paths, and whether a transfer is safe at all. *)

(* What a tick starts from: all that changed if a path is unknown. *)
Dirty ==
    {e \in IF UnknownPath \in marks THEN Changed ELSE marks \cup pending : ~Excluded(e)}

(* A directory stands for the files in it, a missing one for its rows.         *)
IsDirEvent(e) == e \in Dirs /\ (e \in SeenDirs \/ \E p \in Under(e) : base[p] # Unknown)

Resolve(e) ==
    IF e \notin Dirs THEN {e}
    ELSE IF e \in SeenDirs THEN {p \in Under(e) : Seen(p) # None}
    ELSE {p \in Under(e) : base[p] # Unknown}

Resolved == UNION {Resolve(e) : e \in Dirty}

(* _is_staging_candidate: a new path, unless its content has a row elsewhere,  *)
(* for it may be the destination of a rename.                                  *)
MayStage(p) ==
    Seen(p) # None /\ base[p] \notin Versions /\ Seen(p) \notin Contained(base)

Fails == marks' = marks \cup {UnknownPath} /\ job' = Idle

PushTick(unstable) ==
    /\ job.at = "idle"
    /\ marks # {} \/ pending # {}
    /\ unstable = {} \/ Happens("unstable")
    /\ unstable = {} => UNCHANGED happened
    /\ unstable \subseteq Resolved
    /\ pending' = {p \in pending \cup (Dirty \cap Path) \cup Resolved : ~Excluded(p)}
    /\ LET todo == Resolved \ unstable
       IN  /\ marks' = unstable \cup IF todo = {} \/ Valid THEN {} ELSE {UnknownPath}
           /\ job' = IF todo = {} \/ ~Valid THEN Idle
                     ELSE [Idle EXCEPT !.at = "chunk", !.todo = todo, !.without = excluded,
                             !.new = {p \in todo : MayStage(p)},
                             !.dirEv = {e \in Dirty : IsDirEvent(e)}]
    /\ UNCHANGED <<folder, base, events, used, dropped, remote>>

(* New files come first, in chunks of their own. *)
PickChunk(C) ==
    LET new == job.new \cap job.todo
        from == IF new # {} THEN new ELSE job.todo
    IN  /\ job.at = "chunk" /\ from # {}
        /\ C \subseteq from
        /\ Cardinality(C) = IF Cardinality(from) < ChunkSize THEN Cardinality(from) ELSE ChunkSize
        /\ job' = [job EXCEPT !.at = "plan", !.todo = @ \ C, !.chunk = C, !.try = new # {}]
        /\ UNCHANGED <<localVars, remote>>

PushEnds ==
    /\ job.at = "chunk" /\ job.todo = {}
    /\ job' = Idle
    /\ UNCHANGED <<localVars, remote>>

\* mutant of NextChunk: the next chunk starts with the paths of the last one.
NextChunkKeeps ==
    [job EXCEPT !.at = "chunk", !.try = FALSE, !.ren = {}, !.done = {}, !.failed = {},
                !.up = {}, !.del = {}, !.adopt = {}, !.wins = {}, !.adp = {},
                !.copies = {}, !.sent = {}]

NextChunk ==
    [job EXCEPT !.at = "chunk", !.chunk = {}, !.try = FALSE, !.ren = {}, !.done = {},
                !.failed = {}, !.up = {}, !.del = {}, !.adopt = {}, !.wins = {},
                !.adp = {}, !.copies = {}, !.sent = {}]

-----------------------------------------------------------------------------
(* The plan of a chunk. *)

(* remote_file_states *)
Remote(p) ==
    [kind |-> IF nas[p] # None THEN "file" ELSE IF rec[p] = Unknown THEN "absent" ELSE "tombstone",
     v |-> nas[p], vc |-> NoClock]

Renaming(r) == r.from \cup {Moved(p, r.dst) : p \in r.from}

(* _find_rename_plans, directories: all the files of a vanished directory are, *)
(* unchanged, in a new one that neither the rows nor the NAS know.             *)
DirMatch(C, d, e) ==
    LET S == {p \in Under(d) : base[p] \in Versions /\ ~Excluded(p)}
    IN  /\ d \notin SeenDirs /\ e \in SeenDirs
        /\ S # {} /\ S \subseteq C
        /\ d \in nasDirs /\ e \notin nasDirs
        /\ \A p \in Under(e) : base[p] = Unknown \/ Excluded(p)
        /\ {p \in Under(e) : Seen(p) # None /\ ~Excluded(p)} = {Moved(p, e) : p \in S}
        /\ \A p \in S : base[p] = nas[p] /\ base[p] = Seen(Moved(p, e))

DirMatches(C) == {m \in job.dirEv \X job.dirEv : DirMatch(C, m[1], m[2])}

DirRenames(C) ==
    {[kind |-> "DIR", from |-> {p \in Under(m[1]) : base[p] \in Versions}, src |-> m[1],
      dst |-> m[2], v |-> None] :
        m \in IF Cardinality(DirMatches(C)) = 1 THEN DirMatches(C) ELSE {}}

(* Files: one path lost and one new path of the same version.                  *)
FileRenames(C) ==
    LET rest == C \ UNION {Renaming(r) : r \in DirRenames(C)}
        Old(v) == {p \in rest : base[p] = v /\ Seen(p) = None}
        New(v) == {p \in rest : base[p] = Unknown /\ Seen(p) = v}
    IN  {r \in [kind : {"FILE"}, from : {{p} : p \in rest}, src : rest, dst : rest, v : Versions] :
            /\ r.from = {r.src}
            /\ Old(r.v) = {r.src} /\ New(r.v) = {r.dst}
            /\ nas[r.src] = r.v /\ nas[r.dst] = None}

PathsOf(r) == IF r.kind = "DIR" THEN Renaming(r) ELSE {r.src, r.dst}

Act(p) == PlanPath(base[p], Seen(p), NoClock, Remote(p))

Planned(S, act) == {p \in S : Act(p) = act}

\* mutant of Losers: where the local version wins that of the NAS is not kept.
LosersNotKept(S) ==
    {<<CopyPath(p, Seen(p)), Seen(p)>> :
        p \in {q \in Planned(S, "conflict_remote_wins") : Seen(q) # None}}

(* The conflict copies on the NAS: of its version where the local one wins, of *)
(* the local one where the NAS wins.                                           *)
Losers(S) ==
    {<<CopyPath(p, nas[p]), nas[p]>> : p \in Planned(S, "conflict_local_wins")} \cup
    {<<CopyPath(p, Seen(p)), Seen(p)>> :
        p \in {q \in Planned(S, "conflict_remote_wins") : Seen(q) # None}}

(* _build_plan of the paths of S. *)
WithPlan(S) ==
    [job EXCEPT
        !.up = Planned(S, "upload") \cup Planned(S, "conflict_local_wins"),
        !.del = {<<p, nas[p]>> : p \in Planned(S, "delete_remote")},
        !.adopt = Planned(S, "adopt"),
        !.wins = {p \in Planned(S, "remote_wins") : Seen(p) = None /\ base[p] \in Versions},
        !.adp = {<<p, local[p]>> :
                    p \in {q \in Planned(S, "conflict_remote_wins") : Seen(q) # None}},
        !.copies = {c[1] : c \in Losers(S)}]

(* Copying makes the directory as well. *)
CopyLosers(S) ==
    /\ nas' = Overlay(nas, Losers(S))
    /\ nasDirs' = nasDirs \cup {c[1][1] : c \in Losers(S)}

(* A chunk of new files only, none of them on the NAS, is staged. *)
Stageable(C) ==
    /\ job.try
    /\ C # {} /\ C = Planned(C, "upload")
    /\ \A p \in C : Remote(p).kind = "absent" /\ base[p] \notin Versions

BuildPlan ==
    LET renames == DirRenames(job.chunk) \cup FileRenames(job.chunk)
        rest == job.chunk \ UNION {PathsOf(r) : r \in renames}
    IN  /\ job.at = "plan"
        /\ CopyLosers(rest)
        /\ job' = IF job.try /\ renames = {} /\ Stageable(job.chunk)
                  THEN [job EXCEPT !.at = "staged", !.sent = {<<p, Seen(p)>> : p \in job.chunk}]
                  ELSE IF job.try THEN [job EXCEPT !.try = FALSE]
                  ELSE [WithPlan(rest) EXCEPT !.at = IF renames = {} THEN "settle" ELSE "rename",
                                              !.ren = renames]
        /\ UNCHANGED <<localVars, rec, oob>>

-----------------------------------------------------------------------------
(* A staged chunk. *)

(* After the upload into the private staging the sources are looked at again.  *)
StagedCheck ==
    LET changed == {c[1] : c \in {s \in job.sent : Seen(s[1]) # s[2]}}
    IN  /\ job.at = "staged"
        /\ IF changed = {}
           THEN job' = [job EXCEPT !.at = "publish"] /\ UNCHANGED marks
           ELSE marks' = marks \cup changed \cup {UnknownPath} /\ job' = Idle
        /\ UNCHANGED <<folder, store, events, history, remote>>

(* publish_staging: never over a file that differs; a batch that is there      *)
(* already is not journalled again.                                            *)
PublishStaged ==
    LET there == {s \in job.sent : nas[s[1]] # None}
        targets == {s[1] : s \in job.sent}
    IN  /\ job.at = "publish"
        /\ IF there = {} \/ (there = job.sent /\ \A s \in there : nas[s[1]] = s[2])
           THEN /\ nas' = Overlay(nas, job.sent)
                /\ nasDirs' = nasDirs \cup {p[1] : p \in targets}
                /\ rec' = IF there = {} THEN Overlay(rec, job.sent) ELSE rec
                /\ base' = Overlay(base, job.sent)
                /\ pending' = pending \ targets
                /\ job' = NextChunk
                /\ UNCHANGED marks
           ELSE Fails /\ UNCHANGED <<nas, nasDirs, rec, store>>
        /\ UNCHANGED <<folder, events, history, oob>>

-----------------------------------------------------------------------------
(* Renames, then the rest of the chunk. *)

Entries(r) ==
    IF r.kind = "FILE" THEN {<<r.src, r.dst>>} ELSE {<<p, Moved(p, r.dst)>> : p \in r.from}

NextRename(r) ==
    r \in job.ren /\ (r.kind = "FILE" => \A s \in job.ren : s.kind = "FILE")

(* The local side must still be what the plan saw. *)
StartRename(r) ==
    /\ job.at = "rename" /\ NextRename(r)
    /\ IF \A e \in Entries(r) : Seen(e[1]) = None /\ Seen(e[2]) = base[e[1]]
       THEN job' = [job EXCEPT !.at = "moving"] /\ UNCHANGED marks
       ELSE /\ marks' = marks \cup PathsOf(r)
            /\ job' = [job EXCEPT !.ren = @ \ {r}, !.failed = @ \cup PathsOf(r)]
    /\ UNCHANGED <<folder, store, events, history, remote>>

(* BROWSE_RENAME_V2: a file only if it is still the expected one; a directory  *)
(* with all it contains.  Never over something that exists.                    *)
Accepts(r) ==
    IF r.kind = "FILE" THEN nas[r.src] = r.v /\ nas[r.dst] = None
    ELSE r.src \in nasDirs /\ r.dst \notin nasDirs

MovedFiles(r) ==
    IF r.kind = "FILE" THEN {<<r.src, r.dst>>}
    ELSE {<<p, Moved(p, r.dst)>> : p \in {q \in Under(r.src) : nas[q] # None}}

(* What a directory takes along unknown to the rows, to a path of the plan     *)
(* where there was nothing: like a write behind its back, see OobWrite.        *)
Carried(r) == {<<m[2], nas[m[1]]>> : m \in {n \in MovedFiles(r) : n[2] \in job.adopt}}

RenameRemote(r) ==
    LET gone == {<<m[1], None>> : m \in MovedFiles(r)}
        came == {<<m[2], nas[m[1]]>> : m \in MovedFiles(r)}
        lost == {<<e[1], None>> : e \in Entries(r)}
        kept == {<<e[2], base[e[1]]>> : e \in Entries(r)}
        late == {e \in Entries(r) : Seen(e[1]) # None \/ Seen(e[2]) # base[e[1]]}
        settled == UNION {{e[1], e[2]} : e \in Entries(r) \ late}
        again == {IF Seen(e[1]) # None THEN e[1] ELSE e[2] : e \in late}
    IN  /\ job.at = "moving" /\ NextRename(r)
        /\ IF Accepts(r) /\ Valid
           THEN /\ nas' = Overlay(nas, gone \cup came)
                /\ nasDirs' = IF r.kind = "DIR" THEN (nasDirs \ {r.src}) \cup {r.dst}
                              ELSE nasDirs \cup {r.dst[1]}
                /\ rec' = Overlay(rec, gone \cup came)
                /\ base' = Overlay(base, lost \cup kept)
                /\ pending' = pending \ settled
                /\ marks' = marks \cup again
                /\ dropped' = dropped \cup {c[2] : c \in Carried(r)}
                /\ taken' = taken \cup Carried(r)
                /\ job' = [job EXCEPT !.at = "rename", !.ren = @ \ {r}, !.done = @ \cup PathsOf(r)]
           ELSE /\ marks' = marks \cup PathsOf(r)
                /\ job' = [job EXCEPT !.at = "rename", !.ren = @ \ {r}, !.failed = @ \cup PathsOf(r)]
                /\ UNCHANGED <<nas, nasDirs, rec, store, dropped, taken>>
        /\ UNCHANGED <<folder, events, used, happened, oob>>

(* Refused renames are planned again as uploads and deletions. *)
RenamesEnd ==
    LET again == job.chunk \ job.done
    IN  /\ job.at = "rename" /\ job.ren = {}
        /\ IF job.failed = {}
           THEN job' = [job EXCEPT !.at = "settle"] /\ UNCHANGED <<nas, nasDirs>>
           ELSE /\ CopyLosers(again)
                /\ job' = [WithPlan(again) EXCEPT !.at = "settle"]
        /\ UNCHANGED <<localVars, rec, oob>>

(* The NAS wins over a missing file: the deletion is forgotten, as a tombstone *)
(* in the rows.  Too many deletions stop the push.                             *)
Settle ==
    /\ job.at = "settle"
    /\ base' = Overlay(base, job.wins \X {None})
    /\ pending' = pending \ job.wins
    /\ IF job.dels + Cardinality(job.del) > MaxDeletes
       THEN Fails
       ELSE job' = [job EXCEPT !.at = "send"] /\ UNCHANGED marks
    /\ UNCHANGED <<folder, events, history, remote>>

(* rsync sends what the file is now, and fails if it has gone. *)
Send(p) ==
    /\ job.at = "send" /\ p \in job.up
    /\ IF Excluded(p)
       THEN job' = [job EXCEPT !.up = @ \ {p}] /\ UNCHANGED <<nas, nasDirs, marks>>
       ELSE IF Seen(p) = None
       THEN Fails /\ UNCHANGED <<nas, nasDirs>>
       ELSE /\ nas' = [nas EXCEPT ![p] = Seen(p)]
            /\ nasDirs' = nasDirs \cup {p[1]}
            /\ job' = [job EXCEPT !.up = @ \ {p}, !.sent = @ \cup {p}]
            /\ UNCHANGED marks
    /\ UNCHANGED <<folder, store, events, history, rec, oob>>

Sent ==
    /\ job.at = "send" /\ job.up = {}
    /\ job' = [job EXCEPT !.at = IF job.adp = {} THEN "delete" ELSE "adopt"]
    /\ UNCHANGED <<localVars, remote>>

\* mutant of WriteLocal: rsync without --backup-dir.
WriteLocalUnkept(S) ==
    /\ local' = Overlay(local, S)
    /\ dirs' = dirs \cup {s[1][1] : s \in {c \in S : c[2] # None}}
    /\ Touch({s[1] : s \in {c \in S : local[c[1]] # c[2]}})
    /\ UNCHANGED <<mounted, excluded, ltrash, gui>>

(* A worker writes files of the folder, as rsync and the trash do. *)
WriteLocal(S) ==
    /\ local' = Overlay(local, S)
    /\ dirs' = dirs \cup {s[1][1] : s \in {c \in S : c[2] # None}}
    /\ ltrash' = ltrash \cup {<<s[1], local[s[1]]>> :
                                s \in {c \in S : local[c[1]] \notin {None, c[2]}}}
    /\ Touch({s[1] : s \in {c \in S : local[c[1]] # c[2]}})
    /\ UNCHANGED <<mounted, excluded, gui>>

(* _adopt_remote_paths *)
AdoptRemote ==
    LET lost == {a[1] : a \in {c \in job.adp : Seen(c[1]) # c[2]}}
        won == {<<a[1], nas[a[1]]>> : a \in job.adp}
    IN  /\ job.at = "adopt"
        /\ IF lost # {} \/ \E a \in job.adp : Remote(a[1]).kind = "absent"
           THEN /\ marks' = marks \cup lost \cup {UnknownPath} /\ job' = Idle
                /\ UNCHANGED <<folder, events>>
           ELSE WriteLocal(won) /\ job' = [job EXCEPT !.at = "delete"] /\ UNCHANGED marks
        /\ UNCHANGED <<store, history, remote>>

(* checked_delete_remote: a file that is no longer the planned one stays.      *)
CheckedDelete ==
    LET gone == {d \in job.del : nas[d[1]] \in {d[2], None}}
        none == {d[1] : d \in gone} \X {None}
    IN  /\ job.at = "delete"
        /\ nas' = Overlay(nas, none)
        /\ rec' = Overlay(rec, none)
        /\ job' = [job EXCEPT !.at = "confirm", !.del = gone, !.dels = @ + Cardinality(gone)]
        /\ UNCHANGED <<localVars, nasDirs, oob>>

-----------------------------------------------------------------------------
(* The confirmation: what the NAS has is journalled and becomes the base. *)

Uploads == job.sent \cup {p \in job.adopt : Seen(p) # None}

Adopted == {a[1] : a \in job.adp}

Confirmable ==
    /\ \A p \in Uploads \cup job.copies : nas[p] # None
    /\ \A p \in Adopted : Remote(p).kind # "absent"

Confirm ==
    LET deleted == {d[1] : d \in job.del}
        newBase == {<<p, nas[p]>> : p \in Uploads \cup Adopted}
                     \cup ((deleted \cup (job.adopt \ Uploads)) \X {None})
        late == {p \in Uploads : Seen(p) # nas[p]}
        kept == Adopted \cup late \cup {p \in deleted : Seen(p) # None}
    IN  /\ job.at = "confirm"
        /\ IF Confirmable
           THEN /\ rec' = Overlay(rec, {<<p, nas[p]>> : p \in Uploads \cup job.copies})
                /\ base' = Overlay(base, newBase)
                /\ pending' = pending \ (job.chunk \ (job.done \cup kept))
                /\ marks' = marks \cup late
                /\ job' = NextChunk
           ELSE Fails /\ UNCHANGED <<rec, store>>
        /\ UNCHANGED <<folder, events, history, nas, nasDirs, oob>>

(* Any command or transfer of the push may fail. *)
PushFails ==
    /\ job.at # "idle"
    /\ Happens("fault")
    /\ Fails
    /\ UNCHANGED <<folder, store, events, used, dropped, remote>>

-----------------------------------------------------------------------------
(* The pull, in one step, when the local transfer lock is free. *)

Listed == {p \in Path : rec[p] \in Versions /\ base[p] # rec[p] /\ ~Excluded(p)}

NewTombstones == {p \in Path : rec[p] = None /\ base[p] \in Versions}

Outgoing ==
    {p \in IF pending # {} THEN pending ELSE Changed : ~Excluded(p)}

Defers(sweep) == DeleteEnabled /\ sweep /\ Outgoing # {}

(* rsync --update --delete of the whole folder. *)
Sweeps(p) ==
    /\ ~Excluded(p) /\ local[p] # nas[p]
    /\ CASE nas[p] = None -> DeleteEnabled
         [] local[p] = None -> TRUE
         [] OTHER -> Second[local[p]] <= Second[nas[p]]

Edited(p) ==
    base[p] \in Versions /\ local[p] \notin {None, base[p], rec[p]}

Pull(full) ==
    LET sweep == full \/ NewTombstones # {}
        gone == {p \in Listed : nas[p] = None}
        repaired == {p \in gone : local[p] \in {None, base[p]}}
        listed == Listed \ gone
        edited == {p \in listed : Edited(p)}
        fetched == IF edited = {} THEN listed ELSE {}
        swept == IF sweep THEN {p \in Path : Sweeps(p)} ELSE {}
    IN  /\ job.at \in {"idle", "chunk"}
        /\ marks = {} /\ Valid
        /\ full \/ Listed # {} \/ NewTombstones # {}
        /\ IF Defers(sweep)
           THEN marks' = {UnknownPath} /\ UNCHANGED <<folder, events, base, rec>>
           ELSE /\ WriteLocal({<<p, nas[p]>> : p \in swept \cup fetched})
                /\ marks' = edited \cup (gone \ repaired)
                /\ rec' = Overlay(rec, gone \X {None})
                /\ base' = Overlay(base, (repaired \X {None})
                                     \cup {<<p, nas[p]>> : p \in swept \cup fetched})
        /\ UNCHANGED <<pending, history, nas, nasDirs, oob, job>>

-----------------------------------------------------------------------------
(* Other clients, under the lease, and programs that know nothing of it. *)

Took(f, paths) == taken' = taken \cup {<<p, f[p]>> : p \in paths}

Leased == job.at \in {"rename", "moving", "settle", "send", "adopt", "delete", "confirm"}

OtherWrite(p, v) ==
    /\ ~Leased
    /\ v \notin used /\ used' = used \cup {v}
    /\ Happens("other")
    /\ nas' = [nas EXCEPT ![p] = v]
    /\ nasDirs' = nasDirs \cup {p[1]}
    /\ rec' = [rec EXCEPT ![p] = v]
    /\ Drop({nas[p]})
    /\ Took(nas, {p})
    /\ UNCHANGED <<folder, store, watch, oob, job>>

OtherDelete(p) ==
    /\ ~Leased
    /\ nas[p] # None
    /\ Happens("otherdel")
    /\ nas' = [nas EXCEPT ![p] = None]
    /\ rec' = [rec EXCEPT ![p] = None]
    /\ Drop({nas[p]})
    /\ Took(nas, {p})
    /\ UNCHANGED <<folder, store, watch, used, nasDirs, oob, job>>

(* A push that has already planned the path may replace what is written so;    *)
(* rsync --backup keeps it in the trash of the NAS.                            *)
OobWrite(p, v) ==
    /\ v \notin used /\ used' = used \cup {v}
    /\ Happens("oob")
    /\ nas' = [nas EXCEPT ![p] = v]
    /\ nasDirs' = nasDirs \cup {p[1]}
    /\ oob' = oob \cup {p}
    /\ dropped' = dropped \cup ({nas[p]} \ {None}) \cup IF p \in job.chunk THEN {v} ELSE {}
    /\ taken' = taken \cup {<<p, nas[p]>>} \cup IF p \in job.chunk THEN {<<p, v>>} ELSE {}
    /\ UNCHANGED <<folder, store, watch, rec, job>>

Crash ==
    /\ Restart
    /\ job' = Idle
    /\ UNCHANGED remote

-----------------------------------------------------------------------------
PushAct ==
    \/ \E U \in {{}} \cup {{p} : p \in Resolved} : PushTick(U)
    \/ \E C \in SUBSET job.todo : PickChunk(C)
    \/ PushEnds \/ BuildPlan \/ StagedCheck \/ PublishStaged
    \/ \E r \in job.ren : StartRename(r)
    \/ RenamesEnd \/ Settle
    \/ \E p \in job.up : Send(p)
    \/ Sent \/ AdoptRemote \/ CheckedDelete \/ Confirm

OtherAct ==
    \E p \in Dirs \X {Plain} :
        OtherDelete(p) \/ \E v \in Versions : OtherWrite(p, v) \/ OobWrite(p, v)

(* What the user takes away; a volume that goes while a push runs takes all.   *)
Local ==
    /\ Took(local, {p \in Path : local'[p] # local[p] \/ (mounted # mounted' /\ job.at # "idle")})
    /\ UNCHANGED <<remote, job>>

Next ==
    \/ UserAct /\ Local
    \/ ResolverAct /\ Local
    \/ (\E e \in events : Notice(e)) /\ UNCHANGED <<remote, taken, job>>
    \/ (PushAct \/ PushFails \/ Crash \/ \E full \in BOOLEAN : Pull(full)) /\ UNCHANGED taken
    \/ \E r \in job.ren : RenameRemote(r)
    \/ OtherAct

Spec == Init /\ [][Next]_vars

-----------------------------------------------------------------------------
(* Types of the variables; a push that waits has no plan.                      *)
TypeOK ==
    /\ LocalTypeOK
    /\ nas \in [Path -> Contents]
    /\ \A p \in Path : nas[p] # None => p[1] \in nasDirs
    /\ rec \in [Path -> Contents \cup {Unknown}]
    /\ job.at \in Steps
    /\ job.without \subseteq excluded
    /\ job.at \in {"idle", "chunk"} => job.chunk = {}

(* A push has the right to what it does: through plans made earlier, chunks,   *)
(* renames, conflicts and retries, a path of the NAS loses a content only if   *)
(* somebody took that very content away from it, or from the conflict copy     *)
(* that keeps it, or the content is on the NAS still (push_worker.py           *)
(* _build_plan, _run_renames, checked_delete_remote).                          *)
NasKeeps ==
    [][\A p \in Path : nas[p] \notin {None, nas'[p]} =>
         \/ nas[p] \in Contained(nas)'
         \/ \E q \in {p, CopyPath(p, nas[p])} : <<q, nas[p]>> \in taken']_vars

(* No content is lost: unless somebody replaced or deleted it, it is in the    *)
(* folder, on the NAS, in the local trash or in the hands of the resolver      *)
(* (conflicts.py resolve_conflict, trash.py, pull_worker.py).                  *)
NothingLost ==
    used \ dropped \subseteq Contained(local) \cup Contained(nas)
                               \cup {c[2] : c \in ltrash} \cup {gui.tmp}

(* No change is forgotten: a file with no queue row, mark, event or operation  *)
(* left to bring it up again is the one of its base (push_worker.py            *)
(* clear_pending, watcher.py, engine.py _reconcile_watcher).  Not so for what  *)
(* was on a volume while it was not mounted, as it comes back without an       *)
(* event, and for the files missing from a directory that was moved away and   *)
(* made again, as its one event is read as of the new directory.               *)
Hidden(p) ==
    \/ "unmount" \in happened
    \/ "movedir" \in happened /\ p[1] \in dirs /\ local[p] = None

Untriggered(p) ==
    /\ gui.at = "idle" /\ job.at = "idle"
    /\ {UnknownPath, p, p[1]} \cap marks = {} /\ {p, p[1]} \cap events = {}
    /\ p \notin pending /\ ~Excluded(p) /\ p \notin oob

InStep ==
    \A p \in Changed : ~Untriggered(p) \/ Hidden(p)

(* A folder taken out of selective sync is safe on the NAS, whatever happens   *)
(* to its local copy and whatever the queue still holds: a push that begins    *)
(* later touches none of its files (rsync_ops.py path_is_excluded).            *)
ExcludedKept ==
    [][job # job' => \A d \in job.without : \A p \in Under(d) : nas'[p] = nas[p]]_vars
=============================================================================
