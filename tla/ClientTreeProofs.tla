--------------------------- MODULE ClientTreeProofs ---------------------------
(* Proofs about a push over the whole folder: its types, the folders it must   *)
(* leave alone, that it takes no content from the NAS or from the client that  *)
(* nobody replaced or deleted, and that no change of a file is forgotten.      *)
EXTENDS ClientTree, FiniteSetTheorems, TLAPS

(* The contents of the client: in the folder, in its trash, or dropped.        *)
Safe == dropped \cup Contained(local) \cup {c[2] : c \in ltrash}

(* A path holds a content locally, or somebody took it away from there.        *)
Free(p, c) == local[p] = c \/ <<p, c>> \in taken

(* A conflict copy is named after its content.                                 *)
Fits(p, c) == p[2] \in Versions => c \in {None, p[2]}

Staged == job.at \in {"staged", "publish"}

Renames ==
    [kind : {"FILE"}, from : SUBSET Path, src : Path, dst : Path, v : Versions]
      \cup [kind : {"DIR"}, from : SUBSET Path, src : Dirs, dst : Dirs, v : {None}]

-----------------------------------------------------------------------------
(* The inductive invariant. *)

GuiFields ==
    [at : {"idle", "copied", "moved", "clean"}, orig : Path \cup {<<>>}, moved : BOOLEAN,
     todo : SUBSET Path, tmp : Contents]

LocalInv ==
    /\ LocalTypeOK
    /\ gui \in GuiFields
    /\ gui.at # "idle" => gui.orig \in Dirs \X {Plain}
    /\ Contained(local) \cup {c[2] : c \in ltrash} \cup ({gui.tmp} \ {None}) \subseteq used

NasInv ==
    /\ nas \in [Path -> Contents]
    /\ nasDirs \subseteq Dirs
    /\ \A p \in Path : nas[p] # None => p[1] \in nasDirs
    /\ rec \in [Path -> Contents \cup {Unknown}]
    /\ Contained(nas) \subseteq used
    /\ taken \subseteq Path \X (used \cup {None})

JobFields ==
    job = [at |-> job.at, todo |-> job.todo, new |-> job.new, without |-> job.without,
           chunk |-> job.chunk, dirEv |-> job.dirEv, try |-> job.try, ren |-> job.ren,
           done |-> job.done, failed |-> job.failed, up |-> job.up, del |-> job.del,
           adopt |-> job.adopt, wins |-> job.wins, adp |-> job.adp,
           copies |-> job.copies, sent |-> job.sent, dels |-> job.dels]

(* What a push works on.                                                       *)
JobInv ==
    /\ JobFields
    /\ job.at \in Steps
    /\ job.without \subseteq excluded
    /\ job.at = "idle" => job.without = {}
    /\ job.todo \subseteq Path /\ job.chunk \subseteq Path
    /\ \A p \in job.todo \cup job.chunk : p[1] \notin job.without
    /\ job.dirEv \subseteq Dirs /\ job.dirEv \cap job.without = {}
    /\ job.at \in {"idle", "chunk"} => job.chunk = {}

(* Its plan is one of the paths of the chunk.                                  *)
PlanInv ==
    /\ job.up \subseteq job.chunk /\ job.adopt \subseteq job.chunk
    /\ job.done \subseteq Path /\ job.wins \subseteq job.chunk
    /\ job.del \subseteq job.chunk \X Contents
    /\ job.adp \subseteq job.chunk \X Versions
    /\ Staged => job.sent \subseteq job.chunk \X used
    /\ ~Staged => job.sent \subseteq job.chunk
    /\ job.at \notin {"staged", "publish", "send", "adopt", "delete", "confirm"} => job.sent = {}
    /\ job.at \in {"adopt", "delete", "confirm"} => job.up = {}
    /\ job.at \notin {"rename", "moving"} => job.ren = {}
    /\ ~Leased => job.up = {} /\ job.del = {} /\ job.adopt = {} /\ job.adp = {}

PlanPaths == job.up \cup job.adopt \cup {a[1] : a \in job.adp}

(* Its renames keep apart from each other and from the plan.                   *)
RenameInv ==
    \A r \in job.ren :
        /\ r \in Renames
        /\ PathsOf(r) \cap PlanPaths = {}
        /\ r.kind = "FILE" => r.src \in job.chunk /\ r.dst \in job.chunk
        /\ r.kind = "DIR" => /\ r.src \in job.dirEv /\ r.dst \in job.dirEv
                             /\ r.from \subseteq Under(r.src)
                             /\ job.up \cap Under(r.dst) = {}
        /\ \A s \in job.ren : \A e \in Entries(r), f \in Entries(s) : e[2] # f[1]

TypeInv == LocalInv /\ NasInv /\ JobInv /\ PlanInv /\ RenameInv

(* Names.                                                                      *)
NameInv ==
    /\ \A p \in Path : Fits(p, local[p]) /\ Fits(p, nas[p])
    /\ \A c \in ltrash : Fits(c[1], c[2])
    /\ Staged => \A s \in job.sent : Fits(s[1], s[2])
    /\ \A r \in job.ren : r.kind = "FILE" => Fits(r.dst, r.v)

(* What somebody took away is safe, and all else is there.                     *)
SafeInv ==
    /\ \A t \in taken : t[2] \in Safe \cup {None}
    /\ used \subseteq Safe \cup Contained(nas)

(* The base of a path is there or was taken away, and so is all of a volume    *)
(* that went while a push ran.                                                 *)
BaseInv ==
    /\ job.at # "idle" /\ ~mounted => \A p \in Path : local[p] = None \/ <<p, local[p]>> \in taken
    /\ \A p \in Path : base[p] \in Versions => Free(p, base[p])

(* So is what a push has sent.                                                 *)
SentInv ==
    /\ Staged => \A s \in job.sent : Free(s[1], s[2])
    /\ ~Staged => \A p \in job.sent : nas[p] = None \/ Free(p, nas[p])

(* What a plan will replace or delete was taken away, or is kept in a copy.    *)
Replaceable(p) ==
    \/ nas[p] = None \/ <<p, nas[p]>> \in taken
    \/ nas[CopyPath(p, nas[p])] = nas[p] \/ <<CopyPath(p, nas[p]), nas[p]>> \in taken

SettledInv ==
    /\ \A p \in job.up : Replaceable(p)
    /\ \A d \in job.del : d[2] = None \/ d \in taken
    /\ \A p \in job.adopt : nas[p] = None \/ Free(p, nas[p]) \/ p[2] \in Versions
    /\ \A a \in job.adp :
           /\ base[a[1]] \in Versions => <<a[1], base[a[1]]>> \in taken
           /\ job.at \in {"delete", "confirm"} => nas[a[1]] = None \/ Free(a[1], nas[a[1]])
    /\ \A r \in job.ren :
           /\ r.kind = "FILE" => <<r.src, r.v>> \in taken
           /\ \A e \in Entries(r) : base[e[1]] \in Versions => Free(e[2], base[e[1]])

TreeInv == TypeInv /\ NameInv /\ SafeInv /\ BaseInv /\ SentInv /\ SettledInv

-----------------------------------------------------------------------------
(* Paths, and maps of files. *)

\* A path is a directory and a name; the paths that belong to it keep one.
LEMMA PathParts ==
    /\ \A p \in Path : p[1] \in Dirs /\ p[2] \in Names /\ p = <<p[1], p[2]>>
    /\ \A d \in Dirs, n \in Names : <<d, n>> \in Path
    /\ \A p \in Path, d \in Dirs : Moved(p, d) \in Path /\ Moved(p, d)[1] = d /\ Moved(p, d)[2] = p[2]
    /\ \A p \in Path, v \in Versions :
         CopyPath(p, v) \in Path /\ CopyPath(p, v)[1] = p[1] /\ CopyPath(p, v)[2] = v
    /\ \A d \in Dirs : \A p : p \in Under(d) <=> p \in Path /\ p[1] = d
    /\ \A p \in Dirs \X {Plain} : p \in Path /\ p[2] = Plain
    /\ \A p \in Path : Original(p) \in Dirs \X {Plain}
BY DEF Path, Names, Moved, CopyPath, Under, Original

\* The plain name is no conflict copy, and no file is no content.
LEMMA Apart ==
    /\ Plain \notin Versions /\ None \notin Versions /\ Unknown \notin Versions
    /\ None # Unknown
    /\ Contents = Versions \cup {None}
BY FolderAssumption, ReconcileAssumption DEF Contents

\* Overlay takes a content it is given for a path, or leaves the path alone.
LEMMA OverlayAt ==
    ASSUME NEW f, NEW S, NEW p \in Path
    PROVE  \/ <<p, Overlay(f, S)[p]>> \in S /\ Overlay(f, S)[p] \in Contents
           \/ Overlay(f, S)[p] = f[p] /\ \A c \in Contents : <<p, c>> \notin S
<1>1. CASE \E c \in Contents : <<p, c>> \in S
  <2>1. Overlay(f, S)[p] = CHOOSE c \in Contents : <<p, c>> \in S
    BY <1>1 DEF Overlay
  <2> QED BY <1>1, <2>1
<1>2. CASE ~\E c \in Contents : <<p, c>> \in S
  BY <1>2 DEF Overlay
<1> QED BY <1>1, <1>2

\* Overlay gives a map of the same kind.
LEMMA OverlayType ==
    ASSUME NEW X, Contents \subseteq X, NEW f \in [Path -> X], NEW S
    PROVE  Overlay(f, S) \in [Path -> X]
<1>1. Overlay(f, S) = [p \in Path |-> Overlay(f, S)[p]]
  BY DEF Overlay
<1>2. ASSUME NEW p \in Path PROVE Overlay(f, S)[p] \in X
  <2>1. f[p] \in X
    OBVIOUS
  <2>2. Overlay(f, S)[p] \in Contents \/ Overlay(f, S)[p] = f[p]
    BY OverlayAt
  <2> QED BY <2>1, <2>2
<1> QED BY <1>1, <1>2

\* A single file put into the folder.
LEMMA PutAt ==
    ASSUME NEW p \in Path, NEW c \in Contents
    PROVE  \A q \in Path : Put(p, c)[q] = IF q = p THEN c ELSE local[q]
<1> TAKE q \in Path
<1> DEFINE S == {<<p, c>>}
<1>1. Put(p, c) = Overlay(local, S)
  BY DEF Put
<1>2. \A x : <<q, x>> \in S <=> q = p /\ x = c
  OBVIOUS
<1> HIDE DEF S
<1>3. \/ <<q, Overlay(local, S)[q]>> \in S
      \/ Overlay(local, S)[q] = local[q] /\ \A x \in Contents : <<q, x>> \notin S
  BY OverlayAt
<1> QED BY <1>1, <1>2, <1>3

\* A bounded event is one of the known kinds.
LEMMA HappensKind == ASSUME NEW k, Happens(k) PROVE happened' \subseteq Kinds
<1>1. \A s \in Scenarios : s \subseteq Kinds
  BY FolderAssumption
<1>2. PICK s \in Scenarios : happened \cup {k} \subseteq s
  BY DEF Happens
<1>3. happened' = happened \cup {k}
  BY DEF Happens
<1> QED BY <1>1, <1>2, <1>3

-----------------------------------------------------------------------------
(* What happens in the folder. *)

(* The files of the folder change and nothing safe is lost.                    *)
FilesMove ==
    /\ local' \in [Path -> Contents]
    /\ dirs' \subseteq Dirs
    /\ \A p \in Path : local'[p] # None => p[1] \in dirs'
    /\ \A p \in Path : Fits(p, local'[p])
    /\ \A p \in Path : local[p] \in Safe' \cup {None}
    /\ \A p \in Path : local'[p] \in used' \cup {None}

(* The trash, what was dropped and what exists.                                *)
TrashMoves ==
    /\ ltrash' \subseteq Path \X used'
    /\ \A c \in ltrash' : Fits(c[1], c[2])
    /\ \A c \in ltrash : c[2] \in Safe'
    /\ dropped \subseteq dropped' /\ dropped' \subseteq used'
    /\ used \subseteq used' /\ used' \subseteq Versions

(* The rest of the client has its types.                                       *)
RestTypes ==
    /\ mounted' \in BOOLEAN
    /\ excluded \subseteq excluded' /\ excluded' \subseteq Dirs
    /\ base' \in [Path -> Contents \cup {Unknown}]
    /\ pending' \subseteq Path
    /\ events' \subseteq Path \cup Dirs
    /\ marks' \subseteq Path \cup Dirs \cup {UnknownPath}
    /\ gui' \in GuiFields
    /\ gui'.at # "idle" => gui'.orig \in Dirs \X {Plain}
    /\ gui'.tmp \in used' \cup {None}
    /\ happened' \subseteq Kinds

(* What the user and the resolver do to it.                                    *)
RestMoves ==
    /\ mounted' \in BOOLEAN
    /\ excluded \subseteq excluded' /\ excluded' \subseteq Dirs
    /\ base' = base /\ pending' \subseteq Path
    /\ events' \subseteq Path \cup Dirs
    /\ marks' \subseteq Path \cup Dirs \cup {UnknownPath}
    /\ gui' \in GuiFields
    /\ gui'.at # "idle" => gui'.orig \in Dirs \X {Plain}
    /\ gui'.tmp \in used \cup {None}
    /\ happened' \subseteq Kinds
    /\ used' \subseteq used \cup Contained(local)'
    /\ mounted' # mounted \/ ~mounted => local' = local

FolderStep == FilesMove /\ TrashMoves /\ RestMoves

\* The parts of the types of the client.
LEMMA LocalParts ==
    ASSUME LocalInv
    PROVE  /\ local \in [Path -> Contents] /\ dirs \subseteq Dirs /\ mounted \in BOOLEAN
           /\ \A p \in Path : local[p] # None => p[1] \in dirs
           /\ excluded \subseteq Dirs /\ base \in [Path -> Contents \cup {Unknown}]
           /\ pending \subseteq Path /\ events \subseteq Path \cup Dirs
           /\ marks \subseteq Path \cup Dirs \cup {UnknownPath}
           /\ ltrash \subseteq Path \X Versions
           /\ used \subseteq Versions /\ dropped \subseteq used
           /\ happened \subseteq Kinds
           /\ gui \in GuiFields /\ gui.tmp \in used \cup {None}
           /\ gui.at # "idle" => gui.orig \in Dirs \X {Plain}
           /\ \A p \in Path : local[p] \in used \cup {None}
           /\ \A c \in ltrash : c[2] \in used
           /\ Contained(local) = {local[p] : p \in Path} \ {None}
<1>1. LocalTypeOK /\ gui \in GuiFields /\ gui.tmp \in used \cup {None}
      /\ (gui.at # "idle" => gui.orig \in Dirs \X {Plain})
      /\ Contained(local) \subseteq used /\ {c[2] : c \in ltrash} \subseteq used
  BY DEF LocalInv
<1>2. local \in [Path -> Contents]
  BY <1>1 DEF LocalTypeOK
<1>3. \A p \in Path : local[p] \in Versions \cup {None}
  BY <1>2, Apart
<1>4. Contained(local) = {local[p] : p \in Path} \ {None}
  BY <1>3, Apart DEF Contained
<1>5. \A p \in Path : local[p] \in used \cup {None}
  BY <1>1, <1>3, <1>4
<1>6. \A c \in ltrash : c[2] \in used
  BY <1>1
<1>7. /\ local \in [Path -> Contents] /\ dirs \subseteq Dirs /\ mounted \in BOOLEAN
      /\ \A p \in Path : local[p] # None => p[1] \in dirs
      /\ excluded \subseteq Dirs /\ base \in [Path -> Contents \cup {Unknown}]
      /\ pending \subseteq Path /\ events \subseteq Path \cup Dirs
      /\ marks \subseteq Path \cup Dirs \cup {UnknownPath}
      /\ ltrash \subseteq Path \X Versions
      /\ used \subseteq Versions /\ dropped \subseteq used
      /\ happened \subseteq Kinds
  BY <1>1 DEF LocalTypeOK
<1> QED BY <1>1, <1>4, <1>5, <1>6, <1>7

\* What is safe after a step.
LEMMA SafeNow ==
    /\ \A v \in dropped : v \in Safe
    /\ \A c \in ltrash : c[2] \in Safe
    /\ \A p \in Path : local[p] \in Versions => local[p] \in Safe
    /\ \A v \in Safe : v \in dropped \/ (\E p \in Path : v = local[p] /\ v \in Versions)
                         \/ \E c \in ltrash : v = c[2]
BY DEF Safe, Contained

\* What is safe in the next state.
LEMMA SafeNext ==
    /\ \A v \in dropped' : v \in Safe'
    /\ \A c \in ltrash' : c[2] \in Safe'
    /\ \A p \in Path : local'[p] \in Versions => local'[p] \in Safe'
BY DEF Safe, Contained

\* The files stay.
LEMMA FilesStay ==
    ASSUME LocalInv, NameInv, UNCHANGED <<local, dirs>>, used \subseteq used'
    PROVE  FilesMove
<1>1. \A p \in Path : local[p] \in Versions => local[p] \in Safe'
  BY SafeNext
<1>2. \A p \in Path : Fits(p, local[p])
  BY DEF NameInv
<1>3. \A p \in Path : Fits(p, local'[p])
  BY <1>2
<1> QED BY <1>1, <1>3, LocalParts, Apart DEF FilesMove

\* The trash stays.
LEMMA TrashStays ==
    ASSUME LocalInv, NameInv, UNCHANGED ltrash, used \subseteq used', used' \subseteq Versions,
           dropped \subseteq dropped', dropped' \subseteq used'
    PROVE  TrashMoves
<1>1. \A c \in ltrash' : c[2] \in Safe'
  BY SafeNext
<1>2. \A c \in ltrash : Fits(c[1], c[2])
  BY DEF NameInv
<1>3. ltrash \subseteq Path \X Versions /\ \A c \in ltrash : c[2] \in used
  BY LocalParts
<1>4. ltrash' \subseteq Path \X used'
  BY <1>3
<1> QED BY <1>1, <1>2, <1>4, LocalParts DEF TrashMoves

\* A file is put, and what it replaces is safe.
LEMMA FilePut ==
    ASSUME LocalInv, NameInv, NEW p \in Path, NEW c \in Contents, Fits(p, c),
           local' = Put(p, c), dirs \subseteq dirs', dirs' \subseteq Dirs,
           c # None => p[1] \in dirs', used \subseteq used',
           c \in used' \cup {None}, local[p] \in Safe' \cup {None, c}
    PROVE  FilesMove
<1>1. \A q \in Path : local'[q] = IF q = p THEN c ELSE local[q]
  BY PutAt
<1>2. local' \in [Path -> Contents]
  <2>1. local \in [Path -> Contents]
    BY LocalParts
  <2>2. Put(p, c) \in [Path -> Contents]
    BY <2>1, OverlayType DEF Put
  <2> QED BY <2>2
<1>3. \A q \in Path : local'[q] \in Versions => local'[q] \in Safe'
  BY SafeNext
<1>4. ASSUME NEW q \in Path PROVE local[q] \in Safe' \cup {None}
  <2>1. CASE q = p
    BY <2>1, <1>1, <1>3, Apart
  <2>2. CASE q # p
    BY <2>2, <1>1, <1>3, LocalParts, Apart
  <2> QED BY <2>1, <2>2
<1>5. ASSUME NEW q \in Path PROVE Fits(q, local'[q])
  <2>1. Fits(q, local[q])
    BY DEF NameInv
  <2> QED BY <2>1, <1>1
<1>6. \A q \in Path : local'[q] # None => q[1] \in dirs'
  BY <1>1, LocalParts
<1>7. \A q \in Path : local'[q] \in used' \cup {None}
  BY <1>1, LocalParts
<1> QED BY <1>2, <1>4, <1>5, <1>6, <1>7 DEF FilesMove

\* The client's user writes a file.
LEMMA WriteStep ==
    ASSUME LocalInv, NameInv, NEW p \in Dirs \X {Plain}, NEW v \in Versions, UserWrite(p, v)
    PROVE  FolderStep
<1> USE DEF UserWrite
<1>1. p \in Path /\ p[1] \in Dirs /\ Fits(p, v)
  BY PathParts, Apart DEF Fits
<1>2. local[p] \in used \cup {None} /\ dropped \subseteq used /\ used \subseteq Versions
  BY <1>1, LocalParts
<1>3. dropped' = dropped \cup ({local[p]} \ {None}) /\ used' = used \cup {v}
  BY DEF Drop
<1>4. FilesMove
  <2>1. local[p] \in Safe' \cup {None}
    BY <1>3, SafeNext
  <2>2. v \in Contents /\ v \in used' /\ used \subseteq used'
    BY <1>3, Apart
  <2>3. dirs \subseteq dirs' /\ dirs' \subseteq Dirs /\ p[1] \in dirs'
    BY <1>1, LocalParts
  <2> QED BY <1>1, <2>1, <2>2, <2>3, FilePut
<1>5. TrashMoves
  <2>1. \A c \in ltrash' : c[2] \in Safe'
    BY SafeNext
  <2>2. \A c \in ltrash : Fits(c[1], c[2])
    BY DEF NameInv
  <2>3. ltrash' \subseteq Path \X used'
    BY <1>3, LocalParts
  <2> QED BY <1>2, <1>3, <2>1, <2>2, <2>3 DEF TrashMoves
<1>6. RestMoves
  <2>1. happened' \subseteq Kinds
    BY HappensKind
  <2>2. events' \subseteq Path \cup Dirs
    BY <1>1, LocalParts DEF Touch
  <2>3. v \in Contained(local)'
    <3>1. local'[p] = v
      BY <1>1, PutAt, Apart
    <3> QED BY <1>1, <3>1 DEF Contained
  <2> QED BY <1>3, <2>1, <2>2, <2>3, LocalParts DEF RestMoves, store
<1> QED BY <1>4, <1>5, <1>6 DEF FolderStep

\* The user moves a file.
LEMMA MoveStep ==
    ASSUME LocalInv, NameInv, NEW p \in Path, NEW d \in Dirs, UserMove(p, Moved(p, d))
    PROVE  FolderStep
<1> DEFINE q == Moved(p, d)
           S == {<<p, None>>, <<q, local[p]>>}
<1> USE DEF UserMove
<1>1. q \in Path /\ q[1] = d /\ q[2] = p[2]
  BY PathParts
<1>2. p # q /\ local[q] = None /\ local[p] # None /\ mounted
  OBVIOUS
<1>3. local \in [Path -> Contents] /\ local[p] \in Contents
  BY LocalParts
<1>4. /\ \A x : <<p, x>> \in S <=> x = None
      /\ \A x : <<q, x>> \in S <=> x = local[p]
      /\ \A r \in Path : r # p /\ r # q => \A x : <<r, x>> \notin S
  BY <1>2
<1>5. local' = Overlay(local, S)
  OBVIOUS
<1> HIDE DEF S, q
<1>6. local'[p] = None
  BY <1>4, <1>5, OverlayAt, Apart
<1>7. local'[q] = local[p]
  BY <1>1, <1>3, <1>4, <1>5, OverlayAt
<1>8. ASSUME NEW r \in Path, r # p, r # q PROVE local'[r] = local[r]
  BY <1>4, <1>5, <1>8, OverlayAt
<1>9. \A r \in Path : local'[r] \in Versions => local'[r] \in Safe'
  BY SafeNext
<1>10. FilesMove
  <2>1. local' \in [Path -> Contents]
    BY <1>3, <1>5, OverlayType
  <2>2. ASSUME NEW r \in Path PROVE local[r] \in Safe' \cup {None}
    <3>1. CASE r = p
      BY <3>1, <1>1, <1>3, <1>7, <1>9, Apart
    <3>2. CASE r = q
      BY <3>2, <1>2
    <3>3. CASE r # p /\ r # q
      BY <3>3, <1>3, <1>8, <1>9, Apart
    <3> QED BY <3>1, <3>2, <3>3
  <2>3. ASSUME NEW r \in Path PROVE Fits(r, local'[r])
    <3>1. Fits(p, local[p]) /\ Fits(r, local[r])
      BY DEF NameInv
    <3>2. Fits(p, None) /\ Fits(q, local[p])
      BY <3>1, <1>1 DEF Fits
    <3> QED BY <3>1, <3>2, <1>6, <1>7, <1>8
  <2>4. dirs' = dirs \cup {d}
    BY <1>1 DEF q
  <2>5. dirs' \subseteq Dirs /\ \A r \in Path : local'[r] # None => r[1] \in dirs'
    BY <2>4, <1>1, <1>6, <1>7, <1>8, LocalParts
  <2>6. \A r \in Path : local'[r] \in used' \cup {None}
    BY <1>6, <1>7, <1>8, LocalParts
  <2> QED BY <2>1, <2>2, <2>3, <2>5, <2>6 DEF FilesMove
<1>11. TrashMoves
  <2>1. dropped' \subseteq used /\ dropped \subseteq dropped'
    BY LocalParts DEF Drop
  <2> QED BY <2>1, TrashStays, LocalParts
<1>12. RestMoves
  <2>1. happened' \subseteq Kinds
    BY HappensKind
  <2>2. events' \subseteq Path \cup Dirs
    <3>1. events' = events \cup {p, q} \cup ({q[1]} \ dirs)
      BY DEF Touch, q
    <3> QED BY <3>1, <1>1, LocalParts
  <2> QED BY <1>2, <2>1, <2>2, LocalParts DEF RestMoves, store
<1> QED BY <1>10, <1>11, <1>12 DEF FolderStep

\* The user moves a directory.
LEMMA MoveDirStep ==
    ASSUME LocalInv, NameInv, NEW d \in Dirs, NEW e \in Dirs, UserMoveDir(d, e)
    PROVE  FolderStep
<1> USE DEF UserMoveDir
<1>1. d \in dirs /\ e \notin dirs /\ d # e /\ mounted
  OBVIOUS
<1>2. \A p \in Path : local'[p] = CASE p[1] = d -> None
                                    [] p[1] = e -> local[Moved(p, d)]
                                    [] OTHER -> local[p]
  OBVIOUS
<1>3. \A r \in Path : local'[r] \in Versions => local'[r] \in Safe'
  BY SafeNext
<1>4. \A p \in Path : Moved(p, d) \in Path /\ Moved(p, d)[2] = p[2]
  BY PathParts
<1>5. FilesMove
  <2>1. ASSUME NEW r \in Path PROVE local'[r] \in Contents
    BY <1>2, <1>4, LocalParts, Apart
  <2>2. local' \in [Path -> Contents]
    BY <2>1
  <2>3. ASSUME NEW r \in Path PROVE local[r] \in Safe' \cup {None}
    <3>1. CASE r[1] = d
      <4>1. Moved(r, e) \in Path /\ Moved(r, e)[1] = e /\ Moved(Moved(r, e), d) = r
        BY <3>1, PathParts DEF Moved
      <4>2. local'[Moved(r, e)] = local[r]
        BY <4>1, <1>1, <1>2
      <4> QED BY <4>1, <4>2, <1>3, LocalParts, Apart
    <3>2. CASE r[1] = e
      BY <3>2, <1>1, LocalParts
    <3>3. CASE r[1] # d /\ r[1] # e
      BY <3>3, <1>2, <1>3, LocalParts, Apart
    <3> QED BY <3>1, <3>2, <3>3
  <2>4. ASSUME NEW r \in Path PROVE Fits(r, local'[r])
    <3>1. Fits(Moved(r, d), local[Moved(r, d)]) /\ Fits(r, local[r])
      BY <1>4 DEF NameInv
    <3> QED BY <3>1, <1>2, <1>4 DEF Fits
  <2>5. dirs' \subseteq Dirs
    BY LocalParts
  <2>6. ASSUME NEW r \in Path, local'[r] # None PROVE r[1] \in dirs'
    BY <2>6, <1>1, <1>2, LocalParts
  <2>7. \A r \in Path : local'[r] \in used' \cup {None}
    BY <1>2, <1>4, LocalParts
  <2> QED BY <2>2, <2>3, <2>4, <2>5, <2>6, <2>7 DEF FilesMove
<1>6. TrashMoves
  <2>1. Under(d) \subseteq Path
    BY PathParts
  <2>2. dropped' \subseteq used /\ dropped \subseteq dropped'
    BY <2>1, LocalParts DEF Drop
  <2> QED BY <2>2, TrashStays, LocalParts
<1>7. RestMoves
  <2>1. happened' \subseteq Kinds
    BY HappensKind
  <2>2. events' \subseteq Path \cup Dirs
    BY LocalParts DEF Touch
  <2> QED BY <1>1, <2>1, <2>2, LocalParts DEF RestMoves, store
<1> QED BY <1>5, <1>6, <1>7 DEF FolderStep

\* The user deletes files.
LEMMA DeleteStep ==
    ASSUME LocalInv, NameInv, NEW S, S \subseteq Path, UserDelete(S)
    PROVE  FolderStep
<1> USE DEF UserDelete
<1>1. local' = Overlay(local, S \X {None}) /\ mounted
  OBVIOUS
<1>2. \A p \in Path : local'[p] = IF p \in S THEN None ELSE local[p]
  <2> DEFINE Z == S \X {None}
  <2>1. \A p \in Path, c \in Contents : <<p, c>> \in Z <=> p \in S /\ c = None
    OBVIOUS
  <2> HIDE DEF Z
  <2>2. ASSUME NEW p \in Path PROVE Overlay(local, Z)[p] = IF p \in S THEN None ELSE local[p]
    <3>1. \/ <<p, Overlay(local, Z)[p]>> \in Z /\ Overlay(local, Z)[p] \in Contents
          \/ Overlay(local, Z)[p] = local[p] /\ \A c \in Contents : <<p, c>> \notin Z
      BY OverlayAt
    <3>2. p \in S => <<p, None>> \in Z
      BY <2>1, Apart
    <3> QED BY <2>1, <3>1, <3>2, Apart
  <2> QED BY <1>1, <2>2 DEF Z
<1>3. dropped' = dropped \cup ({local[p] : p \in S} \ {None})
  BY DEF Drop
<1>4. FilesMove
  <2>1. local' \in [Path -> Contents]
    BY <1>1, LocalParts, OverlayType
  <2>2. ASSUME NEW r \in Path PROVE local[r] \in Safe' \cup {None}
    <3>1. CASE r \in S
      BY <3>1, <1>3, SafeNext
    <3>2. CASE r \notin S
      BY <3>2, <1>2, SafeNext, LocalParts, Apart
    <3> QED BY <3>1, <3>2
  <2>3. ASSUME NEW r \in Path PROVE Fits(r, local'[r])
    <3>1. Fits(r, local[r])
      BY DEF NameInv
    <3> QED BY <3>1, <1>2 DEF Fits
  <2>4. dirs' \subseteq Dirs /\ \A r \in Path : local'[r] # None => r[1] \in dirs'
    BY <1>2, LocalParts
  <2>5. \A r \in Path : local'[r] \in used' \cup {None}
    BY <1>2, LocalParts
  <2> QED BY <2>1, <2>2, <2>3, <2>4, <2>5 DEF FilesMove
<1>5. TrashMoves
  <2>1. dropped' \subseteq used /\ dropped \subseteq dropped'
    BY <1>3, LocalParts
  <2> QED BY <2>1, TrashStays, LocalParts
<1>6. RestMoves
  <2>1. happened' \subseteq Kinds
    BY HappensKind
  <2>2. events' \subseteq Path \cup Dirs
    BY LocalParts DEF Touch
  <2> QED BY <1>1, <2>1, <2>2, LocalParts DEF RestMoves, store
<1> QED BY <1>4, <1>5, <1>6 DEF FolderStep

\* A folder is taken out of selective sync.
LEMMA ExcludeStep ==
    ASSUME LocalInv, NameInv, NEW d \in Dirs, Exclude(d)
    PROVE  FolderStep
<1> USE DEF Exclude
<1>1. FilesMove
  BY FilesStay
<1>2. TrashMoves
  <2>1. Under(d) \subseteq Path
    BY PathParts
  <2>2. dropped' \subseteq used /\ dropped \subseteq dropped'
    BY <2>1, LocalParts DEF Drop
  <2> QED BY <2>2, TrashStays, LocalParts
<1>3. RestMoves
  <2>1. happened' \subseteq Kinds
    BY HappensKind
  <2> QED BY <2>1, LocalParts DEF RestMoves, store, watch
<1> QED BY <1>1, <1>2, <1>3 DEF FolderStep

\* The volume goes away, or comes back.
LEMMA MountStep ==
    ASSUME LocalInv, NameInv, Unmount \/ Remount
    PROVE  FolderStep
<1>1. /\ UNCHANGED <<local, dirs, excluded, ltrash, gui, base, pending, events, marks, used, dropped>>
      /\ mounted' \in BOOLEAN
  BY DEF Unmount, Remount, store, watch, history
<1>2. happened' \subseteq Kinds
  <2>1. CASE Unmount
    BY <2>1, HappensKind DEF Unmount
  <2>2. CASE Remount
    BY <2>2, LocalParts DEF Remount, history
  <2> QED BY <2>1, <2>2
<1>3. FilesMove
  BY <1>1, FilesStay
<1>4. TrashMoves
  BY <1>1, TrashStays, LocalParts
<1>5. RestMoves
  BY <1>1, <1>2, LocalParts DEF RestMoves
<1> QED BY <1>3, <1>4, <1>5 DEF FolderStep

\* The folder is moved to an empty one.
LEMMA RelocateStep ==
    ASSUME LocalInv, NameInv, Relocate
    PROVE  FolderStep
<1> USE DEF Relocate
<1>1. dropped' = dropped \cup Contained(local)
  BY Apart DEF Drop, Contained
<1>2. FilesMove
  <2>1. \A p \in Path : local'[p] = None
    OBVIOUS
  <2>2. \A p \in Path : local[p] \in Safe' \cup {None}
    BY <1>1, SafeNext, LocalParts
  <2>3. \A p \in Path : Fits(p, local'[p])
    BY <2>1 DEF Fits
  <2> QED BY <2>1, <2>2, <2>3, Apart DEF FilesMove
<1>3. TrashMoves
  <2>1. dropped' \subseteq used /\ dropped \subseteq dropped'
    BY <1>1, LocalParts
  <2> QED BY <2>1, TrashStays, LocalParts
<1>4. RestMoves
  <2>1. happened' \subseteq Kinds
    BY HappensKind
  <2> QED BY <2>1, LocalParts DEF RestMoves, store
<1> QED BY <1>2, <1>3, <1>4 DEF FolderStep

\* A version comes back from the trash.
LEMMA RestoreStep ==
    ASSUME LocalInv, NameInv, NEW c \in ltrash, Restore(c[1], c[2])
    PROVE  FolderStep
<1> DEFINE p == c[1]
           v == c[2]
<1> USE DEF Restore
<1>1. p \in Path /\ v \in Versions /\ v \in used /\ Fits(p, v)
  BY LocalParts DEF NameInv
<1>2. dropped' = dropped \cup (({local[p]} \ {v}) \ {None})
  BY DEF Drop
<1>3. FilesMove
  <2>1. local[p] \in Safe' \cup {None, v}
    BY <1>2, SafeNext
  <2>2. dirs \subseteq dirs' /\ dirs' \subseteq Dirs /\ p[1] \in dirs'
    BY <1>1, PathParts, LocalParts
  <2>3. v \in Contents /\ v \in used' /\ used' = used
    BY <1>1, Apart
  <2>4. local' = Put(p, v)
    OBVIOUS
  <2> HIDE DEF p, v
  <2> QED BY <1>1, <2>1, <2>2, <2>3, <2>4, FilePut
<1>4. TrashMoves
  <2>1. dropped' \subseteq used /\ dropped \subseteq dropped'
    BY <1>1, <1>2, LocalParts
  <2> QED BY <2>1, TrashStays, LocalParts
<1>5. RestMoves
  <2>1. happened' \subseteq Kinds
    BY HappensKind
  <2>2. events' \subseteq Path \cup Dirs
    <3>1. events' = events \cup ({p} \cup ({p[1]} \ dirs))
      BY DEF Touch
    <3>2. p \in Path /\ p[1] \in Dirs /\ events \subseteq Path \cup Dirs
      BY <1>1, PathParts, LocalParts
    <3> HIDE DEF p
    <3> QED BY <3>1, <3>2
  <2> QED BY <2>1, <2>2, LocalParts DEF RestMoves, store
<1> QED BY <1>3, <1>4, <1>5 DEF FolderStep

\* A version leaves the trash for good.
LEMMA PruneStep ==
    ASSUME LocalInv, NameInv, NEW c \in ltrash, Prune(c[1], c[2])
    PROVE  FolderStep
<1> USE DEF Prune
<1>1. c[2] \in used /\ c[2] \in Versions
  BY LocalParts
<1>2. dropped' = dropped \cup {c[2]} /\ ltrash' \subseteq ltrash /\ \A b \in ltrash : b \in ltrash' \/ b[2] = c[2]
  <2>1. c = <<c[1], c[2]>>
    BY LocalParts
  <2> QED BY <2>1, <1>1, Apart DEF Drop
<1>3. FilesMove
  BY FilesStay
<1>4. TrashMoves
  <2>1. \A b \in ltrash : b[2] \in Safe'
    BY <1>2, SafeNext
  <2>2. \A b \in ltrash : Fits(b[1], b[2])
    BY DEF NameInv
  <2>3. ltrash' \subseteq Path \X used'
    BY <1>2, LocalParts
  <2>4. dropped \subseteq dropped' /\ dropped' \subseteq used' /\ used' = used
    BY <1>1, <1>2, LocalParts
  <2> QED BY <1>2, <2>1, <2>2, <2>3, <2>4, LocalParts DEF TrashMoves
<1>5. RestMoves
  <2>1. happened' \subseteq Kinds
    BY HappensKind
  <2> QED BY <2>1, LocalParts DEF RestMoves, store, watch
<1> QED BY <1>3, <1>4, <1>5 DEF FolderStep

\* The resolver starts, ends or fails.
LEMMA DialogStep ==
    ASSUME LocalInv, NameInv,
           \/ \E p \in Path : \E q \in Under(p[1]) : ResolveStart(p, q)
           \/ ResolveDone \/ ResolveFails
    PROVE  FolderStep
<1>1. /\ UNCHANGED <<local, dirs, mounted, excluded, ltrash, base, events, marks, used, dropped>>
  BY DEF ResolveStart, ResolveDone, ResolveFails, store, watch, history
<1>2. Closed \in GuiFields /\ Closed.at = "idle" /\ Closed.tmp = None
  BY Apart DEF Closed, GuiFields
<1>3. /\ happened' \subseteq Kinds /\ pending' \subseteq Path /\ gui' \in GuiFields
      /\ gui'.at # "idle" => gui'.orig \in Dirs \X {Plain}
      /\ gui'.tmp \in used \cup {None}
  <2>1. ASSUME NEW p \in Path, NEW q \in Under(p[1]), ResolveStart(p, q) PROVE <1>3
    <3> USE <2>1 DEF ResolveStart
    <3>1. p \in Dirs \X {Plain} /\ q \in Path
      BY PathParts
    <3>2. Candidates(p) \subseteq Path
      BY PathParts DEF Candidates
    <3>3. local[q] \in used \cup {None} /\ local[q] \in Contents
      BY <3>1, LocalParts
    <3>4. gui' \in GuiFields
      BY <3>2, <3>3, Apart DEF GuiFields
    <3>5. happened' \subseteq Kinds
      BY HappensKind
    <3> QED BY <3>1, <3>3, <3>4, <3>5, LocalParts DEF store
  <2>2. CASE ResolveDone
    <3>1. gui.at # "idle" /\ gui' = Closed
      BY <2>2 DEF ResolveDone
    <3>2. gui.orig \in Path
      BY <3>1, LocalParts, PathParts
    <3> QED BY <1>2, <2>2, <3>1, <3>2, LocalParts DEF ResolveDone, history
  <2>3. CASE ResolveFails
    <3>1. happened' \subseteq Kinds
      BY <2>3, HappensKind DEF ResolveFails
    <3> QED BY <1>2, <2>3, <3>1, LocalParts DEF ResolveFails, store
  <2> QED BY <2>1, <2>2, <2>3
<1>4. FilesMove
  BY <1>1, FilesStay
<1>5. TrashMoves
  BY <1>1, TrashStays, LocalParts
<1>6. RestMoves
  BY <1>1, <1>3, LocalParts DEF RestMoves
<1> QED BY <1>4, <1>5, <1>6 DEF FolderStep

\* A file goes to the trash.
LEMMA TrashStep ==
    ASSUME LocalInv, NameInv, NEW p \in Path, ToTrash(p), dirs' = dirs,
           UNCHANGED <<mounted, excluded, store, marks, history>>,
           gui' \in GuiFields, gui'.orig = gui.orig, gui.at # "idle", gui'.tmp = gui.tmp
    PROVE  FolderStep
<1> USE DEF ToTrash, history, store
<1>1. ltrash' = ltrash \cup {<<q, local[q]>> : q \in {q \in {p} : local[q] # None}}
  BY DEF Trashed
<1>2. local[p] # None => ltrash' = ltrash \cup {<<p, local[p]>>}
  BY <1>1
<1>3. local[p] = None => ltrash' = ltrash
  BY <1>1
<1>4. local[p] \in used \cup {None}
  BY LocalParts
<1>5. FilesMove
  <2>1. local[p] \in Safe' \cup {None}
    <3>1. CASE local[p] # None
      <4> DEFINE c == <<p, local[p]>>
      <4>1. c \in ltrash' /\ c[2] = local[p]
        BY <3>1, <1>2
      <4> HIDE DEF c
      <4> QED BY <4>1, SafeNext
    <3> QED BY <3>1
  <2>2. Fits(p, None)
    BY DEF Fits
  <2> QED BY <2>1, <2>2, FilePut, LocalParts, Apart
<1>6. TrashMoves
  <2>1. Fits(p, local[p]) /\ \A c \in ltrash : Fits(c[1], c[2])
    BY DEF NameInv
  <2>2. \A c \in ltrash' : Fits(c[1], c[2])
    BY <2>1, <1>2, <1>3
  <2>3. ltrash' \subseteq Path \X used'
    <3>1. ltrash \subseteq Path \X used
      BY LocalParts
    <3>2. local[p] # None => <<p, local[p]>> \in Path \X used
      BY <1>4
    <3>3. used' = used
      OBVIOUS
    <3> QED BY <1>2, <1>3, <3>1, <3>2, <3>3
  <2>4. ltrash \subseteq ltrash'
    BY <1>1
  <2> QED BY <2>2, <2>3, <2>4, LocalParts, SafeNext DEF TrashMoves
<1>7. RestMoves
  <2>1. events' \subseteq Path \cup Dirs
    BY LocalParts DEF Touch
  <2> QED BY <2>1, LocalParts DEF RestMoves
<1> QED BY <1>5, <1>6, <1>7 DEF FolderStep

\* The resolver writes its choice.
LEMMA PlaceStep ==
    ASSUME LocalInv, NameInv, ResolvePlace
    PROVE  FolderStep
<1> DEFINE p == gui.orig
           c == gui.tmp
<1> USE DEF ResolvePlace
<1>1. p \in Path /\ p[1] \in Dirs /\ p[2] = Plain /\ p \in Dirs \X {Plain}
  BY LocalParts, PathParts
<1>2. c \in Contents /\ c \in used \cup {None}
  BY LocalParts DEF GuiFields
<1>3. dropped' = dropped \cup (({local[p]} \ {c}) \ {None})
  BY DEF Drop
<1>4. Fits(p, c)
  BY <1>1, Apart DEF Fits
<1>5. FilesMove
  <2>1. local[p] \in Safe' \cup {None, c}
    BY <1>3, SafeNext
  <2>2. dirs \subseteq dirs' /\ dirs' \subseteq Dirs /\ p[1] \in dirs'
    BY <1>1, LocalParts
  <2>3. local' = Put(p, c) /\ used' = used
    OBVIOUS
  <2> HIDE DEF p, c
  <2> QED BY <1>1, <1>2, <1>4, <2>1, <2>2, <2>3, FilePut
<1>6. TrashMoves
  <2>1. dropped' \subseteq used /\ dropped \subseteq dropped'
    BY <1>1, <1>3, LocalParts
  <2> QED BY <2>1, TrashStays, LocalParts
<1>7. RestMoves
  <2>1. events' \subseteq Path \cup Dirs
    <3>1. events' = events \cup {p}
      BY DEF Touch
    <3> QED BY <3>1, <1>1, LocalParts
  <2>2. gui' \in GuiFields /\ gui'.orig = p /\ gui'.tmp = None
    BY LocalParts, Apart DEF GuiFields
  <2> QED BY <1>1, <2>1, <2>2, LocalParts DEF RestMoves, store
<1> QED BY <1>5, <1>6, <1>7 DEF FolderStep

\* Every step of the user or of the resolver is one of the folder.
LEMMA FolderSteps ==
    ASSUME LocalInv, NameInv, UserAct \/ ResolverAct
    PROVE  FolderStep
<1>1. CASE UserAct
  <2>1. ASSUME NEW p \in Dirs \X {Plain}, NEW v \in Versions, UserWrite(p, v) PROVE FolderStep
    BY <2>1, WriteStep
  <2>2. ASSUME NEW p \in Path, NEW d \in Dirs, UserMove(p, Moved(p, d)) PROVE FolderStep
    BY <2>2, MoveStep
  <2>3. ASSUME NEW d \in Dirs, NEW e \in Dirs, UserMoveDir(d, e) PROVE FolderStep
    BY <2>3, MoveDirStep
  <2>4. ASSUME NEW S \in SUBSET {p \in Path : local[p] # None}, UserDelete(S) PROVE FolderStep
    BY <2>4, DeleteStep
  <2>5. ASSUME NEW d \in Dirs, Exclude(d) PROVE FolderStep
    BY <2>5, ExcludeStep
  <2>6. CASE Unmount \/ Remount
    BY <2>6, MountStep
  <2>7. CASE Relocate
    BY <2>7, RelocateStep
  <2>8. ASSUME NEW c \in ltrash, Restore(c[1], c[2]) PROVE FolderStep
    BY <2>8, RestoreStep
  <2>9. ASSUME NEW c \in ltrash, Prune(c[1], c[2]) PROVE FolderStep
    BY <2>9, PruneStep
  <2>10. CASE \E p \in Path : \E q \in Under(p[1]) : ResolveStart(p, q)
    BY <2>10, DialogStep
  <2> QED BY <1>1, <2>1, <2>2, <2>3, <2>4, <2>5, <2>6, <2>7, <2>8, <2>9, <2>10 DEF UserAct
<1>2. CASE ResolverAct
  <2>1. CASE ResolveMove
    <3>1. gui' = [gui EXCEPT !.at = "moved"] /\ gui.at = "copied" /\ gui \in GuiFields
      BY <2>1, LocalParts DEF ResolveMove
    <3>2. gui' \in GuiFields /\ gui'.orig = gui.orig /\ gui'.tmp = gui.tmp /\ gui.at # "idle"
      BY <3>1 DEF GuiFields
    <3>3. gui.orig \in Path
      BY <3>2, LocalParts, PathParts
    <3>4. ToTrash(gui.orig) /\ dirs' = dirs /\ UNCHANGED <<mounted, excluded, store, marks, history>>
      BY <2>1 DEF ResolveMove
    <3> QED BY <3>2, <3>3, <3>4, TrashStep
  <2>2. ASSUME NEW q \in gui.todo, ResolveTrash(q) PROVE FolderStep
    <3>1. gui' = [gui EXCEPT !.todo = @ \ {q}] /\ gui.at = "clean" /\ gui \in GuiFields
      BY <2>2, LocalParts DEF ResolveTrash
    <3>2. gui' \in GuiFields /\ gui'.orig = gui.orig /\ gui'.tmp = gui.tmp /\ gui.at # "idle"
      BY <3>1 DEF GuiFields
    <3>3. q \in Path
      BY <3>1 DEF GuiFields
    <3>4. ToTrash(q) /\ dirs' = dirs /\ UNCHANGED <<mounted, excluded, store, marks, history>>
      BY <2>2 DEF ResolveTrash
    <3> QED BY <3>2, <3>3, <3>4, TrashStep
  <2>3. CASE ResolvePlace
    BY <2>3, PlaceStep
  <2>4. CASE ResolveDone \/ ResolveFails
    BY <2>4, DialogStep
  <2> QED BY <1>2, <2>1, <2>2, <2>3, <2>4 DEF ResolverAct
<1> QED BY <1>1, <1>2

\* The parts of a step of the client give its types.
LEMMA LocalTypes ==
    ASSUME FilesMove, TrashMoves, RestTypes
    PROVE  LocalInv'
<1>1. LocalTypeOK'
  <2>1. ltrash' \subseteq Path \X Versions
    BY DEF TrashMoves
  <2>2. /\ gui'.at \in {"idle", "copied", "moved", "clean"}
        /\ gui'.todo \subseteq Path /\ gui'.tmp \in Contents
    BY DEF RestTypes, GuiFields
  <2> QED BY <2>1, <2>2 DEF FilesMove, TrashMoves, RestTypes, LocalTypeOK
<1>2. Contained(local)' \subseteq used'
  BY Apart DEF FilesMove, Contained
<1>3. {c[2] : c \in ltrash'} \subseteq used'
  BY DEF TrashMoves
<1>4. ({gui.tmp} \ {None})' \subseteq used'
  BY DEF RestTypes
<1> QED BY <1>1, <1>2, <1>3, <1>4 DEF LocalInv, RestTypes

\* Nothing safe gets lost.
LEMMA SafeGrows ==
    ASSUME LocalInv, FilesMove, TrashMoves
    PROVE  Safe \subseteq Safe'
<1>1. ASSUME NEW v \in Safe PROVE v \in Safe'
  <2>1. CASE v \in dropped
    BY <2>1, SafeNext DEF TrashMoves
  <2>2. CASE \E p \in Path : v = local[p] /\ v \in Versions
    BY <2>2, Apart DEF FilesMove
  <2>3. CASE \E c \in ltrash : v = c[2]
    BY <2>3 DEF TrashMoves
  <2> QED BY <2>1, <2>2, <2>3, SafeNow
<1> QED BY <1>1

\* A step that leaves the folder alone.
LEMMA FolderRests ==
    ASSUME LocalInv, NameInv, UNCHANGED <<local, dirs, mounted, excluded, ltrash>>,
           gui' = gui \/ gui' = Closed,
           base' \in [Path -> Contents \cup {Unknown}], pending' \subseteq Path,
           events' \subseteq Path \cup Dirs,
           marks' \subseteq Path \cup Dirs \cup {UnknownPath}, happened' \subseteq Kinds,
           used \subseteq used', used' \subseteq Versions,
           dropped \subseteq dropped', dropped' \subseteq used'
    PROVE  FilesMove /\ TrashMoves /\ RestTypes
<1>1. FilesMove
  BY FilesStay
<1>2. TrashMoves
  BY TrashStays
<1>3. Closed \in GuiFields /\ Closed.at = "idle" /\ Closed.tmp = None
  BY Apart DEF Closed, GuiFields
<1>4. gui' \in GuiFields /\ (gui'.at # "idle" => gui'.orig \in Dirs \X {Plain})
      /\ gui'.tmp \in used' \cup {None}
  BY <1>3, LocalParts
<1> QED BY <1>1, <1>2, <1>4, LocalParts DEF RestTypes

\* What the user and the resolver do keeps the types.
LEMMA FolderStepTypes == ASSUME LocalInv, FolderStep PROVE RestTypes
BY LocalParts DEF FolderStep, RestMoves, RestTypes, TrashMoves

\* A worker writes files of the NAS into the folder.
LEMMA WriteLocalStep ==
    ASSUME LocalInv, NameInv, NEW S, S \subseteq Path \X (used \cup {None}),
           \A s, t \in S : s[1] = t[1] => s[2] = t[2],
           \A s \in S : Fits(s[1], s[2]), WriteLocal(S), UNCHANGED <<used, dropped>>
    PROVE  /\ FilesMove /\ TrashMoves
           /\ \A s \in S : local'[s[1]] = s[2]
           /\ \A p \in Path : (\A s \in S : s[1] # p) => local'[p] = local[p]
           /\ events' \subseteq Path \cup Dirs
<1> USE DEF WriteLocal
<1>1. \A s \in S : s[1] \in Path /\ s[2] \in used \cup {None} /\ s = <<s[1], s[2]>>
  OBVIOUS
<1>2. used \subseteq Versions /\ local \in [Path -> Contents]
  BY LocalParts
<1>3. ASSUME NEW s \in S PROVE local'[s[1]] = s[2]
  <2>1. s[1] \in Path /\ s[2] \in Contents /\ <<s[1], s[2]>> \in S
    BY <1>1, <1>2, Apart
  <2>2. \/ <<s[1], Overlay(local, S)[s[1]]>> \in S
        \/ \A c \in Contents : <<s[1], c>> \notin S
    BY <2>1, OverlayAt
  <2>3. <<s[1], Overlay(local, S)[s[1]]>> \in S
    BY <2>1, <2>2
  <2> QED BY <2>3
<1>4. ASSUME NEW p \in Path, \A s \in S : s[1] # p PROVE local'[p] = local[p]
  <2>1. \/ <<p, Overlay(local, S)[p]>> \in S
        \/ Overlay(local, S)[p] = local[p]
    BY OverlayAt
  <2>2. <<p, Overlay(local, S)[p]>> \notin S
    BY <1>4
  <2> QED BY <2>1, <2>2
<1>5. \A q \in Path : local'[q] \in Versions => local'[q] \in Safe'
  BY SafeNext
<1>6. \A s \in S : local[s[1]] \notin {None, s[2]} => <<s[1], local[s[1]]>> \in ltrash'
  OBVIOUS
<1>7. ASSUME NEW c \in ltrash' PROVE c \in ltrash \/ \E p \in Path : c = <<p, local[p]>> /\ local[p] # None
  BY <1>1
<1>8. FilesMove
  <2>1. local' \in [Path -> Contents]
    BY <1>2, OverlayType
  <2>2. ASSUME NEW p \in Path PROVE local[p] \in Safe' \cup {None}
    <3>1. CASE \A s \in S : s[1] # p
      BY <3>1, <1>2, <1>4, <1>5, Apart
    <3>2. ASSUME NEW s \in S, s[1] = p PROVE local[p] \in Safe' \cup {None}
      <4>1. CASE local[p] \in {None, s[2]}
        <5>1. local'[p] = s[2] /\ local'[p] \in Contents
          BY <2>1, <3>2, <1>3
        <5> QED BY <4>1, <5>1, <1>5, Apart
      <4>2. CASE local[p] \notin {None, s[2]}
        <5> DEFINE c == <<p, local[p]>>
        <5>1. c \in ltrash' /\ c[2] = local[p]
          BY <3>2, <4>2, <1>6
        <5> HIDE DEF c
        <5> QED BY <5>1, SafeNext
      <4> QED BY <4>1, <4>2
    <3> QED BY <3>1, <3>2
  <2>3. ASSUME NEW p \in Path
        PROVE  /\ Fits(p, local'[p]) /\ local'[p] \in used' \cup {None}
               /\ local'[p] # None => p[1] \in dirs'
    <3>1. CASE \A s \in S : s[1] # p
      <4>1. Fits(p, local[p])
        BY DEF NameInv
      <4> QED BY <3>1, <4>1, <1>4, LocalParts
    <3>2. ASSUME NEW s \in S, s[1] = p
                 PROVE  /\ Fits(p, local'[p]) /\ local'[p] \in used' \cup {None}
                        /\ local'[p] # None => p[1] \in dirs'
      <4>1. local'[p] = s[2] /\ Fits(p, s[2]) /\ s[2] \in used \cup {None}
        BY <3>2, <1>1, <1>3
      <4>2. s[2] # None => p[1] \in dirs'
        BY <3>2
      <4> QED BY <4>1, <4>2
    <3> QED BY <3>1, <3>2
  <2>4. dirs' \subseteq Dirs
    <3>1. \A s \in S : s[1][1] \in Dirs
      BY <1>1, PathParts
    <3> QED BY <3>1, LocalParts
  <2> QED BY <2>1, <2>2, <2>3, <2>4 DEF FilesMove
<1>9. TrashMoves
  <2>1. \A c \in ltrash : Fits(c[1], c[2]) /\ c \in Path \X used
    BY LocalParts DEF NameInv
  <2>2. \A p \in Path : Fits(p, local[p]) /\ local[p] \in used \cup {None}
    BY LocalParts DEF NameInv
  <2>3. \A c \in ltrash' : Fits(c[1], c[2]) /\ c \in Path \X used'
    BY <2>1, <2>2, <1>7
  <2>4. ltrash \subseteq ltrash'
    OBVIOUS
  <2> QED BY <2>3, <2>4, SafeNext, LocalParts DEF TrashMoves
<1>10. events' \subseteq Path \cup Dirs
  BY <1>1, LocalParts DEF Touch
<1> QED BY <1>3, <1>4, <1>8, <1>9, <1>10

-----------------------------------------------------------------------------
(* What the push and the pull work on. *)

\* The parts of the types of the NAS and of a push.
LEMMA WorkParts ==
    ASSUME TypeInv
    PROVE  /\ nas \in [Path -> Contents] /\ nasDirs \subseteq Dirs
           /\ rec \in [Path -> Contents \cup {Unknown}]
           /\ \A p \in Path : nas[p] # None => p[1] \in nasDirs
           /\ \A p \in Path : nas[p] \in used \cup {None}
           /\ taken \subseteq Path \X (used \cup {None})
           /\ LocalInv /\ NasInv /\ JobInv /\ PlanInv /\ RenameInv
           /\ JobFields /\ job.at \in Steps
           /\ job.todo \subseteq Path /\ job.chunk \subseteq Path
           /\ job.up \subseteq Path /\ job.adopt \subseteq Path /\ job.wins \subseteq Path
           /\ job.done \subseteq Path
           /\ \A d \in job.del : d[1] \in Path /\ d[2] \in Contents /\ d = <<d[1], d[2]>>
           /\ \A a \in job.adp : a[1] \in Path /\ a[2] \in Versions /\ a = <<a[1], a[2]>>
           /\ Staged => \A s \in job.sent : s[1] \in Path /\ s[2] \in used /\ s = <<s[1], s[2]>>
           /\ ~Staged => job.sent \subseteq Path
           /\ \A r \in job.ren : r \in Renames
<1>1. LocalInv /\ NasInv /\ JobInv /\ PlanInv /\ RenameInv
  BY DEF TypeInv
<1>2. used \subseteq Versions
  BY <1>1, LocalParts
<1>3. nas \in [Path -> Contents] /\ \A p \in Path : nas[p] \in used \cup {None}
  BY <1>1, Apart DEF NasInv, Contained
<1>4. job.todo \subseteq Path /\ job.chunk \subseteq Path /\ JobFields /\ job.at \in Steps
  BY <1>1 DEF JobInv
<1>5. job.up \subseteq Path /\ job.adopt \subseteq Path /\ job.wins \subseteq Path /\ job.done \subseteq Path
  BY <1>1, <1>4 DEF PlanInv
<1>6. \A d \in job.del : d[1] \in Path /\ d[2] \in Contents /\ d = <<d[1], d[2]>>
  BY <1>1, <1>4 DEF PlanInv
<1>7. \A a \in job.adp : a[1] \in Path /\ a[2] \in Versions /\ a = <<a[1], a[2]>>
  BY <1>1, <1>4 DEF PlanInv
<1>8. Staged => \A s \in job.sent : s[1] \in Path /\ s[2] \in used /\ s = <<s[1], s[2]>>
  BY <1>1, <1>4 DEF PlanInv
<1>9. ~Staged => job.sent \subseteq Path
  BY <1>1, <1>4 DEF PlanInv
<1>10. \A r \in job.ren : r \in Renames
  BY <1>1 DEF RenameInv
<1>11. nasDirs \subseteq Dirs /\ rec \in [Path -> Contents \cup {Unknown}]
       /\ (\A p \in Path : nas[p] # None => p[1] \in nasDirs)
       /\ taken \subseteq Path \X (used \cup {None})
  BY <1>1 DEF NasInv
<1> HIDE DEF Staged
<1> QED BY <1>1, <1>3, <1>4, <1>5, <1>6, <1>7, <1>8, <1>9, <1>10, <1>11

\* A path is excluded with its directory.
LEMMA ExcludedPath ==
    /\ \A p \in Path : Excluded(p) <=> p[1] \in excluded
    /\ \A d \in Dirs : Excluded(d) <=> d \in excluded
<1>1. \A p \in Path : p \notin Dirs
  BY FolderAssumption
<1> QED BY <1>1 DEF Excluded, Top

\* What a rename moves.
LEMMA RenameTypes ==
    ASSUME NEW r \in Renames
    PROVE  /\ PathsOf(r) \subseteq Path
           /\ \A e \in Entries(r) : e[1] \in Path /\ e[2] \in Path /\ e = <<e[1], e[2]>>
           /\ \A m \in MovedFiles(r) : m[1] \in Path /\ m[2] \in Path /\ m = <<m[1], m[2]>>
           /\ r.kind \in {"FILE", "DIR"}
           /\ r.kind = "FILE" => r.src \in Path /\ r.dst \in Path /\ r.v \in Versions
           /\ r.kind = "DIR" => r.src \in Dirs /\ r.dst \in Dirs /\ r.from \subseteq Path
<1>1. CASE r.kind = "FILE"
  <2>1. r.src \in Path /\ r.dst \in Path /\ r.v \in Versions
    BY <1>1 DEF Renames
  <2> QED BY <1>1, <2>1 DEF PathsOf, Entries, MovedFiles
<1>2. CASE r.kind = "DIR"
  <2>1. r.src \in Dirs /\ r.dst \in Dirs /\ r.from \subseteq Path
    BY <1>2 DEF Renames
  <2>2. \A p \in Path : Moved(p, r.dst) \in Path
    BY <2>1, PathParts
  <2>3. Under(r.src) \subseteq Path
    BY <2>1, PathParts
  <2>4. Renaming(r) \subseteq Path
    BY <2>1, <2>2 DEF Renaming
  <2>5. Entries(r) = {<<p, Moved(p, r.dst)>> : p \in r.from}
    BY <1>2 DEF Entries
  <2>6. MovedFiles(r) = {<<p, Moved(p, r.dst)>> : p \in {q \in Under(r.src) : nas[q] # None}}
    BY <1>2 DEF MovedFiles
  <2>7. \A e \in Entries(r) : e[1] \in Path /\ e[2] \in Path /\ e = <<e[1], e[2]>>
    BY <2>1, <2>2, <2>5
  <2>8. \A m \in MovedFiles(r) : m[1] \in Path /\ m[2] \in Path /\ m = <<m[1], m[2]>>
    BY <2>2, <2>3, <2>6
  <2> QED BY <1>2, <2>1, <2>4, <2>7, <2>8 DEF PathsOf
<1>3. r.kind \in {"FILE", "DIR"}
  BY DEF Renames
<1> QED BY <1>1, <1>2, <1>3

\* What the NAS makes of a rename: the files move, with their rows; or nothing does.
RenameMoves(r) ==
    /\ Accepts(r)
    /\ nas' = Overlay(nas, {<<m[1], None>> : m \in MovedFiles(r)}
                             \cup {<<m[2], nas[m[1]]>> : m \in MovedFiles(r)})
    /\ nasDirs' = IF r.kind = "DIR" THEN (nasDirs \ {r.src}) \cup {r.dst}
                  ELSE nasDirs \cup {r.dst[1]}
    /\ \E S : rec' = Overlay(rec, S)
    /\ base' = Overlay(base, {<<e[1], None>> : e \in Entries(r)}
                               \cup {<<e[2], base[e[1]]>> : e \in Entries(r)})
    /\ pending' \subseteq pending
    /\ \A p \in marks' : p \in marks \/ \E e \in Entries(r) : p \in {e[1], e[2]}
    /\ dropped' = dropped \cup {c[2] : c \in Carried(r)}
    /\ taken' = taken \cup Carried(r)
    /\ job' = [job EXCEPT !.at = "rename", !.ren = @ \ {r}, !.done = @ \cup PathsOf(r)]

RenameRefused(r) ==
    /\ marks' = marks \cup PathsOf(r)
    /\ job' = [job EXCEPT !.at = "rename", !.ren = @ \ {r}, !.failed = @ \cup PathsOf(r)]
    /\ UNCHANGED <<nas, nasDirs, rec, base, pending, dropped, taken>>

\* The NAS moves the files of a rename, or the push refuses it.
LEMMA RenameCases ==
    ASSUME NEW r \in job.ren, RenameRemote(r)
    PROVE  /\ job.at = "moving" /\ NextRename(r)
           /\ UNCHANGED <<local, dirs, mounted, excluded, ltrash, gui, events, used, happened, oob>>
           /\ RenameMoves(r) \/ RenameRefused(r)
<1>1. CASE Accepts(r) /\ Valid
  <2> DEFINE late == {e \in Entries(r) : Seen(e[1]) # None \/ Seen(e[2]) # base[e[1]]}
             again == {IF Seen(e[1]) # None THEN e[1] ELSE e[2] : e \in late}
             settled == UNION {{e[1], e[2]} : e \in Entries(r) \ late}
  <2>1. marks' = marks \cup again /\ pending' = pending \ settled
    BY <1>1 DEF RenameRemote
  <2>2. \A p \in again : \E e \in Entries(r) : p \in {e[1], e[2]}
    OBVIOUS
  <2>3. \A p \in marks' : p \in marks \/ \E e \in Entries(r) : p \in {e[1], e[2]}
    BY <2>1, <2>2
  <2>4. pending' \subseteq pending
    BY <2>1
  <2> HIDE DEF late, again, settled
  <2> QED BY <1>1, <2>3, <2>4 DEF RenameRemote, RenameMoves, folder
<1>2. CASE ~(Accepts(r) /\ Valid)
  BY <1>2 DEF RenameRemote, RenameRefused, folder, store
<1> QED BY <1>1, <1>2

\* A tick finds paths outside of the excluded folders.
LEMMA TickPaths ==
    ASSUME LocalInv
    PROVE  /\ Resolved \subseteq Path
           /\ \A p \in Resolved : p[1] \notin excluded
           /\ {e \in Dirty : IsDirEvent(e)} \subseteq Dirs \ excluded
<1>1. ASSUME NEW e \in Dirty PROVE e \in Path \cup Dirs /\ ~Excluded(e)
  <2>1. Changed \subseteq Path /\ marks \subseteq Path \cup Dirs \cup {UnknownPath} /\ pending \subseteq Path
    BY LocalParts DEF Changed
  <2> QED BY <2>1 DEF Dirty
<1>2. ASSUME NEW e \in Dirty, NEW p \in Resolve(e) PROVE p \in Path /\ p[1] \notin excluded
  <2>1. CASE e \in Dirs
    <3>1. p \in Under(e)
      BY <2>1, <1>2 DEF Resolve
    <3> QED BY <2>1, <3>1, <1>1, PathParts, ExcludedPath
  <2>2. CASE e \notin Dirs
    <3>1. p = e
      BY <2>2, <1>2 DEF Resolve
    <3> QED BY <2>2, <3>1, <1>1, ExcludedPath
  <2> QED BY <2>1, <2>2
<1>3. ASSUME NEW e \in Dirty, IsDirEvent(e) PROVE e \in Dirs \ excluded
  BY <1>1, <1>3, ExcludedPath DEF IsDirEvent
<1> QED BY <1>2, <1>3 DEF Resolved

\* A step of the push or of the pull in the client.
ClientMoves == FilesMove /\ TrashMoves /\ RestTypes

\* The watcher, the faults and the other clients.
LEMMA OtherClient ==
    ASSUME TypeInv, NameInv,
           \/ \E e \in events : Notice(e)
           \/ PushFails \/ Crash \/ OtherAct
    PROVE  ClientMoves
<1>1. LocalInv
  BY WorkParts
<1>2. used \subseteq Versions /\ dropped \subseteq used /\ happened \subseteq Kinds
  BY <1>1, LocalParts
<1>3. ASSUME NEW e \in events, Notice(e) PROVE ClientMoves
  <2>1. events' \subseteq Path \cup Dirs /\ marks' \subseteq Path \cup Dirs \cup {UnknownPath}
    BY <1>1, <1>3, LocalParts DEF Notice
  <2> QED BY <1>1, <1>2, <1>3, <2>1, FolderRests, LocalParts DEF Notice, folder, store, history, ClientMoves
<1>4. CASE PushFails
  <2>1. marks' \subseteq Path \cup Dirs \cup {UnknownPath} /\ happened' \subseteq Kinds
    BY <1>1, <1>4, LocalParts, HappensKind DEF PushFails, Fails
  <2> QED BY <1>1, <1>2, <1>4, <2>1, FolderRests, LocalParts DEF PushFails, folder, store, ClientMoves
<1>5. CASE Crash
  <2>1. marks' \subseteq Path \cup Dirs \cup {UnknownPath} /\ happened' \subseteq Kinds /\ events' = {}
    BY <1>1, <1>5, LocalParts, HappensKind DEF Crash, Restart
  <2> QED BY <1>1, <1>2, <1>5, <2>1, FolderRests, LocalParts DEF Crash, Restart, store, ClientMoves
<1>6. CASE OtherAct
  <2>1. PICK p \in Dirs \X {Plain} :
          OtherDelete(p) \/ \E v \in Versions : OtherWrite(p, v) \/ OobWrite(p, v)
    BY <1>6 DEF OtherAct
  <2>2. p \in Path /\ nas[p] \in used \cup {None}
    BY WorkParts, PathParts
  <2>3. CASE OtherDelete(p)
    <3>1. happened' \subseteq Kinds /\ dropped' = dropped \cup ({nas[p]} \ {None})
      BY <2>3, HappensKind DEF OtherDelete, Drop
    <3> QED BY <1>1, <1>2, <2>2, <2>3, <3>1, FolderRests, LocalParts DEF OtherDelete, folder, store, watch, ClientMoves
  <2>4. ASSUME NEW v \in Versions, OtherWrite(p, v) PROVE ClientMoves
    <3>1. happened' \subseteq Kinds /\ dropped' = dropped \cup ({nas[p]} \ {None}) /\ used' = used \cup {v}
      BY <2>4, HappensKind DEF OtherWrite, Drop
    <3>2. dropped' \subseteq used' /\ used' \subseteq Versions
      BY <1>2, <2>2, <3>1
    <3> QED BY <1>1, <2>2, <2>4, <3>1, <3>2, FolderRests, LocalParts DEF OtherWrite, folder, store, watch, ClientMoves
  <2>5. ASSUME NEW v \in Versions, OobWrite(p, v) PROVE ClientMoves
    <3>1. happened' \subseteq Kinds /\ used' = used \cup {v}
          /\ dropped' = dropped \cup ({nas[p]} \ {None}) \cup IF p \in job.chunk THEN {v} ELSE {}
      BY <2>5, HappensKind DEF OobWrite
    <3>2. dropped \subseteq dropped' /\ dropped' \subseteq used' /\ used' \subseteq Versions
      BY <1>2, <2>2, <3>1
    <3> QED BY <1>1, <2>2, <2>5, <3>1, <3>2, FolderRests, LocalParts DEF OobWrite, folder, store, watch, ClientMoves
  <2> QED BY <2>1, <2>3, <2>4, <2>5
<1> QED BY <1>3, <1>4, <1>5, <1>6

\* The steps of a push that write no file of the folder.
LEMMA PushClient ==
    ASSUME TypeInv, NameInv,
           \/ \E U \in {{}} \cup {{p} : p \in Resolved} : PushTick(U)
           \/ \E C \in SUBSET job.todo : PickChunk(C)
           \/ PushEnds \/ BuildPlan \/ StagedCheck \/ PublishStaged
           \/ \E r \in job.ren : StartRename(r) \/ RenameRemote(r)
           \/ RenamesEnd \/ Settle
           \/ \E p \in job.up : Send(p)
           \/ Sent \/ CheckedDelete \/ Confirm
    PROVE  ClientMoves
<1>1. LocalInv
  BY WorkParts
<1>2. used \subseteq Versions /\ dropped \subseteq used /\ happened \subseteq Kinds
  BY <1>1, LocalParts
<1>3. base \in [Path -> Contents \cup {Unknown}] /\ \A S : Overlay(base, S) \in [Path -> Contents \cup {Unknown}]
  BY <1>1, LocalParts, OverlayType
<1>4. ASSUME UNCHANGED localVars PROVE ClientMoves
  BY <1>1, <1>2, <1>4, FolderRests, LocalParts DEF localVars, folder, store, watch, history, ClientMoves
<1>5. ASSUME UNCHANGED <<folder, events, used, dropped, happened>>,
             base' \in [Path -> Contents \cup {Unknown}], pending' \subseteq Path,
             marks' \subseteq Path \cup Dirs \cup {UnknownPath}
      PROVE  ClientMoves
  BY <1>1, <1>2, <1>5, FolderRests, LocalParts DEF folder, ClientMoves
<1>6. ASSUME NEW U \in {{}} \cup {{p} : p \in Resolved}, PushTick(U) PROVE ClientMoves
  <2>1. U \subseteq Path /\ happened' \subseteq Kinds
    BY <1>1, <1>2, <1>6, TickPaths, HappensKind DEF PushTick
  <2>2. pending' \subseteq Path
    BY <1>1, <1>6, TickPaths, LocalParts DEF PushTick
  <2>3. marks' \subseteq Path \cup Dirs \cup {UnknownPath}
    BY <1>6, <2>1 DEF PushTick
  <2> QED BY <1>1, <1>2, <1>6, <2>1, <2>2, <2>3, FolderRests, LocalParts DEF PushTick, folder, ClientMoves
<1>7. CASE \/ \E C \in SUBSET job.todo : PickChunk(C)
           \/ PushEnds \/ BuildPlan \/ RenamesEnd \/ Sent \/ CheckedDelete
  BY <1>4, <1>7 DEF PickChunk, PushEnds, BuildPlan, RenamesEnd, Sent, CheckedDelete
<1>8. CASE StagedCheck
  <2>1. job.at = "staged" => \A s \in job.sent : s[1] \in Path
    BY WorkParts DEF Staged
  <2>2. marks' \subseteq Path \cup Dirs \cup {UnknownPath}
    BY <1>1, <1>8, <2>1, LocalParts DEF StagedCheck
  <2> QED BY <1>1, <1>3, <1>5, <1>8, <2>2, LocalParts DEF StagedCheck, store, history
<1>9. CASE PublishStaged
  <2>1. base' \in [Path -> Contents \cup {Unknown}] /\ pending' \subseteq Path
    BY <1>1, <1>3, <1>9, LocalParts DEF PublishStaged, store
  <2>2. marks' \subseteq Path \cup Dirs \cup {UnknownPath}
    BY <1>1, <1>9, LocalParts DEF PublishStaged, Fails
  <2> QED BY <1>5, <1>9, <2>1, <2>2 DEF PublishStaged, history
<1>10. ASSUME NEW r \in job.ren, StartRename(r) PROVE ClientMoves
  <2>1. PathsOf(r) \subseteq Path
    BY WorkParts, RenameTypes
  <2>2. marks' \subseteq Path \cup Dirs \cup {UnknownPath}
    BY <1>1, <1>10, <2>1, LocalParts DEF StartRename
  <2> QED BY <1>1, <1>3, <1>5, <1>10, <2>2, LocalParts DEF StartRename, store, history
<1>11. ASSUME NEW r \in job.ren, RenameRemote(r) PROVE ClientMoves
  <2>1. r \in Renames
    BY WorkParts
  <2>2. PathsOf(r) \subseteq Path /\ \A e \in Entries(r) : e[1] \in Path /\ e[2] \in Path
    BY <2>1, RenameTypes
  <2>3. RenameMoves(r) \/ RenameRefused(r)
    BY <1>11, RenameCases
  <2>4. base' \in [Path -> Contents \cup {Unknown}] /\ pending' \subseteq Path
    BY <1>1, <1>3, <2>3, LocalParts DEF RenameMoves, RenameRefused
  <2>5. marks' \subseteq Path \cup Dirs \cup {UnknownPath}
    <3>1. marks \subseteq Path \cup Dirs \cup {UnknownPath}
      BY <1>1, LocalParts
    <3>2. CASE RenameMoves(r)
      BY <3>1, <3>2, <2>2 DEF RenameMoves
    <3>3. CASE RenameRefused(r)
      BY <3>1, <3>3, <2>2 DEF RenameRefused
    <3> QED BY <2>3, <3>2, <3>3
  <2>6. dropped \subseteq dropped' /\ dropped' \subseteq used
    <3>1. CASE UNCHANGED dropped
      BY <3>1, <1>2
    <3>2. CASE dropped' = dropped \cup {c[2] : c \in Carried(r)} /\ Accepts(r)
      <4>1. ASSUME NEW m \in MovedFiles(r) PROVE nas[m[1]] \in used
        <5>1. m[1] \in Path /\ m = <<m[1], m[2]>>
          BY <2>1, RenameTypes
        <5>2. nas[m[1]] # None
          <6>1. CASE r.kind = "FILE"
            BY <3>2, <6>1, <2>1, RenameTypes, Apart DEF Accepts, MovedFiles
          <6>2. CASE r.kind # "FILE"
            BY <6>2 DEF MovedFiles
          <6> QED BY <6>1, <6>2
        <5> QED BY <5>1, <5>2, WorkParts
      <4>2. \A c \in Carried(r) : c[2] \in used
        BY <4>1 DEF Carried
      <4> QED BY <3>2, <4>2, <1>2
    <3> QED BY <3>1, <3>2, <2>3 DEF RenameMoves, RenameRefused
  <2>7. UNCHANGED <<local, dirs, mounted, excluded, ltrash, gui, events, used, happened>>
    BY <1>11, RenameCases
  <2> QED BY <1>1, <1>2, <2>4, <2>5, <2>6, <2>7, FolderRests, LocalParts DEF ClientMoves
<1>12. CASE Settle
  <2>1. marks' \subseteq Path \cup Dirs \cup {UnknownPath} /\ pending' \subseteq Path
    BY <1>1, <1>12, LocalParts DEF Settle, Fails
  <2>2. base' \in [Path -> Contents \cup {Unknown}]
    BY <1>3, <1>12 DEF Settle
  <2> QED BY <1>5, <1>12, <2>1, <2>2 DEF Settle, history
<1>13. ASSUME NEW p \in job.up, Send(p) PROVE ClientMoves
  <2>1. marks' \subseteq Path \cup Dirs \cup {UnknownPath}
    BY <1>1, <1>13, LocalParts DEF Send, Fails
  <2> QED BY <1>1, <1>3, <1>5, <1>13, <2>1, LocalParts DEF Send, store, history
<1>14. CASE Confirm
  <2>1. Uploads \subseteq Path
    BY <1>14, WorkParts DEF Uploads, Confirm, Staged
  <2>2. marks' \subseteq Path \cup Dirs \cup {UnknownPath} /\ pending' \subseteq Path
    BY <1>1, <1>14, <2>1, LocalParts DEF Confirm, Fails, store
  <2>3. base' \in [Path -> Contents \cup {Unknown}]
    BY <1>3, <1>14 DEF Confirm, store
  <2> QED BY <1>5, <1>14, <2>2, <2>3 DEF Confirm, history
<1> QED BY <1>6, <1>7, <1>8, <1>9, <1>10, <1>11, <1>12, <1>13, <1>14

(* What the NAS has of some paths.                                             *)
Files(T) == {<<p, nas[p]>> : p \in T}

\* A pull or an adoption writes what the NAS has.
LEMMA WriteFiles ==
    ASSUME TypeInv, NameInv, NEW T, T \subseteq Path, WriteLocal(Files(T)), UNCHANGED <<used, dropped>>
    PROVE  /\ FilesMove /\ TrashMoves
           /\ \A p \in T : local'[p] = nas[p]
           /\ \A p \in Path \ T : local'[p] = local[p]
           /\ events' \subseteq Path \cup Dirs
<1> DEFINE S == Files(T)
<1>1. S \subseteq Path \X (used \cup {None})
  BY WorkParts DEF Files
<1>2. \A s, t \in S : s[1] = t[1] => s[2] = t[2]
  BY DEF Files
<1>3. \A s \in S : Fits(s[1], s[2])
  BY DEF NameInv, Files
<1>4. \A p \in T : <<p, nas[p]>> \in S
  BY DEF Files
<1>5. \A p \in Path \ T : \A s \in S : s[1] # p
  BY DEF Files
<1>6. LocalInv /\ WriteLocal(S)
  BY WorkParts
<1> HIDE DEF S
<1>7. /\ FilesMove /\ TrashMoves
      /\ \A s \in S : local'[s[1]] = s[2]
      /\ \A p \in Path : (\A s \in S : s[1] # p) => local'[p] = local[p]
      /\ events' \subseteq Path \cup Dirs
  BY <1>1, <1>2, <1>3, <1>6, WriteLocalStep
<1>8. ASSUME NEW p \in T PROVE local'[p] = nas[p]
  <2> DEFINE s == <<p, nas[p]>>
  <2>1. s \in S /\ s[1] = p /\ s[2] = nas[p]
    BY <1>4
  <2> HIDE DEF s
  <2> QED BY <2>1, <1>7
<1> QED BY <1>5, <1>7, <1>8

(* What a pull writes, and what it makes of the rows.                          *)
PullWrites(T) ==
    /\ WriteLocal(Files(T))
    /\ \E R \in SUBSET Path : base' = Overlay(base, (R \X {None}) \cup Files(T))
    /\ marks' \subseteq Path

\* A pull waits for the push, or writes some files.
LEMMA PullCases ==
    ASSUME NEW full \in BOOLEAN, Pull(full)
    PROVE  /\ job.at \in {"idle", "chunk"} /\ mounted
           /\ UNCHANGED <<pending, used, dropped, happened, nas, nasDirs, oob, job>>
           /\ rec' = rec \/ \E S : rec' = Overlay(rec, S)
           /\ \/ marks' = {UnknownPath} /\ UNCHANGED <<folder, events, base>>
              \/ \E T \in SUBSET Path : PullWrites(T)
<1> DEFINE sweep == full \/ NewTombstones # {}
           gone == {p \in Listed : nas[p] = None}
           repaired == {p \in gone : local[p] \in {None, base[p]}}
           listed == Listed \ gone
           edited == {p \in listed : Edited(p)}
           fetched == IF edited = {} THEN listed ELSE {}
           swept == IF sweep THEN {p \in Path : Sweeps(p)} ELSE {}
           T == swept \cup fetched
<1>1. job.at \in {"idle", "chunk"} /\ mounted
      /\ UNCHANGED <<pending, used, dropped, happened, nas, nasDirs, oob, job>>
  BY DEF Pull, Valid, history
<1>2. Listed \subseteq Path
  BY DEF Listed
<1>3. T \in SUBSET Path /\ repaired \in SUBSET Path /\ edited \cup (gone \ repaired) \subseteq Path
  BY <1>2
<1>4. CASE Defers(sweep)
  BY <1>1, <1>4 DEF Pull
<1>5. CASE ~Defers(sweep)
  <2>1. WriteLocal({<<p, nas[p]>> : p \in T}) /\ marks' = edited \cup (gone \ repaired)
    BY <1>5 DEF Pull
  <2>2. rec' = Overlay(rec, gone \X {None})
    BY <1>5 DEF Pull
  <2>3. base' = Overlay(base, (repaired \X {None}) \cup {<<p, nas[p]>> : p \in T})
    BY <1>5 DEF Pull
  <2> HIDE DEF T, repaired, gone, edited
  <2>4. PullWrites(T)
    BY <2>1, <2>3, <1>3 DEF PullWrites, Files
  <2> QED BY <2>2, <2>4, <1>1, <1>3
<1> QED BY <1>4, <1>5

\* The pull in the client.
LEMMA PullClient ==
    ASSUME TypeInv, NameInv, NEW full \in BOOLEAN, Pull(full)
    PROVE  ClientMoves
<1>1. LocalInv
  BY WorkParts
<1>2. UNCHANGED <<pending, used, dropped, happened>>
  BY PullCases
<1>3. CASE marks' = {UnknownPath} /\ UNCHANGED <<folder, events, base>>
  BY <1>1, <1>2, <1>3, FolderRests, LocalParts DEF folder, ClientMoves
<1>4. ASSUME NEW T \in SUBSET Path, PullWrites(T) PROVE ClientMoves
  <2>1. WriteLocal(Files(T)) /\ marks' \subseteq Path
    BY <1>4 DEF PullWrites
  <2>2. FilesMove /\ TrashMoves /\ events' \subseteq Path \cup Dirs
    BY <1>2, <2>1, WriteFiles
  <2>3. base' \in [Path -> Contents \cup {Unknown}]
    <3>1. \A S : Overlay(base, S) \in [Path -> Contents \cup {Unknown}]
      BY <1>1, LocalParts, OverlayType
    <3> QED BY <1>4, <3>1 DEF PullWrites
  <2>4. mounted' = mounted /\ excluded' = excluded /\ gui' = gui
    BY <2>1 DEF WriteLocal
  <2> QED BY <1>1, <1>2, <2>1, <2>2, <2>3, <2>4, LocalParts DEF RestTypes, ClientMoves
<1> QED BY <1>3, <1>4, PullCases

(* The paths whose local version lost.                                         *)
AdoptsFiles ==
    /\ WriteLocal(Files(Adopted))
    /\ job' = [job EXCEPT !.at = "delete"]
    /\ UNCHANGED marks

\* An adoption fails, or writes those files; they were as planned.
LEMMA AdoptCases ==
    ASSUME TypeInv, AdoptRemote
    PROVE  /\ job.at = "adopt" /\ Adopted \subseteq Path
           /\ UNCHANGED <<base, pending, used, dropped, happened, nas, nasDirs, rec, oob>>
           /\ \/ /\ job' = Idle /\ UNCHANGED <<folder, events>>
                 /\ marks' \subseteq marks \cup Path \cup {UnknownPath}
              \/ AdoptsFiles /\ (\A a \in job.adp : Seen(a[1]) = a[2])
<1> DEFINE lost == {a[1] : a \in {c \in job.adp : Seen(c[1]) # c[2]}}
           absent == \E a \in job.adp : Remote(a[1]).kind = "absent"
<1>1. job.at = "adopt" /\ UNCHANGED <<base, pending, used, dropped, happened, nas, nasDirs, rec, oob>>
  BY DEF AdoptRemote, store, history, remote
<1>2. Adopted \subseteq Path
  BY WorkParts DEF Adopted
<1>3. CASE lost # {} \/ absent
  <2>1. job' = Idle /\ UNCHANGED <<folder, events>> /\ marks' = marks \cup lost \cup {UnknownPath}
    BY <1>3 DEF AdoptRemote
  <2>2. lost \subseteq Path
    BY WorkParts
  <2> QED BY <1>1, <1>2, <2>1, <2>2
<1>4. CASE ~(lost # {} \/ absent)
  <2>1. WriteLocal({<<a[1], nas[a[1]]>> : a \in job.adp}) /\ job' = [job EXCEPT !.at = "delete"]
        /\ UNCHANGED marks
    BY <1>4 DEF AdoptRemote
  <2>2. {<<a[1], nas[a[1]]>> : a \in job.adp} = Files(Adopted)
    BY DEF Files, Adopted
  <2>3. \A a \in job.adp : Seen(a[1]) = a[2]
    BY <1>4
  <2> QED BY <1>1, <1>2, <2>1, <2>2, <2>3 DEF AdoptsFiles
<1> QED BY <1>3, <1>4

\* The adoption of the winners of the NAS keeps what is safe on the client.
LEMMA AdoptClient ==
    ASSUME TypeInv, NameInv, AdoptRemote
    PROVE  ClientMoves
<1>1. LocalInv
  BY WorkParts
<1>2. UNCHANGED <<base, pending, used, dropped, happened>>
  BY AdoptCases
<1>3. CASE job' = Idle /\ UNCHANGED <<folder, events>> /\ marks' \subseteq marks \cup Path \cup {UnknownPath}
  <2>1. marks' \subseteq Path \cup Dirs \cup {UnknownPath}
    BY <1>1, <1>3, LocalParts
  <2> QED BY <1>1, <1>2, <1>3, <2>1, FolderRests, LocalParts DEF folder, ClientMoves
<1>4. CASE AdoptsFiles
  <2>1. WriteLocal(Files(Adopted)) /\ marks' = marks
    BY <1>4 DEF AdoptsFiles
  <2>2. FilesMove /\ TrashMoves /\ events' \subseteq Path \cup Dirs
    BY <1>2, <2>1, WriteFiles, AdoptCases
  <2>3. mounted' = mounted /\ excluded' = excluded /\ gui' = gui
    BY <2>1 DEF WriteLocal
  <2> QED BY <1>1, <1>2, <2>1, <2>2, <2>3, LocalParts DEF RestTypes, ClientMoves
<1> QED BY <1>3, <1>4, AdoptCases

\* Every step moves the client in this way.
LEMMA NextClient ==
    ASSUME TypeInv, NameInv, Next
    PROVE  ClientMoves
<1>1. LocalInv
  BY WorkParts
<1>2. CASE UserAct \/ ResolverAct
  BY <1>1, <1>2, FolderSteps, FolderStepTypes DEF FolderStep, ClientMoves
<1>3. CASE (\E e \in events : Notice(e)) \/ PushFails \/ Crash \/ OtherAct
  BY <1>3, OtherClient
<1>4. CASE PushAct \/ \E r \in job.ren : RenameRemote(r)
  BY <1>4, PushClient, AdoptClient DEF PushAct
<1>5. CASE \E full \in BOOLEAN : Pull(full)
  BY <1>5, PullClient
<1> QED BY <1>2, <1>3, <1>4, <1>5 DEF Next

-----------------------------------------------------------------------------
(* Plans. *)

\* What a path has on the NAS, as plan_path sees it; without clocks.
LEMMA RemoteFacts ==
    /\ \A p \in Path :
         /\ Remote(p).v = nas[p] /\ Remote(p).vc = NoClock
         /\ Remote(p).kind \in {"file", "absent", "tombstone"}
         /\ Remote(p).kind = "file" <=> nas[p] # None
    /\ \A p \in Path : CausalWinner(NoClock, Remote(p)) = "none"
<1>1. \A p \in Path :
         /\ Remote(p).v = nas[p] /\ Remote(p).vc = NoClock
         /\ Remote(p).kind \in {"file", "absent", "tombstone"}
         /\ Remote(p).kind = "file" <=> nas[p] # None
  BY DEF Remote
<1>2. ~Dominates(NoClock, NoClock)
  BY DEF Dominates
<1> QED BY <1>1, <1>2 DEF CausalWinner

\* What an action of a plan says of the path, its base and its versions.
LEMMA ActFacts ==
    ASSUME TypeInv, NEW p \in Path
    PROVE  /\ Act(p) = "upload" =>
                /\ Seen(p) # None
                /\ nas[p] = None \/ (nas[p] = base[p] /\ nas[p] \in Versions /\ Seen(p) # nas[p])
           /\ Act(p) = "conflict_local_wins" => Seen(p) # None /\ nas[p] # None
           /\ Act(p) = "conflict_remote_wins" => (Seen(p) # None => (base[p] \in Versions => Seen(p) # base[p]))
           /\ Act(p) = "delete_remote" => Seen(p) = None /\ nas[p] = base[p] /\ nas[p] \in Versions
           /\ Act(p) = "adopt" => nas[p] = None \/ Seen(p) = nas[p]
<1> DEFINE b == base[p]
           l == Seen(p)
           r == Remote(p)
<1>1. /\ r.v = nas[p] /\ r.kind \in {"file", "absent", "tombstone"}
      /\ r.kind = "file" <=> r.v # None
      /\ CausalWinner(NoClock, r) = "none"
  BY RemoteFacts
<1>2. r.v \in Versions \cup {None} /\ b \in Versions \cup {None, Unknown}
  BY <1>1, WorkParts, LocalParts, Apart
<1>3. Act(p) = PlanPath(b, l, NoClock, r)
  BY DEF Act
<1> HIDE DEF b, l, r
<1>4. CASE l = None
  <2>1. PlanPath(b, l, NoClock, r) = PlanAbsent(b, NoClock, r)
    BY <1>1, <1>4 DEF PlanPath
  <2>2. PlanAbsent(b, NoClock, r) \in {"adopt", "remote_wins", "delete_remote"}
    BY DEF PlanAbsent
  <2>3. PlanAbsent(b, NoClock, r) = "adopt" => r.v = None
    BY <1>1, <1>2, Apart DEF PlanAbsent
  <2>4. PlanAbsent(b, NoClock, r) = "delete_remote" => r.v = b /\ r.v # None
    BY <1>1, <1>2, Apart DEF PlanAbsent
  <2> QED BY <1>1, <1>2, <1>3, <1>4, <2>1, <2>2, <2>3, <2>4 DEF b, l
<1>5. ASSUME l # None, b \notin Versions
      PROVE  /\ Act(p) = PlanNew(b, l, NoClock, r)
             /\ Act(p) = "upload" => r.v = None
             /\ Act(p) = "conflict_local_wins" => r.v # None
             /\ Act(p) # "delete_remote"
             /\ Act(p) = "adopt" => l = r.v
  <2>1. Act(p) = PlanNew(b, l, NoClock, r)
    BY <1>1, <1>3, <1>5 DEF PlanPath
  <2>2. Clash(l, NoClock, r) \in {"conflict_local_wins", "conflict_remote_wins"}
    BY DEF Clash
  <2>3. CASE r.kind = "file"
    BY <1>1, <2>1, <2>2, <2>3 DEF PlanNew
  <2>4. CASE r.kind = "absent"
    BY <1>1, <2>1, <2>4 DEF PlanNew
  <2>5. CASE r.kind = "tombstone"
    BY <1>1, <2>1, <2>5 DEF PlanNew
  <2> QED BY <1>1, <2>1, <2>3, <2>4, <2>5
<1>6. ASSUME l # None, b \in Versions
      PROVE  /\ Act(p) = PlanKnown(b, l, NoClock, r)
             /\ Act(p) = "upload" => r.v = b /\ l # r.v
             /\ Act(p) = "conflict_local_wins" => r.v # None
             /\ Act(p) = "conflict_remote_wins" => l # b
             /\ Act(p) # "delete_remote"
             /\ Act(p) = "adopt" => l = r.v
  <2>1. Act(p) = PlanKnown(b, l, NoClock, r)
    BY <1>1, <1>3, <1>6 DEF PlanPath
  <2>2. Clash(l, NoClock, r) \in {"conflict_local_wins", "conflict_remote_wins"}
    BY DEF Clash
  <2>3. CASE r.kind = "file"
    BY <1>1, <2>1, <2>2, <2>3 DEF PlanKnown
  <2>4. CASE r.kind # "file"
    BY <1>1, <2>1, <2>4 DEF PlanKnown
  <2> QED BY <1>1, <2>1, <2>3, <2>4
<1> QED BY <1>1, <1>2, <1>4, <1>5, <1>6 DEF b, l

\* The conflict copies of a plan: in the directories of its paths, named after
\* contents that exist.
LEMMA LoserFacts ==
    ASSUME TypeInv, NEW S, S \subseteq Path
    PROVE  /\ \A c \in Losers(S) :
                /\ c[1] \in Path /\ c[2] \in Versions /\ c[2] \in used
                /\ c = <<c[1], c[2]>> /\ c[1][2] = c[2]
                /\ \E p \in S : c[1][1] = p[1]
           /\ \A p \in Planned(S, "conflict_local_wins") : <<CopyPath(p, nas[p]), nas[p]>> \in Losers(S)
<1>1. Losers(S) = {<<CopyPath(p, nas[p]), nas[p]>> : p \in Planned(S, "conflict_local_wins")} \cup
                  {<<CopyPath(p, Seen(p)), Seen(p)>> :
                      p \in {q \in Planned(S, "conflict_remote_wins") : Seen(q) # None}}
  BY DEF Losers
<1>2. used \subseteq Versions /\ \A p \in Path : Seen(p) \in used \cup {None} /\ nas[p] \in used \cup {None}
  BY WorkParts, LocalParts DEF Seen
<1>3. ASSUME NEW p \in S, NEW v \in used
      PROVE  CopyPath(p, v) \in Path /\ CopyPath(p, v)[1] = p[1] /\ CopyPath(p, v)[2] = v
  BY <1>2, PathParts
<1>4. \A p \in Planned(S, "conflict_local_wins") : p \in S /\ nas[p] \in used
  BY <1>2, ActFacts DEF Planned
<1>5. \A p \in Planned(S, "conflict_remote_wins") : p \in S
  BY DEF Planned
<1>6. ASSUME NEW c \in Losers(S)
      PROVE  \E p \in S : \E v \in used : c = <<CopyPath(p, v), v>>
  BY <1>1, <1>2, <1>4, <1>5
<1>7. ASSUME NEW c \in Losers(S)
      PROVE  /\ c[1] \in Path /\ c[2] \in Versions /\ c[2] \in used
             /\ c = <<c[1], c[2]>> /\ c[1][2] = c[2]
             /\ \E p \in S : c[1][1] = p[1]
  <2>1. PICK p \in S : \E v \in used : c = <<CopyPath(p, v), v>>
    BY <1>6
  <2>2. PICK v \in used : c = <<CopyPath(p, v), v>>
    BY <2>1
  <2>3. c[1] = CopyPath(p, v) /\ c[2] = v
    BY <2>2
  <2> QED BY <1>2, <1>3, <2>2, <2>3
<1> QED BY <1>1, <1>7

\* The plan of some paths of the chunk is about them.
LEMMA PlanFields ==
    ASSUME TypeInv, NEW S, S \subseteq job.chunk
    PROVE  /\ WithPlan(S).up \subseteq S /\ WithPlan(S).adopt \subseteq S /\ WithPlan(S).wins \subseteq S
           /\ WithPlan(S).del \subseteq S \X Contents
           /\ WithPlan(S).adp \subseteq S \X Versions
           /\ WithPlan(S).up = Planned(S, "upload") \cup Planned(S, "conflict_local_wins")
           /\ WithPlan(S).del = {<<p, nas[p]>> : p \in Planned(S, "delete_remote")}
           /\ WithPlan(S).adopt = Planned(S, "adopt")
           /\ WithPlan(S).adp = {<<p, local[p]>> :
                    p \in {q \in Planned(S, "conflict_remote_wins") : Seen(q) # None}}
           /\ WithPlan(S).wins = {p \in Planned(S, "remote_wins") : Seen(p) = None /\ base[p] \in Versions}
<1>1. JobFields /\ job.chunk \subseteq Path
  BY WorkParts
<1>2. /\ WithPlan(S).up = Planned(S, "upload") \cup Planned(S, "conflict_local_wins")
      /\ WithPlan(S).del = {<<p, nas[p]>> : p \in Planned(S, "delete_remote")}
      /\ WithPlan(S).adopt = Planned(S, "adopt")
      /\ WithPlan(S).wins = {p \in Planned(S, "remote_wins") : Seen(p) = None /\ base[p] \in Versions}
      /\ WithPlan(S).adp = {<<p, local[p]>> :
                    p \in {q \in Planned(S, "conflict_remote_wins") : Seen(q) # None}}
  BY <1>1 DEF WithPlan, JobFields
<1>3. \A a : Planned(S, a) \subseteq S
  BY DEF Planned
<1>4. \A p \in S : nas[p] \in Contents /\ (Seen(p) # None => local[p] \in Versions)
  BY <1>1, WorkParts, LocalParts, Apart DEF Seen
<1>5. WithPlan(S).del \subseteq S \X Contents
  BY <1>2, <1>3, <1>4
<1>6. WithPlan(S).adp \subseteq S \X Versions
  BY <1>2, <1>3, <1>4
<1>7. WithPlan(S).up \subseteq S /\ WithPlan(S).adopt \subseteq S /\ WithPlan(S).wins \subseteq S
  BY <1>2, <1>3
<1> QED BY <1>2, <1>5, <1>6, <1>7

\* A rename that the NAS accepts takes every file from its source to where
\* there was nothing.
LEMMA RenameNas ==
    ASSUME TypeInv, NEW r \in job.ren, RenameMoves(r)
    PROVE  /\ \A m \in MovedFiles(r) :
                /\ m[1] \in Path /\ m[2] \in Path /\ m[1] # m[2]
                /\ nas[m[1]] # None /\ nas[m[2]] = None
                /\ nas'[m[1]] = None /\ nas'[m[2]] = nas[m[1]]
           /\ \A p \in Path : (\A m \in MovedFiles(r) : p # m[1] /\ p # m[2]) => nas'[p] = nas[p]
<1> DEFINE M == MovedFiles(r)
           S == {<<m[1], None>> : m \in M} \cup {<<m[2], nas[m[1]]>> : m \in M}
<1>1. r \in Renames /\ Accepts(r) /\ nas' = Overlay(nas, S)
  BY WorkParts DEF RenameMoves
<1>2. /\ \A m \in M : m[1] \in Path /\ m[2] \in Path /\ m = <<m[1], m[2]>>
      /\ \A m \in M : nas[m[1]] # None /\ nas[m[2]] = None
      /\ \A m, n \in M : m[1] # n[2]
      /\ \A m, n \in M : m[2] = n[2] => m[1] = n[1]
  <2>1. \A m \in M : m[1] \in Path /\ m[2] \in Path /\ m = <<m[1], m[2]>>
    BY <1>1, RenameTypes
  <2>2. CASE r.kind = "FILE"
    <3>1. M = {<<r.src, r.dst>>} /\ nas[r.src] = r.v /\ nas[r.dst] = None /\ r.v # None
      BY <1>1, <2>2, RenameTypes, Apart DEF MovedFiles, Accepts
    <3> QED BY <2>1, <3>1
  <2>3. CASE r.kind # "FILE"
    <3>1. r.src \in Dirs /\ r.dst \in Dirs /\ r.src \in nasDirs /\ r.dst \notin nasDirs
      BY <1>1, <2>3, RenameTypes DEF Accepts
    <3>2. M = {<<p, Moved(p, r.dst)>> : p \in {q \in Under(r.src) : nas[q] # None}}
      BY <2>3 DEF MovedFiles
    <3>3. ASSUME NEW m \in M
          PROVE  /\ m[1] \in Under(r.src) /\ nas[m[1]] # None /\ m[2] = Moved(m[1], r.dst)
                 /\ m[2][1] = r.dst /\ m[1][1] = r.src /\ nas[m[2]] = None
                 /\ m[2][2] = m[1][2]
      <4>1. m[1] \in Under(r.src) /\ nas[m[1]] # None /\ m[2] = Moved(m[1], r.dst)
        BY <3>2
      <4>2. m[1] \in Path /\ m[2] \in Path
        BY <2>1
      <4>3. m[1][1] = r.src
        <5>1. \A d \in Dirs : \A p : p \in Under(d) <=> p \in Path /\ p[1] = d
          BY PathParts
        <5> QED BY <3>1, <4>1, <5>1
      <4>4. m[2][1] = r.dst /\ m[2][2] = m[1][2]
        <5>1. \A p \in Path, d \in Dirs : Moved(p, d)[1] = d /\ Moved(p, d)[2] = p[2]
          BY PathParts
        <5> QED BY <3>1, <4>1, <4>2, <5>1
      <4>5. nas[m[2]] = None
        <5>1. \A p \in Path : nas[p] # None => p[1] \in nasDirs
          BY WorkParts
        <5>2. m[2][1] \notin nasDirs
          BY <3>1, <4>4
        <5> QED BY <4>2, <5>1, <5>2
      <4> QED BY <4>1, <4>3, <4>4, <4>5
    <3>4. \A m, n \in M : m[1] # n[2]
      BY <3>1, <3>3
    <3>5. ASSUME NEW m \in M, NEW n \in M, m[2] = n[2] PROVE m[1] = n[1]
      <4>1. m[1] = <<m[1][1], m[1][2]>> /\ n[1] = <<n[1][1], n[1][2]>>
        BY <2>1, PathParts
      <4> QED BY <3>3, <3>5, <4>1
    <3> QED BY <2>1, <3>3, <3>4, <3>5
  <2> QED BY <2>2, <2>3
<1>3. \A p, c : <<p, c>> \in S <=> \E m \in M : (p = m[1] /\ c = None) \/ (p = m[2] /\ c = nas[m[1]])
  OBVIOUS
<1>4. \A m \in M : nas[m[1]] \in Contents
  BY <1>2, WorkParts
<1> HIDE DEF S, M
<1>5. ASSUME NEW m \in M PROVE nas'[m[1]] = None
  <2>1. <<m[1], None>> \in S
    BY <1>3
  <2>2. \/ <<m[1], Overlay(nas, S)[m[1]]>> \in S
        \/ \A c \in Contents : <<m[1], c>> \notin S
    BY <1>2, OverlayAt
  <2>3. <<m[1], nas'[m[1]]>> \in S
    BY <1>1, <2>1, <2>2, Apart
  <2>4. PICK n \in M : (m[1] = n[1] /\ nas'[m[1]] = None) \/ (m[1] = n[2] /\ nas'[m[1]] = nas[n[1]])
    BY <1>3, <2>3
  <2> QED BY <1>2, <2>4
<1>6. ASSUME NEW m \in M PROVE nas'[m[2]] = nas[m[1]]
  <2>1. <<m[2], nas[m[1]]>> \in S
    BY <1>3
  <2>2. \/ <<m[2], Overlay(nas, S)[m[2]]>> \in S
        \/ \A c \in Contents : <<m[2], c>> \notin S
    BY <1>2, OverlayAt
  <2>3. <<m[2], nas'[m[2]]>> \in S
    BY <1>1, <1>4, <2>1, <2>2
  <2>4. PICK n \in M : (m[2] = n[1] /\ nas'[m[2]] = None) \/ (m[2] = n[2] /\ nas'[m[2]] = nas[n[1]])
    BY <1>3, <2>3
  <2> QED BY <1>2, <2>4
<1>7. ASSUME NEW p \in Path, \A m \in M : p # m[1] /\ p # m[2] PROVE nas'[p] = nas[p]
  <2>1. \A c : <<p, c>> \notin S
    BY <1>3, <1>7
  <2> QED BY <1>1, <2>1, OverlayAt
<1>8. \A m \in M : m[1] # m[2]
  BY <1>2
<1> QED BY <1>2, <1>5, <1>6, <1>7, <1>8 DEF M

-----------------------------------------------------------------------------
(* The steps of a push keep the types of what it works on. *)

WorkInv == JobInv /\ PlanInv /\ RenameInv

(* What a step may assume of the rest.                                         *)
Around == TypeInv /\ excluded \subseteq excluded' /\ used \subseteq used'

\* No push, or the same one.
LEMMA SameWork == ASSUME Around, UNCHANGED job PROVE WorkInv'
<1>1. JobInv /\ PlanInv /\ RenameInv
  BY DEF Around, TypeInv
<1>2. JobInv'
  BY <1>1 DEF Around, JobInv, JobFields
<1>3. PlanInv'
  BY <1>1 DEF Around, PlanInv, Staged, Leased
<1>4. RenameInv'
  BY <1>1 DEF RenameInv, PlanPaths
<1> QED BY <1>2, <1>3, <1>4 DEF WorkInv

\* A push that ends has no plan.
LEMMA IdleWork == ASSUME job' = Idle PROVE WorkInv'
<1>1. JobInv'
  BY DEF JobInv, JobFields, Idle, Steps
<1>2. PlanInv'
  BY DEF PlanInv, Staged, Leased, Idle
<1>3. RenameInv'
  BY DEF RenameInv, Idle
<1> QED BY <1>1, <1>2, <1>3 DEF WorkInv

(* The same chunk, at another step.                                            *)
SameChunk ==
    /\ job'.todo = job.todo /\ job'.chunk = job.chunk
    /\ job'.without = job.without /\ job'.dirEv = job.dirEv

\* A push that goes on with its chunk works on the same paths.
LEMMA SameChunkWork ==
    ASSUME Around, SameChunk, JobFields', job'.at \in Steps \ {"idle", "chunk"}
    PROVE  JobInv'
BY DEF Around, TypeInv, JobInv, SameChunk

\* Fewer renames, and no more planned paths.
LEMMA FewerRenames ==
    ASSUME Around, SameChunk, job'.ren \subseteq job.ren, PlanPaths' \subseteq PlanPaths, job'.up \subseteq job.up
    PROVE  RenameInv'
<1>1. RenameInv
  BY DEF Around, TypeInv
<1>2. ASSUME NEW r \in job'.ren
      PROVE  /\ r \in Renames
             /\ PathsOf(r) \cap PlanPaths' = {}
             /\ r.kind = "FILE" => r.src \in job'.chunk /\ r.dst \in job'.chunk
             /\ r.kind = "DIR" => /\ r.src \in job'.dirEv /\ r.dst \in job'.dirEv
                                  /\ r.from \subseteq Under(r.src)
                                  /\ job'.up \cap Under(r.dst) = {}
             /\ \A s \in job'.ren : \A e \in Entries(r), f \in Entries(s) : e[2] # f[1]
  <2>1. r \in job.ren
    OBVIOUS
  <2> QED BY <1>1, <2>1 DEF RenameInv, SameChunk
<1> QED BY <1>2 DEF RenameInv

\* A step without renames.
LEMMA NoRenames == ASSUME job'.ren = {} PROVE RenameInv'
BY DEF RenameInv

\* A new push.
LEMMA TickWork ==
    ASSUME Around, NEW U, PushTick(U)
    PROVE  WorkInv'
<1> DEFINE todo == Resolved \ U
           events1 == {e \in Dirty : IsDirEvent(e)}
<1>1. CASE job' = Idle
  BY <1>1, IdleWork
<1>2. CASE job' = [Idle EXCEPT !.at = "chunk", !.todo = todo, !.without = excluded,
                             !.new = {p \in todo : MayStage(p)},
                             !.dirEv = {e \in Dirty : IsDirEvent(e)}]
  <2>1. /\ job'.at = "chunk" /\ job'.todo = todo /\ job'.without = excluded /\ job'.dirEv = events1
        /\ job'.chunk = {} /\ job'.up = {} /\ job'.del = {} /\ job'.adopt = {} /\ job'.adp = {}
        /\ job'.ren = {} /\ job'.sent = {} /\ job'.done = {} /\ job'.wins = {}
        /\ JobFields'
    BY <1>2 DEF Idle, JobFields
  <2>2. /\ todo \subseteq Path /\ \A p \in todo : p[1] \notin excluded
        /\ events1 \subseteq Dirs \ excluded
    BY TickPaths DEF Around, TypeInv
  <2> HIDE DEF todo, events1
  <2>3. JobInv'
    BY <2>1, <2>2 DEF Around, JobInv, Steps
  <2>4. PlanInv'
    BY <2>1 DEF PlanInv, Staged, Leased
  <2> QED BY <2>1, <2>3, <2>4, NoRenames DEF WorkInv
<1> QED BY <1>1, <1>2 DEF PushTick

\* The next chunk is picked.
LEMMA PickWork ==
    ASSUME Around, NEW C, PickChunk(C)
    PROVE  WorkInv'
<1>1. JobInv /\ PlanInv /\ JobFields /\ job.at = "chunk" /\ C \subseteq job.todo
  BY DEF Around, TypeInv, JobInv, PickChunk
<1>2. PICK t : job' = [job EXCEPT !.at = "plan", !.todo = @ \ C, !.chunk = C, !.try = t]
  BY DEF PickChunk
<1>3. /\ job'.at = "plan" /\ job'.todo = job.todo \ C /\ job'.chunk = C
      /\ job'.without = job.without /\ job'.dirEv = job.dirEv
      /\ job'.up = job.up /\ job'.del = job.del /\ job'.adopt = job.adopt /\ job'.adp = job.adp
      /\ job'.ren = job.ren /\ job'.sent = job.sent /\ job'.done = job.done /\ job'.wins = job.wins
      /\ JobFields'
  BY <1>1, <1>2 DEF JobFields
<1>4. /\ job.up = {} /\ job.del = {} /\ job.adopt = {} /\ job.adp = {}
      /\ job.ren = {} /\ job.sent = {} /\ job.chunk = {}
  BY <1>1 DEF PlanInv, JobInv, Leased
<1>5. JobInv'
  BY <1>1, <1>3 DEF Around, JobInv, Steps
<1>6. PlanInv'
  BY <1>1, <1>3, <1>4 DEF PlanInv, Staged, Leased
<1> QED BY <1>3, <1>4, <1>5, <1>6, NoRenames DEF WorkInv

\* A chunk is done.
LEMMA NextChunkWork ==
    ASSUME Around, job' = NextChunk
    PROVE  WorkInv'
<1>1. JobInv /\ PlanInv /\ JobFields
  BY DEF Around, TypeInv, JobInv
<1>2. /\ job'.at = "chunk" /\ job'.todo = job.todo /\ job'.chunk = {}
      /\ job'.without = job.without /\ job'.dirEv = job.dirEv
      /\ job'.up = {} /\ job'.del = {} /\ job'.adopt = {} /\ job'.adp = {}
      /\ job'.ren = {} /\ job'.sent = {} /\ job'.done = {} /\ job'.wins = {}
      /\ JobFields'
  BY <1>1 DEF JobFields, NextChunk
<1>3. JobInv'
  BY <1>1, <1>2 DEF Around, JobInv, Steps
<1>4. PlanInv'
  BY <1>2 DEF PlanInv, Staged, Leased
<1> QED BY <1>2, <1>3, <1>4, NoRenames DEF WorkInv

-----------------------------------------------------------------------------
(* New plans. *)

\* What the renames of a plan were found by.
LEMMA FoundFile ==
    ASSUME TypeInv, NEW r \in FileRenames(job.chunk)
    PROVE  /\ r \in Renames /\ r.kind = "FILE"
           /\ r.src \in job.chunk /\ r.dst \in job.chunk
           /\ base[r.src] = r.v /\ Seen(r.src) = None /\ nas[r.src] = r.v
           /\ base[r.dst] = Unknown /\ Seen(r.dst) = r.v /\ nas[r.dst] = None
<1> DEFINE rest == job.chunk \ UNION {Renaming(s) : s \in DirRenames(job.chunk)}
           Old(v) == {p \in rest : base[p] = v /\ Seen(p) = None}
           New(v) == {p \in rest : base[p] = Unknown /\ Seen(p) = v}
<1>1. /\ r \in [kind : {"FILE"}, from : {{p} : p \in rest}, src : rest, dst : rest, v : Versions]
      /\ Old(r.v) = {r.src} /\ New(r.v) = {r.dst}
      /\ nas[r.src] = r.v /\ nas[r.dst] = None
  BY DEF FileRenames
<1>2. job.chunk \subseteq Path
  BY WorkParts
<1>3. r.src \in Old(r.v) /\ r.dst \in New(r.v)
  BY <1>1
<1>4. rest \subseteq job.chunk
  OBVIOUS
<1>5. {{p} : p \in rest} \subseteq SUBSET Path
  BY <1>2, <1>4
<1>6. /\ base[r.src] = r.v /\ Seen(r.src) = None /\ base[r.dst] = Unknown /\ Seen(r.dst) = r.v
      /\ r.src \in rest /\ r.dst \in rest
  BY <1>3
<1> HIDE DEF rest, Old, New
<1>7. r \in [kind : {"FILE"}, from : SUBSET Path, src : Path, dst : Path, v : Versions]
  BY <1>1, <1>2, <1>4, <1>5
<1>8. r.kind = "FILE"
  BY <1>7
<1> QED BY <1>1, <1>4, <1>6, <1>7, <1>8 DEF Renames

\* A directory rename that is found: unchanged files, to a directory nobody knows.
LEMMA FoundDir ==
    ASSUME TypeInv, NEW r \in DirRenames(job.chunk)
    PROVE  /\ r \in Renames /\ r.kind = "DIR"
           /\ r.src \in job.dirEv /\ r.dst \in job.dirEv /\ r.src \in Dirs /\ r.dst \in Dirs
           /\ r.from \subseteq Under(r.src)
           /\ \A p \in r.from :
                /\ base[p] \in Versions /\ nas[p] = base[p] /\ Seen(p) = None
                /\ Seen(Moved(p, r.dst)) = base[p]
           /\ \A p \in Under(r.dst) : base[p] = Unknown
           /\ \A p \in Under(r.dst) : Seen(p) # None => p \in PathsOf(r)
<1> DEFINE M == DirMatches(job.chunk)
<1>1. PICK m \in M :
        r = [kind |-> "DIR", from |-> {p \in Under(m[1]) : base[p] \in Versions}, src |-> m[1],
             dst |-> m[2], v |-> None]
  BY DEF DirRenames
<1> DEFINE d == m[1]
           e == m[2]
           S == {p \in Under(d) : base[p] \in Versions /\ ~Excluded(p)}
<1>2. d \in job.dirEv /\ e \in job.dirEv /\ DirMatch(job.chunk, d, e)
  BY <1>1 DEF DirMatches
<1>3. d \in Dirs /\ e \in Dirs
  BY <1>2 DEF TypeInv, JobInv
<1>4. /\ r.kind = "DIR" /\ r.src = d /\ r.dst = e /\ r.v = None
      /\ r.from = {p \in Under(d) : base[p] \in Versions}
  BY <1>1
<1>5. /\ d \notin SeenDirs /\ S # {}
      /\ \A p \in Under(e) : base[p] = Unknown \/ Excluded(p)
      /\ {p \in Under(e) : Seen(p) # None /\ ~Excluded(p)} = {Moved(p, e) : p \in S}
      /\ \A p \in S : base[p] = nas[p] /\ base[p] = Seen(Moved(p, e))
  BY <1>2 DEF DirMatch
<1> HIDE DEF d, e
<1>6. /\ \A p : p \in Under(d) <=> p \in Path /\ p[1] = d
      /\ \A p : p \in Under(e) <=> p \in Path /\ p[1] = e
      /\ \A p \in Path : Moved(p, e) \in Path /\ Moved(p, e)[1] = e
  BY <1>3, PathParts
<1>7. d \notin excluded
  BY <1>5, <1>6, ExcludedPath
<1>8. r.from = S
  BY <1>4, <1>6, <1>7, ExcludedPath
<1>9. e \notin excluded
  <2>1. PICK p \in S : TRUE
    BY <1>5
  <2>2. Moved(p, e) \in {q \in Under(e) : Seen(q) # None /\ ~Excluded(q)}
    BY <1>5
  <2>3. Moved(p, e) \in Path /\ Moved(p, e)[1] = e /\ ~Excluded(Moved(p, e))
    BY <2>2, <1>6
  <2> QED BY <2>3, ExcludedPath
<1>10. \A p \in Under(e) : ~Excluded(p)
  BY <1>6, <1>9, ExcludedPath
<1>11. \A p \in Under(d) : Seen(p) = None
  BY <1>5, <1>6, LocalParts DEF Seen, SeenDirs, TypeInv
<1>12. \A p \in Under(e) : Seen(p) # None => p \in {Moved(q, e) : q \in S}
  BY <1>5, <1>10
<1>13. {Moved(q, e) : q \in S} \subseteq PathsOf(r)
  BY <1>4, <1>8 DEF PathsOf, Renaming
<1>14. r \in [kind : {"DIR"}, from : SUBSET Path, src : Dirs, dst : Dirs, v : {None}]
  <2>1. r.from \subseteq Path
    BY <1>4, <1>6
  <2>2. r = [kind |-> r.kind, from |-> r.from, src |-> r.src, dst |-> r.dst, v |-> r.v]
    BY <1>1
  <2> QED BY <1>3, <1>4, <2>1, <2>2
<1>15. /\ \A p \in S : base[p] \in Versions /\ nas[p] = base[p] /\ Seen(p) = None
       /\ \A p \in S : Seen(Moved(p, e)) = base[p] /\ p \in Under(d)
  BY <1>5, <1>11
<1> HIDE DEF S
<1> QED BY <1>2, <1>3, <1>4, <1>5, <1>8, <1>10, <1>12, <1>13, <1>14, <1>15 DEF Renames

\* Either way a rename takes files that were on both sides, and are now elsewhere
\* in the folder, to paths that nobody knows.
LEMMA Found ==
    ASSUME TypeInv, NEW r \in DirRenames(job.chunk) \cup FileRenames(job.chunk)
    PROVE  /\ r \in Renames
           /\ r.kind = "FILE" => r \in FileRenames(job.chunk)
           /\ r.kind = "DIR" => r \in DirRenames(job.chunk)
           /\ \A e \in Entries(r) :
                /\ e[1] \in Path /\ e[2] \in Path
                /\ base[e[1]] \in Versions /\ nas[e[1]] = base[e[1]] /\ Seen(e[1]) = None
                /\ base[e[2]] = Unknown /\ Seen(e[2]) = base[e[1]]
<1>1. CASE r \in FileRenames(job.chunk)
  <2>1. r.kind = "FILE" /\ r \in Renames /\ r.src \in Path /\ r.dst \in Path /\ r.v \in Versions
    BY <1>1, FoundFile, RenameTypes
  <2>2. Entries(r) = {<<r.src, r.dst>>}
    BY <2>1 DEF Entries
  <2> QED BY <1>1, <2>1, <2>2, FoundFile
<1>2. CASE r \in DirRenames(job.chunk)
  <2>1. r.kind = "DIR" /\ r \in Renames /\ r.src \in Dirs /\ r.dst \in Dirs
    BY <1>2, FoundDir
  <2>2. Entries(r) = {<<p, Moved(p, r.dst)>> : p \in r.from}
    BY <2>1 DEF Entries
  <2>3. \A p \in r.from : p \in Path /\ Moved(p, r.dst) \in Path /\ Moved(p, r.dst) \in Under(r.dst)
    <3>1. r.from \subseteq Path
      BY <2>1, RenameTypes
    <3>2. \A p \in Path : Moved(p, r.dst) \in Path /\ Moved(p, r.dst)[1] = r.dst
      <4>1. \A p \in Path, d \in Dirs : Moved(p, d) \in Path /\ Moved(p, d)[1] = d
        BY PathParts
      <4> QED BY <2>1, <4>1
    <3>3. \A p : p \in Under(r.dst) <=> p \in Path /\ p[1] = r.dst
      BY <2>1, PathParts
    <3> QED BY <3>1, <3>2, <3>3
  <2>4. /\ \A p \in r.from : base[p] \in Versions /\ nas[p] = base[p] /\ Seen(p) = None
                             /\ Seen(Moved(p, r.dst)) = base[p]
        /\ \A p \in Under(r.dst) : base[p] = Unknown
    BY <1>2, FoundDir
  <2> QED BY <1>2, <2>1, <2>2, <2>3, <2>4
<1> QED BY <1>1, <1>2

\* What there is to do of a chunk, by the plan of the paths its renames leave.
LEMMA BuildCases ==
    ASSUME BuildPlan
    PROVE  LET renames == DirRenames(job.chunk) \cup FileRenames(job.chunk)
               rest == job.chunk \ UNION {PathsOf(r) : r \in renames}
           IN  /\ job.at = "plan" /\ CopyLosers(rest) /\ UNCHANGED <<localVars, rec, oob>>
               /\ \/ /\ Stageable(job.chunk) /\ rest = job.chunk
                     /\ job' = [job EXCEPT !.at = "staged", !.sent = {<<p, Seen(p)>> : p \in job.chunk}]
                  \/ job' = [job EXCEPT !.try = FALSE]
                  \/ job' = [WithPlan(rest) EXCEPT !.at = IF renames = {} THEN "settle" ELSE "rename",
                                                   !.ren = renames]
BY DEF BuildPlan

\* The renames of a new plan keep apart.
LEMMA NewRenames ==
    ASSUME TypeInv, SameChunk, NEW rest,
           job'.ren = DirRenames(job.chunk) \cup FileRenames(job.chunk),
           rest = job.chunk \ UNION {PathsOf(r) : r \in job'.ren},
           PlanPaths' \subseteq rest,
           \A p \in job'.up : Seen(p) # None
    PROVE  RenameInv'
<1>1. ASSUME NEW r \in job'.ren
      PROVE  /\ r \in Renames
             /\ PathsOf(r) \cap PlanPaths' = {}
             /\ r.kind = "FILE" => r.src \in job'.chunk /\ r.dst \in job'.chunk
             /\ r.kind = "DIR" => /\ r.src \in job'.dirEv /\ r.dst \in job'.dirEv
                                  /\ r.from \subseteq Under(r.src)
                                  /\ job'.up \cap Under(r.dst) = {}
             /\ \A s \in job'.ren : \A e \in Entries(r), f \in Entries(s) : e[2] # f[1]
  <2>1. r \in Renames /\ PathsOf(r) \cap PlanPaths' = {}
    BY Found
  <2>2. r.kind = "FILE" => r.src \in job'.chunk /\ r.dst \in job'.chunk
    BY Found, FoundFile DEF SameChunk
  <2>3. ASSUME r.kind = "DIR"
        PROVE  /\ r.src \in job'.dirEv /\ r.dst \in job'.dirEv
               /\ r.from \subseteq Under(r.src)
               /\ job'.up \cap Under(r.dst) = {}
    <3>1. r \in DirRenames(job.chunk)
      BY <2>3, Found
    <3>2. \A p \in Under(r.dst) : Seen(p) # None => p \in PathsOf(r)
      BY <3>1, FoundDir
    <3>3. job'.up \subseteq PlanPaths'
      BY DEF PlanPaths
    <3>4. job'.up \cap Under(r.dst) = {}
      BY <2>1, <3>2, <3>3
    <3>5. r.src \in job.dirEv /\ r.dst \in job.dirEv /\ r.from \subseteq Under(r.src)
      BY <3>1, FoundDir
    <3> QED BY <3>4, <3>5 DEF SameChunk
  <2>4. ASSUME NEW s \in job'.ren, NEW e \in Entries(r), NEW f \in Entries(s) PROVE e[2] # f[1]
    <3>1. base[e[2]] = Unknown
      BY Found
    <3>2. base[f[1]] \in Versions
      BY Found
    <3> QED BY <3>1, <3>2, Apart
  <2> QED BY <2>1, <2>2, <2>3, <2>4
<1> QED BY <1>1 DEF RenameInv

\* A plan is made.
LEMMA BuildWork ==
    ASSUME Around, BuildPlan
    PROVE  WorkInv'
<1> DEFINE renames == DirRenames(job.chunk) \cup FileRenames(job.chunk)
           rest == job.chunk \ UNION {PathsOf(r) : r \in renames}
<1>1. TypeInv /\ JobInv /\ PlanInv /\ JobFields /\ job.at = "plan" /\ job.chunk \subseteq Path
  BY BuildCases, WorkParts DEF Around
<1>2. /\ job.up = {} /\ job.del = {} /\ job.adopt = {} /\ job.adp = {} /\ job.ren = {} /\ job.sent = {}
      /\ job.done \subseteq Path /\ job.wins \subseteq job.chunk
  BY <1>1 DEF PlanInv, Leased
<1>3. CASE /\ Stageable(job.chunk)
           /\ job' = [job EXCEPT !.at = "staged", !.sent = {<<p, Seen(p)>> : p \in job.chunk}]
  <2>1. /\ JobFields' /\ SameChunk /\ job'.at = "staged" /\ job'.ren = job.ren
        /\ job'.sent = {<<p, Seen(p)>> : p \in job.chunk}
        /\ job'.up = job.up /\ job'.del = job.del /\ job'.adopt = job.adopt /\ job'.adp = job.adp
        /\ job'.done = job.done /\ job'.wins = job.wins
    BY <1>1, <1>3 DEF JobFields, SameChunk
  <2>2. ASSUME NEW p \in job.chunk PROVE Seen(p) \in used
    <3>1. Act(p) = "upload"
      BY <1>3 DEF Stageable, Planned
    <3>2. Seen(p) # None /\ p \in Path
      BY <1>1, <3>1, ActFacts
    <3> QED BY <1>1, <3>2, WorkParts, LocalParts DEF Seen
  <2>3. job'.sent \subseteq job'.chunk \X used'
    BY <2>1, <2>2 DEF Around, SameChunk
  <2>4. JobInv'
    BY <2>1, SameChunkWork DEF Steps
  <2>5. PlanInv'
    BY <1>2, <2>1, <2>3 DEF PlanInv, Staged, Leased, SameChunk
  <2> QED BY <1>2, <2>1, <2>4, <2>5, NoRenames DEF WorkInv
<1>4. CASE job' = [job EXCEPT !.try = FALSE]
  <2>1. /\ JobFields' /\ SameChunk /\ job'.at = "plan" /\ job'.ren = job.ren /\ job'.sent = job.sent
        /\ job'.up = job.up /\ job'.del = job.del /\ job'.adopt = job.adopt /\ job'.adp = job.adp
        /\ job'.done = job.done /\ job'.wins = job.wins
    BY <1>1, <1>4 DEF JobFields, SameChunk
  <2>2. JobInv'
    BY <2>1, SameChunkWork DEF Steps
  <2>3. PlanInv'
    BY <1>2, <2>1 DEF PlanInv, Staged, Leased, SameChunk
  <2> QED BY <1>2, <2>1, <2>2, <2>3, NoRenames DEF WorkInv
<1>5. CASE job' = [WithPlan(rest) EXCEPT !.at = IF renames = {} THEN "settle" ELSE "rename",
                                         !.ren = renames]
  <2>1. /\ JobFields' /\ SameChunk /\ job'.at = (IF renames = {} THEN "settle" ELSE "rename")
        /\ job'.ren = renames /\ job'.sent = job.sent /\ job'.done = job.done
        /\ job'.up = WithPlan(rest).up /\ job'.del = WithPlan(rest).del
        /\ job'.adopt = WithPlan(rest).adopt /\ job'.wins = WithPlan(rest).wins
        /\ job'.adp = WithPlan(rest).adp
    <3> DEFINE x == IF renames = {} THEN "settle" ELSE "rename"
    <3>1. job' = [WithPlan(rest) EXCEPT !.at = x, !.ren = renames]
      BY <1>5
    <3>0. JobFields
      BY <1>1
    <3> HIDE DEF x, renames, rest
    <3>2. /\ JobFields' /\ SameChunk /\ job'.at = x
          /\ job'.ren = renames /\ job'.sent = job.sent /\ job'.done = job.done
          /\ job'.up = WithPlan(rest).up /\ job'.del = WithPlan(rest).del
          /\ job'.adopt = WithPlan(rest).adopt /\ job'.wins = WithPlan(rest).wins
          /\ job'.adp = WithPlan(rest).adp
      BY <3>0, <3>1 DEF JobFields, WithPlan, SameChunk
    <3> QED BY <3>2 DEF x
  <2>2. rest \subseteq job.chunk
    OBVIOUS
  <2> HIDE DEF rest
  <2>3. /\ job'.up \subseteq rest /\ job'.adopt \subseteq rest /\ job'.wins \subseteq rest
        /\ job'.del \subseteq rest \X Contents /\ job'.adp \subseteq rest \X Versions
    BY <1>1, <2>1, <2>2, PlanFields
  <2>4. JobInv'
    BY <2>1, SameChunkWork DEF Steps
  <2>5. PlanInv'
    BY <1>2, <2>1, <2>2, <2>3 DEF PlanInv, Staged, Leased, SameChunk
  <2>6. \A p \in job'.up : Seen(p) # None
    <3>1. job'.up = Planned(rest, "upload") \cup Planned(rest, "conflict_local_wins")
      BY <1>1, <2>1, <2>2, PlanFields
    <3> QED BY <1>1, <2>2, <3>1, ActFacts DEF Planned
  <2>7. PlanPaths' \subseteq rest
    BY <2>3 DEF PlanPaths
  <2>8. RenameInv'
    BY <1>1, <2>1, <2>6, <2>7, NewRenames DEF rest
  <2> QED BY <2>4, <2>5, <2>8 DEF WorkInv
<1> QED BY <1>3, <1>4, <1>5, BuildCases

(* A push goes on with its plan.                                               *)
GoesOn ==
    /\ JobFields' /\ SameChunk
    /\ job'.at \in {"rename", "moving", "settle", "send", "adopt", "delete", "confirm"}
    /\ job'.up \subseteq job.up /\ job'.adopt = job.adopt /\ job'.adp = job.adp
    /\ job'.del \subseteq job.del /\ job'.wins = job.wins
    /\ job'.ren \subseteq job.ren /\ job'.done \subseteq Path

\* The invariants of what a push works on, as it goes on.
LEMMA GoesOnWork ==
    ASSUME Around, GoesOn, ~Staged,
           job'.sent \subseteq job.chunk,
           job'.at \in {"rename", "moving", "settle"} => job'.sent = {},
           job'.at \in {"adopt", "delete", "confirm"} => job'.up = {},
           job'.at \notin {"rename", "moving"} => job'.ren = {}
    PROVE  WorkInv'
<1>1. JobInv'
  BY SameChunkWork DEF GoesOn, Steps
<1>2. PlanInv
  BY DEF Around, TypeInv
<1>3. PlanInv'
  BY <1>2 DEF PlanInv, Staged, Leased, GoesOn, SameChunk
<1>4. RenameInv'
  BY FewerRenames DEF GoesOn, PlanPaths
<1> QED BY <1>1, <1>3, <1>4 DEF WorkInv

\* The steps after the plan of a chunk.
LEMMA StagedWork ==
    ASSUME Around, StagedCheck \/ PublishStaged
    PROVE  WorkInv'
<1>1. CASE StagedCheck /\ job' = [job EXCEPT !.at = "publish"]
  <2>1. PlanInv /\ JobInv /\ JobFields /\ job.at = "staged"
    BY <1>1, WorkParts DEF Around, StagedCheck
  <2>2. /\ JobFields' /\ SameChunk /\ job'.at = "publish" /\ job'.ren = job.ren /\ job'.sent = job.sent
        /\ job'.up = job.up /\ job'.del = job.del /\ job'.adopt = job.adopt /\ job'.adp = job.adp
        /\ job'.done = job.done /\ job'.wins = job.wins
    BY <1>1, <2>1 DEF JobFields, SameChunk
  <2>3. JobInv'
    BY <2>2, SameChunkWork DEF Steps
  <2>4. PlanInv'
    BY <2>1, <2>2 DEF PlanInv, Staged, Leased, SameChunk, Around
  <2>5. job'.ren = {}
    BY <2>1, <2>2 DEF PlanInv
  <2> QED BY <2>3, <2>4, <2>5, NoRenames DEF WorkInv
<1>2. CASE job' = Idle
  BY <1>2, IdleWork
<1>3. CASE job' = NextChunk
  BY <1>3, NextChunkWork
<1> QED BY <1>1, <1>2, <1>3 DEF StagedCheck, PublishStaged, Fails

\* The renames and what settles after them keep the plan.
LEMMA RenamesWork ==
    ASSUME Around,
           \/ \E r \in job.ren : StartRename(r) \/ RenameRemote(r)
           \/ RenamesEnd \/ Settle
    PROVE  WorkInv'
<1>1. TypeInv /\ PlanInv /\ JobInv /\ JobFields /\ job.done \subseteq Path
  BY WorkParts DEF Around
<1>2. ASSUME NEW r \in job.ren, StartRename(r) PROVE WorkInv'
  <2>1. job.at = "rename" /\ job.sent = {}
    BY <1>1, <1>2 DEF StartRename, PlanInv
  <2>2. CASE job' = [job EXCEPT !.at = "moving"]
    <3>1. GoesOn /\ job'.sent = job.sent /\ job'.at = "moving"
      BY <1>1, <2>2 DEF GoesOn, JobFields, SameChunk
    <3> QED BY <2>1, <3>1, GoesOnWork DEF Staged
  <2>3. CASE job' = [job EXCEPT !.ren = @ \ {r}, !.failed = @ \cup PathsOf(r)]
    <3>1. GoesOn /\ job'.sent = job.sent /\ job'.at = job.at
      BY <1>1, <2>1, <2>3 DEF GoesOn, JobFields, SameChunk
    <3> QED BY <2>1, <3>1, GoesOnWork DEF Staged
  <2> QED BY <1>2, <2>2, <2>3 DEF StartRename
<1>3. ASSUME NEW r \in job.ren, RenameRemote(r) PROVE WorkInv'
  <2>1. job.at = "moving" /\ job.sent = {} /\ PathsOf(r) \subseteq Path
    BY <1>1, <1>3, RenameCases, RenameTypes, WorkParts DEF PlanInv
  <2>2. \/ job' = [job EXCEPT !.at = "rename", !.ren = @ \ {r}, !.done = @ \cup PathsOf(r)]
        \/ job' = [job EXCEPT !.at = "rename", !.ren = @ \ {r}, !.failed = @ \cup PathsOf(r)]
    BY <1>3 DEF RenameRemote
  <2>3. GoesOn /\ job'.sent = job.sent /\ job'.at = "rename"
    BY <1>1, <2>1, <2>2 DEF GoesOn, JobFields, SameChunk
  <2> QED BY <2>1, <2>3, GoesOnWork DEF Staged
<1>4. CASE RenamesEnd
  <2> DEFINE again == job.chunk \ job.done
  <2>1. job.at = "rename" /\ job.ren = {} /\ job.sent = {}
    BY <1>1, <1>4 DEF RenamesEnd, PlanInv
  <2>2. CASE job' = [job EXCEPT !.at = "settle"]
    <3>1. GoesOn /\ job'.sent = job.sent /\ job'.at = "settle" /\ job'.ren = job.ren
      BY <1>1, <2>2 DEF GoesOn, JobFields, SameChunk
    <3> QED BY <2>1, <3>1, GoesOnWork DEF Staged
  <2>3. CASE job' = [WithPlan(again) EXCEPT !.at = "settle"]
    <3>1. again \subseteq job.chunk
      OBVIOUS
    <3> HIDE DEF again
    <3>2. /\ JobFields' /\ SameChunk /\ job'.at = "settle"
          /\ job'.ren = job.ren /\ job'.sent = job.sent /\ job'.done = job.done
          /\ job'.up = WithPlan(again).up /\ job'.del = WithPlan(again).del
          /\ job'.adopt = WithPlan(again).adopt /\ job'.wins = WithPlan(again).wins
          /\ job'.adp = WithPlan(again).adp
      BY <1>1, <2>3 DEF JobFields, WithPlan, SameChunk
    <3>3. /\ job'.up \subseteq again /\ job'.adopt \subseteq again /\ job'.wins \subseteq again
          /\ job'.del \subseteq again \X Contents /\ job'.adp \subseteq again \X Versions
      BY <1>1, <3>1, <3>2, PlanFields
    <3>4. JobInv'
      BY <3>2, SameChunkWork DEF Steps
    <3>5. PlanInv'
      BY <1>1, <2>1, <3>1, <3>2, <3>3 DEF PlanInv, Staged, Leased, SameChunk
    <3> QED BY <2>1, <3>2, <3>4, <3>5, NoRenames DEF WorkInv
  <2> QED BY <1>4, <2>2, <2>3 DEF RenamesEnd
<1>5. CASE Settle
  <2>1. job.at = "settle" /\ job.sent = {} /\ job.ren = {}
    BY <1>1, <1>5 DEF Settle, PlanInv
  <2>2. CASE job' = [job EXCEPT !.at = "send"]
    <3>1. GoesOn /\ job'.sent = job.sent /\ job'.at = "send" /\ job'.ren = job.ren
      BY <1>1, <2>2 DEF GoesOn, JobFields, SameChunk
    <3> QED BY <2>1, <3>1, GoesOnWork DEF Staged
  <2> QED BY <1>5, <2>2, IdleWork DEF Settle, Fails
<1> QED BY <1>2, <1>3, <1>4, <1>5

\* The transfers, the deletions and the confirmation keep the plan.
LEMMA SendWork ==
    ASSUME Around,
           \/ \E p \in job.up : Send(p)
           \/ Sent \/ AdoptRemote \/ CheckedDelete \/ Confirm
    PROVE  WorkInv'
<1>1. TypeInv /\ PlanInv /\ JobInv /\ JobFields /\ job.done \subseteq Path
  BY WorkParts DEF Around
<1>2. ASSUME NEW p \in job.up, Send(p) PROVE WorkInv'
  <2>1. job.at = "send" /\ job.sent \subseteq job.chunk /\ job.ren = {} /\ p \in job.chunk
    BY <1>1, <1>2 DEF Send, PlanInv, Staged
  <2>2. CASE job' = [job EXCEPT !.up = @ \ {p}]
    <3>1. GoesOn /\ job'.sent = job.sent /\ job'.at = job.at /\ job'.ren = job.ren
      BY <1>1, <2>1, <2>2 DEF GoesOn, JobFields, SameChunk
    <3> QED BY <2>1, <3>1, GoesOnWork DEF Staged
  <2>3. CASE job' = [job EXCEPT !.up = @ \ {p}, !.sent = @ \cup {p}]
    <3>1. GoesOn /\ job'.sent = job.sent \cup {p} /\ job'.at = job.at /\ job'.ren = job.ren
      BY <1>1, <2>1, <2>3 DEF GoesOn, JobFields, SameChunk
    <3> QED BY <2>1, <3>1, GoesOnWork DEF Staged
  <2> QED BY <1>2, <2>2, <2>3, IdleWork DEF Send, Fails
<1>3. CASE Sent
  <2>1. job.at = "send" /\ job.up = {} /\ job.sent \subseteq job.chunk /\ job.ren = {}
    BY <1>1, <1>3 DEF Sent, PlanInv, Staged
  <2>2. \/ job' = [job EXCEPT !.at = "delete"]
        \/ job' = [job EXCEPT !.at = "adopt"]
    BY <1>3 DEF Sent
  <2>3. GoesOn /\ job'.sent = job.sent /\ job'.up = job.up /\ job'.ren = job.ren /\ job'.at \in {"delete", "adopt"}
    BY <1>1, <2>2 DEF GoesOn, JobFields, SameChunk
  <2> QED BY <2>1, <2>3, GoesOnWork DEF Staged
<1>4. CASE AdoptRemote
  <2>1. job.at = "adopt" /\ job.up = {} /\ job.sent \subseteq job.chunk /\ job.ren = {}
    BY <1>1, <1>4 DEF AdoptRemote, PlanInv, Staged
  <2>2. CASE job' = [job EXCEPT !.at = "delete"]
    <3>1. GoesOn /\ job'.sent = job.sent /\ job'.up = job.up /\ job'.ren = job.ren /\ job'.at = "delete"
      BY <1>1, <2>2 DEF GoesOn, JobFields, SameChunk
    <3> QED BY <2>1, <3>1, GoesOnWork DEF Staged
  <2> QED BY <1>4, <2>2, IdleWork DEF AdoptRemote
<1>5. CASE CheckedDelete
  <2> DEFINE gone == {d \in job.del : nas[d[1]] \in {d[2], None}}
  <2>1. job.at = "delete" /\ job.up = {} /\ job.sent \subseteq job.chunk /\ job.ren = {}
    BY <1>1, <1>5 DEF CheckedDelete, PlanInv, Staged
  <2>2. job' = [job EXCEPT !.at = "confirm", !.del = gone, !.dels = @ + Cardinality(gone)]
    BY <1>5 DEF CheckedDelete
  <2>3. gone \subseteq job.del
    OBVIOUS
  <2> HIDE DEF gone
  <2>4. GoesOn /\ job'.sent = job.sent /\ job'.up = job.up /\ job'.ren = job.ren /\ job'.at = "confirm"
    BY <1>1, <2>2, <2>3 DEF GoesOn, JobFields, SameChunk
  <2> QED BY <2>1, <2>4, GoesOnWork DEF Staged
<1>6. CASE Confirm
  BY <1>6, NextChunkWork, IdleWork DEF Confirm, Fails
<1> QED BY <1>2, <1>3, <1>4, <1>5, <1>6

\* Every step of the system keeps them.
LEMMA NextWork == ASSUME Around, Next PROVE WorkInv'
<1>1. CASE (UserAct /\ Local) \/ (ResolverAct /\ Local)
  BY <1>1, SameWork DEF Local
<1>2. CASE (\E e \in events : Notice(e)) /\ UNCHANGED <<remote, taken, job>>
  BY <1>2, SameWork
<1>3. CASE PushAct
  <2>1. CASE \E U \in {{}} \cup {{p} : p \in Resolved} : PushTick(U)
    BY <2>1, TickWork
  <2>2. CASE \E C \in SUBSET job.todo : PickChunk(C)
    BY <2>2, PickWork
  <2>3. CASE PushEnds
    BY <2>3, IdleWork DEF PushEnds
  <2> QED BY <1>3, <2>1, <2>2, <2>3, BuildWork, StagedWork, RenamesWork, SendWork DEF PushAct
<1>4. CASE PushFails \/ Crash
  BY <1>4, IdleWork DEF PushFails, Crash, Fails
<1>5. CASE \E full \in BOOLEAN : Pull(full)
  BY <1>5, SameWork DEF Pull
<1>6. CASE \E r \in job.ren : RenameRemote(r)
  BY <1>6, RenamesWork
<1>7. CASE OtherAct
  BY <1>7, SameWork DEF OtherAct, OtherDelete, OtherWrite, OobWrite
<1> QED BY <1>1, <1>2, <1>3, <1>4, <1>5, <1>6, <1>7 DEF Next

-----------------------------------------------------------------------------
(* The files of the NAS, and their names. *)

NasMoves ==
    /\ nas' \in [Path -> Contents] /\ nasDirs' \subseteq Dirs
    /\ \A p \in Path : nas'[p] # None => p[1] \in nasDirs'
    /\ rec' \in [Path -> Contents \cup {Unknown}]
    /\ \A p \in Path : nas'[p] \in used' \cup {None}
    /\ \A p \in Path : Fits(p, nas'[p])
    /\ taken' \subseteq Path \X (used' \cup {None})

\* The NAS stays as it is.
LEMMA NasStays ==
    ASSUME TypeInv, NameInv, UNCHANGED <<nas, nasDirs>>, used \subseteq used',
           rec' \in [Path -> Contents \cup {Unknown}],
           taken' \subseteq Path \X (used' \cup {None})
    PROVE  NasMoves
<1>1. \A p \in Path : nas[p] \in used \cup {None}
  BY WorkParts
<1>2. nas \in [Path -> Contents] /\ nasDirs \subseteq Dirs /\ \A p \in Path : nas[p] # None => p[1] \in nasDirs
  BY WorkParts
<1>3. \A p \in Path : Fits(p, nas'[p])
  BY DEF NameInv
<1> QED BY <1>1, <1>2, <1>3 DEF NasMoves

\* One file of the NAS changes.
LEMMA NasFile ==
    ASSUME TypeInv, NameInv, NEW p \in Path, NEW c,
           c \in used' \cup {None}, Fits(p, c),
           nas' = [nas EXCEPT ![p] = c],
           nasDirs \subseteq nasDirs', nasDirs' \subseteq Dirs, c # None => p[1] \in nasDirs',
           used \subseteq used', used' \subseteq Versions,
           rec' \in [Path -> Contents \cup {Unknown}],
           taken' \subseteq Path \X (used' \cup {None})
    PROVE  NasMoves
<1>1. \A q \in Path : nas[q] \in used \cup {None} /\ (nas[q] # None => q[1] \in nasDirs)
  BY WorkParts
<1>2. nas \in [Path -> Contents]
  BY WorkParts
<1>3. \A q \in Path : nas'[q] = IF q = p THEN c ELSE nas[q]
  BY <1>2
<1>4. \A q \in Path : Fits(q, nas'[q])
  BY <1>3 DEF NameInv
<1>5. c \in Contents
  BY Apart
<1>6. nas' \in [Path -> Contents]
  BY <1>2, <1>5
<1> QED BY <1>1, <1>3, <1>4, <1>6 DEF NasMoves

\* Files are laid over those of the NAS.
LEMMA NasOverlay ==
    ASSUME TypeInv, NameInv, NEW S, nas' = Overlay(nas, S),
           \A s \in S : /\ s = <<s[1], s[2]>> /\ s[1] \in Path
                        /\ s[2] \in used \cup {None} /\ Fits(s[1], s[2])
                        /\ s[2] # None => s[1][1] \in nasDirs',
           nasDirs \subseteq nasDirs', nasDirs' \subseteq Dirs,
           UNCHANGED <<used, taken>>, rec' \in [Path -> Contents \cup {Unknown}]
    PROVE  NasMoves
<1>1. \A q \in Path : nas[q] \in used \cup {None} /\ (nas[q] # None => q[1] \in nasDirs) /\ Fits(q, nas[q])
  BY WorkParts DEF NameInv
<1>2. nas \in [Path -> Contents] /\ taken \subseteq Path \X (used \cup {None})
  BY WorkParts
<1>3. nas' \in [Path -> Contents]
  BY <1>2, OverlayType
<1>4. ASSUME NEW q \in Path
      PROVE  nas'[q] \in used \cup {None} /\ Fits(q, nas'[q]) /\ (nas'[q] # None => q[1] \in nasDirs')
  <2>1. CASE <<q, nas'[q]>> \in S
    <3> DEFINE s == <<q, nas'[q]>>
    <3>1. s \in S /\ s[1] = q /\ s[2] = nas'[q]
      BY <2>1
    <3> HIDE DEF s
    <3>2. s[2] \in used \cup {None} /\ Fits(s[1], s[2]) /\ (s[2] # None => s[1][1] \in nasDirs')
      BY <3>1
    <3> QED BY <3>1, <3>2
  <2>2. CASE nas'[q] = nas[q]
    BY <1>1, <2>2
  <2> QED BY <2>1, <2>2, OverlayAt
<1> QED BY <1>2, <1>3, <1>4 DEF NasMoves

\* The conflict copies of a plan are made.
LEMMA CopiesMove ==
    ASSUME TypeInv, NameInv, NEW S, S \subseteq Path, CopyLosers(S), UNCHANGED <<used, taken, rec>>
    PROVE  NasMoves
<1>1. nas' = Overlay(nas, Losers(S)) /\ nasDirs' = nasDirs \cup {c[1][1] : c \in Losers(S)}
  BY DEF CopyLosers
<1>2. \A c \in Losers(S) :
         /\ c[1] \in Path /\ c[2] \in Versions /\ c[2] \in used
         /\ c = <<c[1], c[2]>> /\ c[1][2] = c[2]
  BY LoserFacts
<1>3. nasDirs \subseteq Dirs /\ rec \in [Path -> Contents \cup {Unknown}]
  BY WorkParts
<1>4. \A c \in Losers(S) : c[1][1] \in Dirs
  BY <1>2, PathParts
<1>5. nasDirs \subseteq nasDirs' /\ nasDirs' \subseteq Dirs /\ \A c \in Losers(S) : c[1][1] \in nasDirs'
  BY <1>1, <1>3, <1>4
<1>6. \A c \in Losers(S) : Fits(c[1], c[2])
  BY <1>2 DEF Fits
<1> QED BY <1>1, <1>2, <1>3, <1>5, <1>6, NasOverlay

\* A rename on the NAS.
LEMMA RenameNasMoves ==
    ASSUME TypeInv, NameInv, NEW r \in job.ren, RenameMoves(r), UNCHANGED used
    PROVE  NasMoves
<1>1. r \in Renames /\ nas \in [Path -> Contents] /\ nasDirs \subseteq Dirs
      /\ rec \in [Path -> Contents \cup {Unknown}] /\ taken \subseteq Path \X (used \cup {None})
  BY WorkParts
<1>2. nas' \in [Path -> Contents] /\ rec' \in [Path -> Contents \cup {Unknown}]
  <2>1. /\ \A S : Overlay(nas, S) \in [Path -> Contents]
        /\ \A S : Overlay(rec, S) \in [Path -> Contents \cup {Unknown}]
    BY <1>1, OverlayType
  <2>2. \E S : nas' = Overlay(nas, S)
    BY DEF RenameMoves
  <2>3. \E S : rec' = Overlay(rec, S)
    BY DEF RenameMoves
  <2> QED BY <2>1, <2>2, <2>3
<1>3. /\ \A q \in Path : nas[q] \in used \cup {None} /\ (nas[q] # None => q[1] \in nasDirs)
      /\ \A q \in Path : Fits(q, nas[q])
  BY WorkParts DEF NameInv
<1>4. /\ \A m \in MovedFiles(r) :
           /\ m[1] \in Path /\ m[2] \in Path /\ m[1] # m[2] /\ nas[m[1]] # None
           /\ nas'[m[1]] = None /\ nas'[m[2]] = nas[m[1]]
      /\ \A p \in Path : (\A m \in MovedFiles(r) : p # m[1] /\ p # m[2]) => nas'[p] = nas[p]
  BY RenameNas
<1>5. ASSUME NEW m \in MovedFiles(r)
      PROVE  Fits(m[2], nas[m[1]]) /\ m[2][1] \in nasDirs'
  <2>1. CASE r.kind = "FILE"
    <3>1. m = <<r.src, r.dst>> /\ nas[r.src] = r.v
      BY <2>1 DEF MovedFiles, RenameMoves, Accepts
    <3> QED BY <2>1, <3>1 DEF RenameMoves, NameInv
  <2>2. CASE r.kind # "FILE"
    <3>1. r.dst \in Dirs
      BY <1>1, <2>2, RenameTypes
    <3>2. m[2] = Moved(m[1], r.dst)
      BY <2>2 DEF MovedFiles
    <3>3. \A p \in Path, d \in Dirs : Moved(p, d)[1] = d /\ Moved(p, d)[2] = p[2]
      BY PathParts
    <3>4. m[2][1] = r.dst /\ m[2][2] = m[1][2]
      BY <1>4, <3>1, <3>2, <3>3
    <3>5. r.dst \in nasDirs'
      BY <1>1, <2>2, RenameTypes DEF RenameMoves
    <3> QED BY <1>3, <1>4, <3>4, <3>5 DEF Fits
  <2> QED BY <2>1, <2>2
<1>6. ASSUME NEW p \in Path
      PROVE  nas'[p] \in used \cup {None} /\ Fits(p, nas'[p]) /\ (nas'[p] # None => p[1] \in nasDirs')
  <2>1. CASE \E m \in MovedFiles(r) : p = m[1]
    BY <1>4, <2>1, Apart DEF Fits
  <2>2. CASE \E m \in MovedFiles(r) : p = m[2]
    BY <1>3, <1>4, <1>5, <2>2
  <2>3. CASE \A m \in MovedFiles(r) : p # m[1] /\ p # m[2]
    <3>1. nas'[p] = nas[p]
      BY <1>4, <2>3
    <3>2. nas[p] # None => p[1] \in nasDirs'
      <4>1. CASE r.kind = "FILE"
        BY <1>3, <4>1 DEF RenameMoves
      <4>2. CASE r.kind # "FILE"
        <5>1. r.src \in Dirs /\ r.kind = "DIR"
          BY <1>1, <4>2, RenameTypes
        <5>2. \A q : q \in Under(r.src) <=> q \in Path /\ q[1] = r.src
          BY <5>1, PathParts
        <5>3. nas[p] # None /\ p[1] = r.src => <<p, Moved(p, r.dst)>> \in MovedFiles(r)
          BY <4>2, <5>2 DEF MovedFiles
        <5>4. nas[p] # None => p[1] # r.src
          <6> DEFINE m == <<p, Moved(p, r.dst)>>
          <6>1. m[1] = p
            OBVIOUS
          <6> HIDE DEF m
          <6> QED BY <2>3, <5>3, <6>1 DEF m
        <5> QED BY <1>3, <5>1, <5>4 DEF RenameMoves
      <4> QED BY <4>1, <4>2
    <3> QED BY <1>3, <3>1, <3>2
  <2> QED BY <2>1, <2>2, <2>3
<1>7. nasDirs' \subseteq Dirs
  <2>1. CASE r.kind = "FILE"
    BY <1>1, <2>1, RenameTypes, PathParts DEF RenameMoves
  <2>2. CASE r.kind # "FILE"
    BY <1>1, <2>2, RenameTypes DEF RenameMoves
  <2> QED BY <2>1, <2>2
<1>8. taken' \subseteq Path \X (used \cup {None})
  <2>1. \A c \in Carried(r) : c \in Path \X (used \cup {None})
    BY <1>3, <1>4 DEF Carried
  <2> QED BY <1>1, <2>1 DEF RenameMoves
<1> QED BY <1>2, <1>6, <1>7, <1>8 DEF NasMoves

\* Every step of the system keeps the types and the names of the files of the NAS.
LEMMA NextNas == ASSUME TypeInv, NameInv, Next PROVE NasMoves
<1>1. /\ used \subseteq used' /\ used' \subseteq Versions /\ used \subseteq Versions
      /\ rec \in [Path -> Contents \cup {Unknown}] /\ nasDirs \subseteq Dirs
      /\ taken \subseteq Path \X (used \cup {None})
      /\ \A S : Overlay(rec, S) \in [Path -> Contents \cup {Unknown}]
      /\ job.chunk \subseteq Path
      /\ \A p \in Path : nas[p] \in used \cup {None} /\ local[p] \in used \cup {None}
      /\ \A p \in Path : Seen(p) \in used \cup {None} /\ Fits(p, Seen(p))
  <2>1. used \subseteq used' /\ used' \subseteq Versions
    BY NextClient DEF ClientMoves, TrashMoves
  <2>2. rec \in [Path -> Contents \cup {Unknown}]
    BY WorkParts
  <2>3. \A S : Overlay(rec, S) \in [Path -> Contents \cup {Unknown}]
    BY <2>2, OverlayType
  <2>4. \A p \in Path : local[p] \in used \cup {None}
    BY WorkParts, LocalParts
  <2>5. \A p \in Path : Seen(p) \in used \cup {None} /\ Fits(p, Seen(p))
    BY <2>4 DEF Seen, NameInv, Fits
  <2> QED BY <2>1, <2>2, <2>3, <2>4, <2>5, WorkParts, LocalParts
<1>2. CASE (UserAct /\ Local) \/ (ResolverAct /\ Local)
  <2> DEFINE P == {p \in Path : local'[p] # local[p] \/ (mounted # mounted' /\ job.at # "idle")}
  <2>1. UNCHANGED <<nas, nasDirs, rec>> /\ taken' = taken \cup {<<p, local[p]>> : p \in P}
    BY <1>2 DEF Local, Took, remote
  <2>2. P \subseteq Path
    OBVIOUS
  <2> HIDE DEF P
  <2>3. taken' \subseteq Path \X (used' \cup {None})
    BY <1>1, <2>1, <2>2
  <2> QED BY <1>1, <2>1, <2>3, NasStays
<1>3. ASSUME UNCHANGED <<nas, nasDirs, taken>>, rec' = rec \/ \E S : rec' = Overlay(rec, S) PROVE NasMoves
  BY <1>1, <1>3, NasStays
<1>4. CASE (\E e \in events : Notice(e)) /\ UNCHANGED <<remote, taken, job>>
  BY <1>3, <1>4 DEF remote
<1>5. CASE (PushFails \/ Crash \/ \E full \in BOOLEAN : Pull(full)) /\ UNCHANGED taken
  BY <1>3, <1>5, PullCases DEF remote, PushFails, Crash
<1>6. CASE PushAct /\ UNCHANGED taken
  <2>1. CASE \/ \E U \in {{}} \cup {{p} : p \in Resolved} : PushTick(U)
             \/ \E C \in SUBSET job.todo : PickChunk(C)
             \/ PushEnds \/ StagedCheck
             \/ \E r \in job.ren : StartRename(r)
             \/ Settle \/ Sent
    BY <1>3, <1>6, <2>1 DEF PushTick, PickChunk, PushEnds, StagedCheck, StartRename, Settle, Sent, remote
  <2>2. CASE AdoptRemote
    BY <1>3, <1>6, <2>2, AdoptCases
  <2>3. CASE Confirm
    BY <1>3, <1>6, <2>3 DEF Confirm
  <2>4. CASE BuildPlan
    <3> DEFINE renames == DirRenames(job.chunk) \cup FileRenames(job.chunk)
               rest == job.chunk \ UNION {PathsOf(r) : r \in renames}
    <3>1. rest \subseteq Path
      BY <1>1
    <3>2. CopyLosers(rest) /\ UNCHANGED <<used, rec>>
      BY <2>4, BuildCases DEF localVars, history
    <3> HIDE DEF rest
    <3> QED BY <1>6, <3>1, <3>2, CopiesMove
  <2>5. CASE RenamesEnd
    <3> DEFINE again == job.chunk \ job.done
    <3>1. UNCHANGED <<used, rec>> /\ (CopyLosers(again) \/ UNCHANGED <<nas, nasDirs>>)
      BY <2>5 DEF RenamesEnd, localVars, history
    <3>2. again \subseteq Path
      BY <1>1
    <3> HIDE DEF again
    <3> QED BY <1>3, <1>6, <3>1, <3>2, CopiesMove
  <2>6. CASE PublishStaged
    <3> DEFINE there == {s \in job.sent : nas[s[1]] # None}
               targets == {s[1] : s \in job.sent}
    <3>1. CASE UNCHANGED <<nas, nasDirs, rec>>
      BY <1>3, <1>6, <3>1
    <3>2. CASE /\ nas' = Overlay(nas, job.sent)
               /\ nasDirs' = nasDirs \cup {p[1] : p \in targets}
               /\ rec' = IF there = {} THEN Overlay(rec, job.sent) ELSE rec
      <4>1. \A s \in job.sent : s[1] \in Path /\ s[2] \in used /\ s = <<s[1], s[2]>> /\ Fits(s[1], s[2])
        BY <2>6, WorkParts DEF PublishStaged, Staged, NameInv
      <4>2. \A s \in job.sent : s[1][1] \in Dirs /\ s[1][1] \in nasDirs'
        BY <3>2, <4>1, PathParts
      <4>3. nasDirs \subseteq nasDirs' /\ nasDirs' \subseteq Dirs
        BY <1>1, <3>2, <4>2
      <4>4. rec' \in [Path -> Contents \cup {Unknown}]
        BY <1>1, <3>2
      <4>5. nas' = Overlay(nas, job.sent) /\ UNCHANGED <<used, taken>>
        BY <1>6, <2>6, <3>2 DEF PublishStaged, history
      <4> HIDE DEF there, targets
      <4> QED BY <4>1, <4>2, <4>3, <4>4, <4>5, NasOverlay
    <3> QED BY <2>6, <3>1, <3>2 DEF PublishStaged
  <2>7. ASSUME NEW p \in job.up, Send(p) PROVE NasMoves
    <3>1. CASE UNCHANGED <<nas, nasDirs>>
      BY <1>3, <1>6, <2>7, <3>1 DEF Send
    <3>2. CASE /\ nas' = [nas EXCEPT ![p] = Seen(p)]
               /\ nasDirs' = nasDirs \cup {p[1]}
      <4>1. p \in Path
        BY WorkParts
      <4>2. rec' = rec /\ used' = used
        BY <2>7 DEF Send, history
      <4>3. p[1] \in Dirs
        BY <4>1, PathParts
      <4>4. Seen(p) \in used' \cup {None} /\ Fits(p, Seen(p))
        BY <1>1, <4>1, <4>2
      <4> DEFINE c == Seen(p)
      <4>5. /\ nas' = [nas EXCEPT ![p] = c] /\ c \in used' \cup {None} /\ Fits(p, c)
            /\ nasDirs \subseteq nasDirs' /\ nasDirs' \subseteq Dirs /\ p[1] \in nasDirs'
            /\ used \subseteq used' /\ used' \subseteq Versions
            /\ rec' \in [Path -> Contents \cup {Unknown}]
            /\ taken' \subseteq Path \X (used' \cup {None})
        BY <1>1, <1>6, <3>2, <4>2, <4>3, <4>4
      <4> HIDE DEF c
      <4> QED BY <4>1, <4>5, NasFile
    <3> QED BY <2>7, <3>1, <3>2 DEF Send
  <2>8. CASE CheckedDelete
    <3> DEFINE gone == {d \in job.del : nas[d[1]] \in {d[2], None}}
               none == {d[1] : d \in gone} \X {None}
    <3>1. nas' = Overlay(nas, none) /\ rec' = Overlay(rec, none) /\ UNCHANGED <<nasDirs, used>>
      BY <2>8 DEF CheckedDelete, localVars, history
    <3>2. \A s \in none : s = <<s[1], s[2]>> /\ s[1] \in Path /\ s[2] = None
      BY WorkParts
    <3> HIDE DEF none
    <3> QED BY <1>1, <1>6, <3>1, <3>2, NasOverlay, Apart DEF Fits
  <2> QED BY <1>6, <2>1, <2>2, <2>3, <2>4, <2>5, <2>6, <2>7, <2>8 DEF PushAct
<1>7. ASSUME NEW r \in job.ren, RenameRemote(r) PROVE NasMoves
  <2>1. UNCHANGED used /\ (RenameMoves(r) \/ RenameRefused(r))
    BY <1>7, RenameCases
  <2>2. CASE RenameRefused(r)
    BY <1>3, <2>2 DEF RenameRefused
  <2> QED BY <2>1, <2>2, RenameNasMoves
<1>8. CASE OtherAct
  <2>1. PICK p \in Dirs \X {Plain} :
          OtherDelete(p) \/ \E v \in Versions : OtherWrite(p, v) \/ OobWrite(p, v)
    BY <1>8 DEF OtherAct
  <2>2. p \in Path /\ p[1] \in Dirs /\ \A c : Fits(p, c)
    BY PathParts, Apart DEF Fits
  <2>3. \A c \in Versions \cup {None} : [rec EXCEPT ![p] = c] \in [Path -> Contents \cup {Unknown}]
    BY <1>1, Apart
  <2>4. CASE OtherDelete(p)
    <3>1. /\ nas' = [nas EXCEPT ![p] = None] /\ nasDirs' = nasDirs /\ rec' = [rec EXCEPT ![p] = None]
          /\ taken' = taken \cup {<<q, nas[q]>> : q \in {p}}
      BY <2>4 DEF OtherDelete, Took
    <3>2. taken' \subseteq Path \X (used' \cup {None})
      BY <1>1, <2>2, <3>1
    <3> QED BY <1>1, <2>2, <2>3, <3>1, <3>2, NasFile
  <2>5. ASSUME NEW v \in Versions, OtherWrite(p, v) PROVE NasMoves
    <3>1. /\ nas' = [nas EXCEPT ![p] = v] /\ nasDirs' = nasDirs \cup {p[1]} /\ rec' = [rec EXCEPT ![p] = v]
          /\ taken' = taken \cup {<<q, nas[q]>> : q \in {p}} /\ v \in used'
      BY <2>5 DEF OtherWrite, Took
    <3>2. taken' \subseteq Path \X (used' \cup {None})
      BY <1>1, <2>2, <3>1
    <3> QED BY <1>1, <2>2, <2>3, <3>1, <3>2, NasFile
  <2>6. ASSUME NEW v \in Versions, OobWrite(p, v) PROVE NasMoves
    <3>1. /\ nas' = [nas EXCEPT ![p] = v] /\ nasDirs' = nasDirs \cup {p[1]} /\ rec' = rec /\ v \in used'
          /\ taken' = taken \cup {<<p, nas[p]>>} \cup IF p \in job.chunk THEN {<<p, v>>} ELSE {}
      BY <2>6 DEF OobWrite
    <3>2. taken' \subseteq Path \X (used' \cup {None})
      BY <1>1, <2>2, <3>1
    <3> QED BY <1>1, <2>2, <3>1, <3>2, NasFile
  <2> QED BY <2>1, <2>4, <2>5, <2>6
<1> QED BY <1>2, <1>4, <1>5, <1>6, <1>7, <1>8 DEF Next

\* A push keeps its renames and what it has staged, or makes a plan.
LEMMA JobCases ==
    ASSUME TypeInv, Next
    PROVE  \/ BuildPlan
           \/ /\ job'.ren \subseteq job.ren
              /\ Staged' => Staged /\ job'.sent = job.sent
<1>1. JobFields /\ JobInv /\ PlanInv
  BY WorkParts
<1>2. CASE job' = job
  BY <1>2 DEF Staged
<1>3. CASE job' = Idle
  BY <1>3 DEF Staged, Idle
<1>4. CASE job' = NextChunk
  BY <1>1, <1>4 DEF JobFields, NextChunk, Staged
<1>5. CASE PushAct /\ ~BuildPlan
  <2>1. ASSUME NEW U, PushTick(U) PROVE job'.ren = {} /\ ~Staged'
    BY <2>1 DEF PushTick, Idle, Staged
  <2>2. ASSUME NEW C, PickChunk(C) PROVE job'.ren = job.ren /\ ~Staged'
    BY <1>1, <2>2 DEF PickChunk, JobFields, Staged
  <2>3. CASE PushEnds \/ PublishStaged \/ Confirm
    BY <1>3, <1>4, <2>3 DEF PushEnds, PublishStaged, Confirm, Fails
  <2>4. CASE StagedCheck
    BY <1>1, <1>3, <2>4 DEF StagedCheck, JobFields, Staged
  <2>5. ASSUME NEW r, StartRename(r) PROVE job'.ren \subseteq job.ren /\ ~Staged'
    BY <1>1, <2>5 DEF StartRename, JobFields, Staged
  <2>6. CASE RenamesEnd
    <3>1. job'.ren = job.ren /\ job'.at = "settle"
      BY <1>1, <2>6 DEF RenamesEnd, WithPlan, JobFields
    <3> QED BY <3>1 DEF Staged
  <2>7. CASE Settle
    BY <1>1, <1>3, <2>7 DEF Settle, Fails, JobFields, Staged
  <2>8. ASSUME NEW p, Send(p) PROVE job'.ren \subseteq job.ren /\ ~Staged'
    <3>1. CASE job' = Idle
      BY <3>1 DEF Idle, Staged
    <3>2. CASE job' = [job EXCEPT !.up = @ \ {p}]
      BY <1>1, <2>8, <3>2 DEF Send, JobFields, Staged
    <3>3. CASE job' = [job EXCEPT !.up = @ \ {p}, !.sent = @ \cup {p}]
      BY <1>1, <2>8, <3>3 DEF Send, JobFields, Staged
    <3> QED BY <2>8, <3>1, <3>2, <3>3 DEF Send, Fails
  <2>9. CASE Sent \/ AdoptRemote \/ CheckedDelete
    BY <1>1, <1>3, <2>9 DEF Sent, AdoptRemote, CheckedDelete, JobFields, Staged
  <2> QED BY <1>5, <2>1, <2>2, <2>3, <2>4, <2>5, <2>6, <2>7, <2>8, <2>9 DEF PushAct
<1>6. ASSUME NEW r \in job.ren, RenameRemote(r) PROVE job'.ren \subseteq job.ren /\ ~Staged'
  <2>1. \/ job' = [job EXCEPT !.at = "rename", !.ren = @ \ {r}, !.done = @ \cup PathsOf(r)]
        \/ job' = [job EXCEPT !.at = "rename", !.ren = @ \ {r}, !.failed = @ \cup PathsOf(r)]
    BY <1>6 DEF RenameRemote
  <2> QED BY <1>1, <2>1 DEF JobFields, Staged
<1>7. CASE (UserAct /\ Local) \/ (ResolverAct /\ Local) \/ OtherAct \/ (\E full \in BOOLEAN : Pull(full))
  BY <1>2, <1>7 DEF Local, OtherAct, OtherDelete, OtherWrite, OobWrite, Pull
<1>8. CASE PushFails \/ Crash
  BY <1>3, <1>8 DEF PushFails, Crash, Fails
<1> QED BY <1>2, <1>5, <1>6, <1>7, <1>8 DEF Next

\* The types and the names are invariants.
LEMMA TypeStep == ASSUME TypeInv, NameInv, Next PROVE TypeInv' /\ NameInv'
<1>1. ClientMoves /\ NasMoves
  BY NextClient, NextNas
<1>2. FilesMove /\ TrashMoves /\ RestTypes
  BY <1>1 DEF ClientMoves
<1>3. LocalInv'
  BY <1>2, LocalTypes
<1>4. WorkInv'
  BY <1>2, NextWork DEF Around, RestTypes, TrashMoves
<1>5. NasInv'
  BY <1>1, Apart DEF NasMoves, NasInv, Contained
<1>6. TypeInv'
  BY <1>3, <1>4, <1>5 DEF TypeInv, WorkInv
<1>7. Staged' => \A s \in job'.sent : Fits(s[1], s[2])
  <2>1. CASE BuildPlan
    <3>1. CASE job' = [job EXCEPT !.at = "staged", !.sent = {<<p, Seen(p)>> : p \in job.chunk}]
      <4>1. job'.sent = {<<p, Seen(p)>> : p \in job.chunk}
        BY <3>1, WorkParts DEF JobFields
      <4>2. \A p \in job.chunk : Fits(p, Seen(p))
        BY WorkParts DEF NameInv, Fits, Seen
      <4> QED BY <4>1, <4>2
    <3>2. CASE ~(job' = [job EXCEPT !.at = "staged", !.sent = {<<p, Seen(p)>> : p \in job.chunk}])
      <4>1. job'.at \in {"plan", "settle", "rename"}
        BY <2>1, <3>2, WorkParts DEF BuildPlan, JobFields, WithPlan
      <4> QED BY <4>1 DEF Staged
    <3> QED BY <3>1, <3>2
  <2>2. CASE Staged' => Staged /\ job'.sent = job.sent
    BY <2>2 DEF NameInv
  <2> QED BY <2>1, <2>2, JobCases
<1>8. \A r \in job'.ren : r.kind = "FILE" => Fits(r.dst, r.v)
  <2>1. CASE BuildPlan
    <3>1. job.at = "plan" /\ job.ren = {}
      BY <2>1, WorkParts DEF BuildPlan, PlanInv
    <3>2. job'.ren \subseteq DirRenames(job.chunk) \cup FileRenames(job.chunk)
      BY <2>1, <3>1, WorkParts DEF BuildPlan, JobFields, WithPlan
    <3>3. ASSUME NEW r \in FileRenames(job.chunk) PROVE Fits(r.dst, r.v)
      <4>1. r.dst \in Path /\ Seen(r.dst) = r.v
        BY FoundFile, WorkParts
      <4> QED BY <4>1 DEF NameInv, Fits, Seen
    <3>4. \A r \in DirRenames(job.chunk) : r.kind = "DIR"
      BY FoundDir
    <3> QED BY <3>2, <3>3, <3>4
  <2>2. CASE job'.ren \subseteq job.ren
    BY <2>2 DEF NameInv
  <2> QED BY <2>1, <2>2, JobCases
<1>9. NameInv'
  <2>1. \A p \in Path : Fits(p, local'[p]) /\ Fits(p, nas'[p])
    BY <1>1, <1>2 DEF FilesMove, NasMoves
  <2>2. \A c \in ltrash' : Fits(c[1], c[2])
    BY <1>2 DEF TrashMoves
  <2> QED BY <1>7, <1>8, <2>1, <2>2 DEF NameInv
<1> QED BY <1>6, <1>9

-----------------------------------------------------------------------------
(* What was there stays there, or somebody took it away. *)

FreeThen(p, c) == local'[p] = c \/ <<p, c>> \in taken'

Keeps ==
    /\ taken \subseteq taken'
    /\ \A p \in Path : \A c : Free(p, c) => FreeThen(p, c)

\* What the user and the resolver do to a file is noted.
LEMMA UserKeeps ==
    ASSUME UserAct \/ ResolverAct, Local
    PROVE  /\ Keeps /\ UNCHANGED <<nas, nasDirs, rec, oob, job>>
           /\ \A t \in taken' : t \in taken \/ \E p \in Path : t = <<p, local[p]>>
           /\ mounted # mounted' /\ job.at # "idle" => \A p \in Path : <<p, local[p]>> \in taken'
<1> DEFINE P == {p \in Path : local'[p] # local[p] \/ (mounted # mounted' /\ job.at # "idle")}
<1>1. UNCHANGED <<nas, nasDirs, rec, oob, job>> /\ taken' = taken \cup {<<p, local[p]>> : p \in P}
  BY DEF Local, Took, remote
<1>2. \A p \in Path : local'[p] # local[p] => p \in P
  OBVIOUS
<1>3. mounted # mounted' /\ job.at # "idle" => P = Path
  OBVIOUS
<1>4. P \subseteq Path
  OBVIOUS
<1> HIDE DEF P
<1>5. ASSUME NEW p \in Path, NEW c, Free(p, c) PROVE FreeThen(p, c)
  <2>1. CASE local'[p] = local[p]
    BY <1>1, <1>5, <2>1 DEF Free, FreeThen
  <2>2. CASE local'[p] # local[p]
    <3>1. <<p, local[p]>> \in taken'
      BY <1>1, <1>2, <2>2
    <3> QED BY <1>1, <1>5, <3>1 DEF Free, FreeThen
  <2> QED BY <2>1, <2>2
<1>6. \A t \in taken' : t \in taken \/ \E p \in Path : t = <<p, local[p]>>
  BY <1>1, <1>4
<1> QED BY <1>1, <1>3, <1>5, <1>6 DEF Keeps

\* Files that stay are kept.
LEMMA SameKeeps == ASSUME UNCHANGED local, taken \subseteq taken' PROVE Keeps
BY DEF Keeps, Free, FreeThen

(* A pull that writes.                                                         *)
PullTakes ==
    /\ \E T \in SUBSET Path : PullWrites(T)
    /\ mounted /\ job.at \in {"idle", "chunk"} /\ UNCHANGED <<used, dropped, nas, job, taken>>

\* Who writes to the folder, and when a push begins.
LEMMA StepCases ==
    ASSUME TypeInv, Next
    PROVE  \/ (UserAct \/ ResolverAct) /\ Local
           \/ /\ UNCHANGED mounted /\ taken \subseteq taken'
              /\ UNCHANGED local \/ (AdoptRemote /\ AdoptsFiles) \/ PullTakes
              /\ job.at # "idle" \/ mounted \/ job'.at = "idle"
<1>1. CASE (\E e \in events : Notice(e)) /\ UNCHANGED <<remote, taken, job>>
  BY <1>1 DEF Notice, folder
<1>2. CASE (PushFails \/ Crash) /\ UNCHANGED taken
  BY <1>2 DEF PushFails, Crash, Restart, folder, Fails, Idle
<1>3. CASE (\E full \in BOOLEAN : Pull(full)) /\ UNCHANGED taken
  <2>1. PICK full \in BOOLEAN : Pull(full)
    BY <1>3
  <2>2. CASE UNCHANGED folder
    BY <1>3, <2>1, <2>2, PullCases DEF folder
  <2>3. ASSUME NEW T \in SUBSET Path, PullWrites(T) PROVE PullTakes /\ UNCHANGED mounted
    BY <1>3, <2>1, <2>3, PullCases DEF PullTakes, PullWrites, WriteLocal
  <2> QED BY <1>3, <2>1, <2>2, <2>3, PullCases
<1>4. CASE PushAct /\ UNCHANGED taken
  <2>1. ASSUME NEW U, PushTick(U) PROVE UNCHANGED <<local, mounted>> /\ (mounted \/ job'.at = "idle")
    BY <2>1 DEF PushTick, folder, Valid, Idle
  <2>2. ASSUME NEW C, PickChunk(C) PROVE UNCHANGED <<local, mounted>> /\ job.at # "idle"
    BY <2>2 DEF PickChunk, localVars, folder
  <2>3. CASE PushEnds \/ BuildPlan \/ RenamesEnd \/ Sent \/ CheckedDelete
    BY <1>4, <2>3 DEF PushEnds, BuildPlan, RenamesEnd, Sent, CheckedDelete, localVars, folder
  <2>4. CASE StagedCheck \/ PublishStaged \/ Settle \/ Confirm
    BY <1>4, <2>4 DEF StagedCheck, PublishStaged, Settle, Confirm, folder
  <2>5. ASSUME NEW r, StartRename(r) PROVE UNCHANGED <<local, mounted>> /\ job.at # "idle"
    BY <2>5 DEF StartRename, folder
  <2>6. ASSUME NEW p, Send(p) PROVE UNCHANGED <<local, mounted>> /\ job.at # "idle"
    BY <2>6 DEF Send, folder
  <2>7. CASE AdoptRemote
    <3>1. CASE UNCHANGED folder
      BY <1>4, <2>7, <3>1 DEF folder, AdoptRemote
    <3>2. CASE AdoptsFiles
      BY <1>4, <2>7, <3>2 DEF AdoptsFiles, WriteLocal, AdoptRemote
    <3> QED BY <2>7, <3>1, <3>2, AdoptCases
  <2> QED BY <1>4, <2>1, <2>2, <2>3, <2>4, <2>5, <2>6, <2>7 DEF PushAct
<1>5. ASSUME NEW r \in job.ren, RenameRemote(r)
      PROVE  UNCHANGED <<local, mounted>> /\ taken \subseteq taken' /\ job.at # "idle"
  <2>1. RenameMoves(r) \/ RenameRefused(r)
    BY <1>5, RenameCases
  <2>2. taken \subseteq taken'
    BY <2>1 DEF RenameMoves, RenameRefused
  <2> QED BY <1>5, <2>2, RenameCases
<1>6. CASE OtherAct
  <2>1. PICK p \in Dirs \X {Plain} :
          OtherDelete(p) \/ \E v \in Versions : OtherWrite(p, v) \/ OobWrite(p, v)
    BY <1>6 DEF OtherAct
  <2>2. UNCHANGED <<folder, job>> /\ taken \subseteq taken'
    BY <2>1 DEF OtherDelete, OtherWrite, OobWrite, Took
  <2> QED BY <2>2 DEF folder
<1> QED BY <1>1, <1>2, <1>3, <1>4, <1>5, <1>6 DEF Next

\* The steps that write rows of the store.
LEMMA RowCases ==
    ASSUME TypeInv, NameInv, Next
    PROVE  \/ UNCHANGED base \/ PublishStaged \/ Settle \/ Confirm \/ PullTakes
           \/ \E r \in job.ren : RenameRemote(r) /\ RenameMoves(r)
<1>1. CASE (UserAct \/ ResolverAct) /\ Local
  BY <1>1, WorkParts, FolderSteps DEF FolderStep, RestMoves
<1>2. CASE (\E e \in events : Notice(e)) /\ UNCHANGED <<remote, taken, job>>
  BY <1>2 DEF Notice, store
<1>3. CASE (PushFails \/ Crash) /\ UNCHANGED taken
  BY <1>3 DEF PushFails, Crash, Restart, store
<1>4. CASE (\E full \in BOOLEAN : Pull(full)) /\ UNCHANGED taken
  <2>1. PICK full \in BOOLEAN : Pull(full)
    BY <1>4
  <2> QED BY <1>4, <2>1, PullCases DEF PullTakes
<1>5. CASE PushAct /\ UNCHANGED taken
  <2>1. ASSUME NEW U, PushTick(U) PROVE UNCHANGED base
    BY <2>1 DEF PushTick
  <2>2. ASSUME NEW C, PickChunk(C) PROVE UNCHANGED base
    BY <2>2 DEF PickChunk, localVars, store
  <2>3. CASE PushEnds \/ BuildPlan \/ RenamesEnd \/ Sent \/ CheckedDelete
    BY <2>3 DEF PushEnds, BuildPlan, RenamesEnd, Sent, CheckedDelete, localVars, store
  <2>4. CASE StagedCheck \/ AdoptRemote
    BY <2>4 DEF StagedCheck, AdoptRemote, store
  <2>5. ASSUME NEW r, StartRename(r) PROVE UNCHANGED base
    BY <2>5 DEF StartRename, store
  <2>6. ASSUME NEW p, Send(p) PROVE UNCHANGED base
    BY <2>6 DEF Send, store
  <2> QED BY <1>5, <2>1, <2>2, <2>3, <2>4, <2>5, <2>6 DEF PushAct
<1>6. ASSUME NEW r \in job.ren, RenameRemote(r), ~RenameMoves(r) PROVE UNCHANGED base
  <2>1. RenameRefused(r)
    BY <1>6, RenameCases
  <2> QED BY <2>1 DEF RenameRefused
<1>7. CASE OtherAct
  BY <1>7 DEF OtherAct, OtherDelete, OtherWrite, OobWrite, store
<1> QED BY <1>1, <1>2, <1>3, <1>4, <1>5, <1>6, <1>7 DEF Next

\* What a pull writes becomes the base.
LEMMA PullRows ==
    ASSUME TypeInv, NameInv, PullTakes, NEW p \in Path
    PROVE  \/ local'[p] = nas[p] /\ base'[p] \in {None, nas[p]}
           \/ local'[p] = local[p] /\ base'[p] \in {None, base[p]}
<1>1. PICK T \in SUBSET Path : PullWrites(T)
  BY DEF PullTakes
<1>2. PICK R \in SUBSET Path : base' = Overlay(base, (R \X {None}) \cup Files(T))
  BY <1>1 DEF PullWrites
<1>3. /\ \A q \in T : local'[q] = nas[q]
      /\ \A q \in Path \ T : local'[q] = local[q]
  BY <1>1, WriteFiles DEF PullWrites, PullTakes
<1> DEFINE S == (R \X {None}) \cup Files(T)
<1>4. \A c : <<p, c>> \in S <=> (p \in R /\ c = None) \/ (p \in T /\ c = nas[p])
  BY DEF Files
<1>5. base' = Overlay(base, S) /\ nas[p] \in Contents
  BY <1>2, WorkParts
<1> HIDE DEF S
<1>6. \/ <<p, base'[p]>> \in S
      \/ base'[p] = base[p] /\ \A c \in Contents : <<p, c>> \notin S
  BY <1>5, OverlayAt
<1>7. CASE p \in T
  BY <1>3, <1>4, <1>5, <1>6, <1>7
<1>8. CASE p \notin T
  BY <1>3, <1>4, <1>6, <1>8
<1> QED BY <1>7, <1>8

\* The files that an adoption takes over are as on the NAS.
LEMMA AdoptFiles ==
    ASSUME TypeInv, NameInv, AdoptRemote, AdoptsFiles
    PROVE  /\ \A p \in Adopted : local'[p] = nas[p]
           /\ \A p \in Path \ Adopted : local'[p] = local[p]
           /\ UNCHANGED <<base, nas, used, dropped, mounted>>
           /\ Adopted # {} => mounted
<1>1. Adopted \subseteq Path /\ UNCHANGED <<base, used, dropped, nas>>
  BY AdoptCases
<1>2. /\ \A p \in Adopted : local'[p] = nas[p]
      /\ \A p \in Path \ Adopted : local'[p] = local[p]
  BY <1>1, WriteFiles DEF AdoptsFiles
<1>3. ASSUME NEW a \in job.adp PROVE mounted
  <2>1. Seen(a[1]) = a[2] /\ a[2] \in Versions
    <3>1. a[2] \in Versions
      BY WorkParts
    <3>2. job' # Idle
      BY WorkParts DEF AdoptsFiles, Idle, JobFields
    <3> QED BY <3>1, <3>2, AdoptCases
  <2> QED BY <2>1, Apart DEF Seen
<1> QED BY <1>1, <1>2, <1>3 DEF AdoptsFiles, WriteLocal, Adopted

\* An unmounted volume keeps what it had, and was taken away from a running push.
LEMMA VolumeStep ==
    ASSUME TypeInv, NameInv, BaseInv, Next
    PROVE  job'.at # "idle" /\ ~mounted' => \A p \in Path : local'[p] = None \/ <<p, local'[p]>> \in taken'
<1> SUFFICES ASSUME job'.at # "idle", ~mounted', NEW p \in Path, local'[p] # None
             PROVE  <<p, local'[p]>> \in taken'
  OBVIOUS
<1>1. CASE (UserAct \/ ResolverAct) /\ Local
  <2>1. RestMoves
    BY <1>1, WorkParts, FolderSteps DEF FolderStep
  <2>2. local' = local /\ mounted \in BOOLEAN
    BY <2>1, WorkParts, LocalParts DEF RestMoves
  <2>3. job' = job /\ taken \subseteq taken' /\ (mounted => <<p, local[p]>> \in taken')
    BY <1>1, UserKeeps DEF Keeps
  <2> QED BY <2>2, <2>3 DEF BaseInv
<1>2. CASE /\ UNCHANGED mounted /\ taken \subseteq taken'
           /\ UNCHANGED local \/ (AdoptRemote /\ AdoptsFiles) \/ PullTakes
           /\ job.at # "idle" \/ mounted \/ job'.at = "idle"
  <2>1. ~mounted /\ job.at # "idle"
    BY <1>2
  <2>2. local'[p] = local[p]
    <3>1. ~PullTakes
      BY <2>1 DEF PullTakes
    <3>2. CASE AdoptRemote /\ AdoptsFiles
      BY <2>1, <3>2, AdoptFiles
    <3> QED BY <1>2, <3>1, <3>2
  <2> QED BY <1>2, <2>1, <2>2 DEF BaseInv
<1> QED BY <1>1, <1>2, StepCases

\* Every base stays with its file, or was taken away.
LEMMA BaseStep ==
    ASSUME TypeInv, NameInv, BaseInv, SentInv, SettledInv, Next
    PROVE  BaseInv'
<1>1. ASSUME NEW p \in Path, base'[p] \in Versions PROVE FreeThen(p, base'[p])
  <2>1. ASSUME Keeps, base'[p] = base[p] PROVE FreeThen(p, base'[p])
    BY <1>1, <2>1 DEF Keeps, BaseInv
  <2>2. CASE (UserAct \/ ResolverAct) /\ Local
    BY <2>1, <2>2, UserKeeps, WorkParts, FolderSteps DEF FolderStep, RestMoves
  <2>3. CASE AdoptRemote /\ AdoptsFiles
    <3>1. base' = base /\ taken \subseteq taken'
      BY <2>3, AdoptFiles, StepCases, UserKeeps DEF Keeps
    <3>2. CASE p \in Adopted
      BY <1>1, <3>1, <3>2 DEF Adopted, SettledInv, FreeThen
    <3>3. CASE p \notin Adopted
      BY <1>1, <2>3, <3>1, <3>3, AdoptFiles DEF FreeThen, Free, BaseInv
    <3> QED BY <3>2, <3>3
  <2>4. CASE PullTakes
    <3>1. taken' = taken
      BY <2>4 DEF PullTakes
    <3> QED BY <1>1, <2>4, <3>1, PullRows, Apart DEF FreeThen, Free, BaseInv
  <2>5. ASSUME UNCHANGED local, taken \subseteq taken' PROVE FreeThen(p, base'[p])
    <3>1. Keeps
      BY <2>5, SameKeeps
    <3>2. CASE PublishStaged
      <4>1. base' = base \/ base' = Overlay(base, job.sent)
        BY <3>2 DEF PublishStaged, store
      <4>2. CASE base' = Overlay(base, job.sent)
        <5>1. <<p, base'[p]>> \in job.sent \/ base'[p] = base[p]
          BY <4>2, OverlayAt
        <5>2. \A s \in job.sent : Free(s[1], s[2])
          BY <3>2 DEF PublishStaged, Staged, SentInv
        <5>3. CASE <<p, base'[p]>> \in job.sent
          <6> DEFINE s == <<p, base'[p]>>
          <6>1. s \in job.sent /\ s[1] = p /\ s[2] = base'[p]
            BY <5>3
          <6> HIDE DEF s
          <6> QED BY <3>1, <5>2, <6>1 DEF Keeps
        <5> QED BY <2>1, <3>1, <5>1, <5>3
      <4> QED BY <2>1, <3>1, <4>1, <4>2
    <3>3. CASE Settle
      <4> DEFINE S == job.wins \X {None}
      <4>1. base' = Overlay(base, S) /\ \A c : <<p, c>> \in S => c = None
        BY <3>3 DEF Settle
      <4> HIDE DEF S
      <4>2. base'[p] = None \/ base'[p] = base[p]
        BY <4>1, OverlayAt
      <4> QED BY <1>1, <2>1, <3>1, <4>2, Apart
    <3>4. CASE Confirm
      <4> DEFINE deleted == {d[1] : d \in job.del}
                 none == (deleted \cup (job.adopt \ Uploads)) \X {None}
                 S == {<<q, nas[q]>> : q \in Uploads \cup Adopted} \cup none
      <4>1. base' = base \/ (base' = Overlay(base, S) /\ Confirmable)
        BY <3>4 DEF Confirm, store
      <4>2. \A c : <<p, c>> \in S => c = None \/ (c = nas[p] /\ p \in Uploads \cup Adopted)
        OBVIOUS
      <4> HIDE DEF S
      <4>3. CASE base' = Overlay(base, S) /\ Confirmable
        <5>1. base'[p] = base[p] \/ (base'[p] = nas[p] /\ p \in Uploads \cup Adopted)
          <6>1. <<p, base'[p]>> \in S \/ base'[p] = base[p]
            BY <4>3, OverlayAt
          <6>2. base'[p] # None
            BY <1>1, Apart
          <6> QED BY <4>2, <6>1, <6>2
        <5>2. ASSUME base'[p] = nas[p], p \in Uploads \cup Adopted PROVE Free(p, nas[p])
          <6>1. nas[p] \in Versions /\ job.at = "confirm"
            BY <1>1, <3>4, <5>2 DEF Confirm
          <6>2. CASE p \in job.sent
            BY <6>1, <6>2, Apart DEF SentInv, Staged
          <6>3. CASE p \in Adopted
            BY <6>1, <6>3, Apart DEF Adopted, SettledInv
          <6>4. CASE p \in job.adopt /\ Seen(p) # None
            <7>1. nas[p] = None \/ Free(p, nas[p]) \/ p[2] \in Versions
              BY <6>4 DEF SettledInv
            <7>2. CASE p[2] \in Versions
              <8>1. nas[p] = p[2]
                BY <6>1, <7>2, Apart DEF NameInv, Fits
              <8>2. local[p] # None
                BY <6>4 DEF Seen
              <8>3. local[p] = p[2]
                BY <7>2, <8>2 DEF NameInv, Fits
              <8> QED BY <8>1, <8>3 DEF Free
            <7> QED BY <6>1, <7>1, <7>2, Apart
          <6> QED BY <5>2, <6>2, <6>3, <6>4 DEF Uploads
        <5> QED BY <2>1, <3>1, <5>1, <5>2 DEF Keeps
      <4> QED BY <2>1, <3>1, <4>1, <4>3
    <3>5. ASSUME NEW r \in job.ren, RenameMoves(r) PROVE FreeThen(p, base'[p])
      <4> DEFINE S == {<<e[1], None>> : e \in Entries(r)} \cup {<<e[2], base[e[1]]>> : e \in Entries(r)}
      <4>1. base' = Overlay(base, S)
        BY <3>5 DEF RenameMoves
      <4>2. \A c : <<p, c>> \in S => c = None \/ \E e \in Entries(r) : p = e[2] /\ c = base[e[1]]
        OBVIOUS
      <4> HIDE DEF S
      <4>3. base'[p] = base[p] \/ \E e \in Entries(r) : p = e[2] /\ base'[p] = base[e[1]]
        <5>1. <<p, base'[p]>> \in S \/ base'[p] = base[p]
          BY <4>1, OverlayAt
        <5>2. base'[p] # None
          BY <1>1, Apart
        <5> QED BY <4>2, <5>1, <5>2
      <4>4. ASSUME NEW e \in Entries(r), p = e[2], base'[p] = base[e[1]] PROVE Free(p, base'[p])
        BY <1>1, <4>4 DEF SettledInv
      <4> QED BY <2>1, <3>1, <4>3, <4>4 DEF Keeps
    <3>6. CASE PullTakes
      BY <2>4, <3>6
    <3> QED BY <2>1, <3>1, <3>2, <3>3, <3>4, <3>5, <3>6, RowCases
  <2> QED BY <2>2, <2>3, <2>4, <2>5, StepCases
<1>2. \A p \in Path : base'[p] \in Versions => Free(p, base[p])'
  BY <1>1 DEF Free, FreeThen
<1> QED BY <1>2, VolumeStep DEF BaseInv

-----------------------------------------------------------------------------
(* A plan stays settled. *)

(* No plan at all.                                                             *)
NoPlan == job.up = {} /\ job.del = {} /\ job.adopt = {} /\ job.adp = {} /\ job.ren = {} /\ job.sent = {}

\* Without a plan there is nothing to settle.
LEMMA NoPlanHeld == ASSUME NoPlan' PROVE SentInv' /\ SettledInv'
BY DEF NoPlan, SentInv, SettledInv

\* A push has a plan only while it holds the lease, or a staged chunk.
LEMMA Planless ==
    ASSUME TypeInv, job.at \in {"idle", "chunk", "plan"}
    PROVE  NoPlan
BY DEF TypeInv, PlanInv, NoPlan, Leased

\* The same plan or less of it, while the files of the NAS rest.
LEMMA RestHeld ==
    ASSUME TypeInv, SentInv, SettledInv, Keeps, UNCHANGED nas,
           \A p \in Path : base'[p] \in {None, base[p]},
           job'.up \subseteq job.up, job'.adopt = job.adopt, job'.adp = job.adp,
           job'.del \subseteq job.del, job'.ren \subseteq job.ren,
           job'.sent = job.sent, Staged' <=> Staged,
           job'.at \in {"delete", "confirm"} => job.at \in {"delete", "confirm"} \/ job.adp = {}
    PROVE  SentInv' /\ SettledInv'
<1>0. /\ taken \subseteq taken'
      /\ \A p \in Path : \A c : Free(p, c) => Free(p, c)'
  BY DEF Keeps, Free, FreeThen
<1>1. SentInv'
  <2>1. ASSUME Staged, NEW s \in job.sent PROVE Free(s[1], s[2])'
    <3>1. s[1] \in Path /\ Free(s[1], s[2])
      BY <2>1, WorkParts DEF SentInv
    <3>2. FreeThen(s[1], s[2])
      BY <3>1 DEF Keeps
    <3> QED BY <3>2 DEF Free, FreeThen
  <2>2. ASSUME ~Staged, NEW p \in job.sent PROVE nas[p] = None \/ local'[p] = nas[p] \/ <<p, nas[p]>> \in taken'
    <3>1. p \in Path /\ (nas[p] = None \/ Free(p, nas[p]))
      BY <2>2, WorkParts DEF SentInv
    <3> QED BY <3>1 DEF Keeps, FreeThen
  <2>3. Staged' => \A s \in job'.sent : Free(s[1], s[2])'
    BY <2>1
  <2>4. ~Staged' => \A p \in job'.sent : nas'[p] = None \/ (local'[p] = nas'[p] \/ <<p, nas'[p]>> \in taken')
    BY <2>2
  <2> QED BY <2>3, <2>4 DEF SentInv, Free
<1>2. \A p \in job'.up : Replaceable(p)'
  BY <1>0 DEF SettledInv, Replaceable
<1>3. \A d \in job'.del : d[2] = None \/ d \in taken'
  BY <1>0 DEF SettledInv
<1>4. ASSUME NEW p \in job.adopt PROVE nas[p] = None \/ local'[p] = nas[p] \/ <<p, nas[p]>> \in taken' \/ p[2] \in Versions
  <2>1. p \in Path /\ (nas[p] = None \/ Free(p, nas[p]) \/ p[2] \in Versions)
    BY WorkParts DEF SettledInv
  <2> QED BY <2>1 DEF Keeps, FreeThen
<1>5. ASSUME NEW a \in job.adp
      PROVE  /\ base'[a[1]] \in Versions => <<a[1], base'[a[1]]>> \in taken'
             /\ job'.at \in {"delete", "confirm"} =>
                  nas[a[1]] = None \/ local'[a[1]] = nas[a[1]] \/ <<a[1], nas[a[1]]>> \in taken'
  <2>1. a[1] \in Path
    BY WorkParts
  <2>2. base'[a[1]] \in Versions => <<a[1], base'[a[1]]>> \in taken'
    BY <1>0, <2>1, Apart DEF SettledInv
  <2>3. job'.at \in {"delete", "confirm"} => nas[a[1]] = None \/ Free(a[1], nas[a[1]])
    BY DEF SettledInv
  <2> QED BY <2>1, <2>2, <2>3 DEF Keeps, FreeThen
<1>6. ASSUME NEW r \in job'.ren
      PROVE  /\ r.kind = "FILE" => <<r.src, r.v>> \in taken'
             /\ \A e \in Entries(r) : base'[e[1]] \in Versions =>
                     local'[e[2]] = base'[e[1]] \/ <<e[2], base'[e[1]]>> \in taken'
  <2>1. r.kind = "FILE" => <<r.src, r.v>> \in taken'
    BY <1>0 DEF SettledInv
  <2>2. ASSUME NEW e \in Entries(r), base'[e[1]] \in Versions PROVE FreeThen(e[2], base'[e[1]])
    <3>1. e[1] \in Path /\ e[2] \in Path
      BY WorkParts, RenameTypes
    <3>2. base'[e[1]] = base[e[1]]
      BY <2>2, <3>1, Apart
    <3>3. Free(e[2], base[e[1]])
      BY <2>2, <3>2 DEF SettledInv
    <3> QED BY <3>1, <3>2, <3>3 DEF Keeps
  <2> QED BY <2>1, <2>2 DEF FreeThen
<1> QED BY <1>1, <1>2, <1>3, <1>4, <1>5, <1>6 DEF SettledInv, Free

\* Where the conflict copies of a plan go: to copy names, with their content.
LEMMA CopyAt ==
    ASSUME TypeInv, NameInv, NEW S, S \subseteq Path, CopyLosers(S), NEW p \in Path
    PROVE  /\ nas'[p] = nas[p] \/ (p[2] \in Versions /\ nas'[p] = p[2] /\ nas[p] = None)
           /\ \A c \in Losers(S) : nas'[c[1]] = c[2]
<1> DEFINE L == Losers(S)
<1>1. /\ \A c \in L : c[1] \in Path /\ c[2] \in Versions /\ c = <<c[1], c[2]>> /\ c[1][2] = c[2]
      /\ nas' = Overlay(nas, L)
  BY LoserFacts DEF CopyLosers
<1> HIDE DEF L
<1>2. ASSUME NEW q \in Path, <<q, nas'[q]>> \in L PROVE q[2] \in Versions /\ nas'[q] = q[2]
  <2> DEFINE c == <<q, nas'[q]>>
  <2>1. c \in L /\ c[1] = q /\ c[2] = nas'[q]
    BY <1>2
  <2> HIDE DEF c
  <2> QED BY <1>1, <2>1
<1>3. nas'[p] = nas[p] \/ <<p, nas'[p]>> \in L
  BY <1>1, OverlayAt
<1>4. p[2] \in Versions => nas[p] \in {None, p[2]}
  BY DEF NameInv, Fits
<1>5. ASSUME NEW c \in L PROVE nas'[c[1]] = c[2]
  <2>1. \/ <<c[1], nas'[c[1]]>> \in L
        \/ \A x \in Contents : <<c[1], x>> \notin L
    BY <1>1, OverlayAt
  <2>2. <<c[1], nas'[c[1]]>> \in L
    BY <1>1, <2>1, Apart
  <2> QED BY <1>1, <1>2, <2>2
<1> QED BY <1>2, <1>3, <1>4, <1>5 DEF L

\* What the base of a path says of a push that sees another version there.
LEMMA BaseTaken ==
    ASSUME TypeInv, BaseInv, job.at # "idle", NEW p \in Path, base[p] \in Versions, Seen(p) # base[p]
    PROVE  <<p, base[p]>> \in taken
<1>1. Free(p, base[p])
  BY DEF BaseInv
<1>2. CASE mounted
  BY <1>1, <1>2 DEF Seen, Free
<1>3. CASE ~mounted
  BY <1>1, <1>3, Apart DEF Free, BaseInv
<1> QED BY <1>2, <1>3

\* A new plan is settled.
LEMMA PlanHeld ==
    ASSUME TypeInv, NameInv, BaseInv, job.at # "idle", NEW S, S \subseteq job.chunk,
           CopyLosers(S), UNCHANGED <<local, mounted, base, taken>>,
           job'.up = WithPlan(S).up, job'.del = WithPlan(S).del,
           job'.adopt = WithPlan(S).adopt, job'.adp = WithPlan(S).adp,
           job'.sent = {}, job'.at \notin {"staged", "publish", "delete", "confirm"},
           \A r \in job'.ren :
             /\ r.kind = "FILE" => <<r.src, r.v>> \in taken
             /\ \A e \in Entries(r) : base[e[1]] \in Versions => Free(e[2], base[e[1]])
    PROVE  SentInv' /\ SettledInv'
<1>1. SentInv'
  BY DEF SentInv, Staged
<1>2. S \subseteq Path
  BY WorkParts
<1>3. /\ job'.up = Planned(S, "upload") \cup Planned(S, "conflict_local_wins")
      /\ job'.del = {<<p, nas[p]>> : p \in Planned(S, "delete_remote")}
      /\ job'.adopt = Planned(S, "adopt")
      /\ job'.adp = {<<p, local[p]>> : p \in {q \in Planned(S, "conflict_remote_wins") : Seen(q) # None}}
  BY PlanFields
<1>4. ASSUME NEW p \in job'.up
      PROVE  \/ nas'[p] = None \/ <<p, nas'[p]>> \in taken'
             \/ nas'[CopyPath(p, nas'[p])] = nas'[p]
  <2>1. p \in S /\ p \in Path /\ Act(p) \in {"upload", "conflict_local_wins"}
    BY <1>2, <1>3 DEF Planned
  <2>2. nas'[p] = nas[p] \/ (p[2] \in Versions /\ nas'[p] = p[2])
    BY <1>2, <2>1, CopyAt
  <2>3. CASE p[2] \in Versions /\ nas'[p] = p[2]
    <3>1. CopyPath(p, nas'[p]) = p
      BY <2>1, <2>3, PathParts DEF CopyPath
    <3> QED BY <3>1
  <2>4. CASE nas'[p] = nas[p] /\ Act(p) = "upload"
    <3>1. nas[p] = None \/ (nas[p] = base[p] /\ nas[p] \in Versions /\ Seen(p) # nas[p])
      BY <2>1, <2>4, ActFacts
    <3>2. CASE nas[p] = base[p] /\ nas[p] \in Versions /\ Seen(p) # nas[p]
      BY <2>1, <2>4, <3>2, BaseTaken
    <3> QED BY <2>4, <3>1, <3>2
  <2>5. CASE nas'[p] = nas[p] /\ Act(p) = "conflict_local_wins"
    <3>1. p \in Planned(S, "conflict_local_wins")
      BY <2>1, <2>5 DEF Planned
    <3> DEFINE c == <<CopyPath(p, nas[p]), nas[p]>>
    <3>2. c \in Losers(S) /\ c[1] = CopyPath(p, nas[p]) /\ c[2] = nas[p]
      BY <1>2, <3>1, LoserFacts
    <3> HIDE DEF c
    <3>3. nas'[c[1]] = c[2]
      BY <1>2, <2>1, <3>2, CopyAt
    <3> QED BY <2>5, <3>2, <3>3
  <2> QED BY <2>1, <2>2, <2>3, <2>4, <2>5
<1>5. ASSUME NEW d \in job'.del PROVE d[2] = None \/ d \in taken'
  <2>1. PICK p \in Planned(S, "delete_remote") : d = <<p, nas[p]>>
    BY <1>3
  <2>2. p \in Path /\ Act(p) = "delete_remote"
    BY <1>2 DEF Planned
  <2>3. Seen(p) = None /\ nas[p] = base[p] /\ nas[p] \in Versions
    BY <2>2, ActFacts
  <2> QED BY <2>1, <2>2, <2>3, BaseTaken, Apart
<1>6. ASSUME NEW p \in job'.adopt
      PROVE  nas'[p] = None \/ local'[p] = nas'[p] \/ <<p, nas'[p]>> \in taken' \/ p[2] \in Versions
  <2>1. p \in Path /\ Act(p) = "adopt"
    BY <1>2, <1>3 DEF Planned
  <2>2. nas[p] = None \/ Seen(p) = nas[p]
    BY <2>1, ActFacts
  <2>3. nas'[p] = nas[p] \/ p[2] \in Versions
    BY <1>2, <2>1, CopyAt
  <2> QED BY <2>2, <2>3 DEF Seen
<1>7. ASSUME NEW a \in job'.adp, base'[a[1]] \in Versions PROVE <<a[1], base'[a[1]]>> \in taken'
  <2>1. PICK p \in {q \in Planned(S, "conflict_remote_wins") : Seen(q) # None} : a = <<p, local[p]>>
    BY <1>3
  <2>2. p \in Path /\ Act(p) = "conflict_remote_wins" /\ Seen(p) # None /\ a[1] = p
    BY <1>2, <2>1 DEF Planned
  <2>3. Seen(p) # base[p]
    BY <1>7, <2>2, ActFacts
  <2> QED BY <1>7, <2>2, <2>3, BaseTaken
<1>8. ASSUME NEW r \in job'.ren
      PROVE  /\ r.kind = "FILE" => <<r.src, r.v>> \in taken'
             /\ \A e \in Entries(r) : base'[e[1]] \in Versions =>
                     local'[e[2]] = base'[e[1]] \/ <<e[2], base'[e[1]]>> \in taken'
  BY DEF Free
<1>9. \A p \in job'.up : Replaceable(p)'
  BY <1>4 DEF Replaceable
<1>10. \A a \in job'.adp : job'.at \notin {"delete", "confirm"}
  OBVIOUS
<1> QED BY <1>1, <1>5, <1>6, <1>7, <1>8, <1>9, <1>10 DEF SettledInv, Free

\* The renames of a new plan are settled.
LEMMA FoundHeld ==
    ASSUME TypeInv, BaseInv, job.at # "idle", NEW r \in DirRenames(job.chunk) \cup FileRenames(job.chunk)
    PROVE  /\ r.kind = "FILE" => <<r.src, r.v>> \in taken
           /\ \A e \in Entries(r) : base[e[1]] \in Versions => Free(e[2], base[e[1]])
<1>1. ASSUME r.kind = "FILE" PROVE <<r.src, r.v>> \in taken
  <2>1. r \in FileRenames(job.chunk)
    BY <1>1, Found
  <2>2. r.src \in job.chunk /\ base[r.src] = r.v /\ Seen(r.src) = None /\ r.v \in Versions
    BY <1>1, <2>1, FoundFile, RenameTypes
  <2>3. r.src \in Path
    BY <2>2, WorkParts
  <2> QED BY <2>2, <2>3, BaseTaken, Apart
<1>2. ASSUME NEW e \in Entries(r), base[e[1]] \in Versions PROVE Free(e[2], base[e[1]])
  <2>1. Seen(e[2]) = base[e[1]]
    BY Found
  <2>2. local[e[2]] = base[e[1]]
    BY <1>2, <2>1, Apart DEF Seen
  <2> QED BY <2>2 DEF Free
<1> QED BY <1>1, <1>2

\* A rename on the NAS leaves the plan settled.
LEMMA RenameHeld ==
    ASSUME TypeInv, NameInv, SentInv, SettledInv,
           NEW r \in job.ren, RenameRemote(r), RenameMoves(r)
    PROVE  SentInv' /\ SettledInv'
<1>1. /\ job.at = "moving" /\ local' = local /\ taken \subseteq taken' /\ Carried(r) \subseteq taken'
      /\ r \in Renames /\ PathsOf(r) \cap PlanPaths = {}
      /\ r.kind = "DIR" => r.from \subseteq Under(r.src) /\ job.up \cap Under(r.dst) = {}
      /\ \A s \in job.ren : \A e \in Entries(r), f \in Entries(s) : e[2] # f[1]
  <2>1. job.at = "moving" /\ local' = local
    BY RenameCases
  <2>2. taken \subseteq taken' /\ Carried(r) \subseteq taken'
    BY DEF RenameMoves
  <2>3. RenameInv /\ r \in Renames
    BY WorkParts
  <2> QED BY <2>1, <2>2, <2>3 DEF RenameInv
<1>2. /\ JobFields' /\ job'.at = "rename" /\ job'.ren = job.ren \ {r}
      /\ job'.up = job.up /\ job'.del = job.del /\ job'.adopt = job.adopt /\ job'.adp = job.adp
      /\ job'.sent = job.sent
  BY WorkParts DEF RenameMoves, JobFields
<1>3. job.sent = {}
  BY <1>1 DEF TypeInv, PlanInv
<1>4. /\ \A m \in MovedFiles(r) :
           /\ m[1] \in Path /\ m[2] \in Path /\ m[1] # m[2]
           /\ nas[m[1]] # None /\ nas[m[2]] = None
           /\ nas'[m[1]] = None /\ nas'[m[2]] = nas[m[1]]
      /\ \A p \in Path : (\A m \in MovedFiles(r) : p # m[1] /\ p # m[2]) => nas'[p] = nas[p]
  BY RenameNas
<1>5. \A e \in Entries(r) : e[1] \in PathsOf(r) /\ e[2] \in PathsOf(r) /\ e[1] \in Path /\ e[2] \in Path
  BY <1>1, RenameTypes DEF Entries, PathsOf, Renaming
<1>6. ASSUME NEW p \in Path, \A e \in Entries(r) : p # e[2]
      PROVE  base'[p] = None \/ base'[p] = base[p]
  <2> DEFINE S == {<<e[1], None>> : e \in Entries(r)} \cup {<<e[2], base[e[1]]>> : e \in Entries(r)}
  <2>1. base' = Overlay(base, S)
    BY DEF RenameMoves
  <2>2. \A c : <<p, c>> \in S => c = None
    BY <1>6
  <2> HIDE DEF S
  <2>3. <<p, base'[p]>> \in S \/ base'[p] = base[p]
    BY <2>1, OverlayAt
  <2> QED BY <2>2, <2>3
<1>7. ASSUME NEW m \in MovedFiles(r), r.kind = "DIR"
      PROVE  m[1] \in Under(r.src) /\ m[2] \in Under(r.dst)
  <2>1. r.src \in Dirs /\ r.dst \in Dirs
    BY <1>1, <1>7, RenameTypes
  <2>2. m[1] \in Under(r.src) /\ m[2] = Moved(m[1], r.dst)
    BY <1>7 DEF MovedFiles
  <2>3. \A p : p \in Under(r.dst) <=> p \in Path /\ p[1] = r.dst
    BY <2>1, PathParts
  <2>4. \A p \in Path, d \in Dirs : Moved(p, d)[1] = d
    BY PathParts
  <2> QED BY <1>4, <2>1, <2>2, <2>3, <2>4
<1>8. ASSUME r.kind # "DIR"
      PROVE  /\ MovedFiles(r) = {<<r.src, r.dst>>} /\ r.kind = "FILE" /\ nas[r.src] = r.v
             /\ r.src \in PathsOf(r) /\ r.dst \in PathsOf(r)
  <2>1. r.kind = "FILE"
    BY <1>1, <1>8, RenameTypes
  <2> QED BY <2>1 DEF MovedFiles, RenameMoves, Accepts, PathsOf
<1>9. ASSUME NEW p \in job.up
      PROVE  /\ p \in Path
             /\ nas'[p] = None \/ nas'[p] = nas[p]
  <2>1. p \in Path /\ p \notin PathsOf(r)
    BY <1>1, WorkParts DEF PlanPaths
  <2>2. \A m \in MovedFiles(r) : p # m[2]
    <3>1. CASE r.kind = "DIR"
      BY <1>1, <1>7, <3>1
    <3>2. CASE r.kind # "DIR"
      BY <1>8, <2>1, <3>2
    <3> QED BY <3>1, <3>2
  <2> QED BY <1>4, <2>1, <2>2
<1>10. ASSUME NEW p \in job.up, nas'[p] # None
       PROVE  \/ <<p, nas'[p]>> \in taken' \/ nas'[CopyPath(p, nas'[p])] = nas'[p]
              \/ <<CopyPath(p, nas'[p]), nas'[p]>> \in taken'
  <2> DEFINE v == nas[p]
             q == CopyPath(p, v)
  <2>1. p \in Path /\ nas'[p] = v
    BY <1>9, <1>10
  <2>2. v \in Versions /\ q \in Path /\ q[1] = p[1]
    BY <1>10, <2>1, WorkParts, PathParts, Apart
  <2>3. v = None \/ <<p, v>> \in taken \/ nas[q] = v \/ <<q, v>> \in taken
    BY DEF SettledInv, Replaceable
  <2>4. ASSUME nas[q] = v PROVE nas'[q] = v \/ <<q, v>> \in taken'
    <3>1. CASE \E m \in MovedFiles(r) : q = m[1]
      <4>1. PICK m \in MovedFiles(r) : q = m[1]
        BY <3>1
      <4>2. CASE r.kind = "DIR"
        <5>1. r.src \in Dirs
          BY <1>1, <4>2, RenameTypes
        <5>2. \A x : x \in Under(r.src) <=> x \in Path /\ x[1] = r.src
          BY <5>1, PathParts
        <5>3. p \in Under(r.src)
          BY <1>7, <2>1, <2>2, <4>1, <4>2, <5>2
        <5> DEFINE n == <<p, Moved(p, r.dst)>>
        <5>4. n \in MovedFiles(r) /\ n[1] = p
          BY <2>2, <4>2, <5>3, Apart DEF MovedFiles
        <5> HIDE DEF n
        <5>5. nas'[p] = None
          BY <1>4, <5>4
        <5> QED BY <1>10, <5>5
      <4>3. CASE r.kind # "DIR"
        <5>1. q = r.src /\ v = r.v
          BY <1>8, <2>4, <4>1, <4>3
        <5>2. <<r.src, r.v>> \in taken
          BY <1>8, <4>3 DEF SettledInv
        <5> QED BY <1>1, <5>1, <5>2
      <4> QED BY <4>2, <4>3
    <3>2. CASE \E m \in MovedFiles(r) : q = m[2]
      BY <1>4, <2>2, <2>4, <3>2, Apart
    <3>3. CASE \A m \in MovedFiles(r) : q # m[1] /\ q # m[2]
      BY <1>4, <2>2, <2>4, <3>3
    <3> QED BY <3>1, <3>2, <3>3
  <2> HIDE DEF q, v
  <2>5. <<p, v>> \in taken' \/ nas'[q] = v \/ <<q, v>> \in taken'
    BY <1>1, <2>2, <2>3, <2>4, Apart
  <2> QED BY <2>1, <2>5 DEF q
<1>11. ASSUME NEW p \in job.adopt
       PROVE  nas'[p] = None \/ local'[p] = nas'[p] \/ <<p, nas'[p]>> \in taken' \/ p[2] \in Versions
  <2>1. p \in Path /\ p \notin PathsOf(r)
    BY <1>1, WorkParts DEF PlanPaths
  <2>2. CASE \E m \in MovedFiles(r) : p = m[1]
    BY <1>4, <2>2
  <2>3. CASE \E m \in MovedFiles(r) : p = m[2]
    <3>1. PICK m \in MovedFiles(r) : p = m[2]
      BY <2>3
    <3>2. <<m[2], nas[m[1]]>> \in Carried(r)
      BY <3>1 DEF Carried
    <3> QED BY <1>1, <1>4, <3>1, <3>2
  <2>4. CASE \A m \in MovedFiles(r) : p # m[1] /\ p # m[2]
    <3>1. nas'[p] = nas[p]
      BY <1>4, <2>1, <2>4
    <3>2. nas[p] = None \/ Free(p, nas[p]) \/ p[2] \in Versions
      BY DEF SettledInv
    <3> QED BY <1>1, <3>1, <3>2 DEF Free
  <2> QED BY <2>2, <2>3, <2>4
<1>12. ASSUME NEW a \in job.adp, base'[a[1]] \in Versions
       PROVE  <<a[1], base'[a[1]]>> \in taken'
  <2>1. a[1] \in Path /\ a[1] \notin PathsOf(r)
    BY <1>1, WorkParts DEF PlanPaths
  <2>2. base'[a[1]] = base[a[1]]
    BY <1>5, <1>6, <1>12, <2>1, Apart
  <2> QED BY <1>1, <1>12, <2>2 DEF SettledInv
<1>13. ASSUME NEW s \in job'.ren
       PROVE  /\ s.kind = "FILE" => <<s.src, s.v>> \in taken'
              /\ \A f \in Entries(s) : base'[f[1]] \in Versions =>
                      local'[f[2]] = base'[f[1]] \/ <<f[2], base'[f[1]]>> \in taken'
  <2>1. s \in job.ren /\ s \in Renames
    BY <1>2, WorkParts
  <2>2. ASSUME NEW f \in Entries(s), base'[f[1]] \in Versions PROVE base'[f[1]] = base[f[1]]
    <3>1. f[1] \in Path
      BY <2>1, RenameTypes
    <3>2. \A e \in Entries(r) : f[1] # e[2]
      BY <1>1, <2>1
    <3> QED BY <1>6, <2>2, <3>1, <3>2, Apart
  <2>3. s.kind = "FILE" => <<s.src, s.v>> \in taken
    BY <2>1 DEF SettledInv
  <2>4. \A f \in Entries(s) : base[f[1]] \in Versions => Free(f[2], base[f[1]])
    BY <2>1 DEF SettledInv
  <2> QED BY <1>1, <2>2, <2>3, <2>4 DEF Free
<1>14. \A d \in job'.del : d[2] = None \/ d \in taken'
  BY <1>1, <1>2 DEF SettledInv
<1>15. \A p \in job'.up : Replaceable(p)'
  BY <1>2, <1>10 DEF Replaceable
<1>16. SentInv'
  BY <1>2, <1>3 DEF SentInv
<1> QED BY <1>2, <1>11, <1>12, <1>13, <1>14, <1>15, <1>16 DEF SettledInv, Free

\* An upload takes what the file is now.
LEMMA SendHeld ==
    ASSUME TypeInv, NameInv, SentInv, SettledInv, NEW p \in job.up,
           job.at = "send", Seen(p) # None, nas' = [nas EXCEPT ![p] = Seen(p)],
           UNCHANGED <<local, base, taken>>,
           job' = [job EXCEPT !.up = @ \ {p}, !.sent = @ \cup {p}]
    PROVE  SentInv' /\ SettledInv'
<1>1. /\ job'.at = "send" /\ job'.up = job.up \ {p} /\ job'.sent = job.sent \cup {p}
      /\ job'.del = job.del /\ job'.adopt = job.adopt /\ job'.adp = job.adp /\ job'.ren = job.ren
  BY WorkParts DEF JobFields
<1>2. p \in Path /\ nas \in [Path -> Contents] /\ job.up \subseteq Path /\ job.adopt \subseteq Path
  BY WorkParts
<1>3. \A q \in Path : nas'[q] = IF q = p THEN Seen(p) ELSE nas[q]
  BY <1>2
<1>4. Seen(p) = local[p]
  BY DEF Seen
<1>5. ~Staged /\ ~Staged' /\ job.sent \subseteq Path
  BY <1>1, WorkParts DEF Staged
<1>6. \A q \in job'.sent : nas'[q] = None \/ local'[q] = nas'[q] \/ <<q, nas'[q]>> \in taken'
  BY <1>1, <1>2, <1>3, <1>4, <1>5 DEF SentInv, Free
<1>7. ASSUME NEW q \in job'.up, nas[q] # None
      PROVE  <<q, nas[q]>> \in taken \/ nas'[CopyPath(q, nas[q])] = nas[q] \/ <<CopyPath(q, nas[q]), nas[q]>> \in taken
  <2> DEFINE v == nas[q]
             c == CopyPath(q, v)
  <2>1. q \in Path /\ q \in job.up
    BY <1>1, <1>2
  <2>2. v \in Versions /\ c \in Path /\ c[2] = v
    BY <1>7, <2>1, WorkParts, PathParts, Apart
  <2>3. v = None \/ <<q, v>> \in taken \/ nas[c] = v \/ <<c, v>> \in taken
    BY <2>1 DEF SettledInv, Replaceable
  <2>4. ASSUME nas[c] = v PROVE nas'[c] = v
    <3>1. CASE c = p
      <4>1. Seen(p) = c[2]
        BY <1>4, <2>2, <3>1 DEF NameInv, Fits
      <4> QED BY <1>3, <2>2, <3>1, <4>1
    <3>2. CASE c # p
      BY <1>3, <2>2, <2>4, <3>2
    <3> QED BY <3>1, <3>2
  <2> QED BY <1>7, <2>3, <2>4
<1>8. ASSUME NEW q \in job'.up PROVE nas'[q] = nas[q]
  BY <1>1, <1>2, <1>3
<1>9. \A q \in job'.up : Replaceable(q)'
  BY <1>7, <1>8 DEF Replaceable
<1>10. \A q \in job'.adopt : nas'[q] = None \/ local'[q] = nas'[q] \/ <<q, nas'[q]>> \in taken' \/ q[2] \in Versions
  BY <1>1, <1>2, <1>3, <1>4 DEF SettledInv, Free
<1>11. SentInv'
  BY <1>5, <1>6 DEF SentInv, Free
<1> QED BY <1>1, <1>9, <1>10, <1>11 DEF SettledInv, Free

\* An adoption writes what the NAS has.
LEMMA AdoptHeld ==
    ASSUME TypeInv, NameInv, SentInv, SettledInv, AdoptRemote, AdoptsFiles, UNCHANGED taken
    PROVE  SentInv' /\ SettledInv'
<1>1. /\ job'.at = "delete" /\ job'.up = job.up /\ job'.sent = job.sent
      /\ job'.del = job.del /\ job'.adopt = job.adopt /\ job'.adp = job.adp /\ job'.ren = job.ren
  BY WorkParts DEF JobFields, AdoptsFiles
<1>2. job.at = "adopt" /\ job.up = {} /\ job.ren = {}
  BY DEF AdoptRemote, TypeInv, PlanInv
<1>3. /\ \A p \in Adopted : local'[p] = nas[p]
      /\ \A p \in Path \ Adopted : local'[p] = local[p]
      /\ UNCHANGED <<base, nas>>
  BY AdoptFiles
<1>4. ~Staged /\ ~Staged' /\ job.sent \subseteq Path /\ job.adopt \subseteq Path
  BY <1>1, <1>2, WorkParts DEF Staged
<1>5. ASSUME NEW p \in Path, Free(p, nas[p]) PROVE local'[p] = nas[p] \/ <<p, nas[p]>> \in taken
  BY <1>3, <1>5 DEF Free
<1>6. \A p \in job'.sent : nas'[p] = None \/ local'[p] = nas'[p] \/ <<p, nas'[p]>> \in taken'
  BY <1>1, <1>3, <1>4, <1>5 DEF SentInv
<1>7. \A p \in job'.adopt : nas'[p] = None \/ local'[p] = nas'[p] \/ <<p, nas'[p]>> \in taken' \/ p[2] \in Versions
  BY <1>1, <1>3, <1>4, <1>5 DEF SettledInv
<1>8. ASSUME NEW a \in job'.adp
      PROVE  /\ base'[a[1]] \in Versions => <<a[1], base'[a[1]]>> \in taken'
             /\ local'[a[1]] = nas'[a[1]]
  <2>1. a[1] \in Adopted
    BY <1>1 DEF Adopted
  <2> QED BY <1>1, <1>3, <2>1 DEF SettledInv
<1>9. SentInv'
  BY <1>4, <1>6 DEF SentInv, Free
<1> QED BY <1>1, <1>2, <1>7, <1>8, <1>9 DEF SettledInv, Free

\* Files only go, and nothing is left to upload.
LEMMA GoneHeld ==
    ASSUME TypeInv, SentInv, SettledInv, ~Staged, ~Staged', job.up = {}, job.ren = {},
           \A p \in Path : nas'[p] \in {None, nas[p]},
           UNCHANGED <<local, base, taken>>,
           job'.up = {}, job'.ren = {}, job'.sent = job.sent, job'.adopt = job.adopt,
           job'.adp = job.adp, job'.del \subseteq job.del, job.at \in {"delete", "confirm"}
    PROVE  SentInv' /\ SettledInv'
<1>1. job.sent \subseteq Path /\ job.adopt \subseteq Path /\ \A a \in job.adp : a[1] \in Path
  BY WorkParts
<1>2. \A p \in job'.sent : nas'[p] = None \/ local'[p] = nas'[p] \/ <<p, nas'[p]>> \in taken'
  BY <1>1 DEF SentInv, Free
<1>3. \A p \in job'.adopt : nas'[p] = None \/ local'[p] = nas'[p] \/ <<p, nas'[p]>> \in taken' \/ p[2] \in Versions
  BY <1>1 DEF SettledInv, Free
<1>4. ASSUME NEW a \in job'.adp
      PROVE  /\ base'[a[1]] \in Versions => <<a[1], base'[a[1]]>> \in taken'
             /\ nas'[a[1]] = None \/ local'[a[1]] = nas'[a[1]] \/ <<a[1], nas'[a[1]]>> \in taken'
  BY <1>1 DEF SettledInv, Free
<1>5. \A d \in job'.del : d[2] = None \/ d \in taken'
  BY DEF SettledInv
<1>6. SentInv'
  BY <1>2 DEF SentInv, Free
<1> QED BY <1>3, <1>4, <1>5, <1>6 DEF SettledInv, Free

\* A program that writes behind the journal to a path of the chunk is noted.
LEMMA OobHeld ==
    ASSUME TypeInv, NameInv, SentInv, SettledInv, NEW p \in Dirs \X {Plain}, NEW v \in Versions, OobWrite(p, v)
    PROVE  SentInv' /\ SettledInv'
<1>1. /\ nas' = [nas EXCEPT ![p] = v] /\ UNCHANGED <<local, base, job>>
      /\ taken' = taken \cup {<<p, nas[p]>>} \cup IF p \in job.chunk THEN {<<p, v>>} ELSE {}
  BY DEF OobWrite, folder, store
<1>2. p \in Path /\ p[2] = Plain /\ nas \in [Path -> Contents]
  BY WorkParts, PathParts
<1>3. \A q \in Path : nas'[q] = IF q = p THEN v ELSE nas[q]
  BY <1>1, <1>2
<1>4. taken \subseteq taken' /\ (p \in job.chunk => <<p, v>> \in taken')
  BY <1>1
<1>5. /\ job.up \subseteq job.chunk /\ job.adopt \subseteq job.chunk /\ job.chunk \subseteq Path
      /\ \A a \in job.adp : a[1] \in job.chunk
      /\ ~Staged => job.sent \subseteq job.chunk
  BY WorkParts DEF PlanInv
<1>6. ASSUME NEW q \in job.chunk PROVE q \in Path /\ (nas'[q] = nas[q] \/ <<q, nas'[q]>> \in taken')
  BY <1>3, <1>4, <1>5
<1>7. Staged' <=> Staged
  BY <1>1 DEF Staged
<1>8. Staged' => \A s \in job'.sent : local'[s[1]] = s[2] \/ <<s[1], s[2]>> \in taken'
  BY <1>1, <1>4, <1>7 DEF SentInv, Free
<1>9. ~Staged' => \A q \in job'.sent : nas'[q] = None \/ local'[q] = nas'[q] \/ <<q, nas'[q]>> \in taken'
  BY <1>1, <1>4, <1>5, <1>6, <1>7 DEF SentInv, Free
<1>10. ASSUME NEW q \in job.up
       PROVE  \/ nas'[q] = None \/ <<q, nas'[q]>> \in taken'
              \/ nas'[CopyPath(q, nas'[q])] = nas'[q] \/ <<CopyPath(q, nas'[q]), nas'[q]>> \in taken'
  <2>1. q \in Path /\ (nas'[q] = nas[q] \/ <<q, nas'[q]>> \in taken')
    BY <1>5, <1>6
  <2>2. CASE nas'[q] = nas[q] /\ nas[q] # None
    <3> DEFINE c == CopyPath(q, nas[q])
    <3>1. c \in Path /\ c[2] \in Versions
      BY <2>1, <2>2, WorkParts, PathParts, Apart
    <3>2. c # p
      BY <1>2, <3>1, Apart
    <3>3. nas[q] = None \/ <<q, nas[q]>> \in taken \/ nas[c] = nas[q] \/ <<c, nas[q]>> \in taken
      BY DEF SettledInv, Replaceable
    <3>4. nas'[c] = nas[c]
      BY <1>3, <3>1, <3>2
    <3> QED BY <1>4, <2>2, <3>3, <3>4
  <2> QED BY <2>1, <2>2
<1>11. \A q \in job'.adopt : nas'[q] = None \/ local'[q] = nas'[q] \/ <<q, nas'[q]>> \in taken' \/ q[2] \in Versions
  BY <1>1, <1>4, <1>5, <1>6 DEF SettledInv, Free
<1>12. ASSUME NEW a \in job'.adp
       PROVE  /\ base'[a[1]] \in Versions => <<a[1], base'[a[1]]>> \in taken'
              /\ job'.at \in {"delete", "confirm"} =>
                   nas'[a[1]] = None \/ local'[a[1]] = nas'[a[1]] \/ <<a[1], nas'[a[1]]>> \in taken'
  BY <1>1, <1>4, <1>5, <1>6 DEF SettledInv, Free
<1>13. ASSUME NEW r \in job'.ren
       PROVE  /\ r.kind = "FILE" => <<r.src, r.v>> \in taken'
              /\ \A e \in Entries(r) : base'[e[1]] \in Versions =>
                      local'[e[2]] = base'[e[1]] \/ <<e[2], base'[e[1]]>> \in taken'
  BY <1>1, <1>4 DEF SettledInv, Free
<1>14. \A d \in job'.del : d[2] = None \/ d \in taken'
  BY <1>1, <1>4 DEF SettledInv
<1>15. \A q \in job'.up : Replaceable(q)'
  BY <1>1, <1>10 DEF Replaceable
<1>16. SentInv'
  BY <1>8, <1>9 DEF SentInv, Free
<1> QED BY <1>11, <1>12, <1>13, <1>14, <1>15, <1>16 DEF SettledInv, Free

\* Every step leaves the plan settled.
LEMMA NextHeld ==
    ASSUME TypeInv, NameInv, BaseInv, SentInv, SettledInv, Next
    PROVE  SentInv' /\ SettledInv'
<1>1. JobFields /\ JobInv /\ PlanInv /\ base \in [Path -> Contents \cup {Unknown}]
  BY WorkParts, LocalParts
<1>2. ASSUME job' = Idle PROVE SentInv' /\ SettledInv'
  BY <1>2, NoPlanHeld DEF NoPlan, Idle
<1>3. ASSUME job' = NextChunk PROVE SentInv' /\ SettledInv'
  <2>1. NoPlan'
    BY <1>1, <1>3 DEF JobFields, NextChunk, NoPlan
  <2> QED BY <2>1, NoPlanHeld
<1>4. ASSUME job.at \in {"idle", "chunk", "plan"}, UNCHANGED job PROVE SentInv' /\ SettledInv'
  <2>1. NoPlan
    BY <1>4, Planless
  <2>2. NoPlan'
    BY <1>4, <2>1 DEF NoPlan
  <2> QED BY <2>2, NoPlanHeld
<1>5. ASSUME Keeps, UNCHANGED <<nas, base, job>> PROVE SentInv' /\ SettledInv'
  BY <1>5, RestHeld DEF Staged
<1>6. CASE (UserAct \/ ResolverAct) /\ Local
  <2>1. base' = base
    BY <1>6, WorkParts, FolderSteps DEF FolderStep, RestMoves
  <2> QED BY <1>5, <1>6, <2>1, UserKeeps
<1>7. CASE (\E e \in events : Notice(e)) /\ UNCHANGED <<remote, taken, job>>
  BY <1>5, <1>7, SameKeeps DEF Notice, folder, store, remote
<1>8. CASE (PushFails \/ Crash) /\ UNCHANGED taken
  BY <1>2, <1>8 DEF PushFails, Crash, Fails
<1>9. CASE (\E full \in BOOLEAN : Pull(full)) /\ UNCHANGED taken
  BY <1>4, <1>9, PullCases
<1>10. CASE PushAct /\ UNCHANGED taken
  <2>1. ASSUME NEW U, PushTick(U) PROVE SentInv' /\ SettledInv'
    <3>1. NoPlan'
      BY <2>1 DEF PushTick, Idle, NoPlan
    <3> QED BY <3>1, NoPlanHeld
  <2>2. ASSUME NEW C, PickChunk(C) PROVE SentInv' /\ SettledInv'
    <3>1. NoPlan
      BY <2>2, Planless DEF PickChunk
    <3>2. NoPlan'
      BY <1>1, <2>2, <3>1 DEF PickChunk, JobFields, NoPlan
    <3> QED BY <3>2, NoPlanHeld
  <2>3. CASE PushEnds
    BY <1>2, <2>3 DEF PushEnds
  <2>4. CASE BuildPlan
    <3> DEFINE renames == DirRenames(job.chunk) \cup FileRenames(job.chunk)
               rest == job.chunk \ UNION {PathsOf(r) : r \in renames}
    <3>1. job.at = "plan" /\ CopyLosers(rest) /\ UNCHANGED localVars
      BY <2>4, BuildCases
    <3>2. NoPlan
      BY <3>1, Planless
    <3>3. CASE job' = [job EXCEPT !.try = FALSE]
      <4>1. NoPlan'
        BY <1>1, <3>2, <3>3 DEF JobFields, NoPlan
      <4> QED BY <4>1, NoPlanHeld
    <3>4. CASE /\ Stageable(job.chunk)
               /\ job' = [job EXCEPT !.at = "staged", !.sent = {<<p, Seen(p)>> : p \in job.chunk}]
      <4>1. /\ job'.at = "staged" /\ job'.sent = {<<p, Seen(p)>> : p \in job.chunk}
            /\ job'.up = {} /\ job'.del = {} /\ job'.adopt = {} /\ job'.adp = {} /\ job'.ren = {}
        BY <1>1, <3>2, <3>4 DEF JobFields, NoPlan
      <4>2. ASSUME NEW p \in job.chunk PROVE local[p] = Seen(p)
        <5>1. Act(p) = "upload"
          BY <3>4 DEF Stageable, Planned
        <5>2. Seen(p) # None
          BY <5>1, WorkParts, ActFacts
        <5> QED BY <5>2 DEF Seen
      <4>3. local' = local
        BY <3>1 DEF localVars, folder
      <4>4. \A s \in job'.sent : local'[s[1]] = s[2]
        BY <4>1, <4>2, <4>3
      <4>5. Staged'
        BY <4>1 DEF Staged
      <4>6. SentInv'
        BY <4>4, <4>5 DEF SentInv, Free
      <4> QED BY <4>1, <4>6 DEF SettledInv
    <3>5. CASE job' = [WithPlan(rest) EXCEPT !.at = IF renames = {} THEN "settle" ELSE "rename",
                                             !.ren = renames]
      <4>1. UNCHANGED <<local, mounted, base, taken>>
        BY <1>10, <3>1 DEF localVars, folder, store
      <4>2. \A r \in renames :
               /\ r.kind = "FILE" => <<r.src, r.v>> \in taken
               /\ \A e \in Entries(r) : base[e[1]] \in Versions => Free(e[2], base[e[1]])
        BY <3>1, FoundHeld
      <4>3. rest \subseteq job.chunk
        OBVIOUS
      <4> DEFINE x == IF renames = {} THEN "settle" ELSE "rename"
      <4>4. job' = [WithPlan(rest) EXCEPT !.at = x, !.ren = renames] /\ x \in {"settle", "rename"}
        BY <3>5
      <4> HIDE DEF x, renames, rest
      <4>5. /\ job'.at = x /\ job'.ren = renames /\ job'.sent = job.sent
            /\ job'.up = WithPlan(rest).up /\ job'.del = WithPlan(rest).del
            /\ job'.adopt = WithPlan(rest).adopt /\ job'.adp = WithPlan(rest).adp
        BY <1>1, <4>4 DEF JobFields, WithPlan
      <4>6. job'.sent = {} /\ job'.at \notin {"staged", "publish", "delete", "confirm"}
        BY <3>2, <4>4, <4>5 DEF NoPlan
      <4> QED BY <3>1, <4>1, <4>2, <4>3, <4>5, <4>6, PlanHeld
    <3> QED BY <2>4, <3>3, <3>4, <3>5, BuildCases
  <2>5. CASE StagedCheck
    <3>1. CASE job' = [job EXCEPT !.at = "publish"]
      <4>1. /\ job'.at = "publish" /\ job'.sent = job.sent /\ job'.up = job.up /\ job'.del = job.del
            /\ job'.adopt = job.adopt /\ job'.adp = job.adp /\ job'.ren = job.ren
        BY <1>1, <3>1 DEF JobFields
      <4>2. UNCHANGED <<local, base, nas>> /\ job.at = "staged"
        BY <2>5 DEF StagedCheck, folder, store, remote
      <4>3. Keeps
        BY <1>10, <4>2, SameKeeps
      <4> QED BY <4>1, <4>2, <4>3, RestHeld DEF Staged
    <3> QED BY <1>2, <2>5, <3>1 DEF StagedCheck
  <2>6. CASE PublishStaged
    BY <1>2, <1>3, <2>6 DEF PublishStaged, Fails
  <2>7. ASSUME NEW r \in job.ren, StartRename(r) PROVE SentInv' /\ SettledInv'
    <3>1. UNCHANGED <<local, base, nas>> /\ job.at = "rename"
      BY <2>7 DEF StartRename, folder, store, remote
    <3>2. Keeps
      BY <1>10, <3>1, SameKeeps
    <3>3. /\ job'.at \in {"rename", "moving"} /\ job'.sent = job.sent /\ job'.up = job.up
          /\ job'.del = job.del /\ job'.adopt = job.adopt /\ job'.adp = job.adp
          /\ job'.ren \subseteq job.ren
      BY <1>1, <2>7 DEF StartRename, JobFields
    <3> QED BY <3>1, <3>2, <3>3, RestHeld DEF Staged
  <2>8. CASE RenamesEnd
    <3> DEFINE again == job.chunk \ job.done
    <3>1. /\ job.at = "rename" /\ job.ren = {} /\ job.sent = {}
          /\ UNCHANGED <<local, mounted, base, taken>>
      BY <1>1, <1>10, <2>8 DEF RenamesEnd, localVars, folder, store, PlanInv
    <3>2. CASE job' = [job EXCEPT !.at = "settle"] /\ UNCHANGED <<nas, nasDirs>>
      <4>1. /\ job'.at = "settle" /\ job'.sent = job.sent /\ job'.up = job.up
            /\ job'.del = job.del /\ job'.adopt = job.adopt /\ job'.adp = job.adp
            /\ job'.ren = job.ren
        BY <1>1, <3>2 DEF JobFields
      <4>2. Keeps
        BY <3>1, SameKeeps
      <4> QED BY <3>1, <3>2, <4>1, <4>2, RestHeld DEF Staged
    <3>3. CASE job' = [WithPlan(again) EXCEPT !.at = "settle"] /\ CopyLosers(again)
      <4>1. again \subseteq job.chunk
        OBVIOUS
      <4> HIDE DEF again
      <4>2. /\ job'.at = "settle" /\ job'.ren = {} /\ job'.sent = {}
            /\ job'.up = WithPlan(again).up /\ job'.del = WithPlan(again).del
            /\ job'.adopt = WithPlan(again).adopt /\ job'.adp = WithPlan(again).adp
        BY <1>1, <3>1, <3>3 DEF JobFields, WithPlan
      <4> QED BY <3>1, <3>3, <4>1, <4>2, PlanHeld
    <3> QED BY <2>8, <3>2, <3>3 DEF RenamesEnd
  <2>9. CASE Settle
    <3>1. CASE job' = [job EXCEPT !.at = "send"]
      <4>1. /\ job'.at = "send" /\ job'.sent = job.sent /\ job'.up = job.up
            /\ job'.del = job.del /\ job'.adopt = job.adopt /\ job'.adp = job.adp
            /\ job'.ren = job.ren
        BY <1>1, <3>1 DEF JobFields
      <4>2. UNCHANGED <<local, nas>> /\ job.at = "settle"
        BY <2>9 DEF Settle, folder, remote
      <4>3. Keeps
        BY <1>10, <4>2, SameKeeps
      <4> DEFINE S == job.wins \X {None}
      <4>4. base' = Overlay(base, S) /\ \A p, c : <<p, c>> \in S => c = None
        BY <2>9 DEF Settle
      <4> HIDE DEF S
      <4>5. ASSUME NEW p \in Path PROVE base'[p] \in {None, base[p]}
        <5>1. <<p, base'[p]>> \in S \/ base'[p] = base[p]
          BY <4>4, OverlayAt
        <5> QED BY <4>4, <5>1
      <4> QED BY <4>1, <4>2, <4>3, <4>5, RestHeld DEF Staged
    <3> QED BY <1>2, <2>9, <3>1 DEF Settle, Fails
  <2>10. ASSUME NEW p \in job.up, Send(p) PROVE SentInv' /\ SettledInv'
    <3>1. UNCHANGED <<local, base>> /\ job.at = "send"
      BY <2>10 DEF Send, folder, store
    <3>2. CASE job' = [job EXCEPT !.up = @ \ {p}] /\ UNCHANGED nas
      <4>1. /\ job'.at = "send" /\ job'.sent = job.sent /\ job'.up \subseteq job.up /\ job'.del = job.del
            /\ job'.adopt = job.adopt /\ job'.adp = job.adp /\ job'.ren = job.ren
        BY <1>1, <3>1, <3>2 DEF JobFields
      <4>2. Keeps
        BY <1>10, <3>1, SameKeeps
      <4> QED BY <3>1, <3>2, <4>1, <4>2, RestHeld DEF Staged
    <3>3. CASE /\ Seen(p) # None /\ nas' = [nas EXCEPT ![p] = Seen(p)]
               /\ job' = [job EXCEPT !.up = @ \ {p}, !.sent = @ \cup {p}]
      BY <1>10, <3>1, <3>3, SendHeld
    <3> QED BY <1>2, <2>10, <3>2, <3>3 DEF Send, Fails
  <2>11. CASE Sent
    <3>1. job.at = "send" /\ UNCHANGED <<local, base, nas>>
      BY <2>11 DEF Sent, localVars, folder, store, remote
    <3>2. /\ job'.at \in {"adopt", "delete"} /\ (job'.at = "delete" => job.adp = {})
          /\ job'.sent = job.sent /\ job'.up = job.up
          /\ job'.del = job.del /\ job'.adopt = job.adopt /\ job'.adp = job.adp /\ job'.ren = job.ren
      BY <1>1, <2>11 DEF Sent, JobFields
    <3>3. Keeps
      BY <1>10, <3>1, SameKeeps
    <3> QED BY <3>1, <3>2, <3>3, RestHeld DEF Staged
  <2>12. CASE AdoptRemote
    BY <1>2, <1>10, <2>12, AdoptCases, AdoptHeld
  <2>13. CASE CheckedDelete
    <3> DEFINE gone == {d \in job.del : nas[d[1]] \in {d[2], None}}
               none == {d[1] : d \in gone} \X {None}
    <3>1. /\ job.at = "delete" /\ nas' = Overlay(nas, none) /\ UNCHANGED <<local, base>>
          /\ job' = [job EXCEPT !.at = "confirm", !.del = gone, !.dels = @ + Cardinality(gone)]
          /\ job.up = {} /\ job.ren = {}
      BY <1>1, <2>13 DEF CheckedDelete, localVars, folder, store, PlanInv
    <3>2. gone \subseteq job.del /\ \A p, c : <<p, c>> \in none => c = None
      OBVIOUS
    <3> HIDE DEF gone, none
    <3>3. /\ job'.at = "confirm" /\ job'.del = gone /\ job'.sent = job.sent /\ job'.up = job.up
          /\ job'.adopt = job.adopt /\ job'.adp = job.adp /\ job'.ren = job.ren
      BY <1>1, <3>1 DEF JobFields
    <3>4. ASSUME NEW p \in Path PROVE nas'[p] \in {None, nas[p]}
      <4>1. <<p, nas'[p]>> \in none \/ nas'[p] = nas[p]
        BY <3>1, OverlayAt
      <4> QED BY <3>2, <4>1
    <3>5. ~Staged /\ ~Staged'
      BY <3>1, <3>3 DEF Staged
    <3> QED BY <1>10, <3>1, <3>2, <3>3, <3>4, <3>5, GoneHeld
  <2>14. CASE Confirm
    BY <1>2, <1>3, <2>14 DEF Confirm, Fails
  <2> QED BY <1>10, <2>1, <2>2, <2>3, <2>4, <2>5, <2>6, <2>7, <2>8, <2>9, <2>10, <2>11, <2>12, <2>13,
             <2>14 DEF PushAct
<1>11. ASSUME NEW r \in job.ren, RenameRemote(r) PROVE SentInv' /\ SettledInv'
  <2>1. CASE RenameMoves(r)
    BY <1>11, <2>1, RenameHeld
  <2>2. CASE RenameRefused(r)
    <3>1. UNCHANGED <<local, base, nas, taken>> /\ job.at = "moving"
      BY <1>11, <2>2, RenameCases DEF RenameRefused
    <3>2. Keeps
      BY <3>1, SameKeeps
    <3>3. /\ job'.at = "rename" /\ job'.sent = job.sent /\ job'.up = job.up
          /\ job'.del = job.del /\ job'.adopt = job.adopt /\ job'.adp = job.adp
          /\ job'.ren \subseteq job.ren
      BY <1>1, <2>2 DEF RenameRefused, JobFields
    <3> QED BY <3>1, <3>2, <3>3, RestHeld DEF Staged
  <2> QED BY <1>11, <2>1, <2>2, RenameCases
<1>12. CASE OtherAct
  <2>1. PICK p \in Dirs \X {Plain} :
          OtherDelete(p) \/ \E v \in Versions : OtherWrite(p, v) \/ OobWrite(p, v)
    BY <1>12 DEF OtherAct
  <2>2. ASSUME ~Leased, UNCHANGED <<local, base, job>>, taken \subseteq taken' PROVE SentInv' /\ SettledInv'
    <3>1. CASE Staged
      <4>1. job.up = {} /\ job.del = {} /\ job.adopt = {} /\ job.adp = {} /\ job.ren = {}
        BY <1>1, <2>2, <3>1 DEF PlanInv, Staged
      <4>2. \A s \in job.sent : local'[s[1]] = s[2] \/ s \in taken'
        <5>1. \A s \in job.sent : Free(s[1], s[2]) /\ s = <<s[1], s[2]>>
          BY <3>1, WorkParts DEF SentInv
        <5> QED BY <2>2, <5>1 DEF Free
      <4>3. SentInv'
        <5>1. \A s \in job'.sent : local'[s[1]] = s[2] \/ <<s[1], s[2]>> \in taken'
          BY <2>2, <3>1 DEF SentInv, Free
        <5>2. Staged'
          BY <2>2, <3>1 DEF Staged
        <5> QED BY <5>1, <5>2 DEF SentInv, Free
      <4> QED BY <2>2, <4>1, <4>3 DEF SettledInv
    <3>2. CASE ~Staged
      <4>1. job.at \in {"idle", "chunk", "plan"}
        BY <1>1, <2>2, <3>2 DEF JobInv, Steps, Leased, Staged
      <4> QED BY <1>4, <2>2, <4>1
    <3> QED BY <3>1, <3>2
  <2>3. CASE OtherDelete(p)
    BY <2>2, <2>3 DEF OtherDelete, folder, store, Took
  <2>4. ASSUME NEW v \in Versions, OtherWrite(p, v) PROVE SentInv' /\ SettledInv'
    BY <2>2, <2>4 DEF OtherWrite, folder, store, Took
  <2>5. ASSUME NEW v \in Versions, OobWrite(p, v) PROVE SentInv' /\ SettledInv'
    BY <2>5, OobHeld
  <2> QED BY <2>1, <2>3, <2>4, <2>5
<1> QED BY <1>6, <1>7, <1>8, <1>9, <1>10, <1>11, <1>12 DEF Next

-----------------------------------------------------------------------------
(* What the NAS loses. *)

(* A path of the NAS loses its content in a step, and how it is kept.          *)
KeepsAt(p) ==
    nas[p] \notin {None, nas'[p]} =>
        \/ nas[p] \in Contained(nas)'
        \/ \E q \in {p, CopyPath(p, nas[p])} : <<q, nas[p]>> \in taken'

\* A step of a push or of another client takes nothing from the NAS that was not
\* taken away before.
LEMMA NasKept1 ==
    ASSUME TypeInv, NameInv, SettledInv, Next, NEW p \in Path
    PROVE  KeepsAt(p)
<1>1. SUFFICES ASSUME nas[p] # None, nas'[p] # nas[p]
               PROVE  \/ nas[p] \in Contained(nas)'
                      \/ \E q \in {p, CopyPath(p, nas[p])} : <<q, nas[p]>> \in taken'
  BY DEF KeepsAt
<1>2. nas[p] \in Versions /\ JobFields /\ JobInv /\ PlanInv
  BY <1>1, WorkParts, Apart
<1>3. \A q \in Path : nas'[q] = nas[p] => nas[p] \in Contained(nas)'
  BY <1>2 DEF Contained
<1>4. \A S : S \subseteq job.chunk => ~CopyLosers(S)
  BY <1>1, WorkParts, CopyAt
<1>5. CASE PushAct /\ UNCHANGED taken
  <2>1. ASSUME NEW U, PushTick(U) PROVE FALSE
    BY <1>1, <2>1 DEF PushTick, remote
  <2>2. ASSUME NEW C, PickChunk(C) PROVE FALSE
    BY <1>1, <2>2 DEF PickChunk, remote
  <2>3. CASE PushEnds \/ StagedCheck \/ Settle \/ Sent \/ AdoptRemote \/ Confirm
    BY <1>1, <2>3 DEF PushEnds, StagedCheck, Settle, Sent, AdoptRemote, Confirm, remote
  <2>4. CASE BuildPlan
    <3> DEFINE renames == DirRenames(job.chunk) \cup FileRenames(job.chunk)
               rest == job.chunk \ UNION {PathsOf(r) : r \in renames}
    <3>1. CopyLosers(rest)
      BY <2>4, BuildCases
    <3>2. rest \subseteq job.chunk
      OBVIOUS
    <3> HIDE DEF rest
    <3> QED BY <1>4, <3>1, <3>2
  <2>5. ASSUME NEW r \in job.ren, StartRename(r) PROVE FALSE
    BY <1>1, <2>5 DEF StartRename, remote
  <2>6. CASE RenamesEnd
    <3> DEFINE again == job.chunk \ job.done
    <3>1. CopyLosers(again)
      BY <1>1, <2>6 DEF RenamesEnd
    <3>2. again \subseteq job.chunk
      OBVIOUS
    <3> HIDE DEF again
    <3> QED BY <1>4, <3>1, <3>2
  <2>7. CASE PublishStaged
    <3> DEFINE there == {s \in job.sent : nas[s[1]] # None}
    <3>1. /\ there = {} \/ (there = job.sent /\ \A s \in there : nas[s[1]] = s[2])
          /\ nas' = Overlay(nas, job.sent)
      BY <1>1, <2>7 DEF PublishStaged
    <3>2. <<p, nas'[p]>> \in job.sent
      BY <1>1, <3>1, OverlayAt
    <3> DEFINE s == <<p, nas'[p]>>
    <3>3. s \in job.sent /\ s[1] = p /\ s[2] = nas'[p]
      BY <3>2
    <3> HIDE DEF s
    <3>4. s \in there
      BY <1>1, <3>3
    <3>5. nas[s[1]] = s[2]
      BY <3>1, <3>4
    <3> QED BY <1>1, <3>3, <3>5
  <2>8. ASSUME NEW q \in job.up, Send(q)
        PROVE  \/ nas[p] \in Contained(nas)'
               \/ \E x \in {p, CopyPath(p, nas[p])} : <<x, nas[p]>> \in taken'
    <3>1. nas' = [nas EXCEPT ![q] = Seen(q)] /\ Seen(q) # None
      BY <1>1, <2>8 DEF Send
    <3>2. q = p /\ nas \in [Path -> Contents] /\ nas'[p] = Seen(p)
      BY <1>1, <3>1, WorkParts
    <3> DEFINE c == CopyPath(p, nas[p])
    <3>3. nas[p] = None \/ <<p, nas[p]>> \in taken \/ nas[c] = nas[p] \/ <<c, nas[p]>> \in taken
      BY <2>8, <3>2 DEF SettledInv, Replaceable
    <3>4. c \in Path /\ c[2] = nas[p]
      BY <1>2, PathParts
    <3>5. ASSUME nas[c] = nas[p] PROVE nas[p] \in Contained(nas)'
      <4>1. c # p
        <5>1. ASSUME c = p PROVE FALSE
          <6>1. Seen(p) = local[p] /\ Seen(p) # None
            BY <3>1, <3>2 DEF Seen
          <6>2. local[p] = p[2] /\ p[2] = nas[p]
            BY <1>2, <3>4, <5>1, <6>1 DEF NameInv, Fits
          <6> QED BY <1>1, <3>2, <6>1, <6>2
        <5> QED BY <5>1
      <4>2. nas'[c] = nas[p]
        BY <3>1, <3>2, <3>4, <3>5, <4>1
      <4> QED BY <1>3, <3>4, <4>2
    <3> QED BY <1>1, <1>5, <3>3, <3>5
  <2>9. CASE CheckedDelete
    <3> DEFINE gone == {d \in job.del : nas[d[1]] \in {d[2], None}}
               none == {d[1] : d \in gone} \X {None}
    <3>1. nas' = Overlay(nas, none)
      BY <2>9 DEF CheckedDelete
    <3>2. <<p, nas'[p]>> \in none
      <4> HIDE DEF none
      <4> QED BY <1>1, <3>1, OverlayAt
    <3>3. PICK d \in gone : d[1] = p
      BY <3>2
    <3>4. d = <<p, nas[p]>> /\ d[2] # None /\ d \in job.del
      BY <1>1, <3>3, WorkParts
    <3>5. d \in taken
      BY <3>4 DEF SettledInv
    <3> QED BY <1>5, <3>4, <3>5
  <2> QED BY <1>5, <2>1, <2>2, <2>3, <2>4, <2>5, <2>6, <2>7, <2>8, <2>9 DEF PushAct
<1>6. ASSUME NEW r \in job.ren, RenameRemote(r) PROVE nas[p] \in Contained(nas)'
  <2>1. RenameMoves(r)
    BY <1>1, <1>6, RenameCases DEF RenameRefused
  <2>2. PICK m \in MovedFiles(r) : p = m[1] \/ p = m[2]
    BY <1>1, <2>1, RenameNas
  <2>3. m[2] \in Path /\ p = m[1] /\ nas'[m[2]] = nas[p]
    BY <1>1, <2>1, <2>2, RenameNas
  <2> QED BY <1>3, <2>3
<1>7. CASE OtherAct
  <2>1. PICK q \in Dirs \X {Plain} :
          OtherDelete(q) \/ \E v \in Versions : OtherWrite(q, v) \/ OobWrite(q, v)
    BY <1>7 DEF OtherAct
  <2>2. nas \in [Path -> Contents]
    BY WorkParts
  <2>3. CASE OtherDelete(q)
    BY <1>1, <2>2, <2>3 DEF OtherDelete, Took
  <2>4. ASSUME NEW v \in Versions, OtherWrite(q, v) PROVE <<p, nas[p]>> \in taken'
    BY <1>1, <2>2, <2>4 DEF OtherWrite, Took
  <2>5. ASSUME NEW v \in Versions, OobWrite(q, v) PROVE <<p, nas[p]>> \in taken'
    BY <1>1, <2>2, <2>5 DEF OobWrite
  <2> QED BY <2>1, <2>3, <2>4, <2>5
<1>8. CASE \/ (UserAct \/ ResolverAct) /\ Local
           \/ (\E e \in events : Notice(e)) /\ UNCHANGED <<remote, taken, job>>
           \/ PushFails \/ Crash
  BY <1>1, <1>8 DEF Local, remote, PushFails, Crash
<1>9. CASE \E full \in BOOLEAN : Pull(full)
  BY <1>1, <1>9, PullCases
<1> QED BY <1>5, <1>6, <1>7, <1>8, <1>9 DEF Next

\* Whatever is taken away is safe.
LEMMA TakenStep ==
    ASSUME TypeInv, NameInv, SafeInv, Next
    PROVE  \A t \in taken' : t[2] \in Safe' \cup {None}
<1>1. FilesMove /\ TrashMoves /\ LocalInv
  BY NextClient, WorkParts DEF ClientMoves
<1>2. Safe \subseteq Safe'
  BY <1>1, SafeGrows
<1>3. \A t \in taken : t[2] \in Safe' \cup {None}
  BY <1>2 DEF SafeInv
<1>4. \A v \in dropped' : v \in Safe'
  BY SafeNext
<1>5. CASE (UserAct \/ ResolverAct) /\ Local
  BY <1>1, <1>3, <1>5, UserKeeps DEF FilesMove
<1>6. ASSUME NEW r \in job.ren, RenameRemote(r) PROVE \A t \in taken' : t[2] \in Safe' \cup {None}
  <2>1. CASE RenameMoves(r)
    BY <1>3, <1>4, <2>1 DEF RenameMoves
  <2>2. CASE RenameRefused(r)
    BY <1>3, <2>2 DEF RenameRefused
  <2> QED BY <1>6, <2>1, <2>2, RenameCases
<1>7. CASE OtherAct
  <2>1. PICK q \in Dirs \X {Plain} :
          OtherDelete(q) \/ \E v \in Versions : OtherWrite(q, v) \/ OobWrite(q, v)
    BY <1>7 DEF OtherAct
  <2>2. CASE OtherDelete(q)
    BY <1>3, <1>4, <2>2 DEF OtherDelete, Took, Drop
  <2>3. ASSUME NEW v \in Versions, OtherWrite(q, v) PROVE \A t \in taken' : t[2] \in Safe' \cup {None}
    BY <1>3, <1>4, <2>3 DEF OtherWrite, Took, Drop
  <2>4. ASSUME NEW v \in Versions, OobWrite(q, v) PROVE \A t \in taken' : t[2] \in Safe' \cup {None}
    BY <1>3, <1>4, <2>4 DEF OobWrite
  <2> QED BY <2>1, <2>2, <2>3, <2>4
<1>8. CASE UNCHANGED taken
  BY <1>3, <1>8
<1> QED BY <1>5, <1>6, <1>7, <1>8 DEF Next

\* What exists afterwards existed before, or is on one of the two sides.
LEMMA NewContents ==
    ASSUME TypeInv, NameInv, Next
    PROVE  used' \subseteq used \cup Contained(local)' \cup Contained(nas)'
<1>1. CASE (UserAct \/ ResolverAct) /\ Local
  BY <1>1, WorkParts, FolderSteps DEF FolderStep, RestMoves
<1>2. CASE UNCHANGED used
  BY <1>2
<1>3. CASE OtherAct
  <2>1. PICK q \in Dirs \X {Plain} :
          OtherDelete(q) \/ \E v \in Versions : OtherWrite(q, v) \/ OobWrite(q, v)
    BY <1>3 DEF OtherAct
  <2>2. nas \in [Path -> Contents] /\ q \in Path
    BY WorkParts, PathParts
  <2>3. ASSUME NEW v \in Versions, nas' = [nas EXCEPT ![q] = v] PROVE v \in Contained(nas)'
    BY <2>2, <2>3 DEF Contained
  <2> QED BY <2>1, <2>3 DEF OtherDelete, OtherWrite, OobWrite
<1>4. CASE (\E e \in events : Notice(e)) /\ UNCHANGED <<remote, taken, job>>
  BY <1>2, <1>4 DEF Notice, history
<1>5. CASE (PushFails \/ Crash) /\ UNCHANGED taken
  BY <1>2, <1>5 DEF PushFails, Crash, Restart
<1>6. CASE (\E full \in BOOLEAN : Pull(full)) /\ UNCHANGED taken
  BY <1>2, <1>6, PullCases
<1>7. CASE PushAct /\ UNCHANGED taken
  <2>1. ASSUME NEW U, PushTick(U) PROVE UNCHANGED used
    BY <2>1 DEF PushTick
  <2>2. ASSUME NEW C, PickChunk(C) PROVE UNCHANGED used
    BY <2>2 DEF PickChunk, localVars, history
  <2>3. CASE PushEnds \/ BuildPlan \/ RenamesEnd \/ Sent \/ CheckedDelete
    BY <1>2, <2>3 DEF PushEnds, BuildPlan, RenamesEnd, Sent, CheckedDelete, localVars, history
  <2>4. CASE StagedCheck \/ PublishStaged \/ Settle \/ AdoptRemote \/ Confirm
    BY <1>2, <2>4 DEF StagedCheck, PublishStaged, Settle, AdoptRemote, Confirm, history
  <2>5. ASSUME NEW r, StartRename(r) PROVE UNCHANGED used
    BY <2>5 DEF StartRename, history
  <2>6. ASSUME NEW p, Send(p) PROVE UNCHANGED used
    BY <2>6 DEF Send, history
  <2> QED BY <1>2, <1>7, <2>1, <2>2, <2>3, <2>4, <2>5, <2>6 DEF PushAct
<1>8. ASSUME NEW r \in job.ren, RenameRemote(r) PROVE UNCHANGED used
  BY <1>8, RenameCases
<1> QED BY <1>1, <1>2, <1>3, <1>4, <1>5, <1>6, <1>7, <1>8 DEF Next

\* All that exists stays safe, or on the NAS.
LEMMA SafeStep ==
    ASSUME TypeInv, NameInv, SafeInv, SettledInv, Next
    PROVE  SafeInv'
<1>1. \A t \in taken' : t[2] \in Safe' \cup {None}
  BY TakenStep
<1>2. Safe \subseteq Safe'
  BY NextClient, WorkParts, SafeGrows DEF ClientMoves
<1>3. ASSUME NEW v \in used PROVE v \in Safe' \cup Contained(nas)'
  <2>1. CASE v \in Safe
    BY <1>2, <2>1
  <2>2. CASE v \in Contained(nas)
    <3>1. PICK p \in Path : v = nas[p] /\ v \in Versions
      BY <2>2 DEF Contained
    <3>2. CASE nas'[p] = nas[p]
      BY <3>1, <3>2 DEF Contained
    <3>3. CASE \E q \in {p, CopyPath(p, nas[p])} : <<q, nas[p]>> \in taken'
      <4>1. PICK q : <<q, nas[p]>> \in taken'
        BY <3>3
      <4> DEFINE t == <<q, nas[p]>>
      <4>2. t \in taken' /\ t[2] = nas[p]
        BY <4>1
      <4> HIDE DEF t
      <4> QED BY <1>1, <3>1, <4>2, Apart
    <3>4. KeepsAt(p)
      BY NasKept1
    <3> QED BY <3>1, <3>2, <3>3, <3>4, Apart DEF KeepsAt
  <2> QED BY <2>1, <2>2 DEF SafeInv
<1>4. Contained(local)' \subseteq Safe'
  BY DEF Safe
<1>5. used' \subseteq Safe' \cup Contained(nas)'
  BY <1>3, <1>4, NewContents
<1> QED BY <1>1, <1>5 DEF SafeInv

-----------------------------------------------------------------------------
(* The invariant. *)

\* It holds at the start.
LEMMA InitInv == Init => TreeInv
<1> SUFFICES ASSUME Init PROVE TreeInv
  OBVIOUS
<1>1. /\ DOMAIN Initial \subseteq Dirs /\ \A d \in DOMAIN Initial : Initial[d] \in Versions
      /\ \A p \in Path : First(p) \in Versions \cup {None}
      /\ \A p \in Path : First(p) # None => p[1] \in DOMAIN Initial /\ p[2] = Plain /\ First(p) = Initial[p[1]]
  BY FolderAssumption DEF First
<1>2. /\ local = [p \in Path |-> First(p)] /\ nas = [p \in Path |-> First(p)]
      /\ dirs = DOMAIN Initial /\ nasDirs = DOMAIN Initial /\ mounted = TRUE /\ excluded = {}
      /\ base = [p \in Path |-> IF First(p) = None THEN Unknown ELSE First(p)]
      /\ rec = [p \in Path |-> IF First(p) = None THEN Unknown ELSE First(p)]
      /\ pending = {} /\ events = {} /\ marks = {} /\ ltrash = {} /\ gui = Closed
      /\ used = {Initial[d] : d \in DOMAIN Initial} /\ dropped = {} /\ happened = {}
      /\ taken = {} /\ job = Idle
  BY DEF Init, LocalInit
<1>3. NoPlan /\ ~Staged /\ JobFields /\ job.at = "idle"
  BY <1>2 DEF Idle, NoPlan, Staged, JobFields
<1>4. \A p \in Path : p[1] \in Dirs /\ (p[2] = Plain => p[2] \notin Versions)
  BY PathParts, Apart
<1>5. /\ \A d \in DOMAIN Initial : <<d, Plain>> \in Path /\ First(<<d, Plain>>) = Initial[d]
  BY <1>1 DEF First, Path, Names
<1>6. Contained(local) = used /\ Contained(nas) = used
  <2>1. ASSUME NEW v \in used PROVE \E p \in Path : First(p) = v /\ v \in Versions
    <3>1. PICK d \in DOMAIN Initial : v = Initial[d]
      BY <1>2
    <3> DEFINE p == <<d, Plain>>
    <3>2. p \in Path /\ First(p) = v /\ v \in Versions
      BY <1>1, <1>5, <3>1
    <3> QED BY <3>2
  <2>2. ASSUME NEW p \in Path, First(p) \in Versions PROVE First(p) \in used
    BY <1>1, <1>2, <2>2, Apart
  <2> QED BY <1>2, <2>1, <2>2 DEF Contained
<1>7. LocalInv
  <2>1. LocalTypeOK
    <3>1. local \in [Path -> Contents] /\ base \in [Path -> Contents \cup {Unknown}]
      BY <1>1, <1>2, Apart
    <3>2. gui.at \in {"idle", "copied", "moved", "clean"} /\ gui.todo \subseteq Path /\ gui.tmp \in Contents
      BY <1>2, Apart DEF Closed
    <3>3. used \subseteq Versions
      BY <1>1, <1>2
    <3> QED BY <1>1, <1>2, <3>1, <3>2, <3>3 DEF LocalTypeOK
  <2>2. gui \in GuiFields /\ gui.at = "idle" /\ gui.tmp = None
    BY <1>2, Apart DEF GuiFields, Closed
  <2> QED BY <1>2, <1>6, <2>1, <2>2 DEF LocalInv
<1>8. NasInv
  <2>1. nas \in [Path -> Contents] /\ rec \in [Path -> Contents \cup {Unknown}]
    BY <1>1, <1>2, Apart
  <2> QED BY <1>1, <1>2, <1>6, <2>1 DEF NasInv
<1>9. JobInv /\ PlanInv /\ RenameInv
  BY <1>2 DEF Idle, JobFields, JobInv, PlanInv, RenameInv, Steps, Staged, Leased
<1>10. NameInv
  <2>1. ASSUME NEW p \in Path PROVE Fits(p, First(p))
    BY <1>1, <1>4 DEF Fits
  <2> QED BY <1>2, <1>3, <2>1 DEF NameInv, NoPlan
<1>11. SafeInv
  BY <1>2, <1>6 DEF SafeInv
<1>12. BaseInv
  BY <1>2, <1>3, Apart DEF BaseInv, Free
<1>13. SentInv /\ SettledInv
  BY <1>3 DEF NoPlan, SentInv, SettledInv
<1> QED BY <1>7, <1>8, <1>9, <1>10, <1>11, <1>12, <1>13 DEF TreeInv, TypeInv

\* Every step keeps it.
LEMMA StepInv == TreeInv /\ [Next]_vars => TreeInv'
<1> SUFFICES ASSUME TreeInv, [Next]_vars PROVE TreeInv'
  OBVIOUS
<1>1. TypeInv /\ NameInv /\ SafeInv /\ BaseInv /\ SentInv /\ SettledInv
  BY DEF TreeInv
<1>2. CASE Next
  BY <1>1, <1>2, TypeStep, SafeStep, BaseStep, NextHeld DEF TreeInv
<1>3. CASE UNCHANGED vars
  <2>1. UNCHANGED <<local, dirs, mounted, excluded, base, pending, events, marks, ltrash, gui, used, dropped,
                    happened, nas, nasDirs, rec, oob, taken, job>>
    BY <1>3 DEF vars, localVars, folder, store, watch, history, remote
  <2>2. LocalInv' /\ NasInv'
    <3>1. LocalInv /\ NasInv
      BY <1>1 DEF TypeInv
    <3>2. LocalInv'
      BY <2>1, <3>1 DEF LocalInv, LocalTypeOK, Contained
    <3>3. NasInv'
      BY <2>1, <3>1 DEF NasInv, Contained
    <3> QED BY <3>2, <3>3
  <2>3. WorkInv'
    BY <1>1, <2>1, SameWork DEF Around
  <2>4. NameInv'
    BY <1>1, <2>1 DEF NameInv, Staged
  <2>5. Safe' = Safe /\ Contained(nas)' = Contained(nas)
    BY <2>1 DEF Safe, Contained
  <2>6. SafeInv'
    BY <1>1, <2>1, <2>5 DEF SafeInv
  <2>7. BaseInv'
    BY <1>1, <2>1 DEF BaseInv, Free
  <2>8. SentInv' /\ SettledInv'
    BY <1>1, <2>1, SameKeeps, RestHeld DEF Staged
  <2> QED BY <2>2, <2>3, <2>4, <2>6, <2>7, <2>8 DEF TreeInv, TypeInv, WorkInv
<1> QED BY <1>2, <1>3

\* The invariant of the push over the folder: its types, its names, the versions
\* a plan may replace or delete, and all contents being somewhere.
THEOREM TreeCorrect == Spec => []TreeInv
<1>1. Init => TreeInv
  BY InitInv
<1>2. TreeInv /\ [Next]_vars => TreeInv'
  BY StepInv
<1> QED BY <1>1, <1>2, PTL DEF Spec

-----------------------------------------------------------------------------
(* The properties. *)

\* A step of a push leaves the folders alone that were excluded when it began.
LEMMA WithoutStays ==
    ASSUME TypeInv, NameInv, Next, job # job', NEW p \in Path, p[1] \in job.without
    PROVE  nas'[p] = nas[p]
<1>1. SUFFICES ASSUME nas'[p] # nas[p] PROVE FALSE
  OBVIOUS
<1>2. /\ job.chunk \subseteq Path /\ \A q \in job.chunk : q[1] \notin job.without
      /\ job.dirEv \cap job.without = {}
      /\ job.up \subseteq job.chunk /\ job.del \subseteq job.chunk \X Contents
      /\ Staged => job.sent \subseteq job.chunk \X used
  BY WorkParts DEF JobInv, PlanInv
<1>3. p \notin job.chunk
  BY <1>2
<1>4. \A S : S \subseteq job.chunk => ~CopyLosers(S)
  <2>1. SUFFICES ASSUME NEW S, S \subseteq job.chunk, CopyLosers(S) PROVE FALSE
    OBVIOUS
  <2>2. S \subseteq Path
    BY <1>2, <2>1
  <2>3. nas' = Overlay(nas, Losers(S))
    BY <2>1 DEF CopyLosers
  <2> DEFINE L == Losers(S)
             c == <<p, nas'[p]>>
  <2>4. c \in L
    <3> HIDE DEF L
    <3> QED BY <1>1, <2>3, OverlayAt DEF L
  <2>5. c[1] = p
    OBVIOUS
  <2>6. \A x \in L : \E q \in S : x[1][1] = q[1]
    BY <2>2, LoserFacts
  <2> HIDE DEF L, c
  <2>7. PICK q \in S : p[1] = q[1]
    BY <2>4, <2>5, <2>6
  <2> QED BY <1>2, <2>1, <2>7
<1>5. CASE PushAct
  <2>1. ASSUME NEW U, PushTick(U) PROVE FALSE
    BY <1>1, <2>1 DEF PushTick, remote
  <2>2. ASSUME NEW C, PickChunk(C) PROVE FALSE
    BY <1>1, <2>2 DEF PickChunk, remote
  <2>3. CASE PushEnds \/ StagedCheck \/ Settle \/ Sent \/ AdoptRemote \/ Confirm
    BY <1>1, <2>3 DEF PushEnds, StagedCheck, Settle, Sent, AdoptRemote, Confirm, remote
  <2>4. CASE BuildPlan
    <3> DEFINE renames == DirRenames(job.chunk) \cup FileRenames(job.chunk)
               rest == job.chunk \ UNION {PathsOf(r) : r \in renames}
    <3>1. CopyLosers(rest)
      BY <2>4, BuildCases
    <3>2. rest \subseteq job.chunk
      OBVIOUS
    <3> HIDE DEF rest
    <3> QED BY <1>4, <3>1, <3>2
  <2>5. ASSUME NEW r, StartRename(r) PROVE FALSE
    BY <1>1, <2>5 DEF StartRename, remote
  <2>6. CASE RenamesEnd
    <3> DEFINE again == job.chunk \ job.done
    <3>1. CopyLosers(again)
      BY <1>1, <2>6 DEF RenamesEnd
    <3>2. again \subseteq job.chunk
      OBVIOUS
    <3> HIDE DEF again
    <3> QED BY <1>4, <3>1, <3>2
  <2>7. CASE PublishStaged
    <3>1. nas' = Overlay(nas, job.sent) /\ Staged
      BY <1>1, <2>7 DEF PublishStaged, Staged
    <3>2. <<p, nas'[p]>> \in job.sent
      BY <1>1, <3>1, OverlayAt
    <3> QED BY <1>2, <1>3, <3>1, <3>2
  <2>8. ASSUME NEW q \in job.up, Send(q) PROVE FALSE
    <3>1. nas' = [nas EXCEPT ![q] = Seen(q)]
      BY <1>1, <2>8 DEF Send
    <3>2. nas \in [Path -> Contents]
      BY WorkParts
    <3>3. q = p
      BY <1>1, <3>1, <3>2
    <3> QED BY <1>2, <1>3, <3>3
  <2>9. CASE CheckedDelete
    <3> DEFINE gone == {d \in job.del : nas[d[1]] \in {d[2], None}}
               none == {d[1] : d \in gone} \X {None}
    <3>1. nas' = Overlay(nas, none)
      BY <2>9 DEF CheckedDelete
    <3>2. <<p, nas'[p]>> \in none
      <4> HIDE DEF none
      <4> QED BY <1>1, <3>1, OverlayAt
    <3>3. PICK d \in job.del : d[1] = p
      BY <3>2
    <3> QED BY <1>2, <1>3, <3>3
  <2> QED BY <1>5, <2>1, <2>2, <2>3, <2>4, <2>5, <2>6, <2>7, <2>8, <2>9 DEF PushAct
<1>6. ASSUME NEW r \in job.ren, RenameRemote(r) PROVE FALSE
  <2>1. RenameMoves(r)
    BY <1>1, <1>6, RenameCases DEF RenameRefused
  <2>2. PICK m \in MovedFiles(r) : p = m[1] \/ p = m[2]
    BY <1>1, <2>1, RenameNas
  <2>3. r \in Renames
    BY WorkParts
  <2>4. CASE r.kind = "FILE"
    <3>1. r.src \in job.chunk /\ r.dst \in job.chunk
      BY <2>4, WorkParts DEF RenameInv
    <3>2. m[1] = r.src /\ m[2] = r.dst
      BY <2>2, <2>4 DEF MovedFiles
    <3> QED BY <1>3, <2>2, <3>1, <3>2
  <2>5. CASE r.kind = "DIR"
    <3>1. r.src \in job.dirEv /\ r.dst \in job.dirEv
      BY <2>5, WorkParts DEF RenameInv
    <3>2. r.src \in Dirs /\ r.dst \in Dirs
      BY <3>1, WorkParts DEF JobInv
    <3>3. m[1] \in Under(r.src) /\ m[2] = Moved(m[1], r.dst)
      BY <2>2, <2>5 DEF MovedFiles
    <3>4. m[1][1] = r.src /\ m[1] \in Path
      BY <3>2, <3>3, PathParts
    <3>5. m[2][1] = r.dst
      <4>1. \A q \in Path, d \in Dirs : Moved(q, d)[1] = d
        BY PathParts
      <4> QED BY <3>2, <3>3, <3>4, <4>1
    <3> QED BY <1>2, <2>2, <3>1, <3>4, <3>5
  <2> QED BY <2>3, <2>4, <2>5 DEF Renames
<1>7. CASE (UserAct /\ Local) \/ (ResolverAct /\ Local) \/ OtherAct \/ (\E full \in BOOLEAN : Pull(full))
  BY <1>7 DEF Local, OtherAct, OtherDelete, OtherWrite, OobWrite, Pull
<1>8. CASE ((\E e \in events : Notice(e)) /\ UNCHANGED <<remote, taken, job>>) \/ PushFails \/ Crash
  BY <1>1, <1>8 DEF remote, PushFails, Crash
<1> QED BY <1>5, <1>6, <1>7, <1>8 DEF Next

\* Types of the variables; a push that waits has no plan.
THEOREM TypeCorrect == Spec => []TypeOK
<1>1. TreeInv => TypeOK
  BY DEF TreeInv, TypeInv, LocalInv, NasInv, JobInv, TypeOK
<1> QED BY <1>1, TreeCorrect, PTL

\* No content is lost: unless somebody replaced or deleted it, it is in the
\* folder, on the NAS, in the local trash or in the hands of the resolver
\* (conflicts.py resolve_conflict, trash.py, pull_worker.py).
THEOREM NothingIsLost == Spec => []NothingLost
<1>1. TreeInv => NothingLost
  <2>1. SafeInv => used \subseteq Safe \cup Contained(nas)
    BY DEF SafeInv
  <2> QED BY <2>1 DEF TreeInv, NothingLost, Safe
<1> QED BY <1>1, TreeCorrect, PTL

\* A push takes a content from a path of the NAS only if somebody took that very
\* content away from it, or from its conflict copy, or it is on the NAS still
\* (push_worker.py _build_plan, _run_renames, checked_delete_remote).
THEOREM NasKept == Spec => NasKeeps
<1>1. TreeInv /\ [Next]_vars =>
        [\A p \in Path : nas[p] \notin {None, nas'[p]} =>
           \/ nas[p] \in Contained(nas)'
           \/ \E q \in {p, CopyPath(p, nas[p])} : <<q, nas[p]>> \in taken']_vars
  <2>1. SUFFICES ASSUME TreeInv, Next, NEW p \in Path PROVE KeepsAt(p)
    BY DEF KeepsAt
  <2> QED BY <2>1, NasKept1 DEF TreeInv
<1> QED BY <1>1, TreeCorrect, PTL DEF Spec, NasKeeps

\* A push touches no file of a folder that was out of selective sync when it
\* began (rsync_ops.py path_is_excluded).
THEOREM ExcludedUntouched == Spec => ExcludedKept
<1>1. TreeInv /\ [Next]_vars =>
        [job # job' => \A d \in job.without : \A p \in Under(d) : nas'[p] = nas[p]]_vars
  <2>1. SUFFICES ASSUME TreeInv, Next, job # job', NEW d \in job.without, NEW p \in Under(d)
                 PROVE  nas'[p] = nas[p]
    OBVIOUS
  <2>2. TypeInv /\ NameInv /\ job.without \subseteq Dirs
    BY <2>1, WorkParts, LocalParts DEF TreeInv, JobInv
  <2>3. p \in Path /\ p[1] = d
    BY <2>1, <2>2, PathParts
  <2> QED BY <2>1, <2>2, <2>3, WithoutStays
<1> QED BY <1>1, TreeCorrect, PTL DEF Spec, ExcludedKept

-----------------------------------------------------------------------------
(* No change is forgotten.  A path that differs from its base has a cause that *)
(* will bring it up again, a row in the queue, or was changed on the NAS behind *)
(* the journal.  While a push holds the path, it must know what it makes the    *)
(* base: the content is the local one, or the file has changed since the plan   *)
(* and has a new cause.  A cause outlives every step but the tick, which turns  *)
(* it into rows, and the restart, which asks for a sweep.                       *)

(* A mark or an event that will bring a path up; that of its directory counts   *)
(* only once a directory was moved, as its files have no events of their own.   *)
Fresh(p) ==
    \/ UnknownPath \in marks \/ p \in marks \/ p \in events
    \/ "movedir" \in happened /\ p[1] \in marks \cup events

(* Or it is no business of the push: see InStep.                                *)
Cause(p) == Fresh(p) \/ Excluded(p) \/ Hidden(p)

(* What a plan knows of a path.                                                 *)
Known(p, c) == local[p] = c \/ Cause(p)

(* Changed, were the volume mounted.                                            *)
Differs(p) == local[p] # base[p] /\ (local[p] = None => base[p] \in Versions)

Triggered(p) == Differs(p) => Cause(p) \/ p \in pending \/ p \in oob

(* A volume that is not there was unmounted by somebody.                        *)
MountInv == mounted \/ "unmount" \in happened

(* The manifest has no version of a file that is not there.                     *)
RecInv == \A p \in Path : nas[p] = None => rec[p] \notin Versions

TriggerInv == \A p \in Path : Triggered(p)

Deleted == {d[1] : d \in job.del}

(* The deletions of a plan keep apart from the rest, and its renames too.       *)
ApartInv ==
    /\ job.up \cap Deleted = {} /\ Adopted \cap Deleted = {}
    /\ \A r \in job.ren :
         /\ Deleted \cap PathsOf(r) = {}
         /\ r.kind = "DIR" => Deleted \cap Under(r.dst) = {}
         /\ \A s \in job.ren : r # s => \A e \in Entries(r), f \in Entries(s) : e[1] # f[1]

(* A path of the chunk of which the plan has nothing to do.                     *)
Unplanned(p) ==
    /\ p \in job.chunk /\ p \notin job.done
    /\ p \notin job.up /\ p \notin job.sent /\ p \notin Deleted /\ p \notin job.adopt /\ p \notin Adopted
    /\ job.at \in {"rename", "moving", "settle"} => p \notin job.wins
    /\ job.at \in {"rename", "moving"} => p \notin job.failed /\ \A r \in job.ren : p \notin PathsOf(r)

(* What the push will make the base is known, and a path of the chunk that      *)
(* leaves the queue without a plan differs from its base for a reason.          *)
KnownInv ==
    /\ job.at = "publish" => \A s \in job.sent : Known(s[1], s[2])
    /\ \A r \in job.ren : \A e \in Entries(r) : base[e[1]] \in Versions /\ Known(e[2], base[e[1]])
    /\ Leased =>
         /\ \A p \in job.wins : Known(p, None)
         /\ \A d \in job.del :
              /\ Known(d[1], None)
              /\ job.at # "confirm" => nas[d[1]] \in {d[2], None} \/ d[1] \in oob
         /\ job.at \in {"delete", "confirm"} =>
              \A a \in job.adp : Known(a[1], nas[a[1]]) \/ a[1] \in oob
         /\ \A p \in Path : Unplanned(p) /\ Differs(p) => Cause(p) \/ p \in oob

TraceInv == MountInv /\ RecInv /\ TriggerInv /\ ApartInv /\ KnownInv

\* It says what is asked for.
LEMMA TracedInStep == TypeInv /\ TraceInv => InStep
<1> SUFFICES ASSUME TypeInv, TraceInv, NEW p \in Changed, Untriggered(p), ~Hidden(p) PROVE FALSE
  BY DEF InStep
<1>1. p \in Path /\ mounted /\ local[p] \in Contents
  BY WorkParts, LocalParts DEF Changed, TraceInv, MountInv, Hidden
<1>2. Differs(p)
  BY <1>1, Apart DEF Changed, Seen, Differs
<1>3. ~Cause(p)
  BY DEF Untriggered, Cause, Fresh
<1> QED BY <1>1, <1>2, <1>3 DEF TraceInv, TriggerInv, Triggered, Untriggered

\* What the invariant keeps through all steps but the tick and the restart.
Stirs ==
    \A p \in Path : /\ Cause(p) => Cause(p)'
                    /\ local'[p] = local[p] \/ Cause(p)'

\* New events and marks: nothing is hidden again without one.
LEMMA StirsBy ==
    ASSUME events \subseteq events', marks \subseteq marks', happened \subseteq happened',
           excluded \subseteq excluded', dirs \subseteq dirs',
           \A p \in Path : local'[p] = local[p] \/ p \in events'
    PROVE  Stirs
<1>1. ASSUME NEW p \in Path, Fresh(p) PROVE Fresh(p)'
  BY <1>1 DEF Fresh
<1>2. ASSUME NEW p \in Path, Excluded(p) PROVE Excluded(p)'
  BY <1>2 DEF Excluded
<1>3. ASSUME NEW p \in Path, Hidden(p) PROVE Hidden(p)' \/ Fresh(p)'
  BY <1>3 DEF Hidden, Fresh
<1>4. ASSUME NEW p \in Path PROVE local'[p] = local[p] \/ Fresh(p)'
  BY <1>4 DEF Fresh
<1> QED BY <1>1, <1>2, <1>3, <1>4 DEF Stirs, Cause

\* A sweep is a cause for every path.
LEMMA SweepStirs == ASSUME UnknownPath \in marks' PROVE Stirs /\ \A p : Cause(p)'
BY DEF Stirs, Cause, Fresh

\* Files written over those of the folder are touched.
LEMMA PutTouches ==
    ASSUME NEW p \in Path, NEW c \in Contents, local' = Put(p, c), p \in events' \/ c = local[p]
    PROVE  \A q \in Path : local'[q] = local[q] \/ q \in events'
BY PutAt

\* What a user does to the folder.
LEMMA UserStirs == ASSUME TypeInv, UserAct PROVE Stirs
<1>0. /\ local \in [Path -> Contents] /\ dirs \subseteq Dirs /\ ltrash \subseteq Path \X Versions
      /\ events \subseteq Path \cup Dirs
  BY WorkParts, LocalParts
<1>1. ASSUME NEW p \in Dirs \X {Plain}, NEW v \in Versions, UserWrite(p, v) PROVE Stirs
  <2>1. p \in Path /\ v \in Contents
    BY PathParts DEF Contents
  <2>2. local' = Put(p, v) /\ p \in events' /\ events \subseteq events' /\ UNCHANGED <<marks, excluded>>
        /\ happened \subseteq happened' /\ dirs \subseteq dirs'
    BY <1>1 DEF UserWrite, Touch, Happens
  <2> QED BY <2>1, <2>2, PutTouches, StirsBy
<1>2. ASSUME NEW p \in Path, NEW q \in Path, UserMove(p, q) PROVE Stirs
  <2> DEFINE S == {<<p, None>>, <<q, local[p]>>}
  <2>1. local' = Overlay(local, S) /\ {p, q} \subseteq events' /\ events \subseteq events' /\ UNCHANGED <<marks, excluded>>
        /\ happened \subseteq happened' /\ dirs \subseteq dirs'
    BY <1>2 DEF UserMove, Touch, Happens
  <2>2. ASSUME NEW t \in Path PROVE local'[t] = local[t] \/ t \in events'
    <3>1. \A c : <<t, c>> \in S => t = p \/ t = q
      OBVIOUS
    <3> HIDE DEF S
    <3> QED BY <2>1, <3>1, OverlayAt
  <2> QED BY <2>1, <2>2, StirsBy
<1>3. ASSUME NEW d \in Dirs, NEW e \in Dirs, UserMoveDir(d, e) PROVE Stirs
  <2>1. /\ {d, e} \subseteq events' /\ events \subseteq events' /\ UNCHANGED <<marks, excluded>>
        /\ happened' = happened \cup {"movedir"} /\ dirs' = (dirs \ {d}) \cup {e}
        /\ "movedir" \notin happened
    BY <1>3 DEF UserMoveDir, Touch, Happens
  <2>2. \A p \in Path : local'[p] = local[p] \/ p[1] \in {d, e}
    BY <1>3 DEF UserMoveDir
  <2>3. ASSUME NEW p \in Path, p[1] \in {d, e} PROVE Fresh(p)'
    BY <2>1, <2>3 DEF Fresh
  <2>4. ASSUME NEW p \in Path, Fresh(p) PROVE Fresh(p)'
    BY <2>1, <2>4 DEF Fresh
  <2>5. ASSUME NEW p \in Path, Excluded(p) PROVE Excluded(p)'
    BY <2>1, <2>5 DEF Excluded
  <2>6. ASSUME NEW p \in Path, Hidden(p) PROVE Hidden(p)'
    BY <2>1, <2>6 DEF Hidden
  <2> QED BY <2>2, <2>3, <2>4, <2>5, <2>6 DEF Stirs, Cause
<1>4. ASSUME NEW S \in SUBSET Path, UserDelete(S) PROVE Stirs
  <2>1. local' = Overlay(local, S \X {None}) /\ S \subseteq events' /\ events \subseteq events' /\ UNCHANGED <<marks, excluded, dirs>>
        /\ happened \subseteq happened'
    BY <1>4 DEF UserDelete, Touch, Happens
  <2>2. ASSUME NEW t \in Path PROVE local'[t] = local[t] \/ t \in events'
    <3> DEFINE D == S \X {None}
    <3>1. local' = Overlay(local, D) /\ \A c : <<t, c>> \in D => t \in S
      BY <2>1
    <3> HIDE DEF D
    <3>2. \/ <<t, Overlay(local, D)[t]>> \in D
          \/ Overlay(local, D)[t] = local[t]
      BY OverlayAt
    <3>3. S \subseteq events'
      BY <2>1
    <3> QED BY <3>1, <3>2, <3>3
  <2> QED BY <2>1, <2>2, StirsBy
<1>5. ASSUME NEW d \in Dirs, Exclude(d) PROVE Stirs
  BY <1>5, StirsBy DEF Exclude, Happens, watch
<1>6. CASE Unmount \/ Remount
  BY <1>6, StirsBy DEF Unmount, Remount, Happens, watch, history
<1>7. CASE Relocate
  BY <1>7, SweepStirs DEF Relocate
<1>8. ASSUME NEW c \in ltrash, Restore(c[1], c[2]) PROVE Stirs
  <2>1. c[1] \in Path /\ c[2] \in Contents
    BY <1>0 DEF Contents
  <2>2. local' = Put(c[1], c[2]) /\ c[1] \in events' /\ events \subseteq events' /\ UNCHANGED <<marks, excluded>>
        /\ happened \subseteq happened' /\ dirs \subseteq dirs'
    BY <1>8 DEF Restore, Touch, Happens
  <2> QED BY <2>1, <2>2, PutTouches, StirsBy
<1>9. ASSUME NEW c \in ltrash, Prune(c[1], c[2]) PROVE Stirs
  BY <1>9, StirsBy DEF Prune, Happens, watch
<1>10. ASSUME NEW p \in Path, NEW q, ResolveStart(p, q) PROVE Stirs
  BY <1>10, StirsBy DEF ResolveStart, Happens, watch
<1>11. \A p \in Path, d \in Dirs : Moved(p, d) \in Path
  BY PathParts
<1> QED BY <1>1, <1>2, <1>3, <1>4, <1>5, <1>6, <1>7, <1>8, <1>9, <1>10, <1>11 DEF UserAct

\* The resolver and the trash.
LEMMA ResolverStirs == ASSUME TypeInv, ResolverAct PROVE Stirs
<1>0. gui \in GuiFields /\ gui.tmp \in Contents /\ (gui.at # "idle" => gui.orig \in Path)
  BY WorkParts, LocalParts, PathParts DEF Contents
<1>1. ASSUME NEW p \in Path, ToTrash(p), UNCHANGED <<dirs, marks, excluded, happened>> PROVE Stirs
  <2>1. local' = Put(p, None) /\ (local[p] # None => p \in events') /\ events \subseteq events'
    BY <1>1 DEF ToTrash, Touch
  <2>2. None \in Contents
    BY DEF Contents
  <2> QED BY <1>1, <2>1, <2>2, PutTouches, StirsBy
<1>2. CASE ResolveMove
  BY <1>0, <1>1, <1>2 DEF ResolveMove, history
<1>3. CASE ResolvePlace
  <2>1. gui.orig \in Path /\ local' = Put(gui.orig, gui.tmp) /\ gui.orig \in events' /\ events \subseteq events'
        /\ dirs \subseteq dirs' /\ UNCHANGED <<marks, excluded, happened>>
    BY <1>0, <1>3 DEF ResolvePlace, Touch
  <2> QED BY <1>0, <2>1, PutTouches, StirsBy
<1>4. CASE ResolveDone \/ ResolveFails
  BY <1>4, StirsBy DEF ResolveDone, ResolveFails, Happens, watch, history
<1>5. ASSUME NEW q \in gui.todo, ResolveTrash(q) PROVE Stirs
  <2>1. q \in Path
    BY <1>0 DEF GuiFields
  <2> QED BY <1>1, <1>5, <2>1 DEF ResolveTrash, history
<1> QED BY <1>2, <1>3, <1>4, <1>5 DEF ResolverAct

\* The watcher turns events into marks, but for what is excluded.
LEMMA NoticeStirs == ASSUME TypeInv, NEW e \in events, Notice(e) PROVE Stirs
<1>1. events' = events \ {e} /\ (~Excluded(e) => marks' = marks \cup {e}) /\ marks \subseteq marks'
      /\ UNCHANGED <<local, dirs, excluded, happened>>
  BY DEF Notice, folder, history
<1>2. ASSUME NEW p \in Path, Fresh(p), ~Excluded(p) PROVE Fresh(p)'
  <2>1. p[1] \in Dirs
    BY PathParts
  <2>2. e \in {p, p[1]} => ~Excluded(e)
    BY <1>2, <2>1, ExcludedPath
  <2> QED BY <1>1, <1>2, <2>2 DEF Fresh
<1>3. ASSUME NEW p \in Path, Excluded(p) PROVE Excluded(p)'
  BY <1>1, <1>3 DEF Excluded
<1>4. ASSUME NEW p \in Path, Hidden(p) PROVE Hidden(p)'
  BY <1>1, <1>4 DEF Hidden
<1> QED BY <1>1, <1>2, <1>3, <1>4 DEF Stirs, Cause

\* Workers touch what they write.
LEMMA WorkerStirs ==
    ASSUME NEW T, T \subseteq Path, WriteLocal(Files(T)), marks \subseteq marks', UNCHANGED happened
    PROVE  Stirs
<1> DEFINE S == Files(T)
<1>1. local' = Overlay(local, S) /\ dirs \subseteq dirs' /\ excluded' = excluded
      /\ events' = events \cup {s[1] : s \in {c \in S : local[c[1]] # c[2]}}
  BY DEF WriteLocal, Touch
<1> HIDE DEF S
<1>2. ASSUME NEW p \in Path PROVE local'[p] = local[p] \/ p \in events'
  <2>1. CASE <<p, local'[p]>> \in S /\ local'[p] # local[p]
    <3> DEFINE s == <<p, local'[p]>>
    <3>1. s \in S /\ s[1] = p /\ s[2] = local'[p]
      BY <2>1
    <3> HIDE DEF s
    <3> QED BY <1>1, <2>1, <3>1
  <2> QED BY <1>1, <2>1, OverlayAt
<1> QED BY <1>1, <1>2, StirsBy

\* The steps of a push that touch neither the folder nor the rows.
QuietStep ==
    \/ \E C : PickChunk(C)
    \/ PushEnds \/ BuildPlan \/ StagedCheck \/ RenamesEnd
    \/ \E r : StartRename(r)
    \/ \E p : Send(p)
    \/ Sent \/ CheckedDelete

\* The steps of a push that write rows.
RowStep == PublishStaged \/ Settle \/ Confirm

\* What those steps leave alone.
LEMMA QuietRows ==
    ASSUME QuietStep \/ PushFails \/ RowStep \/ OtherAct
    PROVE  /\ UNCHANGED <<folder, events>> /\ marks \subseteq marks' /\ happened \subseteq happened'
           /\ oob \subseteq oob'
           /\ ~RowStep => UNCHANGED <<base, pending>>
           /\ ~OtherAct => UNCHANGED oob
<1>1. ASSUME NEW C, PickChunk(C) PROVE UNCHANGED <<folder, events, marks, base, pending, oob, happened>>
  BY <1>1 DEF PickChunk, localVars, remote, store, watch, history
<1>2. CASE PushEnds \/ BuildPlan \/ RenamesEnd \/ Sent \/ CheckedDelete
  BY <1>2 DEF PushEnds, BuildPlan, RenamesEnd, Sent, CheckedDelete, localVars, remote, store, watch, history
<1>3. CASE StagedCheck
  BY <1>3 DEF StagedCheck, store, history, remote
<1>4. ASSUME NEW r, StartRename(r) PROVE UNCHANGED <<folder, events, base, pending, oob, happened>> /\ marks \subseteq marks'
  BY <1>4 DEF StartRename, store, history, remote
<1>5. ASSUME NEW p, Send(p) PROVE UNCHANGED <<folder, events, base, pending, oob, happened>> /\ marks \subseteq marks'
  BY <1>5 DEF Send, store, history, Fails
<1>6. CASE PushFails
  BY <1>6 DEF PushFails, Fails, Happens, store, remote
<1>7. CASE PublishStaged
  BY <1>7 DEF PublishStaged, RowStep, Fails, history
<1>8. CASE Settle
  BY <1>8 DEF Settle, RowStep, Fails, history, remote
<1>9. CASE Confirm
  BY <1>9 DEF Confirm, RowStep, Fails, history
<1>10. CASE OtherAct
  <2>1. PICK p \in Dirs \X {Plain} :
          OtherDelete(p) \/ \E v \in Versions : OtherWrite(p, v) \/ OobWrite(p, v)
    BY <1>10 DEF OtherAct
  <2>2. UNCHANGED <<folder, events, marks, base, pending>> /\ happened \subseteq happened' /\ oob \subseteq oob'
    BY <2>1 DEF OtherDelete, OtherWrite, OobWrite, Happens, store, watch
  <2> QED BY <1>10, <2>2
<1> QED BY <1>1, <1>2, <1>3, <1>4, <1>5, <1>6, <1>7, <1>8, <1>9, <1>10 DEF QuietStep, RowStep

\* They stir nothing.
LEMMA QuietStirs == ASSUME QuietStep \/ PushFails \/ RowStep \/ OtherAct PROVE Stirs
BY QuietRows, StirsBy DEF folder

\* Neither does a rename.
LEMMA RenameStirs ==
    ASSUME NEW r \in job.ren, RenameRemote(r)
    PROVE  Stirs /\ UNCHANGED oob
<1>1. /\ UNCHANGED <<local, dirs, mounted, excluded, ltrash, gui, events, used, happened, oob>>
  BY RenameCases
<1>2. marks \subseteq marks'
  <2> DEFINE again == {IF Seen(e[1]) # None THEN e[1] ELSE e[2] : e \in
                        {e \in Entries(r) : Seen(e[1]) # None \/ Seen(e[2]) # base[e[1]]}}
  <2>1. marks' = marks \cup again \/ marks' = marks \cup PathsOf(r)
    BY DEF RenameRemote
  <2> QED BY <2>1
<1> QED BY <1>1, <1>2, StirsBy

\* The adoption and the pull touch what they write.
LEMMA AdoptStirs == ASSUME TypeInv, AdoptRemote PROVE Stirs /\ UNCHANGED <<base, pending, oob>>
<1>1. Adopted \subseteq Path /\ UNCHANGED <<base, pending, happened, oob>>
  BY AdoptCases
<1>2. CASE AdoptsFiles
  BY <1>1, <1>2, WorkerStirs DEF AdoptsFiles
<1>3. CASE UNCHANGED <<folder, events>>
  <2>1. marks \subseteq marks'
    BY DEF AdoptRemote
  <2> QED BY <1>1, <1>3, <2>1, StirsBy DEF folder
<1> QED BY <1>1, <1>2, <1>3, AdoptCases

\* The pull as well, which finds no mark.
LEMMA PullStirs == ASSUME NEW full \in BOOLEAN, Pull(full) PROVE Stirs
<1>1. marks = {} /\ UNCHANGED happened
  BY DEF Pull, history
<1>2. CASE marks' = {UnknownPath}
  BY <1>2, SweepStirs
<1>3. ASSUME NEW T \in SUBSET Path, PullWrites(T) PROVE Stirs
  BY <1>1, <1>3, WorkerStirs DEF PullWrites
<1> QED BY <1>2, <1>3, PullCases

\* The rows after a step of the user.
LEMMA UserRows ==
    ASSUME TypeInv, NameInv, UserAct \/ ResolverAct, Local
    PROVE  /\ UNCHANGED <<base, nas, rec, oob, job>>
           /\ pending \subseteq pending' /\ happened \subseteq happened'
           /\ mounted' = mounted \/ mounted' \/ "unmount" \in happened'
<1>1. UNCHANGED <<nas, rec, oob, job>>
  BY DEF Local, remote
<1>2. CASE UserAct
  <2>1. ASSUME NEW p, NEW v, UserWrite(p, v) PROVE UNCHANGED <<base, pending, mounted>> /\ happened \subseteq happened'
    BY <2>1 DEF UserWrite, store, Happens
  <2>2. ASSUME NEW p, NEW q, UserMove(p, q) PROVE UNCHANGED <<base, pending, mounted>> /\ happened \subseteq happened'
    BY <2>2 DEF UserMove, store, Happens
  <2>3. ASSUME NEW p, NEW q, UserMoveDir(p, q) PROVE UNCHANGED <<base, pending, mounted>> /\ happened \subseteq happened'
    BY <2>3 DEF UserMoveDir, store, Happens
  <2>4. ASSUME NEW S, UserDelete(S) PROVE UNCHANGED <<base, pending, mounted>> /\ happened \subseteq happened'
    BY <2>4 DEF UserDelete, store, Happens
  <2>5. ASSUME NEW d, Exclude(d) PROVE UNCHANGED <<base, pending, mounted>> /\ happened \subseteq happened'
    BY <2>5 DEF Exclude, store, Happens
  <2>6. CASE Unmount \/ Remount
    <3>1. UNCHANGED <<base, pending>> /\ happened \subseteq happened'
      BY <2>6 DEF Unmount, Remount, store, history, Happens
    <3>2. mounted' \/ "unmount" \in happened'
      BY <2>6 DEF Unmount, Remount, Happens
    <3> QED BY <1>1, <3>1, <3>2
  <2>7. CASE Relocate
    <3>1. UNCHANGED <<base, pending, mounted>> /\ happened \subseteq happened'
      BY <2>7 DEF Relocate, store, Happens
    <3> QED BY <1>1, <3>1
  <2>8. ASSUME NEW p, NEW v, Restore(p, v) \/ Prune(p, v) \/ ResolveStart(p, v)
        PROVE  UNCHANGED <<base, pending, mounted>> /\ happened \subseteq happened'
    BY <2>8 DEF Restore, Prune, ResolveStart, store, Happens
  <2> QED BY <1>1, <1>2, <2>1, <2>2, <2>3, <2>4, <2>5, <2>6, <2>7, <2>8 DEF UserAct
<1>3. CASE ResolverAct
  <2>1. ASSUME NEW q, ResolveTrash(q) PROVE UNCHANGED <<base, pending, mounted, happened>>
    BY <2>1 DEF ResolveTrash, store, history
  <2>2. CASE ResolveMove \/ ResolvePlace
    <3>1. UNCHANGED <<base, pending, mounted, happened>>
      BY <2>2 DEF ResolveMove, ResolvePlace, store, history
    <3> QED BY <1>1, <3>1
  <2>3. CASE ResolveDone \/ ResolveFails
    <3>1. UNCHANGED <<base, mounted>>
      BY <2>3 DEF ResolveDone, ResolveFails, store, history
    <3>2. pending \subseteq pending' /\ happened \subseteq happened'
      BY <2>3 DEF ResolveDone, ResolveFails, store, history, Happens
    <3> QED BY <1>1, <3>1, <3>2
  <2> QED BY <1>1, <1>3, <2>1, <2>2, <2>3 DEF ResolverAct
<1> QED BY <1>2, <1>3

\* The steps, by what they do to rows and causes.
LEMMA TraceCases ==
    ASSUME TypeInv, NameInv, Next
    PROVE  \/ (UserAct \/ ResolverAct) /\ Local
           \/ (\E e \in events : Notice(e)) /\ UNCHANGED <<remote, job>>
           \/ QuietStep \/ RowStep \/ PushFails \/ OtherAct \/ AdoptRemote
           \/ \E r \in job.ren : RenameRemote(r)
           \/ \E full \in BOOLEAN : Pull(full)
           \/ \E U : PushTick(U)
           \/ Crash
BY DEF Next, PushAct, QuietStep, RowStep

\* Causes outlive every step but the tick and the restart.
LEMMA NextStirs ==
    ASSUME TypeInv, NameInv, Next, ~Crash, ~\E U : PushTick(U)
    PROVE  Stirs
BY TraceCases, UserStirs, ResolverStirs, NoticeStirs, QuietStirs, AdoptStirs, RenameStirs, PullStirs

\* The volume stays, or it went.
LEMMA StillMounted == ASSUME TypeInv, NameInv, MountInv, Next PROVE MountInv'
<1>1. CASE (UserAct \/ ResolverAct) /\ Local
  <2>1. /\ happened \subseteq happened'
        /\ mounted' = mounted \/ mounted' \/ "unmount" \in happened'
    BY <1>1, UserRows
  <2> QED BY <2>1 DEF MountInv
<1>2. ASSUME UNCHANGED mounted, happened \subseteq happened' PROVE MountInv'
  BY <1>2 DEF MountInv
<1>3. ASSUME NEW e, Notice(e) PROVE MountInv'
  BY <1>2, <1>3 DEF Notice, folder, history
<1>4. CASE QuietStep \/ RowStep \/ PushFails \/ OtherAct
  BY <1>2, <1>4, QuietRows DEF folder
<1>5. CASE AdoptRemote
  <2>1. UNCHANGED <<happened, mounted>>
    BY <1>5, AdoptCases DEF AdoptsFiles, WriteLocal, folder
  <2> QED BY <1>2, <2>1
<1>6. ASSUME NEW r \in job.ren, RenameRemote(r) PROVE MountInv'
  BY <1>2, <1>6, RenameCases
<1>7. ASSUME NEW full \in BOOLEAN, Pull(full) PROVE MountInv'
  <2>1. UNCHANGED <<happened, mounted>>
    BY <1>7, PullCases DEF PullWrites, WriteLocal, folder
  <2> QED BY <1>2, <2>1
<1>8. ASSUME NEW U, PushTick(U) PROVE MountInv'
  BY <1>2, <1>8 DEF PushTick, Happens, folder
<1>9. CASE Crash
  BY <1>2, <1>9 DEF Crash, Restart, Happens
<1> QED BY <1>1, <1>3, <1>4, <1>5, <1>6, <1>7, <1>8, <1>9, TraceCases

\* Two maps laid over with the same files.
LEMMA OverlaySame ==
    ASSUME NEW f, NEW g, NEW S, NEW p \in Path
    PROVE  \/ Overlay(f, S)[p] = Overlay(g, S)[p]
           \/ Overlay(f, S)[p] = f[p] /\ Overlay(g, S)[p] = g[p]
<1>1. CASE \E c \in Contents : <<p, c>> \in S
  BY <1>1 DEF Overlay
<1>2. CASE ~\E c \in Contents : <<p, c>> \in S
  BY <1>2 DEF Overlay
<1> QED BY <1>1, <1>2

\* A row of the manifest names a file that is there.
LEMMA StillJournalled == ASSUME TypeInv, NameInv, RecInv, Next PROVE RecInv'
<1> SUFFICES ASSUME NEW p \in Path, nas'[p] = None PROVE rec'[p] \notin Versions
  BY DEF RecInv
<1>0. nas \in [Path -> Contents] /\ rec \in [Path -> Contents \cup {Unknown}] /\ (nas[p] = None => rec[p] \notin Versions)
  BY WorkParts DEF RecInv
<1>1. CASE UNCHANGED <<nas, rec>>
  BY <1>0, <1>1
<1>2. ASSUME NEW S, nas' = Overlay(nas, S), rec' = Overlay(rec, S) \/ rec' = rec,
             rec' = Overlay(rec, S) \/ \A c \in S : c[2] \in Versions
      PROVE  rec'[p] \notin Versions
  <2>1. CASE rec' = Overlay(rec, S)
    <3>1. \/ Overlay(nas, S)[p] = Overlay(rec, S)[p]
          \/ Overlay(nas, S)[p] = nas[p] /\ Overlay(rec, S)[p] = rec[p]
      BY OverlaySame
    <3> QED BY <1>0, <1>2, <2>1, <3>1, Apart
  <2>2. CASE rec' = rec /\ \A c \in S : c[2] \in Versions
    <3>1. <<p, Overlay(nas, S)[p]>> \in S \/ Overlay(nas, S)[p] = nas[p]
      BY OverlayAt
    <3>2. <<p, Overlay(nas, S)[p]>> \in S => Overlay(nas, S)[p] \in Versions
      BY <2>2
    <3> QED BY <1>0, <1>2, <2>2, <3>1, <3>2, Apart
  <2> QED BY <1>2, <2>1, <2>2
<1>3. ASSUME NEW S, S \subseteq Path, CopyLosers(S), UNCHANGED rec PROVE rec'[p] \notin Versions
  <2>1. nas'[p] = nas[p] \/ (p[2] \in Versions /\ nas'[p] = p[2])
    BY <1>3, CopyAt
  <2> QED BY <1>0, <1>3, <2>1, Apart
<1>4. CASE PublishStaged
  <2>1. CASE UNCHANGED <<nas, rec>>
    BY <1>1, <2>1
  <2>2. CASE nas' = Overlay(nas, job.sent) /\ (rec' = rec \/ rec' = Overlay(rec, job.sent))
    <3>1. Staged
      BY <1>4 DEF PublishStaged, Staged
    <3>2. \A c \in job.sent : c[2] \in Versions
      BY <3>1, WorkParts, LocalParts
    <3> QED BY <1>2, <2>2, <3>2
  <2> QED BY <1>4, <2>1, <2>2 DEF PublishStaged
<1>5. ASSUME NEW r \in job.ren, RenameRemote(r) PROVE rec'[p] \notin Versions
  <2> DEFINE S == {<<m[1], None>> : m \in MovedFiles(r)} \cup {<<m[2], nas[m[1]]>> : m \in MovedFiles(r)}
  <2>1. (nas' = Overlay(nas, S) /\ rec' = Overlay(rec, S)) \/ UNCHANGED <<nas, rec>>
    BY <1>5 DEF RenameRemote
  <2> HIDE DEF S
  <2> QED BY <1>1, <1>2, <2>1
<1>6. CASE CheckedDelete
  <2> DEFINE S == {d[1] : d \in {d \in job.del : nas[d[1]] \in {d[2], None}}} \X {None}
  <2>1. nas' = Overlay(nas, S) /\ rec' = Overlay(rec, S)
    BY <1>6 DEF CheckedDelete
  <2> HIDE DEF S
  <2> QED BY <1>2, <2>1
<1>7. CASE Confirm
  <2>1. CASE ~Confirmable
    BY <1>1, <1>7, <2>1 DEF Confirm
  <2>2. CASE Confirmable
    <3> DEFINE S == {<<q, nas[q]>> : q \in Uploads \cup job.copies}
    <3>1. nas' = nas /\ rec' = Overlay(rec, S)
      BY <1>7, <2>2 DEF Confirm
    <3>2. \A c : <<p, c>> \in S => p \in Uploads \cup job.copies
      OBVIOUS
    <3>3. p \notin Uploads \cup job.copies
      BY <2>2, <3>1 DEF Confirmable
    <3> HIDE DEF S
    <3>4. <<p, Overlay(rec, S)[p]>> \in S \/ Overlay(rec, S)[p] = rec[p]
      BY OverlayAt
    <3> QED BY <1>0, <3>1, <3>2, <3>3, <3>4
  <2> QED BY <2>1, <2>2
<1>8. ASSUME NEW full \in BOOLEAN, Pull(full) PROVE rec'[p] \notin Versions
  <2> DEFINE S == {q \in Listed : nas[q] = None} \X {None}
  <2>1. nas' = nas /\ (rec' = rec \/ rec' = Overlay(rec, S))
    BY <1>8 DEF Pull
  <2>2. \A c : <<p, c>> \in S => c = None
    OBVIOUS
  <2> HIDE DEF S
  <2>3. <<p, Overlay(rec, S)[p]>> \in S \/ Overlay(rec, S)[p] = rec[p]
    BY OverlayAt
  <2> QED BY <1>0, <2>1, <2>2, <2>3, Apart
<1>9. CASE OtherAct
  <2>1. PICK q \in Dirs \X {Plain} :
          OtherDelete(q) \/ \E v \in Versions : OtherWrite(q, v) \/ OobWrite(q, v)
    BY <1>9 DEF OtherAct
  <2>2. CASE OtherDelete(q)
    BY <1>0, <2>2, Apart DEF OtherDelete
  <2>3. ASSUME NEW v \in Versions, OtherWrite(q, v) \/ OobWrite(q, v) PROVE rec'[p] \notin Versions
    BY <1>0, <2>3, Apart DEF OtherWrite, OobWrite
  <2> QED BY <2>1, <2>2, <2>3
<1>10. ASSUME NEW q, Send(q) PROVE rec'[p] \notin Versions
  BY <1>0, <1>10 DEF Send
<1>11. CASE (UserAct \/ ResolverAct) /\ Local
  BY <1>1, <1>11, UserRows
<1>12. CASE BuildPlan \/ RenamesEnd
  <2>1. (\E S \in SUBSET Path : CopyLosers(S)) \/ UNCHANGED nas
    <3>1. job.chunk \subseteq Path
      BY WorkParts
    <3>2. CASE BuildPlan
      BY <3>1, <3>2, BuildCases
    <3>3. CASE RenamesEnd
      BY <3>1, <3>3 DEF RenamesEnd
    <3> QED BY <1>12, <3>2, <3>3
  <2>2. UNCHANGED rec
    BY <1>12 DEF BuildPlan, RenamesEnd
  <2> QED BY <1>1, <1>3, <2>1, <2>2
<1>13. ASSUME NEW e, Notice(e), UNCHANGED remote PROVE rec'[p] \notin Versions
  BY <1>1, <1>13 DEF remote
<1>14. CASE PushEnds \/ StagedCheck \/ Sent \/ Settle \/ PushFails \/ AdoptRemote \/ Crash
  BY <1>1, <1>14 DEF PushEnds, StagedCheck, Sent, Settle, PushFails, AdoptRemote, Crash, remote
<1>15. ASSUME NEW C, PickChunk(C) \/ StartRename(C) \/ PushTick(C) PROVE rec'[p] \notin Versions
  BY <1>1, <1>15 DEF PickChunk, StartRename, PushTick, remote
<1> QED BY <1>4, <1>5, <1>6, <1>7, <1>8, <1>9, <1>10, <1>11, <1>12, <1>13, <1>14, <1>15, TraceCases DEF QuietStep, RowStep

\* A path that is known to be like its base, or has a cause, differs no more.
LEMMA KnownTriggers ==
    ASSUME NEW p \in Path, local'[p] = base'[p] \/ Cause(p)' \/ p \in oob'
    PROVE  Triggered(p)'
BY DEF Triggered, Differs

\* The row of a path stays, and it was not taken from the queue.
LEMMA StillTriggered ==
    ASSUME NEW p \in Path, Triggered(p), Stirs, oob \subseteq oob', base'[p] = base[p],
           p \in pending => p \in pending'
    PROVE  Triggered(p)'
<1>1. CASE Cause(p)
  BY <1>1 DEF Stirs, Triggered
<1>2. CASE local'[p] = local[p]
  BY <1>2 DEF Stirs, Triggered, Differs
<1>3. CASE Cause(p)'
  BY <1>3 DEF Triggered
<1> QED BY <1>1, <1>2, <1>3 DEF Stirs

\* A staged chunk is published as it was looked at.
LEMMA PublishTriggers ==
    ASSUME TypeInv, NameInv, TraceInv, PublishStaged
    PROVE  TriggerInv'
<1> SUFFICES ASSUME NEW p \in Path PROVE Triggered(p)'
  BY DEF TriggerInv
<1>0. Stirs /\ UNCHANGED <<oob, local>> /\ Triggered(p)
  BY QuietStirs, QuietRows DEF RowStep, folder, TraceInv, TriggerInv, OtherAct, PublishStaged, history
<1>1. CASE UNCHANGED <<base, pending>>
  BY <1>0, <1>1, StillTriggered
<1>2. CASE base' = Overlay(base, job.sent) /\ pending' = pending \ {s[1] : s \in job.sent}
  <2>1. Staged /\ \A s \in job.sent : s = <<s[1], s[2]>> /\ s[1] \in Path /\ s[2] \in Contents /\ Known(s[1], s[2])
    <3>1. Staged /\ job.at = "publish"
      BY DEF PublishStaged, Staged
    <3> QED BY <3>1, WorkParts, LocalParts, Apart DEF TraceInv, KnownInv
  <2>2. \/ <<p, base'[p]>> \in job.sent
        \/ base'[p] = base[p] /\ \A c \in Contents : <<p, c>> \notin job.sent
    BY <1>2, OverlayAt
  <2>3. CASE <<p, base'[p]>> \in job.sent
    <3> DEFINE s == <<p, base'[p]>>
    <3>1. s \in job.sent /\ s[1] = p /\ s[2] = base'[p]
      BY <2>3
    <3> HIDE DEF s
    <3>2. Known(p, base'[p])
      BY <2>1, <3>1
    <3> QED BY <1>0, <3>2, KnownTriggers DEF Known, Stirs
  <2>4. CASE base'[p] = base[p] /\ \A c \in Contents : <<p, c>> \notin job.sent
    <3>1. p \notin {s[1] : s \in job.sent}
      BY <2>1, <2>4
    <3> QED BY <1>0, <1>2, <2>4, <3>1, StillTriggered
  <2> QED BY <2>2, <2>3, <2>4
<1> QED BY <1>1, <1>2 DEF PublishStaged, store

\* A lost deletion is forgotten only where nothing is.
LEMMA SettleTriggers ==
    ASSUME TypeInv, NameInv, TraceInv, Settle
    PROVE  TriggerInv'
<1> SUFFICES ASSUME NEW p \in Path PROVE Triggered(p)'
  BY DEF TriggerInv
<1>0. Stirs /\ UNCHANGED <<oob, local>> /\ Triggered(p)
  BY QuietStirs, QuietRows DEF RowStep, folder, TraceInv, TriggerInv, Settle, remote
<1> DEFINE S == job.wins \X {None}
<1>1. base' = Overlay(base, S) /\ pending' = pending \ job.wins
  BY DEF Settle
<1>2. \A c : <<p, c>> \in S <=> p \in job.wins /\ c = None
  OBVIOUS
<1> HIDE DEF S
<1>3. \/ <<p, base'[p]>> \in S
      \/ base'[p] = base[p] /\ \A c \in Contents : <<p, c>> \notin S
  BY <1>1, OverlayAt
<1>4. CASE p \in job.wins
  <2>1. base'[p] = None
    BY <1>2, <1>3, <1>4, Apart
  <2>2. Known(p, None)
    BY <1>4 DEF Settle, Leased, TraceInv, KnownInv
  <2> QED BY <1>0, <2>1, <2>2, KnownTriggers DEF Known, Stirs
<1>5. CASE p \notin job.wins
  BY <1>0, <1>1, <1>2, <1>3, <1>5, StillTriggered
<1> QED BY <1>4, <1>5

\* A volume that is not there hides all of its files.
LEMMA SeenOr == ASSUME MountInv, NEW p PROVE Seen(p) = local[p] \/ Hidden(p)
BY DEF MountInv, Seen, Hidden

\* A path leaves the queue when the NAS and the base have what it is.
LEMMA ConfirmTriggers ==
    ASSUME TypeInv, NameInv, TraceInv, Confirm
    PROVE  TriggerInv'
<1> SUFFICES ASSUME NEW p \in Path PROVE Triggered(p)'
  BY DEF TriggerInv
<1>0. Stirs /\ UNCHANGED <<oob, local>> /\ Triggered(p)
  BY QuietStirs, QuietRows DEF RowStep, folder, TraceInv, TriggerInv, Confirm
<1>1. CASE ~Confirmable
  <2>1. UnknownPath \in marks'
    BY <1>1 DEF Confirm, Fails
  <2>2. Cause(p)'
    BY <2>1, SweepStirs
  <2> QED BY <2>2, KnownTriggers
<1>2. CASE Confirmable
  <2> DEFINE N == {<<q, nas[q]>> : q \in Uploads \cup Adopted} \cup ((Deleted \cup (job.adopt \ Uploads)) \X {None})
             late == {q \in Uploads : Seen(q) # nas[q]}
             kept == Adopted \cup late \cup {q \in Deleted : Seen(q) # None}
  <2>1. base' = Overlay(base, N) /\ pending' = pending \ (job.chunk \ (job.done \cup kept)) /\ marks' = marks \cup late
    BY <1>2 DEF Confirm, Deleted
  <2>2. \A c : <<p, c>> \in N <=> \/ p \in Uploads \cup Adopted /\ c = nas[p]
                                  \/ p \in Deleted \cup (job.adopt \ Uploads) /\ c = None
    OBVIOUS
  <2> HIDE DEF N
  <2>3. \/ <<p, base'[p]>> \in N
        \/ base'[p] = base[p] /\ \A c \in Contents : <<p, c>> \notin N
    BY <2>1, OverlayAt
  <2>4. Seen(p) = local[p] \/ Cause(p)
    BY SeenOr DEF TraceInv, Cause
  <2>5. job.at = "confirm" /\ Leased /\ KnownInv
    BY DEF Confirm, Leased, TraceInv
  <2>6. nas[p] \in Contents
    BY WorkParts
  <2>7. CASE p \in Uploads /\ base'[p] = nas[p]
    <3>1. CASE Seen(p) # nas[p]
      <4>1. p \in marks'
        BY <2>1, <2>7, <3>1
      <4> QED BY <4>1, KnownTriggers DEF Cause, Fresh
    <3>2. CASE Seen(p) = nas[p]
      BY <1>0, <2>4, <2>7, <3>2, KnownTriggers DEF Stirs
    <3> QED BY <3>1, <3>2
  <2>8. CASE p \in Adopted /\ base'[p] = nas[p]
    <3>1. PICK a \in job.adp : a[1] = p
      BY <2>8 DEF Adopted
    <3>2. Known(p, nas[p]) \/ p \in oob
      BY <2>5, <3>1 DEF KnownInv
    <3> QED BY <1>0, <2>8, <3>2, KnownTriggers DEF Known, Stirs
  <2>9. CASE p \in Deleted /\ base'[p] = None
    <3>1. PICK d \in job.del : d[1] = p
      BY <2>9 DEF Deleted
    <3>2. Known(p, None)
      BY <2>5, <3>1 DEF KnownInv
    <3> QED BY <1>0, <2>9, <3>2, KnownTriggers DEF Known, Stirs
  <2>10. CASE p \in job.adopt \ Uploads /\ base'[p] = None
    <3>1. Seen(p) = None
      BY <2>10 DEF Uploads
    <3> QED BY <1>0, <2>4, <2>10, <3>1, KnownTriggers DEF Stirs
  <2>11. CASE base'[p] = base[p] /\ \A c \in Contents : <<p, c>> \notin N
    <3>1. p \notin Uploads \cup Adopted \cup Deleted \cup (job.adopt \ Uploads)
      BY <2>2, <2>6, <2>11, Apart
    <3>2. CASE p \in pending => p \in pending'
      BY <1>0, <2>11, <3>2, StillTriggered
    <3>3. CASE p \in job.chunk \ job.done
      <4>1. job.up = {}
        BY <2>5, WorkParts DEF PlanInv
      <4>2. Unplanned(p)
        BY <2>5, <3>1, <3>3, <4>1 DEF Unplanned, Uploads
      <4>3. Differs(p) => Cause(p) \/ p \in oob
        BY <2>5, <4>2 DEF KnownInv
      <4> QED BY <1>0, <2>11, <4>3 DEF Triggered, Differs, Stirs
    <3> QED BY <2>1, <3>2, <3>3
  <2> QED BY <2>2, <2>3, <2>7, <2>8, <2>9, <2>10, <2>11
<1> QED BY <1>1, <1>2

\* A rename takes over the rows of its files.
LEMMA RenameTriggers ==
    ASSUME TypeInv, NameInv, TraceInv, NEW r \in job.ren, RenameRemote(r)
    PROVE  TriggerInv'
<1> SUFFICES ASSUME NEW p \in Path PROVE Triggered(p)'
  BY DEF TriggerInv
<1>0. Stirs /\ UNCHANGED <<oob, local>> /\ Triggered(p)
  BY RenameStirs, RenameCases DEF TraceInv, TriggerInv
<1>1. CASE ~(Accepts(r) /\ Valid)
  <2>1. UNCHANGED <<base, pending>>
    BY <1>1 DEF RenameRemote, store
  <2> QED BY <1>0, <2>1, StillTriggered
<1>2. CASE Accepts(r) /\ Valid
  <2> DEFINE N == {<<e[1], None>> : e \in Entries(r)} \cup {<<e[2], base[e[1]]>> : e \in Entries(r)}
             late == {e \in Entries(r) : Seen(e[1]) # None \/ Seen(e[2]) # base[e[1]]}
             again == {IF Seen(e[1]) # None THEN e[1] ELSE e[2] : e \in late}
             settled == UNION {{e[1], e[2]} : e \in Entries(r) \ late}
  <2>1. base' = Overlay(base, N) /\ pending' = pending \ settled /\ marks' = marks \cup again
    BY <1>2 DEF RenameRemote
  <2>2. \A e \in Entries(r) : base[e[1]] \in Versions /\ Known(e[2], base[e[1]])
    BY DEF TraceInv, KnownInv
  <2>3. \A c : <<p, c>> \in N <=> \/ c = None /\ \E e \in Entries(r) : p = e[1]
                                  \/ \E e \in Entries(r) : p = e[2] /\ c = base[e[1]]
    OBVIOUS
  <2>4. \A e \in Entries(r) : Seen(e[1]) # None => e[1] \in again
    OBVIOUS
  <2>5. \A q \in settled : \E e \in Entries(r) : q = e[1] \/ q = e[2]
    OBVIOUS
  <2> HIDE DEF N, again, settled, late
  <2>6. \/ <<p, base'[p]>> \in N
        \/ base'[p] = base[p] /\ \A c \in Contents : <<p, c>> \notin N
    BY <2>1, OverlayAt
  <2>7. ASSUME NEW e \in Entries(r), p = e[1], base'[p] = None PROVE Triggered(p)'
    <3>1. CASE Seen(p) # None
      <4>1. p \in marks'
        BY <2>1, <2>4, <2>7, <3>1
      <4> QED BY <4>1, KnownTriggers DEF Cause, Fresh
    <3>2. CASE Seen(p) = None
      <4>1. Seen(p) = local[p] \/ Cause(p)
        BY SeenOr DEF TraceInv, Cause
      <4> QED BY <1>0, <2>7, <3>2, <4>1, KnownTriggers DEF Stirs
    <3> QED BY <3>1, <3>2
  <2>8. ASSUME NEW e \in Entries(r), p = e[2], base'[p] = base[e[1]] PROVE Triggered(p)'
    <3>1. Known(p, base'[p])
      BY <2>2, <2>8
    <3> QED BY <1>0, <3>1, KnownTriggers DEF Known, Stirs
  <2>9. CASE base'[p] = base[p] /\ \A c \in Contents : <<p, c>> \notin N
    <3>1. \A e \in Entries(r) : p # e[1] /\ p # e[2]
      BY <2>2, <2>3, <2>9, Apart
    <3>2. p \in pending => p \in pending'
      BY <2>1, <2>5, <3>1
    <3> QED BY <1>0, <2>9, <3>2, StillTriggered
  <2> QED BY <2>3, <2>6, <2>7, <2>8, <2>9
<1> QED BY <1>1, <1>2

\* A pull makes the base what it fetched: a row names a file that is there.
LEMMA PullTriggers ==
    ASSUME TypeInv, NameInv, TraceInv, NEW full \in BOOLEAN, Pull(full)
    PROVE  TriggerInv'
<1> SUFFICES ASSUME NEW p \in Path PROVE Triggered(p)'
  BY DEF TriggerInv
<1>0. Stirs /\ UNCHANGED <<oob, pending, used, dropped>> /\ Triggered(p)
  BY PullStirs, PullCases DEF TraceInv, TriggerInv
<1> DEFINE sweep == full \/ NewTombstones # {}
           gone == {q \in Listed : nas[q] = None}
           repaired == {q \in gone : local[q] \in {None, base[q]}}
           listed == Listed \ gone
           edited == {q \in listed : Edited(q)}
           fetched == IF edited = {} THEN listed ELSE {}
           swept == IF sweep THEN {q \in Path : Sweeps(q)} ELSE {}
           T == swept \cup fetched
<1>1. CASE Defers(sweep)
  <2>1. UnknownPath \in marks'
    BY <1>1 DEF Pull
  <2>2. Cause(p)'
    BY <2>1, SweepStirs
  <2> QED BY <2>2, KnownTriggers
<1>2. CASE ~Defers(sweep)
  <2>1. WriteLocal(Files(T)) /\ base' = Overlay(base, (repaired \X {None}) \cup Files(T))
    BY <1>2 DEF Pull, Files
  <2>2. Listed \subseteq Path /\ \A q \in Listed : rec[q] \in Versions
    BY DEF Listed
  <2>3. gone = {}
    BY <2>2 DEF TraceInv, RecInv
  <2>4. T \subseteq Path /\ repaired \X {None} = {}
    BY <2>2, <2>3
  <2> HIDE DEF T, repaired
  <2>5. base' = Overlay(base, Files(T))
    <3>1. (repaired \X {None}) \cup Files(T) = Files(T)
      BY <2>4
    <3> QED BY <2>1, <3>1
  <2>6. /\ p \in T => local'[p] = nas[p]
        /\ p \notin T => local'[p] = local[p]
    BY <1>0, <2>1, <2>4, WriteFiles
  <2>7. \A c : <<p, c>> \in Files(T) <=> p \in T /\ c = nas[p]
    BY DEF Files
  <2>8. \/ <<p, base'[p]>> \in Files(T)
        \/ base'[p] = base[p] /\ \A c \in Contents : <<p, c>> \notin Files(T)
    BY <2>5, OverlayAt
  <2>9. CASE p \in T
    <3>1. nas[p] \in Contents
      BY WorkParts
    <3>2. base'[p] = nas[p]
      BY <2>7, <2>8, <2>9, <3>1
    <3> QED BY <2>6, <2>9, <3>2, KnownTriggers
  <2>10. CASE p \notin T
    <3>1. base'[p] = base[p]
      BY <2>7, <2>8, <2>10
    <3> QED BY <1>0, <3>1, StillTriggered
  <2> QED BY <2>9, <2>10
<1> QED BY <1>1, <1>2

\* A tick makes rows of the marks, of a directory for the files in it.
LEMMA TickTriggers ==
    ASSUME TypeInv, TraceInv, NEW U, PushTick(U)
    PROVE  TriggerInv'
<1> SUFFICES ASSUME NEW p \in Path, Differs(p) PROVE Cause(p)' \/ p \in pending' \/ p \in oob'
  BY DEF TriggerInv, Triggered, Differs, PushTick, folder
<1>1. /\ UNCHANGED <<local, dirs, mounted, excluded, base, events, oob>> /\ happened \subseteq happened'
      /\ pending' = {q \in pending \cup (Dirty \cap Path) \cup Resolved : ~Excluded(q)}
  BY DEF PushTick, folder, remote, Happens
<1>2. ASSUME Excluded(p) PROVE Cause(p)'
  BY <1>1, <1>2 DEF Excluded, Cause
<1>3. ASSUME Hidden(p) PROVE Cause(p)'
  BY <1>1, <1>3 DEF Hidden, Cause
<1>4. ASSUME p \in events \/ ("movedir" \in happened /\ p[1] \in events) PROVE Cause(p)'
  BY <1>1, <1>4 DEF Fresh, Cause
<1>5. CASE ~Hidden(p) /\ ~Excluded(p)
  <2>1. Seen(p) = local[p] /\ mounted
    BY <1>5, SeenOr DEF TraceInv, MountInv, Hidden
  <2>2. p[1] \in Dirs /\ (p \in Under(p[1])) /\ (Excluded(p[1]) <=> Excluded(p)) /\ p \notin Dirs
    BY PathParts, ExcludedPath, FolderAssumption
  <2>3. ASSUME UnknownPath \in marks PROVE p \in pending'
    <3>1. p \in Changed
      BY <2>1 DEF Changed, Differs
    <3>2. p \in Dirty
      BY <1>5, <2>3, <3>1 DEF Dirty
    <3> QED BY <1>1, <1>5, <3>2
  <2>4. ASSUME UnknownPath \notin marks, p \in marks PROVE p \in pending'
    <3>1. p \in Dirty
      BY <1>5, <2>4 DEF Dirty
    <3> QED BY <1>1, <1>5, <3>1
  <2>5. ASSUME UnknownPath \notin marks, "movedir" \in happened, p[1] \in marks PROVE p \in pending'
    <3>1. p[1] \in Dirty
      BY <1>5, <2>2, <2>5 DEF Dirty
    <3>2. p \in Resolve(p[1])
      <4>1. CASE p[1] \in dirs
        <5>1. local[p] # None
          BY <1>5, <2>5, <4>1 DEF Hidden
        <5> QED BY <2>1, <2>2, <4>1, <5>1 DEF Resolve, SeenDirs
      <4>2. CASE p[1] \notin dirs
        <5>1. local[p] = None
          BY <4>2, WorkParts, LocalParts
        <5>2. base[p] # Unknown
          BY <5>1, Apart DEF Differs
        <5> QED BY <2>1, <2>2, <4>2, <5>2 DEF Resolve, SeenDirs
      <4> QED BY <4>1, <4>2
    <3>3. p \in Resolved
      BY <3>1, <3>2 DEF Resolved
    <3> QED BY <1>1, <1>5, <3>3
  <2>6. CASE p \in pending
    BY <1>1, <1>5, <2>6
  <2>7. Cause(p) \/ p \in pending \/ p \in oob
    BY DEF TraceInv, TriggerInv, Triggered
  <2> QED BY <1>1, <1>4, <1>5, <2>3, <2>4, <2>5, <2>6, <2>7 DEF Cause, Fresh
<1> QED BY <1>2, <1>3, <1>5

\* A restart sweeps if there is anything at all.
LEMMA CrashTriggers ==
    ASSUME TypeInv, TraceInv, Crash
    PROVE  TriggerInv'
<1> SUFFICES ASSUME NEW p \in Path, Differs(p) PROVE Cause(p)'
  BY DEF TriggerInv, Triggered, Differs, Crash, Restart, store
<1>1. UNCHANGED <<local, dirs, mounted, excluded, base>> /\ happened \subseteq happened'
  BY DEF Crash, Restart, Happens, store
<1>2. CASE Hidden(p)
  BY <1>1, <1>2 DEF Hidden, Cause
<1>3. CASE ~Hidden(p)
  <2>1. Seen(p) = local[p]
    BY <1>3, SeenOr DEF TraceInv
  <2>2. Seen(p) # None \/ base[p] # Unknown
    BY <2>1, Apart DEF Differs
  <2>3. UnknownPath \in marks'
    BY <2>2 DEF Crash, Restart
  <2> QED BY <2>3, SweepStirs
<1> QED BY <1>2, <1>3

\* No step forgets a change.
LEMMA TriggerStep ==
    ASSUME TypeInv, NameInv, TraceInv, Next
    PROVE  TriggerInv'
<1>1. ASSUME Stirs, oob \subseteq oob', UNCHANGED base, pending \subseteq pending' PROVE TriggerInv'
  BY <1>1, StillTriggered DEF TriggerInv, TraceInv
<1>2. CASE (UserAct \/ ResolverAct) /\ Local
  BY <1>1, <1>2, UserStirs, ResolverStirs, UserRows
<1>3. ASSUME NEW e \in events, Notice(e), UNCHANGED remote PROVE TriggerInv'
  <2>1. UNCHANGED <<base, pending, oob>>
    BY <1>3 DEF Notice, store, remote
  <2> QED BY <1>1, <1>3, <2>1, NoticeStirs
<1>4. CASE RowStep
  BY <1>4, PublishTriggers, SettleTriggers, ConfirmTriggers DEF RowStep
<1>5. CASE (QuietStep \/ PushFails \/ OtherAct) /\ ~RowStep
  BY <1>1, <1>5, QuietRows, QuietStirs
<1>6. CASE AdoptRemote
  BY <1>1, <1>6, AdoptStirs
<1> QED BY <1>2, <1>3, <1>4, <1>5, <1>6, RenameTriggers, PullTriggers, TickTriggers, CrashTriggers, TraceCases

\* Without the lease there is no plan, and a chunk to publish was looked at.
LEMMA PlanlessTraced ==
    ASSUME TypeInv', ~Leased', job'.at = "publish" => \A s \in job'.sent : Known(s[1], s[2])'
    PROVE  ApartInv' /\ KnownInv'
<1>1. job'.up = {} /\ job'.del = {} /\ job'.adp = {} /\ job'.ren = {}
  BY DEF TypeInv, PlanInv, Leased
<1> QED BY <1>1 DEF ApartInv, KnownInv, Deleted, Adopted

\* What is known of a path stays so.
LEMMA StillKnown ==
    ASSUME Stirs, NEW p \in Path, NEW c, Known(p, c)
    PROVE  local'[p] = c \/ Cause(p)'
BY DEF Stirs, Known

\* And what is not planned.
LEMMA StillUnplanned ==
    ASSUME KnownInv, Leased, Stirs, oob \subseteq oob', NEW p \in Path, Unplanned(p), base'[p] = base[p], Differs(p)'
    PROVE  Cause(p)' \/ p \in oob'
BY DEF KnownInv, Stirs, Differs

\* A push that goes on with its plan, or with less of it.
LEMMA PlanTraced ==
    ASSUME TypeInv, ApartInv, KnownInv, Stirs, oob \subseteq oob', Leased, job'.at # "publish",
           job'.wins = job.wins, job'.adp = job.adp, job'.del \subseteq job.del,
           job'.up \subseteq job.up, job'.ren \subseteq job.ren,
           \A r \in job'.ren : \A e \in Entries(r) : base'[e[1]] = base[e[1]],
           job'.at # "confirm" =>
             job.at # "confirm" /\ \A d \in job'.del : nas'[d[1]] \in {nas[d[1]], None} \/ d[1] \in oob',
           job'.at \in {"delete", "confirm"} =>
             \A a \in job.adp : local'[a[1]] = nas'[a[1]] \/ Cause(a[1])' \/ a[1] \in oob',
           \A p \in Path : Unplanned(p)' /\ Differs(p)' => Cause(p)' \/ p \in oob'
    PROVE  ApartInv' /\ KnownInv'
<1>1. ApartInv'
  <2>1. Deleted' \subseteq Deleted /\ Adopted' = Adopted
    BY DEF Deleted, Adopted
  <2> QED BY <2>1 DEF ApartInv
<1>2. /\ \A d \in job.del : d[1] \in Path /\ d[2] \in Contents
      /\ \A r \in job.ren : \A e \in Entries(r) : e[1] \in Path /\ e[2] \in Path
      /\ job.wins \subseteq Path
  BY WorkParts, RenameTypes
<1>3. ASSUME NEW r \in job'.ren, NEW e \in Entries(r)
      PROVE  base'[e[1]] \in Versions /\ (local'[e[2]] = base'[e[1]] \/ Cause(e[2])')
  <2>1. base'[e[1]] = base[e[1]] /\ base[e[1]] \in Versions /\ Known(e[2], base[e[1]])
    BY <1>3 DEF KnownInv
  <2> QED BY <1>2, <2>1, StillKnown
<1>4. \A p \in job'.wins : local'[p] = None \/ Cause(p)'
  BY <1>2, StillKnown DEF KnownInv
<1>5. \A d \in job'.del : local'[d[1]] = None \/ Cause(d[1])'
  BY <1>2, StillKnown DEF KnownInv
<1>6. job'.at # "confirm" => \A d \in job'.del : nas'[d[1]] \in {d[2], None} \/ d[1] \in oob'
  BY DEF KnownInv
<1> QED BY <1>1, <1>3, <1>4, <1>5, <1>6 DEF KnownInv, Known

\* The same push, while others write.
LEMMA SameTraced ==
    ASSUME TypeInv, ApartInv, KnownInv, Stirs, oob \subseteq oob', UNCHANGED <<job, base>>,
           \A q \in Path : nas'[q] = nas[q] \/ q \in oob'
    PROVE  ApartInv' /\ KnownInv'
<1>1. CASE Leased
  <2>1. \A p \in Path : Unplanned(p)' /\ Differs(p)' => Cause(p)' \/ p \in oob'
    <3>1. \A p \in Path : Unplanned(p)' => Unplanned(p)
      BY DEF Unplanned, Deleted, Adopted
    <3> QED BY <1>1, <3>1, StillUnplanned
  <2>2. /\ \A d \in job.del : d[1] \in Path
        /\ \A a \in job.adp : a[1] \in Path
    BY WorkParts
  <2>3. job.at # "publish"
    BY <1>1 DEF Leased
  <2>4. ASSUME job.at \in {"delete", "confirm"}, NEW a \in job.adp
        PROVE  local'[a[1]] = nas'[a[1]] \/ Cause(a[1])' \/ a[1] \in oob'
    <3>1. Known(a[1], nas[a[1]]) \/ a[1] \in oob
      BY <1>1, <2>4 DEF KnownInv
    <3> QED BY <2>2, <3>1, StillKnown
  <2>5. job.at # "confirm" => \A d \in job.del : nas'[d[1]] \in {nas[d[1]], None} \/ d[1] \in oob'
    BY <2>2
  <2>6. CASE job.at # "confirm"
    BY <1>1, <2>1, <2>3, <2>4, <2>5, <2>6, PlanTraced
  <2>7. CASE job.at = "confirm"
    BY <1>1, <2>1, <2>3, <2>4, <2>7, PlanTraced
  <2> QED BY <2>6, <2>7
<1>2. CASE ~Leased
  <2>1. ASSUME job.at = "publish", NEW s \in job.sent PROVE local'[s[1]] = s[2] \/ Cause(s[1])'
    <3>1. Known(s[1], s[2])
      BY <2>1 DEF KnownInv
    <3>2. s[1] \in Path
      BY <2>1, WorkParts DEF Staged
    <3> QED BY <3>1, <3>2, StillKnown
  <2>2. job.up = {} /\ job.del = {} /\ job.adp = {} /\ job.ren = {}
    BY <1>2 DEF TypeInv, PlanInv, Leased
  <2>3. ~Leased'
    BY <1>2 DEF Leased
  <2> QED BY <2>1, <2>2, <2>3 DEF ApartInv, KnownInv, Deleted, Adopted, Known
<1> QED BY <1>1, <1>2

\* The plan has something to do of every path that differs.
LEMMA ActCovers ==
    ASSUME TypeInv, MountInv, NEW p \in Path, Differs(p), ~Hidden(p)
    PROVE  \/ Act(p) \in {"upload", "conflict_local_wins", "delete_remote", "adopt"}
           \/ Act(p) = "remote_wins" /\ Seen(p) = None /\ base[p] \in Versions
           \/ Act(p) = "conflict_remote_wins" /\ Seen(p) # None
<1> DEFINE b == base[p]
           l == Seen(p)
           r == Remote(p)
<1>1. /\ r.kind \in {"file", "absent", "tombstone"}
      /\ CausalWinner(NoClock, r) = "none"
  BY RemoteFacts
<1>2. l # b /\ (l = None => b \in Versions)
  BY SeenOr DEF Differs
<1>3. Act(p) = PlanPath(b, l, NoClock, r)
  BY DEF Act
<1> HIDE DEF b, l, r
<1>4. CASE l = None
  <2>1. PlanPath(b, l, NoClock, r) = PlanAbsent(b, NoClock, r)
    BY <1>1, <1>4 DEF PlanPath
  <2>2. PlanAbsent(b, NoClock, r) \in {"adopt", "remote_wins", "delete_remote"}
    BY DEF PlanAbsent
  <2> QED BY <1>2, <1>3, <1>4, <2>1, <2>2 DEF b, l
<1>5. CASE l # None /\ b \notin Versions
  <2>1. PlanPath(b, l, NoClock, r) = PlanNew(b, l, NoClock, r)
    BY <1>1, <1>5 DEF PlanPath
  <2>2. Clash(l, NoClock, r) \in {"conflict_local_wins", "conflict_remote_wins"}
    BY DEF Clash
  <2>3. PlanNew(b, l, NoClock, r) \in {"upload", "conflict_local_wins", "adopt", "conflict_remote_wins"}
    BY <1>1, <2>2 DEF PlanNew
  <2> QED BY <1>3, <1>5, <2>1, <2>3 DEF l
<1>6. CASE l # None /\ b \in Versions
  <2>1. PlanPath(b, l, NoClock, r) = PlanKnown(b, l, NoClock, r)
    BY <1>1, <1>6 DEF PlanPath
  <2>2. Clash(l, NoClock, r) \in {"conflict_local_wins", "conflict_remote_wins"}
    BY DEF Clash
  <2>3. PlanKnown(b, l, NoClock, r) \in {"upload", "conflict_local_wins", "adopt", "conflict_remote_wins"}
    BY <1>1, <1>2, <1>6, <2>2 DEF PlanKnown
  <2> QED BY <1>3, <1>6, <2>1, <2>3 DEF l
<1> QED BY <1>4, <1>5, <1>6

\* A new plan.
LEMMA NewPlanTraced ==
    ASSUME TypeInv, NameInv, MountInv, NEW S, S \subseteq job.chunk, CopyLosers(S),
           UNCHANGED <<local, dirs, mounted, excluded, base, events, marks, happened, oob>>,
           job'.up = WithPlan(S).up, job'.del = WithPlan(S).del, job'.adopt = WithPlan(S).adopt,
           job'.wins = WithPlan(S).wins, job'.adp = WithPlan(S).adp,
           job'.at \in {"rename", "settle"}, \A p \in Path : Unplanned(p)' => p \in S
    PROVE  /\ Deleted' \subseteq S /\ (\A d \in job'.del : base[d[1]] \in Versions)
           /\ job'.up \cap Deleted' = {} /\ Adopted' \cap Deleted' = {}
           /\ \A p \in job'.wins : Known(p, None)'
           /\ \A d \in job'.del : Known(d[1], None)' /\ nas'[d[1]] \in {d[2], None}
           /\ \A p \in Path : Unplanned(p)' /\ Differs(p)' => Cause(p)'
<1>1. /\ job'.up = Planned(S, "upload") \cup Planned(S, "conflict_local_wins")
      /\ job'.del = {<<p, nas[p]>> : p \in Planned(S, "delete_remote")}
      /\ job'.adopt = Planned(S, "adopt")
      /\ job'.adp = {<<p, local[p]>> : p \in {q \in Planned(S, "conflict_remote_wins") : Seen(q) # None}}
      /\ job'.wins = {p \in Planned(S, "remote_wins") : Seen(p) = None /\ base[p] \in Versions}
  BY PlanFields
<1>2. /\ Deleted' = Planned(S, "delete_remote")
      /\ Adopted' = {q \in Planned(S, "conflict_remote_wins") : Seen(q) # None}
  <2> DEFINE D == Planned(S, "delete_remote")
             A == {q \in Planned(S, "conflict_remote_wins") : Seen(q) # None}
             X == {<<p, nas[p]>> : p \in D}
             Y == {<<p, local[p]>> : p \in A}
  <2>1. Deleted' = {d[1] : d \in X} /\ Adopted' = {a[1] : a \in Y}
    BY <1>1 DEF Deleted, Adopted
  <2>2. /\ \A d \in X : d[1] \in D
        /\ \A p \in D : <<p, nas[p]>> \in X /\ <<p, nas[p]>>[1] = p
        /\ \A a \in Y : a[1] \in A
        /\ \A p \in A : <<p, local[p]>> \in Y /\ <<p, local[p]>>[1] = p
    OBVIOUS
  <2> HIDE DEF X, Y, D, A
  <2>3. \A p : (p \in Deleted' <=> p \in D) /\ (p \in Adopted' <=> p \in A)
    BY <2>1, <2>2
  <2> QED BY <2>3 DEF D, A
<1>3. S \subseteq Path
  BY WorkParts
<1>4. ASSUME NEW p PROVE Cause(p)' <=> Cause(p)
  <2>1. (Fresh(p)' <=> Fresh(p)) /\ (Excluded(p)' <=> Excluded(p)) /\ (Hidden(p)' <=> Hidden(p))
    BY DEF Fresh, Excluded, Hidden
  <2> QED BY <2>1 DEF Cause
<1>5. ASSUME NEW p \in Path, Seen(p) = None PROVE Known(p, None)'
  <2>1. local[p] = None \/ Cause(p)
    BY <1>5, SeenOr DEF Cause
  <2> QED BY <1>4, <2>1 DEF Known
<1>6. ASSUME NEW d \in job'.del
      PROVE  d[1] \in Path /\ base[d[1]] \in Versions /\ Known(d[1], None)' /\ nas'[d[1]] \in {d[2], None}
  <2>1. PICK p \in Planned(S, "delete_remote") : d = <<p, nas[p]>>
    BY <1>1, <1>6
  <2>2. p \in Path /\ Act(p) = "delete_remote"
    BY <1>3, <2>1 DEF Planned
  <2>3. Seen(p) = None /\ nas[p] = base[p] /\ nas[p] \in Versions
    BY <2>2, ActFacts
  <2>4. nas'[p] = nas[p]
    BY <1>3, <2>2, <2>3, CopyAt, Apart
  <2> QED BY <1>5, <2>1, <2>2, <2>3, <2>4
<1>7. \A p \in job'.wins : Known(p, None)'
  BY <1>1, <1>3, <1>5 DEF Planned
<1>8. ASSUME NEW p \in Path, Unplanned(p)', Differs(p)' PROVE Cause(p)'
  <2>1. Differs(p) /\ p \in S
    BY <1>8 DEF Differs
  <2>2. p \notin job'.up /\ p \notin Deleted' /\ p \notin job'.adopt /\ p \notin Adopted' /\ p \notin job'.wins
    BY <1>8 DEF Unplanned
  <2>3. CASE ~Hidden(p)
    <3>1. \/ Act(p) \in {"upload", "conflict_local_wins", "delete_remote", "adopt"}
          \/ Act(p) = "remote_wins" /\ Seen(p) = None /\ base[p] \in Versions
          \/ Act(p) = "conflict_remote_wins" /\ Seen(p) # None
      BY <2>1, <2>3, ActCovers
    <3> QED BY <1>1, <1>2, <2>1, <2>2, <3>1 DEF Planned
  <2>4. CASE Hidden(p)
    BY <1>4, <2>4 DEF Cause
  <2> QED BY <2>3, <2>4
<1>9. job'.up \cap Deleted' = {} /\ Adopted' \cap Deleted' = {} /\ Deleted' \subseteq S
  BY <1>1, <1>2 DEF Planned
<1> QED BY <1>6, <1>7, <1>8, <1>9

\* The renames that are found take different files.
LEMMA FoundApart ==
    ASSUME TypeInv, NEW r \in DirRenames(job.chunk) \cup FileRenames(job.chunk),
           NEW s \in DirRenames(job.chunk) \cup FileRenames(job.chunk), r # s,
           NEW e \in Entries(r), NEW f \in Entries(s)
    PROVE  e[1] # f[1]
<1> DEFINE D == DirRenames(job.chunk)
           F == FileRenames(job.chunk)
           rest == job.chunk \ UNION {Renaming(t) : t \in D}
           Old(v) == {p \in rest : base[p] = v /\ Seen(p) = None}
           New(v) == {p \in rest : base[p] = Unknown /\ Seen(p) = v}
<1>1. ASSUME NEW t \in D, NEW u \in D PROVE t = u
  <2> DEFINE M == DirMatches(job.chunk)
  <2>1. Cardinality(M) = 1
    BY DEF DirRenames
  <2>2. IsFiniteSet(M)
    <3>1. IsFiniteSet(job.dirEv)
      BY FolderAssumption, FS_Subset DEF TypeInv, JobInv
    <3>2. IsFiniteSet(job.dirEv \X job.dirEv)
      BY <3>1, FS_Product
    <3> QED BY <3>2, FS_Subset DEF DirMatches
  <2>3. \E m : M = {m}
    BY <2>1, <2>2, FS_Singleton
  <2>4. \A m, n \in M : m = n
    BY <2>3
  <2>5. /\ \E m \in M : t = [kind |-> "DIR", from |-> {p \in Under(m[1]) : base[p] \in Versions}, src |-> m[1],
                              dst |-> m[2], v |-> None]
        /\ \E m \in M : u = [kind |-> "DIR", from |-> {p \in Under(m[1]) : base[p] \in Versions}, src |-> m[1],
                              dst |-> m[2], v |-> None]
    BY DEF DirRenames
  <2> QED BY <2>4, <2>5
<1>2. ASSUME NEW t \in F
      PROVE  /\ t.kind = "FILE" /\ t.src \in rest /\ t.v = base[t.src] /\ New(t.v) = {t.dst}
             /\ t = [kind |-> "FILE", from |-> {t.src}, src |-> t.src, dst |-> t.dst, v |-> t.v]
             /\ \A g \in Entries(t) : g[1] = t.src
  <2>1. /\ t \in [kind : {"FILE"}, from : {{p} : p \in rest}, src : rest, dst : rest, v : Versions]
        /\ t.from = {t.src} /\ Old(t.v) = {t.src} /\ New(t.v) = {t.dst}
    BY DEF FileRenames
  <2>2. t.kind = "FILE" /\ t.src \in rest /\ t.v = base[t.src]
    BY <2>1
  <2> HIDE DEF rest, Old, New
  <2>3. t = [kind |-> "FILE", from |-> {t.src}, src |-> t.src, dst |-> t.dst, v |-> t.v]
    BY <2>1
  <2>4. \A g \in Entries(t) : g[1] = t.src
    BY <2>2 DEF Entries
  <2> QED BY <2>1, <2>2, <2>3, <2>4
<1>3. ASSUME NEW t \in D, NEW g \in Entries(t) PROVE g[1] \notin rest
  <2>1. t.kind = "DIR" /\ Entries(t) = {<<p, Moved(p, t.dst)>> : p \in t.from}
    BY FoundDir DEF Entries
  <2>2. g[1] \in Renaming(t)
    BY <2>1 DEF Renaming
  <2> QED BY <2>2
<1> HIDE DEF D, F, rest, Old
<1>4. CASE r \in F /\ s \in F
  <2>1. ASSUME r.src = s.src PROVE r = s
    <3>1. r.v = s.v
      BY <1>2, <1>4, <2>1
    <3>2. {r.dst} = {s.dst}
      BY <1>2, <1>4, <3>1
    <3>3. r.dst = s.dst
      BY <3>2
    <3> QED BY <1>2, <1>4, <2>1, <3>1, <3>3
  <2> QED BY <1>2, <1>4, <2>1
<1>5. CASE r \in D /\ s \in D
  BY <1>1, <1>5
<1>6. CASE r \in D /\ s \in F
  BY <1>2, <1>3, <1>6
<1>7. CASE r \in F /\ s \in D
  BY <1>2, <1>3, <1>7
<1> QED BY <1>4, <1>5, <1>6, <1>7 DEF D, F

\* A chunk gets its plan.
LEMMA BuildTraced ==
    ASSUME TypeInv, NameInv, MountInv, BuildPlan, TypeInv'
    PROVE  ApartInv' /\ KnownInv'
<1> DEFINE renames == DirRenames(job.chunk) \cup FileRenames(job.chunk)
           rest == job.chunk \ UNION {PathsOf(r) : r \in renames}
<1>1. JobFields /\ job.at = "plan" /\ CopyLosers(rest) /\ UNCHANGED <<localVars, rec, oob>>
  BY BuildCases, WorkParts
<1>2. CASE job' = [job EXCEPT !.at = "staged", !.sent = {<<p, Seen(p)>> : p \in job.chunk}]
  <2>1. job'.at = "staged"
    BY <1>1, <1>2 DEF JobFields
  <2> QED BY <2>1, PlanlessTraced DEF Leased
<1>3. CASE job' = [job EXCEPT !.try = FALSE]
  <2>1. job'.at = "plan"
    BY <1>1, <1>3 DEF JobFields
  <2> QED BY <2>1, PlanlessTraced DEF Leased
<1>4. CASE job' = [WithPlan(rest) EXCEPT !.at = IF renames = {} THEN "settle" ELSE "rename",
                                         !.ren = renames]
  <2> DEFINE x == IF renames = {} THEN "settle" ELSE "rename"
  <2>0. job' = [WithPlan(rest) EXCEPT !.at = x, !.ren = renames]
    BY <1>4
  <2> HIDE DEF x, renames, rest
  <2>1. /\ job'.at = x /\ job'.ren = renames /\ job'.chunk = job.chunk
        /\ job'.up = WithPlan(rest).up /\ job'.del = WithPlan(rest).del
        /\ job'.adopt = WithPlan(rest).adopt /\ job'.wins = WithPlan(rest).wins
        /\ job'.adp = WithPlan(rest).adp
    BY <1>1, <2>0 DEF JobFields, WithPlan
  <2>2. x \in {"rename", "settle"} /\ (x = "settle" => renames = {})
    BY DEF x
  <2>3. ASSUME NEW p \in Path, Unplanned(p)' PROVE p \in rest
    <3>1. p \in job.chunk /\ (x = "rename" => \A r \in renames : p \notin PathsOf(r))
      BY <2>1, <2>2, <2>3 DEF Unplanned
    <3> QED BY <2>2, <3>1 DEF rest
  <2>4. /\ UNCHANGED <<local, dirs, mounted, excluded, base, events, marks, happened, oob>>
        /\ rest \subseteq job.chunk
    BY <1>1 DEF localVars, folder, store, watch, history, rest
  <2>5. /\ Deleted' \subseteq rest /\ (\A d \in job'.del : base[d[1]] \in Versions)
        /\ job'.up \cap Deleted' = {} /\ Adopted' \cap Deleted' = {}
        /\ \A p \in job'.wins : Known(p, None)'
        /\ \A d \in job'.del : Known(d[1], None)' /\ nas'[d[1]] \in {d[2], None}
        /\ \A p \in Path : Unplanned(p)' /\ Differs(p)' => Cause(p)'
    BY <1>1, <2>1, <2>2, <2>3, <2>4, NewPlanTraced
  <2>6. ASSUME NEW r \in renames
        PROVE  /\ Deleted' \cap PathsOf(r) = {}
               /\ r.kind = "DIR" => Deleted' \cap Under(r.dst) = {}
    <3>1. Deleted' \cap PathsOf(r) = {}
      BY <2>5 DEF rest
    <3>2. ASSUME r.kind = "DIR" PROVE Deleted' \cap Under(r.dst) = {}
      <4>1. \A p \in Under(r.dst) : base[p] = Unknown
        BY <3>2, Found, FoundDir DEF renames
      <4> QED BY <2>5, <4>1, Apart DEF Deleted
    <3> QED BY <3>1, <3>2
  <2>7. ASSUME NEW r \in renames, NEW s \in renames, r # s, NEW e \in Entries(r), NEW f \in Entries(s) PROVE e[1] # f[1]
    BY <2>7, FoundApart DEF renames
  <2>8. ApartInv'
    BY <2>1, <2>5, <2>6, <2>7 DEF ApartInv
  <2>9. ASSUME NEW r \in renames, NEW e \in Entries(r)
        PROVE  base'[e[1]] \in Versions /\ (local'[e[2]] = base'[e[1]] \/ Cause(e[2])')
    <3>1. base[e[1]] \in Versions /\ Seen(e[2]) = base[e[1]]
      BY Found DEF renames
    <3>2. Hidden(e[2]) => Hidden(e[2])'
      BY <2>4 DEF Hidden
    <3> QED BY <2>4, <3>1, <3>2, SeenOr DEF Cause
  <2>10. KnownInv'
    BY <2>1, <2>2, <2>5, <2>9 DEF KnownInv, Known
  <2> QED BY <2>8, <2>10
<1> QED BY <1>2, <1>3, <1>4, BuildCases

\* A push that goes on, in short.
LEMMA GoesOnTraced ==
    ASSUME TypeInv, ApartInv, KnownInv, Stirs, oob \subseteq oob', Leased, GoesOn,
           \A r \in job'.ren : \A e \in Entries(r) : base'[e[1]] = base[e[1]],
           job'.at # "confirm" =>
             job.at # "confirm" /\ \A d \in job'.del : nas'[d[1]] \in {nas[d[1]], None} \/ d[1] \in oob',
           job'.at \in {"delete", "confirm"} =>
             \A a \in job.adp : local'[a[1]] = nas'[a[1]] \/ Cause(a[1])' \/ a[1] \in oob',
           \A p \in Path : Unplanned(p)' /\ Differs(p)' => Cause(p)' \/ p \in oob'
    PROVE  ApartInv' /\ KnownInv'
BY PlanTraced DEF GoesOn

\* A rename begins, or is planned again.
LEMMA StartTraced ==
    ASSUME TypeInv, ApartInv, KnownInv, NEW r \in job.ren, StartRename(r)
    PROVE  ApartInv' /\ KnownInv'
<1>1. JobFields /\ job.at = "rename" /\ Leased /\ job.done \subseteq Path
  BY WorkParts DEF StartRename, Leased
<1>2. Stirs /\ UNCHANGED <<base, oob, nas>>
  BY QuietStirs, QuietRows DEF QuietStep, StartRename, store, remote
<1>3. CASE job' = [job EXCEPT !.at = "moving"]
  <2>1. GoesOn /\ job'.at = "moving"
    BY <1>1, <1>3 DEF GoesOn, JobFields, SameChunk
  <2>2. /\ job'.sent = job.sent /\ job'.failed = job.failed /\ job'.ren = job.ren
        /\ job'.done = job.done /\ job'.up = job.up /\ job'.del = job.del
    BY <1>1, <1>3 DEF JobFields
  <2>3. \A p \in Path : Unplanned(p)' => Unplanned(p)
    BY <1>1, <2>1, <2>2 DEF Unplanned, Deleted, Adopted, GoesOn, SameChunk
  <2>4. \A p \in Path : Unplanned(p)' /\ Differs(p)' => Cause(p)' \/ p \in oob'
    BY <1>1, <1>2, <2>3, StillUnplanned
  <2> QED BY <1>1, <1>2, <2>1, <2>4, GoesOnTraced
<1>4. CASE job' = [job EXCEPT !.ren = @ \ {r}, !.failed = @ \cup PathsOf(r)]
  <2>1. GoesOn /\ job'.at = "rename"
    BY <1>1, <1>4 DEF GoesOn, JobFields, SameChunk
  <2>2. /\ job'.sent = job.sent /\ job'.failed = job.failed \cup PathsOf(r) /\ job'.ren = job.ren \ {r}
        /\ job'.done = job.done /\ job'.up = job.up /\ job'.del = job.del
    BY <1>1, <1>4 DEF JobFields
  <2>3. \A p \in Path : Unplanned(p)' => Unplanned(p)
    BY <1>1, <2>1, <2>2 DEF Unplanned, Deleted, Adopted, GoesOn, SameChunk
  <2>4. \A p \in Path : Unplanned(p)' /\ Differs(p)' => Cause(p)' \/ p \in oob'
    BY <1>1, <1>2, <2>3, StillUnplanned
  <2> QED BY <1>1, <1>2, <2>1, <2>4, GoesOnTraced
<1> QED BY <1>3, <1>4 DEF StartRename

\* The NAS makes a rename, and what it moves is no deletion; or it refuses.
LEMMA RenameTraced ==
    ASSUME TypeInv, NameInv, ApartInv, KnownInv, NEW r \in job.ren, RenameRemote(r)
    PROVE  ApartInv' /\ KnownInv'
<1>1. JobFields /\ job.at = "moving" /\ Leased /\ job.done \subseteq Path /\ r \in Renames
  BY WorkParts, RenameCases DEF Leased
<1>2. Stirs /\ UNCHANGED oob
  BY RenameStirs
<1>3. PathsOf(r) \subseteq Path
  BY <1>1, RenameTypes
<1>4. CASE RenameRefused(r)
  <2>1. job' = [job EXCEPT !.at = "rename", !.ren = @ \ {r}, !.failed = @ \cup PathsOf(r)] /\ UNCHANGED <<nas, base>>
    BY <1>4 DEF RenameRefused
  <2>2. GoesOn /\ job'.at = "rename"
    BY <1>1, <2>1 DEF GoesOn, JobFields, SameChunk
  <2>3. /\ job'.sent = job.sent /\ job'.failed = job.failed \cup PathsOf(r) /\ job'.ren = job.ren \ {r}
        /\ job'.done = job.done /\ job'.up = job.up /\ job'.del = job.del
    BY <1>1, <2>1 DEF JobFields
  <2>4. \A p \in Path : Unplanned(p)' => Unplanned(p)
    BY <1>1, <2>2, <2>3 DEF Unplanned, Deleted, Adopted, GoesOn, SameChunk
  <2>5. \A p \in Path : Unplanned(p)' /\ Differs(p)' => Cause(p)' \/ p \in oob'
    BY <1>1, <1>2, <2>1, <2>4, StillUnplanned
  <2> QED BY <1>1, <1>2, <2>1, <2>2, <2>5, GoesOnTraced
<1>5. CASE RenameMoves(r)
  <2> DEFINE N == {<<e[1], None>> : e \in Entries(r)} \cup {<<e[2], base[e[1]]>> : e \in Entries(r)}
  <2>1. /\ job' = [job EXCEPT !.at = "rename", !.ren = @ \ {r}, !.done = @ \cup PathsOf(r)]
        /\ base' = Overlay(base, N)
    BY <1>5 DEF RenameMoves
  <2>2. \A q, c : <<q, c>> \in N => \E e \in Entries(r) : q = e[1] \/ q = e[2]
    OBVIOUS
  <2> HIDE DEF N
  <2>3. GoesOn /\ job'.at = "rename"
    BY <1>1, <1>3, <2>1 DEF GoesOn, JobFields, SameChunk
  <2>4. /\ job'.sent = job.sent /\ job'.failed = job.failed /\ job'.ren = job.ren \ {r}
        /\ job'.done = job.done \cup PathsOf(r) /\ job'.up = job.up /\ job'.del = job.del
    BY <1>1, <2>1 DEF JobFields
  <2>5. ASSUME NEW q \in Path, \A e \in Entries(r) : q # e[1] /\ q # e[2] PROVE base'[q] = base[q]
    <3>1. \/ <<q, base'[q]>> \in N
          \/ base'[q] = base[q]
      BY <2>1, OverlayAt
    <3> QED BY <2>2, <2>5, <3>1
  <2>6. \A e \in Entries(r) : e[1] \in PathsOf(r) /\ e[2] \in PathsOf(r)
    <3>1. CASE r.kind = "FILE"
      BY <3>1 DEF Entries, PathsOf
    <3>2. CASE r.kind # "FILE"
      <4>1. r.kind = "DIR"
        BY <1>1, <3>2, RenameTypes
      <4> QED BY <4>1 DEF Entries, PathsOf, Renaming
    <3> QED BY <3>1, <3>2
  <2>7. \A p \in Path : Unplanned(p)' => Unplanned(p) /\ p \notin PathsOf(r)
    BY <1>1, <2>3, <2>4 DEF Unplanned, Deleted, Adopted, GoesOn, SameChunk
  <2>8. \A p \in Path : Unplanned(p)' /\ Differs(p)' => Cause(p)' \/ p \in oob'
    BY <1>1, <1>2, <2>5, <2>6, <2>7, StillUnplanned
  <2>9. ASSUME NEW s \in job'.ren, NEW f \in Entries(s) PROVE base'[f[1]] = base[f[1]]
    <3>1. s \in job.ren /\ s # r /\ s \in Renames
      BY <2>4, WorkParts
    <3>2. f[1] \in Path
      BY <3>1, RenameTypes
    <3>3. \A e \in Entries(r) : e[1] # f[1]
      BY <3>1 DEF ApartInv
    <3>4. \A e \in Entries(r) : e[2] # f[1]
      BY <3>1 DEF TypeInv, RenameInv
    <3> QED BY <2>5, <3>2, <3>3, <3>4
  <2>10. ASSUME NEW d \in job.del PROVE nas'[d[1]] \in {nas[d[1]], None}
    <3>1. d[1] \in Path /\ d[1] \in Deleted
      BY WorkParts DEF Deleted
    <3>2. ASSUME NEW m \in MovedFiles(r) PROVE d[1] # m[2]
      <4>1. Deleted \cap PathsOf(r) = {} /\ (r.kind = "DIR" => Deleted \cap Under(r.dst) = {})
        BY DEF ApartInv
      <4>2. CASE r.kind = "FILE"
        BY <3>1, <4>1, <4>2 DEF MovedFiles, PathsOf
      <4>3. CASE r.kind # "FILE"
        <5>1. r.kind = "DIR" /\ r.dst \in Dirs
          BY <1>1, <4>3, RenameTypes
        <5>2. PICK q \in Under(r.src) : m = <<q, Moved(q, r.dst)>>
          BY <4>3 DEF MovedFiles
        <5>3. m[2] = <<r.dst, q[2]>> /\ m[2] \in Path /\ m[2][1] = r.dst
          BY <1>1, <5>2, RenameTypes DEF Moved
        <5>4. m[2] \in Under(r.dst)
          BY <5>1, <5>3, PathParts
        <5> QED BY <3>1, <4>1, <5>1, <5>4
      <4> QED BY <4>2, <4>3
    <3>3. (\E m \in MovedFiles(r) : d[1] = m[1]) \/ \A m \in MovedFiles(r) : d[1] # m[1] /\ d[1] # m[2]
      BY <3>2
    <3> QED BY <1>5, <3>1, <3>3, RenameNas
  <2> QED BY <1>1, <1>2, <2>3, <2>4, <2>8, <2>9, <2>10, GoesOnTraced
<1> QED BY <1>4, <1>5, RenameCases

\* The renames have ended, and what was refused has a plan of its own.
LEMMA EndTraced ==
    ASSUME TypeInv, NameInv, MountInv, ApartInv, KnownInv, RenamesEnd
    PROVE  ApartInv' /\ KnownInv'
<1>1. JobFields /\ job.at = "rename" /\ Leased /\ job.done \subseteq Path /\ job.ren = {}
  BY WorkParts DEF RenamesEnd, Leased
<1>2. Stirs /\ UNCHANGED <<localVars, oob>>
  BY QuietStirs DEF QuietStep, RenamesEnd
<1>3. UNCHANGED <<local, dirs, mounted, excluded, base, events, marks, happened>>
  BY <1>2 DEF localVars, folder, store, watch, history
<1>4. CASE job.failed = {}
  <2>1. job' = [job EXCEPT !.at = "settle"] /\ UNCHANGED nas
    BY <1>4 DEF RenamesEnd
  <2>2. GoesOn /\ job'.at = "settle"
    BY <1>1, <2>1 DEF GoesOn, JobFields, SameChunk
  <2>3. /\ job'.sent = job.sent /\ job'.failed = job.failed /\ job'.ren = job.ren
        /\ job'.done = job.done /\ job'.up = job.up /\ job'.del = job.del
    BY <1>1, <2>1 DEF JobFields
  <2>4. \A p \in Path : Unplanned(p)' => Unplanned(p)
    BY <1>1, <1>4, <2>2, <2>3 DEF Unplanned, Deleted, Adopted, GoesOn, SameChunk
  <2>5. \A p \in Path : Unplanned(p)' /\ Differs(p)' => Cause(p)' \/ p \in oob'
    BY <1>1, <1>2, <1>3, <2>4, StillUnplanned
  <2> QED BY <1>1, <1>2, <1>3, <2>1, <2>2, <2>5, GoesOnTraced
<1>5. CASE job.failed # {}
  <2> DEFINE again == job.chunk \ job.done
  <2>1. CopyLosers(again) /\ job' = [WithPlan(again) EXCEPT !.at = "settle"]
    BY <1>5 DEF RenamesEnd
  <2>2. again \subseteq job.chunk
    OBVIOUS
  <2> HIDE DEF again
  <2>3. /\ job'.at = "settle" /\ job'.ren = {} /\ job'.chunk = job.chunk /\ job'.done = job.done
        /\ job'.up = WithPlan(again).up /\ job'.del = WithPlan(again).del
        /\ job'.adopt = WithPlan(again).adopt /\ job'.wins = WithPlan(again).wins
        /\ job'.adp = WithPlan(again).adp
    BY <1>1, <2>1 DEF JobFields, WithPlan
  <2>4. \A p \in Path : Unplanned(p)' => p \in again
    BY <2>3 DEF Unplanned, again
  <2>5. /\ Deleted' \subseteq again /\ (\A d \in job'.del : base[d[1]] \in Versions)
        /\ job'.up \cap Deleted' = {} /\ Adopted' \cap Deleted' = {}
        /\ \A p \in job'.wins : Known(p, None)'
        /\ \A d \in job'.del : Known(d[1], None)' /\ nas'[d[1]] \in {d[2], None}
        /\ \A p \in Path : Unplanned(p)' /\ Differs(p)' => Cause(p)'
    BY <1>2, <1>3, <2>1, <2>2, <2>3, <2>4, NewPlanTraced
  <2>6. ApartInv'
    BY <2>3, <2>5 DEF ApartInv
  <2>7. KnownInv'
    BY <2>3, <2>5 DEF KnownInv, Known
  <2> QED BY <2>6, <2>7
<1> QED BY <1>4, <1>5

\* A lost deletion becomes the base.
LEMMA SettleTraced ==
    ASSUME TypeInv, ApartInv, KnownInv, Settle, TypeInv'
    PROVE  ApartInv' /\ KnownInv'
<1>1. JobFields /\ job.at = "settle" /\ Leased /\ job.done \subseteq Path
  BY WorkParts DEF Settle, Leased
<1>2. Stirs /\ UNCHANGED <<oob, local, nas>>
  BY QuietStirs, QuietRows DEF RowStep, Settle, folder, remote
<1> DEFINE S == job.wins \X {None}
<1>3. base' = Overlay(base, S)
  BY DEF Settle
<1>4. \A p, c : <<p, c>> \in S <=> p \in job.wins /\ c = None
  OBVIOUS
<1> HIDE DEF S
<1>5. CASE job' = Idle
  BY <1>5, PlanlessTraced DEF Idle, Leased
<1>6. CASE job' = [job EXCEPT !.at = "send"]
  <2>1. GoesOn /\ job'.at = "send"
    BY <1>1, <1>6 DEF GoesOn, JobFields, SameChunk
  <2>2. /\ job'.sent = job.sent /\ job'.ren = job.ren /\ job.ren = {}
        /\ job'.done = job.done /\ job'.up = job.up /\ job'.del = job.del
    BY <1>1, <1>6, WorkParts DEF JobFields, PlanInv
  <2>3. ASSUME NEW p \in Path, Unplanned(p)', Differs(p)' PROVE Cause(p)' \/ p \in oob'
    <3>1. \/ <<p, base'[p]>> \in S
          \/ base'[p] = base[p] /\ \A c \in Contents : <<p, c>> \notin S
      BY <1>3, OverlayAt
    <3>2. CASE p \in job.wins
      <4>1. base'[p] = None
        <5>1. <<p, None>> \in S /\ None \in Contents
          BY <1>4, <3>2, Apart
        <5>2. <<p, base'[p]>> \in S
          BY <3>1, <5>1
        <5> QED BY <1>4, <5>2
      <4>2. Known(p, None)
        BY <1>1, <3>2 DEF KnownInv
      <4>3. local'[p] = None \/ Cause(p)'
        BY <1>2, <4>2, StillKnown
      <4> QED BY <2>3, <4>1, <4>3 DEF Differs
    <3>3. CASE p \notin job.wins
      <4>1. base'[p] = base[p]
        BY <1>4, <3>1, <3>3
      <4>2. Unplanned(p)
        BY <1>1, <2>1, <2>2, <2>3, <3>3 DEF Unplanned, Deleted, Adopted, GoesOn, SameChunk
      <4> QED BY <1>1, <1>2, <2>3, <4>1, <4>2, StillUnplanned
    <3> QED BY <3>2, <3>3
  <2> QED BY <1>1, <1>2, <2>1, <2>2, <2>3, GoesOnTraced
<1> QED BY <1>5, <1>6 DEF Settle, Fails

\* A file is sent, is excluded meanwhile, or fails the push.
LEMMA SendTraced ==
    ASSUME TypeInv, ApartInv, KnownInv, NEW p \in job.up, Send(p), TypeInv'
    PROVE  ApartInv' /\ KnownInv'
<1>1. JobFields /\ job.at = "send" /\ Leased /\ job.done \subseteq Path /\ job.ren = {} /\ p \in Path
  BY WorkParts DEF Send, Leased, PlanInv
<1>2. Stirs /\ UNCHANGED <<oob, local, base>>
  BY QuietStirs DEF QuietStep, Send, folder, store
<1>3. CASE job' = Idle
  BY <1>3, PlanlessTraced DEF Idle, Leased
<1>4. CASE Excluded(p) /\ job' = [job EXCEPT !.up = @ \ {p}] /\ UNCHANGED nas
  <2>1. GoesOn /\ job'.at = "send"
    BY <1>1, <1>4 DEF GoesOn, JobFields, SameChunk
  <2>2. /\ job'.sent = job.sent /\ job'.ren = job.ren
        /\ job'.done = job.done /\ job'.up = job.up \ {p} /\ job'.del = job.del
    BY <1>1, <1>4 DEF JobFields
  <2>3. Cause(p)'
    BY <1>1, <1>2, <1>4 DEF Cause, Stirs
  <2>4. \A q \in Path : Unplanned(q)' => Unplanned(q) \/ q = p
    BY <1>1, <2>1, <2>2 DEF Unplanned, Deleted, Adopted, GoesOn, SameChunk
  <2>5. \A q \in Path : Unplanned(q)' /\ Differs(q)' => Cause(q)' \/ q \in oob'
    BY <1>1, <1>2, <2>3, <2>4, StillUnplanned
  <2> QED BY <1>1, <1>2, <1>4, <2>1, <2>2, <2>5, GoesOnTraced
<1>5. CASE /\ nas' = [nas EXCEPT ![p] = Seen(p)]
           /\ job' = [job EXCEPT !.up = @ \ {p}, !.sent = @ \cup {p}]
  <2>1. GoesOn /\ job'.at = "send"
    BY <1>1, <1>5 DEF GoesOn, JobFields, SameChunk
  <2>2. /\ job'.sent = job.sent \cup {p} /\ job'.ren = job.ren
        /\ job'.done = job.done /\ job'.up = job.up \ {p} /\ job'.del = job.del
    BY <1>1, <1>5 DEF JobFields
  <2>3. \A q \in Path : Unplanned(q)' => Unplanned(q)
    BY <1>1, <2>1, <2>2 DEF Unplanned, Deleted, Adopted, GoesOn, SameChunk
  <2>4. \A q \in Path : Unplanned(q)' /\ Differs(q)' => Cause(q)' \/ q \in oob'
    BY <1>1, <1>2, <2>3, StillUnplanned
  <2>5. ASSUME NEW d \in job.del PROVE nas'[d[1]] = nas[d[1]]
    <3>1. d[1] \in Path /\ d[1] # p
      BY WorkParts DEF Deleted, ApartInv
    <3> QED BY <1>5, <3>1, WorkParts
  <2> QED BY <1>1, <1>2, <2>1, <2>2, <2>4, <2>5, GoesOnTraced
<1> QED BY <1>3, <1>4, <1>5 DEF Send, Fails

\* All is sent.
LEMMA SentTraced ==
    ASSUME TypeInv, ApartInv, KnownInv, Sent
    PROVE  ApartInv' /\ KnownInv'
<1>1. JobFields /\ job.at = "send" /\ Leased /\ job.done \subseteq Path /\ job.ren = {}
  BY WorkParts DEF Sent, Leased, PlanInv
<1>2. Stirs /\ UNCHANGED <<oob, local, base, nas>>
  BY QuietStirs DEF QuietStep, Sent, localVars, folder, store, remote
<1> DEFINE x == IF job.adp = {} THEN "delete" ELSE "adopt"
<1>3. job' = [job EXCEPT !.at = x]
  BY DEF Sent
<1>4. x \in {"delete", "adopt"} /\ (x = "delete" => job.adp = {})
  OBVIOUS
<1> HIDE DEF x
<1>5. GoesOn /\ job'.at = x
  BY <1>1, <1>3, <1>4 DEF GoesOn, JobFields, SameChunk
<1>6. /\ job'.sent = job.sent /\ job'.ren = job.ren
      /\ job'.done = job.done /\ job'.up = job.up /\ job'.del = job.del
  BY <1>1, <1>3 DEF JobFields
<1>7. \A p \in Path : Unplanned(p)' => Unplanned(p)
  BY <1>1, <1>5, <1>6 DEF Unplanned, Deleted, Adopted, GoesOn, SameChunk
<1>8. \A p \in Path : Unplanned(p)' /\ Differs(p)' => Cause(p)' \/ p \in oob'
  BY <1>1, <1>2, <1>7, StillUnplanned
<1> QED BY <1>1, <1>2, <1>4, <1>5, <1>6, <1>8, GoesOnTraced

\* The files whose local version lost are fetched.
LEMMA AdoptTraced ==
    ASSUME TypeInv, NameInv, ApartInv, KnownInv, AdoptRemote, TypeInv'
    PROVE  ApartInv' /\ KnownInv'
<1>1. JobFields /\ job.at = "adopt" /\ Leased /\ job.done \subseteq Path /\ job.ren = {}
  BY WorkParts, AdoptCases DEF Leased, PlanInv
<1>2. Stirs /\ UNCHANGED <<oob, base, nas>>
  BY AdoptStirs, AdoptCases
<1>3. CASE job' = Idle
  BY <1>3, PlanlessTraced DEF Idle, Leased
<1>4. CASE AdoptsFiles
  <2>1. job' = [job EXCEPT !.at = "delete"]
    BY <1>4 DEF AdoptsFiles
  <2>2. GoesOn /\ job'.at = "delete"
    BY <1>1, <2>1 DEF GoesOn, JobFields, SameChunk
  <2>3. /\ job'.sent = job.sent /\ job'.ren = job.ren
        /\ job'.done = job.done /\ job'.up = job.up /\ job'.del = job.del
    BY <1>1, <2>1 DEF JobFields
  <2>4. \A p \in Path : Unplanned(p)' => Unplanned(p)
    BY <1>1, <2>2, <2>3 DEF Unplanned, Deleted, Adopted, GoesOn, SameChunk
  <2>5. \A p \in Path : Unplanned(p)' /\ Differs(p)' => Cause(p)' \/ p \in oob'
    BY <1>1, <1>2, <2>4, StillUnplanned
  <2>6. \A a \in job.adp : local'[a[1]] = nas'[a[1]]
    BY <1>2, <1>4, AdoptFiles DEF Adopted
  <2> QED BY <1>1, <1>2, <2>2, <2>3, <2>5, <2>6, GoesOnTraced
<1> QED BY <1>3, <1>4, AdoptCases

\* The deletions are checked: what is no longer the planned file stays, and was changed meanwhile.
LEMMA DeleteTraced ==
    ASSUME TypeInv, NameInv, ApartInv, KnownInv, CheckedDelete
    PROVE  ApartInv' /\ KnownInv'
<1>1. JobFields /\ job.at = "delete" /\ Leased /\ job.done \subseteq Path /\ job.ren = {}
  BY WorkParts DEF CheckedDelete, Leased, PlanInv
<1>2. Stirs /\ UNCHANGED <<oob, local, base>>
  BY QuietStirs DEF QuietStep, CheckedDelete, localVars, folder, store
<1> DEFINE gone == {d \in job.del : nas[d[1]] \in {d[2], None}}
           none == {d[1] : d \in gone} \X {None}
<1>3. /\ nas' = Overlay(nas, none)
      /\ job' = [job EXCEPT !.at = "confirm", !.del = gone, !.dels = @ + Cardinality(gone)]
  BY DEF CheckedDelete
<1>4. /\ gone \subseteq job.del
      /\ \A d \in job.del \ gone : d[1] \in oob
  BY <1>1 DEF KnownInv
<1>5. \A q, c : <<q, c>> \in none => q \in Deleted
  BY <1>4 DEF Deleted
<1> HIDE DEF gone, none
<1>6. GoesOn /\ job'.at = "confirm"
  BY <1>1, <1>3, <1>4 DEF GoesOn, JobFields, SameChunk
<1>7. /\ job'.sent = job.sent /\ job'.ren = job.ren
      /\ job'.done = job.done /\ job'.up = job.up /\ job'.del = gone
  BY <1>1, <1>3 DEF JobFields
<1>8. \A p \in Path : Unplanned(p)' => Unplanned(p) \/ p \in oob
  BY <1>1, <1>4, <1>6, <1>7 DEF Unplanned, Deleted, Adopted, GoesOn, SameChunk
<1>9. \A p \in Path : Unplanned(p)' /\ Differs(p)' => Cause(p)' \/ p \in oob'
  BY <1>1, <1>2, <1>8, StillUnplanned
<1>10. ASSUME NEW a \in job.adp PROVE local'[a[1]] = nas'[a[1]] \/ Cause(a[1])' \/ a[1] \in oob'
  <2>1. a[1] \in Path /\ a[1] \notin Deleted
    BY WorkParts DEF ApartInv, Adopted
  <2>2. nas'[a[1]] = nas[a[1]]
    <3>1. \/ <<a[1], nas'[a[1]]>> \in none
          \/ nas'[a[1]] = nas[a[1]]
      BY <1>3, <2>1, OverlayAt
    <3> QED BY <1>5, <2>1, <3>1
  <2>3. Known(a[1], nas[a[1]]) \/ a[1] \in oob
    BY <1>1 DEF KnownInv
  <2> QED BY <1>2, <2>1, <2>2, <2>3, StillKnown
<1> QED BY <1>1, <1>2, <1>6, <1>7, <1>9, <1>10, GoesOnTraced

\* The sources of a staged chunk were looked at.
LEMMA CheckTraced ==
    ASSUME TypeInv, MountInv, StagedCheck, TypeInv'
    PROVE  ApartInv' /\ KnownInv'
<1>1. JobFields /\ job.at = "staged" /\ Stirs
  BY WorkParts, QuietStirs DEF StagedCheck, QuietStep
<1>2. CASE job' = Idle
  BY <1>2, PlanlessTraced DEF Idle, Leased
<1>3. CASE /\ {c[1] : c \in {s \in job.sent : Seen(s[1]) # s[2]}} = {}
           /\ job' = [job EXCEPT !.at = "publish"]
  <2>1. job'.at = "publish" /\ job'.sent = job.sent
    BY <1>1, <1>3 DEF JobFields
  <2>2. ASSUME NEW s \in job.sent PROVE local'[s[1]] = s[2] \/ Cause(s[1])'
    <3>1. s[1] \in Path
      BY <1>1, WorkParts DEF Staged
    <3>2. Seen(s[1]) = s[2]
      BY <1>3
    <3>3. Known(s[1], s[2])
      BY <3>2, SeenOr DEF Known, Cause
    <3> QED BY <1>1, <3>1, <3>3, StillKnown
  <2>3. ~Leased'
    BY <2>1 DEF Leased
  <2> QED BY <2>1, <2>2, <2>3, PlanlessTraced DEF Known
<1> QED BY <1>2, <1>3 DEF StagedCheck

\* A push that has no plan, or has one no more.
LEMMA OffTraced ==
    ASSUME TypeInv, TypeInv',
           \/ \E U : PushTick(U)
           \/ \E C : PickChunk(C)
           \/ PushEnds \/ PublishStaged \/ Confirm \/ PushFails \/ Crash
           \/ \E full \in BOOLEAN : Pull(full)
    PROVE  ApartInv' /\ KnownInv'
<1>0. JobFields
  BY WorkParts
<1>1. ASSUME NEW U, PushTick(U) PROVE job'.at \in {"idle", "chunk"}
  BY <1>1 DEF PushTick, Idle
<1>2. ASSUME NEW C, PickChunk(C) PROVE job'.at = "plan"
  BY <1>0, <1>2 DEF PickChunk, JobFields
<1>3. CASE PushEnds \/ PushFails \/ Crash
  BY <1>3, PlanlessTraced DEF PushEnds, PushFails, Crash, Fails, Idle, Leased
<1>4. ASSUME PublishStaged \/ Confirm PROVE job'.at \in {"idle", "chunk"}
  <2>1. job' = Idle \/ job' = NextChunk
    BY <1>4 DEF PublishStaged, Confirm, Fails
  <2>2. NextChunk.at = "chunk" /\ Idle.at = "idle"
    BY <1>0 DEF NextChunk, Idle, JobFields
  <2> QED BY <2>1, <2>2
<1>5. ASSUME NEW full \in BOOLEAN, Pull(full) PROVE job'.at \in {"idle", "chunk"}
  BY <1>5, PullCases
<1>6. ASSUME job'.at \in {"idle", "chunk", "plan"} PROVE ApartInv' /\ KnownInv'
  BY <1>6, PlanlessTraced DEF Leased
<1> QED BY <1>1, <1>2, <1>3, <1>4, <1>5, <1>6

\* Others write: under no lease, or behind the journal.
LEMMA OtherTraced ==
    ASSUME TypeInv, ApartInv, KnownInv, OtherAct, TypeInv'
    PROVE  ApartInv' /\ KnownInv'
<1>1. Stirs /\ oob \subseteq oob'
  BY QuietStirs, QuietRows
<1>2. PICK p \in Dirs \X {Plain} :
        OtherDelete(p) \/ \E v \in Versions : OtherWrite(p, v) \/ OobWrite(p, v)
  BY DEF OtherAct
<1>3. UNCHANGED <<job, base>>
  BY <1>2 DEF OtherDelete, OtherWrite, OobWrite, store
<1>4. CASE ~Leased
  <2>1. ASSUME job.at = "publish", NEW s \in job.sent PROVE local'[s[1]] = s[2] \/ Cause(s[1])'
    <3>1. Known(s[1], s[2])
      BY <2>1 DEF KnownInv
    <3>2. s[1] \in Path
      BY <2>1, WorkParts DEF Staged
    <3> QED BY <1>1, <3>1, <3>2, StillKnown
  <2>2. ~Leased'
    BY <1>3, <1>4 DEF Leased
  <2> QED BY <1>3, <2>1, <2>2, PlanlessTraced DEF Known
<1>5. ASSUME NEW v \in Versions, OobWrite(p, v) PROVE \A q \in Path : nas'[q] = nas[q] \/ q \in oob'
  <2>1. nas' = [nas EXCEPT ![p] = v] /\ p \in oob'
    BY <1>5 DEF OobWrite
  <2> QED BY <2>1, WorkParts
<1>6. CASE Leased
  BY <1>1, <1>2, <1>3, <1>5, <1>6, SameTraced DEF OtherDelete, OtherWrite
<1> QED BY <1>4, <1>6

\* What a plan knows, stays known.
LEMMA KnownStep ==
    ASSUME TypeInv, NameInv, TraceInv, Next, TypeInv'
    PROVE  ApartInv' /\ KnownInv'
<1>0. MountInv /\ ApartInv /\ KnownInv
  BY DEF TraceInv
<1>1. CASE (UserAct \/ ResolverAct) /\ Local
  <2>1. Stirs /\ UNCHANGED <<base, nas, oob, job>>
    BY <1>1, UserStirs, ResolverStirs, UserRows
  <2> QED BY <1>0, <2>1, SameTraced
<1>2. ASSUME NEW e \in events, Notice(e), UNCHANGED <<remote, job>> PROVE ApartInv' /\ KnownInv'
  <2>1. Stirs /\ UNCHANGED <<base, nas, oob, job>>
    BY <1>2, NoticeStirs DEF Notice, store, remote
  <2> QED BY <1>0, <2>1, SameTraced
<1>3. ASSUME NEW r \in job.ren, StartRename(r) \/ RenameRemote(r) PROVE ApartInv' /\ KnownInv'
  BY <1>0, <1>3, StartTraced, RenameTraced
<1>4. CASE BuildPlan \/ StagedCheck \/ RenamesEnd \/ Settle
  BY <1>0, <1>4, BuildTraced, CheckTraced, EndTraced, SettleTraced
<1>5. ASSUME NEW p \in job.up, Send(p) PROVE ApartInv' /\ KnownInv'
  BY <1>0, <1>5, SendTraced
<1>6. CASE Sent \/ AdoptRemote \/ CheckedDelete
  BY <1>0, <1>6, SentTraced, AdoptTraced, DeleteTraced
<1>7. CASE \/ \E U : PushTick(U)
           \/ \E C : PickChunk(C)
           \/ PushEnds \/ PublishStaged \/ Confirm \/ PushFails \/ Crash
           \/ \E full \in BOOLEAN : Pull(full)
  BY <1>7, OffTraced
<1>8. CASE OtherAct
  BY <1>0, <1>8, OtherTraced
<1> QED BY <1>1, <1>2, <1>3, <1>4, <1>5, <1>6, <1>7, <1>8 DEF Next, PushAct

\* The invariant of the rows and causes.
LEMMA TraceStep == ASSUME TypeInv, NameInv, TraceInv, Next PROVE TraceInv'
<1>1. TypeInv'
  BY TypeStep
<1>2. MountInv' /\ RecInv'
  BY StillMounted, StillJournalled DEF TraceInv
<1> QED BY <1>1, <1>2, TriggerStep, KnownStep DEF TraceInv

\* At the start nothing differs.
LEMMA InitTrace == Init => TraceInv
<1> SUFFICES ASSUME Init PROVE TraceInv
  OBVIOUS
<1>1. /\ job = Idle /\ mounted
      /\ local = [p \in Path |-> First(p)] /\ nas = [p \in Path |-> First(p)]
      /\ rec = [p \in Path |-> IF First(p) = None THEN Unknown ELSE First(p)]
      /\ base = [p \in Path |-> IF First(p) = None THEN Unknown ELSE First(p)]
  BY DEF Init, LocalInit
<1>2. MountInv
  BY <1>1 DEF MountInv
<1>3. RecInv
  BY <1>1, Apart DEF RecInv
<1>4. TriggerInv
  BY <1>1, Apart DEF TriggerInv, Triggered, Differs
<1>5. ApartInv /\ KnownInv
  BY <1>1 DEF Idle, ApartInv, KnownInv, Leased, Deleted, Adopted
<1> QED BY <1>2, <1>3, <1>4, <1>5 DEF TraceInv

\* And a step that changes nothing changes nothing.
LEMMA TraceStutters == ASSUME TraceInv, UNCHANGED vars PROVE TraceInv'
<1>1. UNCHANGED <<local, dirs, mounted, excluded, base, pending, events, marks, happened>>
  BY DEF vars, localVars, folder, store, watch, history
<1>2. UNCHANGED <<nas, rec, oob, job>>
  BY DEF vars, remote
<1>3. \A p : Cause(p)' <=> Cause(p)
  BY <1>1 DEF Cause, Fresh, Excluded, Hidden
<1>4. MountInv' /\ RecInv' /\ TriggerInv'
  BY <1>1, <1>2, <1>3 DEF TraceInv, MountInv, RecInv, TriggerInv, Triggered, Differs
<1>5. ApartInv'
  BY <1>2 DEF TraceInv, ApartInv, Deleted, Adopted
<1>6. KnownInv'
  BY <1>1, <1>2, <1>3 DEF TraceInv, KnownInv, Known, Leased, Unplanned, Deleted, Adopted, Differs
<1> QED BY <1>4, <1>5, <1>6 DEF TraceInv

\* No change is forgotten: a file that no queue row, mark, event or operation will
\* bring up again is the one of its base (push_worker.py clear_pending, watcher.py,
\* engine.py _reconcile_watcher).
THEOREM NoneForgotten == Spec => []InStep
<1>1. Init => TraceInv
  BY InitTrace
<1>2. TreeInv /\ TraceInv /\ [Next]_vars => TraceInv'
  BY TraceStep, TraceStutters DEF TreeInv
<1>3. TreeInv /\ TraceInv => InStep
  BY TracedInStep DEF TreeInv
<1> QED BY <1>1, <1>2, <1>3, TreeCorrect, PTL DEF Spec
=============================================================================
