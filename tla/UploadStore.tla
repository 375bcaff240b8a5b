----------------------------- MODULE UploadStore -----------------------------
(***************************************************************************)
(* The download directory under several uploads: uniquePath (src/net.ts)   *)
(* and writeBody (src/server/receive-server.ts) over a file system whose   *)
(* names point to inodes and whose writers keep the inode they opened.     *)
(*                                                                         *)
(* A path is <<stem, k, parts>>: the k-th candidate for a stem (k = 1 is   *)
(* the plain name, k > 1 the one with the suffix " (k)") followed by parts *)
(* times ".part".  A sender may itself choose a name that ends in ".part". *)
(* A body is a sequence of chunks; an inode holds, per chunk position, who *)
(* wrote it.                                                               *)
(***************************************************************************)
EXTENDS Naturals, FiniteSets

CONSTANTS
  Uploads,      \* uploads the handler let in
  Stems,        \* file names without suffix and ".part"
  Names,        \* the names senders declare: pairs of a stem and 0 or 1 ".part"
  OldPaths,     \* paths that may exist before the window opens
  Sizes,        \* declared sizes, in chunks; 0 switches the cap off
  MaxChunks,    \* bound: chunks a sender pushes
  MaxSuffix,    \* the last suffix uniquePath tries (999 in the code)
  Rough,        \* stems whose uploads senders may overlap, and which the disk may
                \* fail after the body ended without the upload failing; those
                \* of another stem come one after the other
  Old,          \* who wrote the files that were there before
  None

Paths == Stems \X (1 .. MaxSuffix) \X (0 .. 2)

Part(path) == <<path[1], path[2], path[3] + 1>>

ASSUME NamesAssumption  == Names \subseteq Stems \X {0, 1}
ASSUME PathsAssumption  == OldPaths \subseteq Paths
ASSUME BoundsAssumption == MaxChunks \in Nat \ {0} /\ MaxSuffix \in Nat \ {0}
ASSUME SizesAssumption  == Sizes \subseteq Nat
ASSUME RoughAssumption  == Rough \subseteq Stems
ASSUME NoneAssumption ==
  /\ None \notin Uploads \cup Paths
  /\ Old \notin Uploads \cup {None}
  /\ Uploads \cap Paths = {}

\* An inode is named after the upload or the old path that created it.
Inodes == Uploads \cup OldPaths

VARIABLES
  \* the file system
  dir,       \* path -> inode, or None
  data,      \* inode -> chunk position -> its writer, or None
  \* one entry per upload
  name,      \* what the sender calls it
  declared,  \* the size it declares
  stage,     \* where writeBody is
  target,    \* the path uniquePath chose, or None
  fd,        \* the inode its stream has open, or None
  got,       \* chunks accepted from the request and handed to the stream
  put,       \* chunks the stream has written
  error      \* whether the stream of a stored upload failed: not, with its
             \* 'error' still to come, or reported

disk    == <<dir, data>>
offer   == <<name, declared>>
vars    == <<dir, data, name, declared, stage, target, fd, got, put, error>>

Chunks  == 1 .. MaxChunks
Empty   == [c \in Chunks |-> None]
OldData == [c \in Chunks |-> IF c = 1 THEN Old ELSE None]

Stem(u) == name[u][1]

\* The content of an upload of which n chunks arrived.
Body(u, n) == [c \in Chunks |-> IF c <= n THEN u ELSE None]

Settled(u) == stage[u] \in {"stored", "failed"}
Begun(u)   == stage[u] # "waiting"

TypeOK ==
  /\ dir \in [Paths -> Inodes \cup {None}]
  /\ data \in [Inodes -> [Chunks -> Uploads \cup {Old, None}]]
  /\ name \in [Uploads -> Names]
  /\ declared \in [Uploads -> Sizes]
  /\ stage \in [Uploads -> {"waiting", "reading", "ending", "discarding",
                            "removing", "stored", "failed"}]
  /\ target \in [Uploads -> Paths \cup {None}]
  /\ fd \in [Uploads -> Inodes \cup {None}]
  /\ got \in [Uploads -> 0 .. MaxChunks]
  /\ put \in [Uploads -> 0 .. MaxChunks]
  /\ \A u \in Uploads : put[u] <= got[u]
  /\ error \in [Uploads -> {"none", "due", "reported"}]

Init ==
  /\ \E there \in SUBSET OldPaths :
       dir = [p \in Paths |-> IF p \in there THEN p ELSE None]
  /\ data = [i \in Inodes |-> IF i \in OldPaths THEN OldData ELSE Empty]
  /\ name \in [Uploads -> Names]
  /\ declared \in [Uploads -> Sizes]
  /\ stage = [u \in Uploads |-> "waiting"]
  /\ target = [u \in Uploads |-> None]
  /\ fd = [u \in Uploads |-> None]
  /\ got = [u \in Uploads |-> 0]
  /\ put = [u \in Uploads |-> 0]
  /\ error = [u \in Uploads |-> "none"]

-----------------------------------------------------------------------------
(* Choosing a path *)

Candidate(n, k) == <<n[1], k, n[2]>>

\* Faulty: existing files are not looked for.
FreeSuffixesUnchecked(n) == {1}

\* The suffixes uniquePath can come to a stop at: the first one that is free.
FreeSuffixes(n) ==
  {k \in 1 .. MaxSuffix :
     /\ dir[Candidate(n, k)] = None
     /\ \A j \in 1 .. k - 1 : dir[Candidate(n, j)] # None}

\* Faulty: the declared name is taken as the path.
BeginUnresolved(u) ==
  /\ stage[u] = "waiting"
  /\ target' = [target EXCEPT ![u] = name[u]]
  /\ stage' = [stage EXCEPT ![u] = "reading"]
  /\ UNCHANGED <<disk, offer, fd, got, put, error>>

\* uniquePath, then writeBody up to its first await: the stream is created, its
\* file not opened yet.
Begin(u) ==
  /\ stage[u] = "waiting"
  /\ Stem(u) \in Rough \/ \A v \in Uploads : Stem(v) = Stem(u) /\ Begun(v) => Settled(v)
  /\ \E k \in FreeSuffixes(name[u]) :
       target' = [target EXCEPT ![u] = Candidate(name[u], k)]
  /\ stage' = [stage EXCEPT ![u] = "reading"]
  /\ UNCHANGED <<disk, offer, fd, got, put, error>>

\* Too many files of that name: uniquePath throws before anything is opened.
Refuse(u) ==
  /\ stage[u] = "waiting"
  /\ FreeSuffixes(name[u]) = {}
  /\ stage' = [stage EXCEPT ![u] = "failed"]
  /\ UNCHANGED <<disk, offer, target, fd, got, put, error>>

-----------------------------------------------------------------------------
(* The stream *)

\* Faulty: a destroyed stream forgets its pending open and never closes.
OpenUndestroyed(u) ==
  /\ stage[u] \in {"reading", "ending"}
  /\ fd[u] = None
  /\ LET part  == Part(target[u])
         inode == IF dir[part] = None THEN u ELSE dir[part]
     IN  /\ fd' = [fd EXCEPT ![u] = inode]
         /\ dir' = [dir EXCEPT ![part] = inode]
         /\ data' = [data EXCEPT ![inode] = Empty]
  /\ UNCHANGED <<offer, stage, target, got, put, error>>

\* createWriteStream's open: an existing file is truncated and reused, a new one
\* is created.  It completes even if the stream was destroyed in the meantime.
Open(u) ==
  /\ stage[u] \in {"reading", "ending", "discarding"}
  /\ fd[u] = None
  /\ LET part  == Part(target[u])
         inode == IF dir[part] = None THEN u ELSE dir[part]
     IN  /\ fd' = [fd EXCEPT ![u] = inode]
         /\ dir' = [dir EXCEPT ![part] = inode]
         /\ data' = [data EXCEPT ![inode] = Empty]
  /\ UNCHANGED <<offer, stage, target, got, put, error>>

\* One more chunk reaches the disk, at the stream's own position.
Write(u) ==
  /\ stage[u] \in {"reading", "ending", "discarding"}
  /\ fd[u] # None
  /\ put[u] < got[u]
  /\ put' = [put EXCEPT ![u] = @ + 1]
  /\ data' = [data EXCEPT ![fd[u]][put[u] + 1] = u]
  /\ UNCHANGED <<dir, offer, stage, target, fd, got, error>>

\* The file cannot be opened or written while the body is still coming: the
\* stream destroys itself and reports the error, fail() goes straight to rm.
StreamError(u) ==
  /\ stage[u] = "reading"
  /\ fd[u] = None \/ put[u] < got[u]
  /\ stage' = [stage EXCEPT ![u] = "removing"]
  /\ fd' = [fd EXCEPT ![u] = None]
  /\ UNCHANGED <<disk, offer, target, got, put, error>>

\* The file cannot be opened, and by now fail() waits for 'close', or the
\* callback of stream.end finds nothing it can rename: on to rm either way.
OpenFails(u) ==
  /\ stage[u] \in {"ending", "discarding"}
  /\ fd[u] = None
  /\ stage' = [stage EXCEPT ![u] = "removing"]
  /\ UNCHANGED <<disk, offer, target, fd, got, put, error>>

-----------------------------------------------------------------------------
(* The request *)

\* Faulty: one chunk too many.
DataOffByOne(u) ==
  /\ stage[u] = "reading"
  /\ IF declared[u] > 0 /\ got[u] > declared[u]
     THEN /\ stage' = [stage EXCEPT ![u] = "discarding"]
          /\ UNCHANGED got
     ELSE /\ got[u] < MaxChunks
          /\ got' = [got EXCEPT ![u] = @ + 1]
          /\ UNCHANGED stage
  /\ UNCHANGED <<disk, offer, target, fd, put, error>>

\* A chunk arrives.  The one that passes a declared size is not written: the
\* request is destroyed and the stream told to close.
Data(u) ==
  /\ stage[u] = "reading"
  /\ IF declared[u] > 0 /\ got[u] + 1 > declared[u]
     THEN /\ stage' = [stage EXCEPT ![u] = "discarding"]
          /\ UNCHANGED got
     ELSE /\ got[u] < MaxChunks
          /\ got' = [got EXCEPT ![u] = @ + 1]
          /\ UNCHANGED stage
  /\ UNCHANGED <<disk, offer, target, fd, put, error>>

\* The connection is lost before the body is complete.
Lose(u) ==
  /\ stage[u] = "reading"
  /\ stage' = [stage EXCEPT ![u] = "discarding"]
  /\ UNCHANGED <<disk, offer, target, fd, got, put, error>>

\* The body is complete as far as HTTP goes; its length is not compared with the
\* declared size.
End(u) ==
  /\ stage[u] = "reading"
  /\ stage' = [stage EXCEPT ![u] = "ending"]
  /\ UNCHANGED <<disk, offer, target, fd, got, put, error>>

-----------------------------------------------------------------------------
(* Settling *)

\* renameSync in the callback of stream.end: what the partial path points to
\* takes the target's place.
Rename(u) ==
  LET part == Part(target[u])
  IN  /\ dir[part] # None
      /\ dir' = [dir EXCEPT ![target[u]] = dir[part], ![part] = None]
      /\ stage' = [stage EXCEPT ![u] = "stored"]
      /\ fd' = [fd EXCEPT ![u] = None]
      /\ UNCHANGED <<data, offer, target, got, put>>

\* Everything is on disk; the file gets its name.
Store(u) ==
  /\ stage[u] = "ending"
  /\ fd[u] # None
  /\ put[u] = got[u]
  /\ Rename(u)
  /\ UNCHANGED error

\* The last writes fail, or the file never opened: stream.end's callback runs all
\* the same, with an error nobody looks at, and renames what is there.
StoreUnwritten(u) ==
  /\ Stem(u) \in Rough
  /\ stage[u] = "ending"
  /\ fd[u] = None \/ put[u] < got[u]
  /\ Rename(u)
  /\ error' = [error EXCEPT ![u] = "due"]

\* The stream reports that error after writeBody has resolved: fail() removes
\* whatever the partial path points to now.
LateError(u) ==
  /\ error[u] = "due"
  /\ dir' = [dir EXCEPT ![Part(target[u])] = None]
  /\ error' = [error EXCEPT ![u] = "reported"]
  /\ UNCHANGED <<data, offer, stage, target, fd, got, put>>

\* renameSync throws: the partial file is gone, or the file system refuses.
RenameFails(u) ==
  /\ stage[u] = "ending"
  /\ fd[u] # None
  /\ stage' = [stage EXCEPT ![u] = "discarding"]
  /\ UNCHANGED <<disk, offer, target, fd, got, put, error>>

\* Faulty: the partial file is left behind.
CloseAndLeave(u) ==
  /\ stage[u] = "discarding"
  /\ fd[u] # None
  /\ fd' = [fd EXCEPT ![u] = None]
  /\ stage' = [stage EXCEPT ![u] = "failed"]
  /\ UNCHANGED <<disk, offer, target, got, put, error>>

\* The destroyed stream has closed its descriptor.
Close(u) ==
  /\ stage[u] = "discarding"
  /\ fd[u] # None
  /\ fd' = [fd EXCEPT ![u] = None]
  /\ stage' = [stage EXCEPT ![u] = "removing"]
  /\ UNCHANGED <<disk, offer, target, got, put, error>>

\* fs.rm(partial, { force: true }): whatever the partial path points to now.
Remove(u) ==
  /\ stage[u] = "removing"
  /\ dir' = [dir EXCEPT ![Part(target[u])] = None]
  /\ stage' = [stage EXCEPT ![u] = "failed"]
  /\ UNCHANGED <<data, offer, target, fd, got, put, error>>

-----------------------------------------------------------------------------

Sender(u) == Begin(u) \/ Refuse(u) \/ Data(u) \/ Lose(u) \/ End(u)

Stream(u) ==
  \/ Open(u) \/ Write(u)
  \/ Store(u) \/ StoreUnwritten(u) \/ RenameFails(u)
  \/ Close(u) \/ Remove(u)

\* What the disk may do to an upload at its own time.
Fault(u) == StreamError(u) \/ OpenFails(u) \/ LateError(u)

Next == \E u \in Uploads : Sender(u) \/ Stream(u) \/ Fault(u)

Spec == Init /\ [][Next]_vars

-----------------------------------------------------------------------------
(* What the directory promises *)

Intact(u) ==
  /\ dir[target[u]] # None
  /\ data[dir[target[u]]] = Body(u, got[u])

\* Places where finished files of the other stems appear.
Places == {p \in Paths : p[1] \notin Rough /\ p[3] = 0}

\* What a place shows: an old file as it was, the complete body of the upload
\* that was stored there, nothing, or something that is none of these.
Shown(p) ==
  LET owners == {u \in Uploads : stage[u] = "stored" /\ target[u] = p /\ Intact(u)}
  IN  CASE dir[p] = None                                -> None
        [] dir[p] = p /\ data[p] = OldData              -> Old
        [] Cardinality(owners) = 1 /\ dir[p] # p        -> CHOOSE u \in owners : TRUE
        [] OTHER                                        -> "spoilt"

StoredUploads == {u \in Uploads : stage[u] = "stored"}
Delivered     == {u \in StoredUploads : Stem(u) \notin Rough}

Inbox == INSTANCE Inbox
  WITH shelf     <- [p \in Places |-> Shown(p)],
       delivered <- Delivered

\* Lost connections, late opens, failing writes, and whatever overlaps under
\* other names: where uploads come one after the other, the directory changes
\* only by whole files under fresh names.
InboxSpec == Inbox!Spec

\* Once all uploads are settled nothing they created is left but the files they
\* stored ("leaves a stray .part behind" in the comment of fail()).
NoStrayPart ==
  (\A u \in Uploads : Settled(u)) =>
    \A p \in Paths : dir[p] \in Uploads => \E u \in StoredUploads : target[u] = p

\* No inode ever holds more of an upload than the positive size it declared,
\* whoever else writes to that inode (the counter in the 'data' handler).
PositiveSizeKept ==
  \A u \in Uploads : declared[u] > 0 =>
    \A i \in Inodes : Cardinality({c \in Chunks : data[i][c] = u}) <= declared[u]

-----------------------------------------------------------------------------
(* What the repository says of the directory and the code does not keep *)

\* README.md: "A sender that pushes more bytes than it declared is cut off";
\* writeBody: "never writing more than the sender declared".
NeverMoreThanDeclared ==
  \A u \in Uploads, i \in Inodes : Cardinality({c \in Chunks : data[i][c] = u}) <= declared[u]

\* A path shows an old file as it was, or all of an upload stored there
\* without an error.
Finished(p) ==
  \/ dir[p] = p /\ data[p] = OldData
  \/ \E u \in StoredUploads : target[u] = p /\ error[u] = "none" /\ Intact(u)

\* README.md: "a name that collides gets a (2) suffix rather than overwriting";
\* net.ts, uniquePath: "never overwriting an existing file".
FinishedFilesKept ==
  [][\A p \in Paths : Finished(p) =>
       dir'[p] # None /\ data'[dir'[p]] = data[dir[p]]]_vars
=============================================================================
