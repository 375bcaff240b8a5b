-------------------------- MODULE UploadStoreProofs --------------------------
(***************************************************************************)
(* UploadStore, proved for any uploads, names, old files, sizes and disk    *)
(* errors, overlapping or not; and, where the uploads of a stem do not      *)
(* overlap, that it implements Inbox.                                       *)
(***************************************************************************)
EXTENDS UploadStore, FiniteSetTheorems, TLAPS

\* An upload that has begun has a target whose name leaves room for ".part"; an
\* error that comes late is one of a stored upload with a rough stem.
Targets ==
  \A u \in Uploads :
    /\ stage[u] \notin {"waiting", "failed"} => target[u] # None
    /\ target[u] # None => target[u][3] \in {0, 1}
    /\ error[u] # "none" => stage[u] = "stored" /\ Stem(u) \in Rough

\* What an upload has on disk it was sent, and what it was sent it declared.
Capped ==
  \A u \in Uploads :
    /\ declared[u] > 0 => got[u] <= declared[u]
    /\ \A i \in Inodes, c \in Chunks : data[i][c] = u => c <= put[u]

\* An upload that will rename or remove its partial file.
Responsible(u) == stage[u] \in {"reading", "ending", "discarding", "removing"}

\* Whatever the uploads created is a stored file, or the partial file of one
\* that is still responsible for it.
Accounted ==
  \A p \in Paths :
    dir[p] \in Uploads =>
      \/ \E u \in Uploads : stage[u] = "stored" /\ target[u] = p
      \/ \E u \in Uploads : Responsible(u) /\ Part(target[u]) = p

-----------------------------------------------------------------------------
(* Paths *)

LEMMA PathParts ==
  ASSUME NEW p \in Paths, p[3] \in {0, 1}
  PROVE  Part(p) \in Paths /\ Part(p) # p
  BY DEF Paths, Part

LEMMA PathsAreNotNone == None \notin Paths
  BY NoneAssumption

LEMMA CandidateIsPath ==
  ASSUME NEW n \in Names, NEW k \in 1 .. MaxSuffix
  PROVE  Candidate(n, k) \in Paths /\ Candidate(n, k)[3] \in {0, 1}
  BY NamesAssumption DEF Candidate, Paths

-----------------------------------------------------------------------------
(* Types *)

Types == TypeOK /\ Targets

LEMMA TypesInit == Init => Types
  <1> SUFFICES ASSUME Init PROVE Types
    OBVIOUS
  <1> USE BoundsAssumption, PathsAssumption, NoneAssumption DEF Init
  <1>1. dir \in [Paths -> Inodes \cup {None}]
    BY DEF Inodes
  <1>2. data \in [Inodes -> [Chunks -> Uploads \cup {Old, None}]]
    BY DEF OldData, Empty
  <1>3. /\ name \in [Uploads -> Names] /\ declared \in [Uploads -> Sizes]
        /\ got \in [Uploads -> 0 .. MaxChunks] /\ put \in [Uploads -> 0 .. MaxChunks]
        /\ \A u \in Uploads : put[u] <= got[u]
        /\ error \in [Uploads -> {"none", "due", "reported"}]
    OBVIOUS
  <1>4. QED
    BY <1>1, <1>2, <1>3 DEF Types, TypeOK, Targets

LEMMA TypesStep == Types /\ [Next]_vars => Types'
  <1> SUFFICES ASSUME Types, [Next]_vars PROVE Types'
    OBVIOUS
  <1> USE BoundsAssumption, PathsAreNotNone DEF Types, TypeOK, Targets, Stem
  <1>1. CASE UNCHANGED vars
    BY <1>1 DEF vars
  <1>2. ASSUME NEW u \in Uploads, Begin(u)
        PROVE  Types'
    <2>1. PICK k \in FreeSuffixes(name[u]) : target' = [target EXCEPT ![u] = Candidate(name[u], k)]
      BY <1>2 DEF Begin
    <2>2. Candidate(name[u], k) \in Paths /\ Candidate(name[u], k)[3] \in {0, 1}
      BY CandidateIsPath DEF FreeSuffixes
    <2>3. QED
      BY <1>2, <2>1, <2>2 DEF Begin, disk, offer
  <1>3. ASSUME NEW u \in Uploads, Refuse(u)
        PROVE  Types'
    BY <1>3 DEF Refuse, disk, offer
  <1>4. ASSUME NEW u \in Uploads, Data(u)
        PROVE  Types'
    BY <1>4 DEF Data, disk, offer
  <1>5. ASSUME NEW u \in Uploads, Lose(u) \/ End(u)
        PROVE  Types'
    BY <1>5 DEF Lose, End, disk, offer
  <1>6. ASSUME NEW u \in Uploads, Open(u)
        PROVE  Types'
    <2>1. Part(target[u]) \in Paths
      BY <1>6, PathParts DEF Open
    <2>2. PICK inode \in Inodes :
            /\ fd' = [fd EXCEPT ![u] = inode]
            /\ dir' = [dir EXCEPT ![Part(target[u])] = inode]
            /\ data' = [data EXCEPT ![inode] = Empty]
      BY <1>6, <2>1 DEF Open, Inodes
    <2>3. Empty \in [Chunks -> Uploads \cup {Old, None}]
      BY DEF Empty
    <2>4. QED
      BY <1>6, <2>1, <2>2, <2>3 DEF Open, offer
  <1>7. ASSUME NEW u \in Uploads, Write(u)
        PROVE  Types'
    <2>1. fd[u] \in Inodes /\ put[u] + 1 \in Chunks
      BY <1>7 DEF Write, Chunks
    <2> DEFINE row == [data[fd[u]] EXCEPT ![put[u] + 1] = u]
    <2>2. data' = [data EXCEPT ![fd[u]] = row]
      BY <1>7 DEF Write
    <2>3. row \in [Chunks -> Uploads \cup {Old, None}]
      BY <2>1
    <2> HIDE DEF row
    <2>4. data' \in [Inodes -> [Chunks -> Uploads \cup {Old, None}]]
      BY <2>1, <2>2, <2>3
    <2>5. QED
      BY <1>7, <2>4 DEF Write, offer
  <1>8. ASSUME NEW u \in Uploads, Store(u) \/ StoreUnwritten(u)
        PROVE  Types'
    <2>1. /\ stage[u] = "ending" /\ Rename(u)
          /\ error' \in [Uploads -> {"none", "due", "reported"}]
          /\ \A v \in Uploads \ {u} : error'[v] = error[v]
          /\ error'[u] # "none" => Stem(u) \in Rough
      BY <1>8 DEF Store, StoreUnwritten
    <2>2. target[u] \in Paths /\ Part(target[u]) \in Paths
      BY <2>1, PathParts
    <2>3. dir' \in [Paths -> Inodes \cup {None}]
      BY <2>1, <2>2 DEF Rename
    <2>4. QED
      BY <2>1, <2>3 DEF Rename, offer
  <1>9. ASSUME NEW u \in Uploads, RenameFails(u) \/ Close(u) \/ StreamError(u) \/ OpenFails(u)
        PROVE  Types'
    BY <1>9 DEF RenameFails, Close, StreamError, OpenFails, disk, offer
  <1>10. ASSUME NEW u \in Uploads, Remove(u)
         PROVE  Types'
    BY <1>10 DEF Remove, offer
  <1>11. ASSUME NEW u \in Uploads, LateError(u)
         PROVE  Types'
    BY <1>11 DEF LateError, offer
  <1>12. QED
    BY <1>1, <1>2, <1>3, <1>4, <1>5, <1>6, <1>7, <1>8, <1>9, <1>10, <1>11
    DEF Next, Sender, Stream, Fault

\* Every variable of the directory keeps its type, and no upload writes more
\* chunks than it accepted.
THEOREM StoreTypes == Spec => []TypeOK
  <1>1. Types => TypeOK
    BY DEF Types
  <1>2. QED
    BY <1>1, TypesInit, TypesStep, PTL DEF Spec

-----------------------------------------------------------------------------
(* The cap *)

LEMMA Counts ==
  ASSUME TypeOK, NEW u \in Uploads
  PROVE  /\ declared[u] \in Nat /\ put[u] \in Nat /\ got[u] \in Nat
         /\ put[u] <= got[u]
  <1>1. declared[u] \in Sizes
    BY DEF TypeOK
  <1>2. put[u] \in 0 .. MaxChunks /\ got[u] \in 0 .. MaxChunks /\ put[u] <= got[u]
    BY DEF TypeOK
  <1>3. declared[u] \in Nat
    BY <1>1, SizesAssumption
  <1>4. put[u] \in Nat /\ got[u] \in Nat
    BY <1>2
  <1>5. QED
    BY <1>2, <1>3, <1>4

LEMMA CappedInit == Init => Capped
  <1> SUFFICES ASSUME Init PROVE Capped
    OBVIOUS
  <1>1. \A i \in Inodes, c \in Chunks : data[i][c] \notin Uploads
    BY NoneAssumption DEF Init, OldData, Empty
  <1>2. \A u \in Uploads : got[u] = 0 /\ declared[u] \in Nat
    BY SizesAssumption DEF Init
  <1>3. QED
    BY <1>1, <1>2 DEF Capped

LEMMA CappedStep == Types /\ Capped /\ [Next]_vars => Capped'
  <1> SUFFICES ASSUME Types, Capped, [Next]_vars PROVE Capped'
    OBVIOUS
  <1> USE BoundsAssumption, SizesAssumption DEF Types, TypeOK, Capped
  <1>1. CASE UNCHANGED vars
    BY <1>1 DEF vars
  <1>2. ASSUME NEW u \in Uploads,
               \/ Begin(u) \/ Refuse(u) \/ Lose(u) \/ End(u)
               \/ RenameFails(u) \/ Close(u) \/ Remove(u) \/ Fault(u) \/ Rename(u)
        PROVE  Capped'
    <2>1. UNCHANGED <<data, declared, got, put>>
      BY <1>2 DEF Begin, Refuse, Lose, End, RenameFails, Close, Remove, Rename,
                  Fault, StreamError, OpenFails, LateError, disk, offer
    <2>2. QED
      BY <2>1
  <1>3. ASSUME NEW u \in Uploads, Data(u)
        PROVE  Capped'
    <2>1. UNCHANGED <<data, declared, put>>
      BY <1>3 DEF Data, disk, offer
    <2>2. declared[u] \in Nat /\ got[u] \in Nat
      BY Counts
    <2>3. CASE declared[u] > 0 /\ got[u] + 1 > declared[u]
      BY <1>3, <2>1, <2>3 DEF Data
    <2>4. CASE ~(declared[u] > 0 /\ got[u] + 1 > declared[u])
      <3>1. got' = [got EXCEPT ![u] = got[u] + 1]
        BY <1>3, <2>4 DEF Data
      <3>2. declared[u] > 0 => got[u] + 1 <= declared[u]
        BY <2>2, <2>4
      <3>3. \A v \in Uploads : declared[v] > 0 => got'[v] <= declared[v]
        BY <3>1, <3>2
      <3>4. QED
        BY <2>1, <3>3
    <2>5. QED
      BY <2>3, <2>4
  <1>4. ASSUME NEW u \in Uploads, Open(u)
        PROVE  Capped'
    <2>1. PICK inode \in Inodes \cup {None} : data' = [data EXCEPT ![inode] = Empty]
      <3>1. Part(target[u]) \in Paths
        BY <1>4, PathParts, PathsAreNotNone DEF Open, Targets
      <3>2. QED
        BY <1>4, <3>1 DEF Open, Inodes
    <2>2. \A c \in Chunks : Empty[c] \notin Uploads
      BY NoneAssumption DEF Empty
    <2>3. QED
      BY <1>4, <2>1, <2>2 DEF Open, offer
  <1>5. ASSUME NEW u \in Uploads, Write(u)
        PROVE  Capped'
    <2>1. \A i \in Inodes, c \in Chunks :
            data'[i][c] = data[i][c] \/ (data'[i][c] = u /\ c = put[u] + 1)
      <3> DEFINE row == [data[fd[u]] EXCEPT ![put[u] + 1] = u]
      <3>1. fd[u] \in Inodes /\ put[u] + 1 \in Chunks
        BY <1>5 DEF Write, Chunks
      <3>2. data' = [data EXCEPT ![fd[u]] = row]
        BY <1>5 DEF Write
      <3>3. \A c \in Chunks : row[c] = data[fd[u]][c] \/ (row[c] = u /\ c = put[u] + 1)
        BY <3>1
      <3> HIDE DEF row
      <3>4. QED
        BY <3>1, <3>2, <3>3
    <2>2. put' = [put EXCEPT ![u] = put[u] + 1] /\ UNCHANGED <<declared, got>>
      BY <1>5 DEF Write, offer
    <2>3. put[u] \in Nat
      BY Counts
    <2>4. \A v \in Uploads, i \in Inodes, c \in Chunks : data'[i][c] = v => c <= put'[v]
      <3>1. \A v \in Uploads, i \in Inodes, c \in Chunks :
              data[i][c] = v => c <= put'[v] /\ c <= put[v]
        <4>1. \A v \in Uploads, c \in Chunks : c <= put[v] => c <= put'[v]
          BY <2>2, <2>3 DEF Chunks
        <4>2. QED
          BY <4>1
      <3>2. put'[u] = put[u] + 1 /\ put[u] + 1 <= put'[u]
        BY <2>2, <2>3
      <3>3. QED
        BY <2>1, <3>1, <3>2
    <2>5. QED
      BY <2>2, <2>4
  <1>6. QED
    BY <1>1, <1>2, <1>3, <1>4, <1>5 DEF Next, Sender, Stream, Store, StoreUnwritten

\* Of an upload that declared more than nothing, no inode ever holds more than it
\* declared, whoever else writes to it.
THEOREM PositiveSizesAreKept == Spec => []PositiveSizeKept
  <1>1. Types /\ Capped => PositiveSizeKept
    <2> SUFFICES ASSUME Types, Capped, NEW u \in Uploads, declared[u] > 0, NEW i \in Inodes
                 PROVE  Cardinality({c \in Chunks : data[i][c] = u}) <= declared[u]
      BY DEF PositiveSizeKept
    <2> DEFINE mine == {c \in Chunks : data[i][c] = u}
    <2>1. /\ declared[u] \in Nat /\ put[u] \in Nat /\ got[u] \in Nat
          /\ put[u] <= got[u] /\ got[u] <= declared[u]
      BY Counts DEF Types, Capped
    <2>2. mine \subseteq 1 .. declared[u]
      BY <2>1, BoundsAssumption DEF Capped, Chunks
    <2>3. IsFiniteSet(1 .. declared[u]) /\ Cardinality(1 .. declared[u]) = declared[u]
      <3>1. 1 \in Int /\ declared[u] \in Int /\ declared[u] >= 1
        BY <2>1
      <3>2. /\ IsFiniteSet(1 .. declared[u])
            /\ Cardinality(1 .. declared[u]) = IF 1 > declared[u] THEN 0 ELSE declared[u] - 1 + 1
        BY <3>1, FS_Interval
      <3>3. QED
        BY <2>1, <3>1, <3>2
    <2>4. Cardinality(mine) <= Cardinality(1 .. declared[u])
      BY <2>2, <2>3, FS_Subset
    <2>5. QED
      BY <2>3, <2>4
  <1>2. QED
    BY <1>1, TypesInit, TypesStep, CappedInit, CappedStep, PTL DEF Spec

-----------------------------------------------------------------------------
(* Partial files *)

LEMMA AccountedInit == Init => Accounted
  BY NoneAssumption, PathsAssumption DEF Init, Accounted

LEMMA AccountedStep == Types /\ Accounted /\ [Next]_vars => Accounted'
  <1> SUFFICES ASSUME Types, Accounted, [Next]_vars,
                      NEW p \in Paths, dir'[p] \in Uploads
               PROVE  \/ \E u \in Uploads : stage'[u] = "stored" /\ target'[u] = p
                      \/ \E u \in Uploads : Responsible(u)' /\ Part(target'[u]) = p
    BY DEF Accounted
  <1> USE PathsAreNotNone DEF Types, TypeOK, Accounted, Responsible
  <1>1. CASE UNCHANGED vars
    BY <1>1 DEF vars
  <1>2. ASSUME NEW u \in Uploads, Begin(u) \/ Refuse(u)
        PROVE  \/ \E v \in Uploads : stage'[v] = "stored" /\ target'[v] = p
               \/ \E v \in Uploads : Responsible(v)' /\ Part(target'[v]) = p
    <2>1. dir' = dir /\ stage[u] = "waiting"
      BY <1>2 DEF Begin, Refuse, disk
    <2>2. \A v \in Uploads \ {u} : stage'[v] = stage[v] /\ target'[v] = target[v]
      BY <1>2 DEF Begin, Refuse
    <2>3. QED
      BY <2>1, <2>2
  <1>3. ASSUME NEW u \in Uploads,
               \/ Data(u) \/ Lose(u) \/ End(u) \/ RenameFails(u) \/ Close(u)
               \/ StreamError(u) \/ OpenFails(u) \/ Write(u)
        PROVE  \/ \E v \in Uploads : stage'[v] = "stored" /\ target'[v] = p
               \/ \E v \in Uploads : Responsible(v)' /\ Part(target'[v]) = p
    <2>1. dir' = dir /\ target' = target
      BY <1>3 DEF Data, Lose, End, RenameFails, Close, StreamError, OpenFails, Write, disk
    <2>2. \A v \in Uploads :
            (stage[v] = "stored" => stage'[v] = "stored") /\ (Responsible(v) => Responsible(v)')
      BY <1>3 DEF Data, Lose, End, RenameFails, Close, StreamError, OpenFails, Write
    <2>3. QED
      BY <2>1, <2>2
  <1>4. ASSUME NEW u \in Uploads, Open(u)
        PROVE  \/ \E v \in Uploads : stage'[v] = "stored" /\ target'[v] = p
               \/ \E v \in Uploads : Responsible(v)' /\ Part(target'[v]) = p
    <2>1. p # Part(target[u]) => dir'[p] = dir[p]
      BY <1>4 DEF Open
    <2>2. Responsible(u) /\ UNCHANGED <<stage, target>>
      BY <1>4 DEF Open
    <2>3. QED
      BY <2>1, <2>2
  <1>5. ASSUME NEW u \in Uploads, stage[u] = "ending", Rename(u)
        PROVE  \/ \E v \in Uploads : stage'[v] = "stored" /\ target'[v] = p
               \/ \E v \in Uploads : Responsible(v)' /\ Part(target'[v]) = p
    <2>1. /\ target[u] \in Paths /\ Part(target[u]) \in Paths
          /\ Part(target[u]) # target[u]
      BY <1>5, PathParts DEF Targets
    <2>2. /\ stage' = [stage EXCEPT ![u] = "stored"] /\ target' = target
          /\ p # target[u] => p # Part(target[u]) /\ dir'[p] = dir[p]
      BY <1>5, <2>1, NoneAssumption DEF Rename
    <2>3. QED
      BY <1>5, <2>2
  <1>6. ASSUME NEW u \in Uploads, Remove(u)
        PROVE  \/ \E v \in Uploads : stage'[v] = "stored" /\ target'[v] = p
               \/ \E v \in Uploads : Responsible(v)' /\ Part(target'[v]) = p
    <2>1. Part(target[u]) \in Paths
      BY <1>6, PathParts DEF Remove, Targets
    <2>2. p # Part(target[u]) /\ dir'[p] = dir[p]
      BY <1>6, <2>1, NoneAssumption DEF Remove
    <2>3. stage' = [stage EXCEPT ![u] = "failed"] /\ target' = target /\ stage[u] = "removing"
      BY <1>6 DEF Remove
    <2>4. QED
      BY <2>2, <2>3
  <1>7. ASSUME NEW u \in Uploads, LateError(u)
        PROVE  \/ \E v \in Uploads : stage'[v] = "stored" /\ target'[v] = p
               \/ \E v \in Uploads : Responsible(v)' /\ Part(target'[v]) = p
    <2>1. Part(target[u]) \in Paths
      BY <1>7, PathParts DEF LateError, Targets
    <2>2. dir'[p] = dir[p] /\ UNCHANGED <<stage, target>>
      BY <1>7, <2>1, NoneAssumption DEF LateError
    <2>3. QED
      BY <2>2
  <1>8. QED
    BY <1>1, <1>2, <1>3, <1>4, <1>5, <1>6, <1>7 DEF Next, Sender, Stream, Fault, Store, StoreUnwritten

\* However uploads overlap, are cut off or meet a failing disk: once all are
\* settled, the only files they leave are those they stored.
THEOREM NothingStray == Spec => []NoStrayPart
  <1>1. Accounted => NoStrayPart
    BY DEF Accounted, NoStrayPart, Responsible, Settled, StoredUploads
  <1>2. QED
    BY <1>1, TypesInit, TypesStep, AccountedInit, AccountedStep, PTL DEF Spec

-----------------------------------------------------------------------------
(* An upload that has its path to itself *)

\* No name ends in ".part" by itself.
Plain == \A n \in Names : n[2] = 0

Streams(u) == stage[u] \in {"reading", "ending", "discarding"}

\* Partial files and places are kept apart.
Aimed == \A u \in Uploads : target[u] # None => target[u][3] = 0

\* An upload writes from its first chunk on, while its stream is there.
Handles ==
  \A u \in Uploads :
    /\ fd[u] # None => Streams(u)
    /\ stage[u] = "waiting" => target[u] = None
    /\ stage[u] = "waiting" \/ (Streams(u) /\ fd[u] = None) => put[u] = 0

\* Every inode has one name, an inode of an upload appears when its stream
\* opens, and the one a stream has open is found under its upload's paths only.
Links ==
  /\ \A p, q \in Paths : dir[p] # None /\ dir[p] = dir[q] => p = q
  /\ \A u \in Uploads, p \in Paths :
       dir[p] = u => fd[u] # None \/ stage[u] \in {"removing", "stored", "failed"}
  /\ \A u, v \in Uploads :
       fd[v] = u => fd[u] # None \/ stage[u] \in {"removing", "stored", "failed"}
  /\ \A u \in Uploads, p \in Paths :
       fd[u] # None /\ dir[p] = fd[u] => p \in {target[u], Part(target[u])}

Linked == Types /\ Aimed /\ Handles /\ Links

\* No other upload was given the path.
Sole(u) == target[u] # None /\ \A v \in Uploads \ {u} : target[v] # target[u]

\* What an upload has written is in its file, and once it is stored without an
\* error that is all it was sent.
Keeps(u) ==
  /\ fd[u] # None => dir[Part(target[u])] = fd[u] /\ data[fd[u]] = Body(u, put[u])
  /\ stage[u] = "stored" /\ error[u] = "none" => Intact(u)

SoleKept == \A u \in Uploads : Sole(u) => Keeps(u)

LEMMA LinkedInit == Init => Linked
  <1> SUFFICES ASSUME Init PROVE Linked
    OBVIOUS
  <1>1. Types
    BY TypesInit
  <1>2. Aimed /\ Handles /\ Links
    BY NoneAssumption, PathsAssumption DEF Init, Aimed, Handles, Links, Streams
  <1>3. QED
    BY <1>1, <1>2 DEF Linked

\* The paths of an upload that has begun, and how those of two are related.
LEMMA PathsOf ==
  ASSUME Types, Aimed
  PROVE  /\ \A u \in Uploads : target[u] # None =>
              /\ target[u] \in Paths /\ Part(target[u]) \in Paths
              /\ target[u][3] = 0 /\ Part(target[u])[3] = 1
         /\ \A u, v \in Uploads : target[u] # None /\ target[v] # None =>
              target[u] # Part(target[v]) /\ (Part(target[u]) = Part(target[v]) => target[u] = target[v])
         /\ \A u \in Uploads : stage[u] \notin {"waiting", "failed"} => target[u] # None
  <1>1. ASSUME NEW u \in Uploads, target[u] # None
        PROVE  /\ target[u] \in Paths /\ Part(target[u]) \in Paths
               /\ target[u][3] = 0 /\ Part(target[u])[3] = 1
               /\ target[u] = <<target[u][1], target[u][2], 0>>
    BY <1>1, PathParts DEF Types, TypeOK, Aimed, Part, Paths
  <1>2. ASSUME NEW u \in Uploads, NEW v \in Uploads, target[u] # None, target[v] # None,
               Part(target[u]) = Part(target[v])
        PROVE  target[u] = target[v]
    <2>1. target[u][1] = target[v][1] /\ target[u][2] = target[v][2]
      BY <1>2 DEF Part
    <2>2. QED
      BY <1>1, <1>2, <2>1
  <1>3. \A u \in Uploads : stage[u] \notin {"waiting", "failed"} => target[u] # None
    BY DEF Types, Targets
  <1>4. QED
    BY <1>1, <1>2, <1>3

\* Steps that change no inode and no count of an upload.
LEMMA LinkedStages ==
  ASSUME Linked, NEW u \in Uploads,
         \/ Refuse(u) \/ Lose(u) \/ End(u) \/ RenameFails(u) \/ Close(u)
         \/ StreamError(u) \/ OpenFails(u) \/ Data(u)
  PROVE  /\ Aimed' /\ Handles' /\ Links'
         /\ UNCHANGED <<dir, data, target, put, error>>
         /\ \A v \in Uploads : stage[v] = "stored" => got'[v] = got[v]
         /\ \A v \in Uploads : fd'[v] # None => fd'[v] = fd[v]
         /\ \A v \in Uploads : stage'[v] = "stored" => stage[v] = "stored"
  <1>1. /\ UNCHANGED <<dir, data, target, put, error>>
        /\ \A v \in Uploads \ {u} : stage'[v] = stage[v] /\ fd'[v] = fd[v] /\ got'[v] = got[v]
        /\ stage[u] # "stored" /\ stage'[u] # "stored" /\ stage'[u] # "waiting"
        /\ Streams(u)' => Streams(u) /\ fd'[u] = fd[u]
        /\ ~Streams(u)' => fd'[u] = None /\ stage'[u] \in {"removing", "failed"}
    BY DEF Refuse, Lose, End, RenameFails, Close, StreamError, OpenFails, Data, disk, offer, Streams,
           Linked, Types, TypeOK, Handles
  <1>2. Aimed' /\ Handles' /\ Links'
    BY <1>1 DEF Linked, Aimed, Handles, Links, Streams
  <1>3. QED
    BY <1>1, <1>2

LEMMA LinkedBegin ==
  ASSUME Plain, Linked, NEW u \in Uploads, Begin(u)
  PROVE  /\ Aimed' /\ Handles' /\ Links'
         /\ UNCHANGED <<dir, data, got, put, fd, error>>
         /\ \A v \in Uploads \ {u} : stage'[v] = stage[v] /\ target'[v] = target[v]
         /\ fd'[u] = None /\ stage'[u] = "reading"
  <1>1. PICK k \in FreeSuffixes(name[u]) : target' = [target EXCEPT ![u] = Candidate(name[u], k)]
    BY DEF Begin
  <1>2. target'[u][3] = 0 /\ \A v \in Uploads \ {u} : target'[v] = target[v]
    BY <1>1 DEF Plain, Candidate, Linked, Types, TypeOK
  <1>3. /\ UNCHANGED <<dir, data, got, put, fd, error>>
        /\ \A v \in Uploads \ {u} : stage'[v] = stage[v]
        /\ stage[u] = "waiting" /\ stage'[u] = "reading" /\ fd[u] = None
    BY DEF Begin, disk, offer, Linked, Types, TypeOK, Handles, Streams
  <1>4. Aimed' /\ Handles' /\ Links'
    BY <1>2, <1>3 DEF Linked, Aimed, Handles, Links, Streams
  <1>5. QED
    BY <1>2, <1>3, <1>4

\* The inode a stream opens has no other name.
LEMMA OpenFacts ==
  ASSUME Linked, NEW u \in Uploads, Open(u)
  PROVE  \E part \in Paths, inode \in Inodes :
           /\ part = Part(target[u]) /\ part[3] = 1 /\ target[u] # None
           /\ inode # None /\ inode = (IF dir[part] = None THEN u ELSE dir[part])
           /\ dir'[part] = inode /\ \A p \in Paths \ {part} : dir'[p] = dir[p]
           /\ \A p \in Paths \ {part} : dir[p] # None => dir[p] # inode
           /\ fd'[u] = inode /\ \A v \in Uploads \ {u} : fd'[v] = fd[v]
           /\ data'[inode] = Empty /\ \A i \in Inodes \ {inode} : data'[i] = data[i]
           /\ UNCHANGED <<stage, target, got, put, error>>
           /\ Streams(u) /\ fd[u] = None /\ put[u] = 0
  <1>1. target[u] # None /\ Streams(u) /\ fd[u] = None
    BY PathsOf DEF Open, Streams, Linked
  <1>2. PICK part \in Paths : part = Part(target[u]) /\ part[3] = 1
    BY <1>1, PathsOf DEF Linked
  <1>3. PICK inode \in Inodes : inode = (IF dir[part] = None THEN u ELSE dir[part])
    BY DEF Inodes, Linked, Types, TypeOK
  <1>4. inode # None /\ put[u] = 0
    BY <1>1, <1>3, NoneAssumption DEF Linked, Handles
  <1>5. /\ fd' = [fd EXCEPT ![u] = inode]
        /\ dir' = [dir EXCEPT ![part] = inode]
        /\ data' = [data EXCEPT ![inode] = Empty]
        /\ UNCHANGED <<stage, target, got, put, error>>
    BY <1>2, <1>3 DEF Open
  <1>6. \A p \in Paths \ {part} : dir[p] # None => dir[p] # inode
    <2>1. \A p \in Paths : dir[p] # u
      BY <1>1 DEF Linked, Links, Streams
    <2>2. QED
      BY <1>2, <1>3, <2>1 DEF Linked, Links
  <1>7. /\ dir'[part] = inode /\ \A p \in Paths \ {part} : dir'[p] = dir[p]
        /\ fd'[u] = inode /\ \A v \in Uploads \ {u} : fd'[v] = fd[v]
        /\ data'[inode] = Empty /\ \A i \in Inodes \ {inode} : data'[i] = data[i]
    BY <1>3, <1>5 DEF Linked, Types, TypeOK
  <1>8. QED
    BY <1>1, <1>2, <1>3, <1>4, <1>5, <1>6, <1>7

LEMMA LinkedOpen ==
  ASSUME Linked, NEW u \in Uploads, Open(u)
  PROVE  Aimed' /\ Handles' /\ Links'
  <1>1. PICK part \in Paths, inode \in Inodes :
           /\ part = Part(target[u]) /\ part[3] = 1 /\ target[u] # None
           /\ inode # None /\ inode = (IF dir[part] = None THEN u ELSE dir[part])
           /\ dir'[part] = inode /\ \A p \in Paths \ {part} : dir'[p] = dir[p]
           /\ \A p \in Paths \ {part} : dir[p] # None => dir[p] # inode
           /\ fd'[u] = inode /\ \A v \in Uploads \ {u} : fd'[v] = fd[v]
           /\ data'[inode] = Empty /\ \A i \in Inodes \ {inode} : data'[i] = data[i]
           /\ UNCHANGED <<stage, target, got, put, error>>
           /\ Streams(u) /\ fd[u] = None /\ put[u] = 0
    BY OpenFacts
  <1>2. Aimed' /\ Handles'
    BY <1>1 DEF Linked, Aimed, Handles, Streams
  <1>3. \A p, q \in Paths : dir'[p] # None /\ dir'[p] = dir'[q] => p = q
    BY <1>1 DEF Linked, Links
  <1>4. ASSUME NEW v \in Uploads, NEW p \in Paths, dir'[p] = v
        PROVE  fd'[v] # None \/ stage'[v] \in {"removing", "stored", "failed"}
    <2>1. v # u => dir[p] = v
      BY <1>1, <1>4, NoneAssumption
    <2>2. QED
      BY <1>1, <2>1 DEF Linked, Links
  <1>5. ASSUME NEW v \in Uploads, NEW p \in Paths, fd'[v] # None, dir'[p] = fd'[v]
        PROVE  p \in {target[v], Part(target[v])}
    <2>1. CASE v = u
      BY <1>1, <1>5, <2>1
    <2>2. CASE v # u /\ p # part
      BY <1>1, <1>5, <2>2 DEF Linked, Links
    <2>3. CASE v # u /\ p = part
      <3>1. fd[v] = inode /\ fd[v] # None
        BY <1>1, <1>5, <2>3
      <3>2. CASE dir[part] = None
        <4>1. fd[v] # u
          BY <1>1 DEF Linked, Links, Streams
        <4>2. QED
          BY <1>1, <3>1, <3>2, <4>1
      <3>3. CASE dir[part] # None
        BY <1>1, <2>3, <3>1, <3>3 DEF Linked, Links
      <3>4. QED
        BY <3>2, <3>3
    <2>4. QED
      BY <2>1, <2>2, <2>3
  <1>6. ASSUME NEW v \in Uploads, NEW w \in Uploads, fd'[w] = v
        PROVE  fd'[v] # None \/ stage'[v] \in {"removing", "stored", "failed"}
    <2>1. CASE w # u
      BY <1>1, <1>6, <2>1 DEF Linked, Links
    <2>2. CASE w = u /\ v # u
      BY <1>1, <1>6, <2>2 DEF Linked, Links
    <2>3. CASE v = u
      BY <1>1, <2>3
    <2>4. QED
      BY <2>1, <2>2, <2>3
  <1>7. QED
    BY <1>1, <1>2, <1>3, <1>4, <1>5, <1>6 DEF Links

LEMMA WriteFacts ==
  ASSUME Types, Handles, NEW u \in Uploads, Write(u)
  PROVE  /\ fd[u] # None /\ fd[u] \in Inodes /\ put'[u] = put[u] + 1
         /\ \A v \in Uploads \ {u} : put'[v] = put[v]
         /\ data[fd[u]] = Body(u, put[u]) => data'[fd[u]] = Body(u, put[u] + 1)
         /\ \A i \in Inodes \ {fd[u]} : data'[i] = data[i]
         /\ UNCHANGED <<dir, stage, target, fd, got, error>> /\ Streams(u)
  <1>1. /\ fd[u] # None /\ fd[u] \in Inodes /\ put[u] \in Nat /\ put[u] + 1 \in Chunks
        /\ put'[u] = put[u] + 1 /\ \A v \in Uploads \ {u} : put'[v] = put[v]
        /\ UNCHANGED <<dir, stage, target, fd, got, error>> /\ Streams(u)
    BY BoundsAssumption DEF Write, offer, Streams, Chunks, Types, TypeOK
  <1> DEFINE row == [data[fd[u]] EXCEPT ![put[u] + 1] = u]
  <1>2. data' = [data EXCEPT ![fd[u]] = row]
    BY DEF Write
  <1>3. ASSUME data[fd[u]] = Body(u, put[u])
        PROVE  row = Body(u, put[u] + 1)
    <2> DEFINE old == Body(u, put[u])
               new == Body(u, put[u] + 1)
    <2>1. row = [old EXCEPT ![put[u] + 1] = u]
      BY <1>3
    <2>2. \A c \in Chunks : new[c] = IF c = put[u] + 1 THEN u ELSE old[c]
      BY <1>1 DEF Body, Chunks
    <2>3. new = [c \in Chunks |-> new[c]] /\ old = [c \in Chunks |-> old[c]]
      BY DEF Body
    <2> HIDE DEF old, new, row
    <2>4. row = new
      BY <1>1, <2>1, <2>2, <2>3
    <2>5. QED
      BY <2>4 DEF new
  <1> HIDE DEF row
  <1>4. data'[fd[u]] = row /\ \A i \in Inodes \ {fd[u]} : data'[i] = data[i]
    BY <1>1, <1>2 DEF Types, TypeOK
  <1>5. QED
    BY <1>1, <1>3, <1>4

LEMMA LinkedWrite ==
  ASSUME Linked, NEW u \in Uploads, Write(u)
  PROVE  Aimed' /\ Handles' /\ Links'
  <1>1. /\ UNCHANGED <<dir, stage, target, fd>> /\ Streams(u) /\ fd[u] # None
        /\ \A v \in Uploads \ {u} : put'[v] = put[v]
    BY WriteFacts DEF Linked
  <1>2. QED
    BY <1>1 DEF Linked, Aimed, Handles, Links, Streams

LEMMA LinkedRemove ==
  ASSUME Linked, NEW u \in Uploads, Remove(u)
  PROVE  /\ Aimed' /\ Handles' /\ Links'
         /\ \A p \in Paths \ {Part(target[u])} : dir'[p] = dir[p]
         /\ UNCHANGED <<data, target, fd, got, put, error>> /\ target[u] # None
         /\ \A v \in Uploads : stage'[v] = "stored" => stage[v] = "stored"
  <1>1. /\ stage[u] = "removing" /\ stage'[u] = "failed" /\ target[u] # None
        /\ \A v \in Uploads \ {u} : stage'[v] = stage[v]
        /\ UNCHANGED <<data, target, fd, got, put, error>>
    BY PathsOf DEF Remove, offer, Linked, Types, TypeOK
  <1>2. PICK part \in Paths : part = Part(target[u])
    BY <1>1, PathsOf DEF Linked
  <1>3. dir'[part] = None /\ \A p \in Paths \ {part} : dir'[p] = dir[p]
    BY <1>2 DEF Remove, Linked, Types, TypeOK
  <1>4. Aimed' /\ Handles'
    BY <1>1 DEF Linked, Aimed, Handles, Streams
  <1>5. Links'
    BY <1>1, <1>3, NoneAssumption DEF Linked, Links
  <1>6. QED
    BY <1>1, <1>2, <1>3, <1>4, <1>5

LEMMA LinkedLate ==
  ASSUME Linked, NEW u \in Uploads, LateError(u)
  PROVE  /\ Aimed' /\ Handles' /\ Links'
         /\ \A p \in Paths \ {Part(target[u])} : dir'[p] = dir[p]
         /\ dir'[Part(target[u])] = None
         /\ UNCHANGED <<data, name, stage, target, fd, got, put>>
         /\ target[u] # None /\ stage[u] = "stored" /\ error'[u] = "reported"
         /\ \A v \in Uploads \ {u} : error'[v] = error[v]
  <1>1. /\ stage[u] = "stored" /\ target[u] # None /\ error'[u] = "reported"
        /\ \A v \in Uploads \ {u} : error'[v] = error[v]
        /\ UNCHANGED <<data, name, stage, target, fd, got, put>>
    BY PathsOf DEF LateError, offer, Linked, Types, TypeOK, Targets
  <1>2. PICK part \in Paths : part = Part(target[u])
    BY <1>1, PathsOf DEF Linked
  <1>3. dir'[part] = None /\ \A p \in Paths \ {part} : dir'[p] = dir[p]
    BY <1>2 DEF LateError, Linked, Types, TypeOK
  <1>4. Aimed' /\ Handles'
    BY <1>1 DEF Linked, Aimed, Handles, Streams
  <1>5. Links'
    BY <1>1, <1>3, NoneAssumption DEF Linked, Links
  <1>6. QED
    BY <1>1, <1>2, <1>3, <1>4, <1>5

LEMMA RenameFacts ==
  ASSUME Linked, NEW u \in Uploads, Store(u) \/ StoreUnwritten(u)
  PROVE  \E part \in Paths, place \in Paths :
           /\ part = Part(target[u]) /\ place = target[u] /\ part # place
           /\ dir[part] # None /\ dir'[place] = dir[part] /\ dir'[part] = None
           /\ \A p \in Paths \ {part, place} : dir'[p] = dir[p]
           /\ stage[u] = "ending" /\ stage'[u] = "stored" /\ fd'[u] = None
           /\ \A v \in Uploads \ {u} : stage'[v] = stage[v] /\ fd'[v] = fd[v] /\ error'[v] = error[v]
           /\ error'[u] = "none" => fd[u] # None /\ put[u] = got[u]
           /\ UNCHANGED <<data, target, got, put>>
  <1>1. /\ stage[u] = "ending" /\ Rename(u)
        /\ \A v \in Uploads \ {u} : error'[v] = error[v]
        /\ error'[u] = "none" => fd[u] # None /\ put[u] = got[u]
    BY DEF Store, StoreUnwritten, Linked, Types, TypeOK
  <1>2. PICK part \in Paths, place \in Paths : part = Part(target[u]) /\ place = target[u] /\ part # place
    BY <1>1, PathsOf DEF Linked
  <1>3. /\ dir[part] # None /\ dir'[place] = dir[part] /\ dir'[part] = None
        /\ \A p \in Paths \ {part, place} : dir'[p] = dir[p]
    BY <1>1, <1>2 DEF Rename, Linked, Types, TypeOK
  <1>4. /\ stage'[u] = "stored" /\ fd'[u] = None
        /\ \A v \in Uploads \ {u} : stage'[v] = stage[v] /\ fd'[v] = fd[v]
        /\ UNCHANGED <<data, target, got, put>>
    BY <1>1 DEF Rename, Linked, Types, TypeOK
  <1>5. QED
    BY <1>1, <1>2, <1>3, <1>4

LEMMA LinkedRename ==
  ASSUME Linked, NEW u \in Uploads, Store(u) \/ StoreUnwritten(u)
  PROVE  Aimed' /\ Handles' /\ Links'
  <1>1. PICK part \in Paths, place \in Paths :
           /\ part = Part(target[u]) /\ place = target[u] /\ part # place
           /\ dir[part] # None /\ dir'[place] = dir[part] /\ dir'[part] = None
           /\ \A p \in Paths \ {part, place} : dir'[p] = dir[p]
           /\ stage[u] = "ending" /\ stage'[u] = "stored" /\ fd'[u] = None
           /\ \A v \in Uploads \ {u} : stage'[v] = stage[v] /\ fd'[v] = fd[v] /\ error'[v] = error[v]
           /\ error'[u] = "none" => fd[u] # None /\ put[u] = got[u]
           /\ UNCHANGED <<data, target, got, put>>
    BY RenameFacts
  <1>2. Aimed' /\ Handles'
    BY <1>1 DEF Linked, Aimed, Handles, Streams
  <1>3. \A p, q \in Paths : dir'[p] # None /\ dir'[p] = dir'[q] => p = q
    BY <1>1 DEF Linked, Links
  <1>4. \A v \in Uploads, p \in Paths :
          dir'[p] = v => fd'[v] # None \/ stage'[v] \in {"removing", "stored", "failed"}
    <2>1. \A v \in Uploads, p \in Paths : dir'[p] = v => \E q \in Paths : dir[q] = v
      BY <1>1, NoneAssumption
    <2>2. QED
      BY <1>1, <2>1 DEF Linked, Links
  <1>5. \A v, w \in Uploads :
          fd'[w] = v => fd'[v] # None \/ stage'[v] \in {"removing", "stored", "failed"}
    BY <1>1, NoneAssumption DEF Linked, Links
  <1>6. ASSUME NEW v \in Uploads, NEW p \in Paths, fd'[v] # None, dir'[p] = fd'[v]
        PROVE  p \in {target'[v], Part(target'[v])}
    <2>1. v # u /\ fd[v] # None /\ fd[v] = fd'[v] /\ target[v] # None /\ target' = target /\ target[u] # None
      BY <1>1, <1>6, PathsOf DEF Linked, Handles, Streams
    <2>2. CASE p # place
      BY <1>1, <1>6, <2>1, <2>2 DEF Linked, Links
    <2>3. CASE p = place
      <3>1. dir[part] = fd[v]
        BY <1>1, <1>6, <2>1, <2>3
      <3>2. part \in {target[v], Part(target[v])}
        BY <1>1, <2>1, <3>1 DEF Linked, Links
      <3>3. Part(target[u]) = Part(target[v])
        BY <1>1, <2>1, <3>2, PathsOf DEF Linked
      <3>4. target[u] = target[v]
        BY <2>1, <3>3, PathsOf DEF Linked
      <3>5. QED
        BY <1>1, <2>1, <2>3, <3>4
    <2>4. QED
      BY <2>2, <2>3
  <1>7. QED
    BY <1>1, <1>2, <1>3, <1>4, <1>5, <1>6 DEF Links

LEMMA LinkedStep == Plain /\ Linked /\ [Next]_vars => Linked'
  <1> SUFFICES ASSUME Plain, Linked, [Next]_vars PROVE Linked'
    OBVIOUS
  <1>1. Types'
    BY TypesStep DEF Linked
  <1>2. CASE UNCHANGED vars
    BY <1>1, <1>2 DEF vars, Linked, Aimed, Handles, Links, Streams
  <1>3. ASSUME NEW u \in Uploads, Sender(u) \/ Stream(u) \/ Fault(u)
        PROVE  Aimed' /\ Handles' /\ Links'
    BY <1>3, LinkedStages, LinkedBegin, LinkedOpen, LinkedWrite, LinkedRemove, LinkedRename, LinkedLate
    DEF Sender, Stream, Fault
  <1>4. QED
    BY <1>1, <1>2, <1>3 DEF Next, Linked

\* The paths of an upload that has its own are no other's.
LEMMA SoleApart ==
  ASSUME Linked, NEW u \in Uploads, Sole(u), NEW v \in Uploads \ {u}, target[v] # None
  PROVE  /\ target[u] \in Paths /\ Part(target[u]) \in Paths
         /\ target[u] \notin {target[v], Part(target[v])}
         /\ Part(target[u]) \notin {target[v], Part(target[v])}
  BY PathsOf DEF Linked, Sole

\* A stored file is not what another upload's stream has open.
LEMMA OthersOpen ==
  ASSUME Linked, NEW u \in Uploads, Sole(u), Keeps(u), NEW v \in Uploads \ {u}, fd[v] # None
  PROVE  /\ fd[u] # None => fd[v] # fd[u]
         /\ stage[u] = "stored" /\ error[u] = "none" => fd[v] # dir[target[u]]
  <1>1. target[v] # None /\ target[u] # None
    BY PathsOf DEF Linked, Handles, Streams, Sole
  <1>2. /\ Part(target[u]) \in Paths /\ target[u] \in Paths
        /\ target[u] \notin {target[v], Part(target[v])}
        /\ Part(target[u]) \notin {target[v], Part(target[v])}
    BY <1>1, SoleApart
  <1>3. dir[target[u]] # fd[v] /\ dir[Part(target[u])] # fd[v]
    BY <1>2 DEF Linked, Links
  <1>4. QED
    BY <1>3 DEF Keeps, Intact

LEMMA SoleStep == Plain /\ Linked /\ SoleKept /\ [Next]_vars => SoleKept'
  <1> SUFFICES ASSUME Plain, Linked, SoleKept, [Next]_vars, NEW u \in Uploads, Sole(u)'
               PROVE  Keeps(u)'
    BY DEF SoleKept
  <1>1. CASE UNCHANGED vars
    BY <1>1 DEF vars, SoleKept, Sole, Keeps, Intact
  <1>2. ASSUME NEW v \in Uploads,
               \/ Refuse(v) \/ Lose(v) \/ End(v) \/ RenameFails(v) \/ Close(v) \/ StreamError(v)
               \/ OpenFails(v) \/ Data(v)
        PROVE  Keeps(u)'
    <2>1. /\ UNCHANGED <<dir, data, target, put, error>>
          /\ \A w \in Uploads : stage[w] = "stored" => got'[w] = got[w]
          /\ \A w \in Uploads : fd'[w] # None => fd'[w] = fd[w]
          /\ \A w \in Uploads : stage'[w] = "stored" => stage[w] = "stored"
      BY <1>2, LinkedStages
    <2>2. Sole(u) /\ Keeps(u)
      BY <2>1 DEF Sole, SoleKept
    <2>3. QED
      BY <2>1, <2>2 DEF Keeps, Intact
  <1>3. ASSUME NEW v \in Uploads, Begin(v)
        PROVE  Keeps(u)'
    <2>1. /\ UNCHANGED <<dir, data, got, put, fd, error>>
          /\ \A w \in Uploads \ {v} : stage'[w] = stage[w] /\ target'[w] = target[w]
          /\ fd'[v] = None /\ stage'[v] = "reading"
      BY <1>3, LinkedBegin
    <2>2. CASE u = v
      BY <2>1, <2>2 DEF Keeps
    <2>3. CASE u # v
      <3>1. fd[u] # None \/ stage[u] = "stored" => Keeps(u)
        <4>1. SUFFICES ASSUME fd[u] # None \/ stage[u] = "stored" PROVE Sole(u)
          BY <4>1 DEF SoleKept
        <4>2. target[u] # None /\ \A w \in Uploads \ {u, v} : target[w] # target[u]
          BY <2>1, <2>3 DEF Sole
        <4>3. target[v] = None
          BY <1>3 DEF Begin, Linked, Handles
        <4>4. QED
          BY <4>2, <4>3 DEF Sole
      <3>2. QED
        BY <2>1, <2>3, <3>1 DEF Keeps, Intact
    <2>4. QED
      BY <2>2, <2>3
  <1>4. ASSUME NEW v \in Uploads, Open(v)
        PROVE  Keeps(u)'
    <2>1. PICK part \in Paths, inode \in Inodes :
           /\ part = Part(target[v]) /\ part[3] = 1 /\ target[v] # None
           /\ inode # None /\ inode = (IF dir[part] = None THEN v ELSE dir[part])
           /\ dir'[part] = inode /\ \A p \in Paths \ {part} : dir'[p] = dir[p]
           /\ \A p \in Paths \ {part} : dir[p] # None => dir[p] # inode
           /\ fd'[v] = inode /\ \A w \in Uploads \ {v} : fd'[w] = fd[w]
           /\ data'[inode] = Empty /\ \A i \in Inodes \ {inode} : data'[i] = data[i]
           /\ UNCHANGED <<stage, target, got, put, error>>
           /\ Streams(v) /\ fd[v] = None /\ put[v] = 0
      BY <1>4, OpenFacts
    <2>2. Sole(u) /\ Keeps(u) /\ target[u] # None
      BY <2>1 DEF Sole, SoleKept
    <2>3. CASE u = v
      <3>1. Body(u, 0) = Empty
        BY DEF Body, Empty, Chunks
      <3>2. QED
        BY <2>1, <2>3, <3>1 DEF Keeps, Streams
    <2>4. CASE u # v
      <3>1. /\ target[u] \in Paths /\ Part(target[u]) \in Paths
            /\ target[u] # part /\ Part(target[u]) # part
        BY <2>1, <2>2, <2>4, SoleApart
      <3>2. /\ dir[target[u]] # None => dir[target[u]] # inode /\ dir[target[u]] \in Inodes
            /\ dir[Part(target[u])] # None => dir[Part(target[u])] # inode /\ dir[Part(target[u])] \in Inodes
        BY <2>1, <3>1 DEF Linked, Types, TypeOK
      <3>3. QED
        BY <2>1, <2>2, <2>4, <3>1, <3>2 DEF Keeps, Intact
    <2>5. QED
      BY <2>3, <2>4
  <1>5. ASSUME NEW v \in Uploads, Write(v)
        PROVE  Keeps(u)'
    <2>1. /\ fd[v] # None /\ fd[v] \in Inodes /\ put'[v] = put[v] + 1
          /\ \A w \in Uploads \ {v} : put'[w] = put[w]
          /\ data[fd[v]] = Body(v, put[v]) => data'[fd[v]] = Body(v, put[v] + 1)
          /\ \A i \in Inodes \ {fd[v]} : data'[i] = data[i]
          /\ UNCHANGED <<dir, stage, target, fd, got, error>> /\ Streams(v)
      BY <1>5, WriteFacts DEF Linked
    <2>2. Sole(u) /\ Keeps(u)
      BY <2>1 DEF Sole, SoleKept
    <2>3. CASE u = v
      BY <2>1, <2>2, <2>3 DEF Keeps, Streams
    <2>4. CASE u # v
      <3>1. /\ fd[u] # None => fd[v] # fd[u]
            /\ stage[u] = "stored" /\ error[u] = "none" => fd[v] # dir[target[u]]
        BY <2>1, <2>2, <2>4, OthersOpen
      <3>2. /\ fd[u] # None => fd[u] \in Inodes
            /\ stage[u] = "stored" /\ error[u] = "none" => dir[target[u]] \in Inodes
        BY <2>2, PathsOf DEF Linked, Types, TypeOK, Keeps, Intact
      <3>3. QED
        BY <2>1, <2>2, <2>4, <3>1, <3>2 DEF Keeps, Intact
    <2>5. QED
      BY <2>3, <2>4
  <1>6. ASSUME NEW v \in Uploads, Remove(v)
        PROVE  Keeps(u)'
    <2>1. /\ \A p \in Paths \ {Part(target[v])} : dir'[p] = dir[p]
          /\ UNCHANGED <<data, target, fd, got, put, error>> /\ target[v] # None
          /\ \A w \in Uploads : stage'[w] = "stored" => stage[w] = "stored"
      BY <1>6, LinkedRemove
    <2>2. Sole(u) /\ Keeps(u) /\ target[u] # None
      BY <2>1 DEF Sole, SoleKept
    <2>3. CASE u = v
      <3>1. fd[u] = None /\ stage[u] # "stored"
        BY <1>6, <2>3 DEF Remove, Linked, Handles, Streams
      <3>2. QED
        BY <2>1, <3>1 DEF Keeps
    <2>4. CASE u # v
      <3>1. /\ target[u] \in Paths /\ Part(target[u]) \in Paths
            /\ target[u] # Part(target[v]) /\ Part(target[u]) # Part(target[v])
        BY <2>1, <2>2, <2>4, SoleApart
      <3>2. QED
        BY <2>1, <2>2, <3>1 DEF Keeps, Intact
    <2>5. QED
      BY <2>3, <2>4
  <1>7. ASSUME NEW v \in Uploads, Store(v) \/ StoreUnwritten(v)
        PROVE  Keeps(u)'
    <2>1. PICK part \in Paths, place \in Paths :
           /\ part = Part(target[v]) /\ place = target[v] /\ part # place
           /\ dir[part] # None /\ dir'[place] = dir[part] /\ dir'[part] = None
           /\ \A p \in Paths \ {part, place} : dir'[p] = dir[p]
           /\ stage[v] = "ending" /\ stage'[v] = "stored" /\ fd'[v] = None
           /\ \A w \in Uploads \ {v} : stage'[w] = stage[w] /\ fd'[w] = fd[w] /\ error'[w] = error[w]
           /\ error'[v] = "none" => fd[v] # None /\ put[v] = got[v]
           /\ UNCHANGED <<data, target, got, put>>
      BY <1>7, RenameFacts
    <2>2. Sole(u) /\ Keeps(u) /\ target[u] # None /\ target[v] # None
      BY <2>1, PathsOf DEF Sole, SoleKept, Linked
    <2>3. CASE u = v
      BY <2>1, <2>2, <2>3 DEF Keeps, Intact
    <2>4. CASE u # v
      <3>1. /\ target[u] \in Paths /\ Part(target[u]) \in Paths
            /\ target[u] \notin {part, place} /\ Part(target[u]) \notin {part, place}
        BY <2>1, <2>2, <2>4, SoleApart
      <3>2. QED
        BY <2>1, <2>2, <2>4, <3>1 DEF Keeps, Intact
    <2>5. QED
      BY <2>3, <2>4
  <1>8. ASSUME NEW v \in Uploads, LateError(v)
        PROVE  Keeps(u)'
    <2>1. /\ \A p \in Paths \ {Part(target[v])} : dir'[p] = dir[p]
          /\ UNCHANGED <<data, name, stage, target, fd, got, put>>
          /\ target[v] # None /\ stage[v] = "stored" /\ error'[v] = "reported"
          /\ \A w \in Uploads \ {v} : error'[w] = error[w]
      BY <1>8, LinkedLate
    <2>2. Sole(u) /\ Keeps(u)
      BY <2>1 DEF Sole, SoleKept
    <2>3. CASE u = v
      <3>1. fd[u] = None
        BY <2>1, <2>3 DEF Linked, Handles, Streams
      <3>2. QED
        BY <2>1, <2>3, <3>1 DEF Keeps
    <2>4. CASE u # v
      <3>1. /\ target[u] \in Paths /\ Part(target[u]) \in Paths
            /\ target[u] # Part(target[v]) /\ Part(target[u]) # Part(target[v])
        BY <2>1, <2>2, <2>4, SoleApart
      <3>2. QED
        BY <2>1, <2>2, <2>4, <3>1 DEF Keeps, Intact
    <2>5. QED
      BY <2>3, <2>4
  <1>9. QED
    BY <1>1, <1>2, <1>3, <1>4, <1>5, <1>6, <1>7, <1>8 DEF Next, Sender, Stream, Fault

\* Where no name ends in ".part": whatever the other uploads do to the directory,
\* a stored file that has its path to itself is on disk with all that arrived,
\* unless its own stream failed at the end.
THEOREM SoleIsIntact ==
  ASSUME Plain
  PROVE  Spec => [](\A u \in Uploads :
                      Sole(u) /\ stage[u] = "stored" /\ error[u] = "none" => Intact(u))
  <1>1. Linked /\ SoleKept =>
          \A u \in Uploads : Sole(u) /\ stage[u] = "stored" /\ error[u] = "none" => Intact(u)
    BY DEF SoleKept, Keeps
  <1>2. Init => Linked /\ SoleKept
    BY LinkedInit DEF Init, SoleKept, Sole
  <1>3. Linked /\ SoleKept /\ [Next]_vars => Linked' /\ SoleKept'
    BY LinkedStep, SoleStep
  <1>4. QED
    BY <1>1, <1>2, <1>3, PTL DEF Spec

-----------------------------------------------------------------------------
(* UploadStore implements Inbox: where the uploads of a stem come one after *)
(* the other and their last writes succeed, neither lost connections, late  *)
(* opens, oversized bodies and failing writes nor whatever goes on under    *)
(* other stems ever shows in the directory.                                 *)

\* An upload the promise is about.
Calm(u) == Stem(u) \notin Rough

\* Of a calm stem one upload is at work, and its target is still free.
Aims ==
  /\ \A u, v \in Uploads :
       Calm(u) /\ Responsible(u) /\ Responsible(v) /\ Stem(u) = Stem(v) => u = v
  /\ \A u \in Uploads :
       /\ target[u] # None => target[u][1] = Stem(u)
       /\ Calm(u) /\ Responsible(u) => dir[target[u]] = None

\* An old partial file is still where it was.
OldParts == \A p \in Paths : dir[p] \in Paths /\ p[3] # 0 => dir[p] = p

\* An open stream has the partial file of its upload, with what it has written.
Holds ==
  \A u \in Uploads : Calm(u) /\ fd[u] # None =>
    dir[Part(target[u])] = fd[u] /\ data[fd[u]] = Body(u, put[u])

\* A stored file is whole, alone at its place, and not an old file's inode; all
\* else at a place is an old file as it was.
Stands ==
  /\ \A u \in Uploads : Calm(u) /\ stage[u] = "stored" =>
       Intact(u) /\ dir[target[u]] # target[u]
  /\ \A u, v \in Uploads :
       /\ Calm(u) /\ stage[u] = "stored" /\ stage[v] = "stored"
       /\ target[u] = target[v]
       => u = v
  /\ \A p \in Places : dir[p] # None =>
       \/ dir[p] = p /\ data[p] = OldData
       \/ \E u \in Uploads : stage[u] = "stored" /\ target[u] = p

Tidy == Linked /\ Aims /\ OldParts /\ Holds /\ Stands

LEMMA TidyInit == Init => Tidy
  <1> SUFFICES ASSUME Init PROVE Tidy
    OBVIOUS
  <1>1. Linked
    BY LinkedInit
  <1> USE NoneAssumption, PathsAssumption DEF Init
  <1>2. Aims /\ OldParts /\ Holds
    BY DEF Aims, OldParts, Holds, Responsible
  <1>3. Stands
    BY DEF Stands, Places, Inodes
  <1>4. QED
    BY <1>1, <1>2, <1>3 DEF Tidy

\* The paths of a calm upload are not those of another one at work.
LEMMA CalmApart ==
  ASSUME Tidy, NEW u \in Uploads, Calm(u), NEW v \in Uploads \ {u}, Responsible(v),
         Responsible(u) \/ stage[u] = "stored"
  PROVE  /\ target[u] \in Paths /\ Part(target[u]) \in Paths
         /\ target[u] \notin {target[v], Part(target[v])}
         /\ Responsible(u) => Part(target[u]) \notin {target[v], Part(target[v])}
  <1>1. /\ target[u] # None /\ target[v] # None
        /\ target[u][3] = 0 /\ target[v][3] = 0
        /\ target[u] \in Paths /\ Part(target[u]) \in Paths
        /\ Part(target[u])[3] = 1 /\ Part(target[v])[3] = 1
    BY PathsOf DEF Tidy, Linked, Responsible
  <1>2. CASE Stem(u) = Stem(v)
    <2>1. ~Responsible(u) /\ dir[target[v]] = None
      BY <1>2 DEF Tidy, Aims, Calm
    <2>2. dir[target[u]] # None
      BY <2>1 DEF Tidy, Stands, Intact
    <2>3. QED
      BY <1>1, <2>1, <2>2
  <1>3. CASE Stem(u) # Stem(v)
    <2>1. target[u][1] # target[v][1]
      BY <1>1, <1>3 DEF Tidy, Aims
    <2>2. QED
      BY <1>1, <2>1 DEF Part
  <1>4. QED
    BY <1>2, <1>3

-----------------------------------------------------------------------------
(* Steps that leave the files alone *)

LEMMA StageStep ==
  ASSUME Tidy, NEW u \in Uploads,
         \/ Refuse(u) \/ Lose(u) \/ End(u) \/ RenameFails(u) \/ Close(u)
         \/ StreamError(u) \/ OpenFails(u) \/ Data(u)
  PROVE  /\ Aims' /\ OldParts' /\ Holds' /\ Stands'
         /\ UNCHANGED <<dir, name, target>>
         /\ \A v \in Uploads : stage'[v] = "stored" <=> stage[v] = "stored"
  <1>1. /\ UNCHANGED <<dir, data, name, target, put>>
        /\ \A v \in Uploads \ {u} : stage'[v] = stage[v] /\ fd'[v] = fd[v] /\ got'[v] = got[v]
        /\ stage[u] # "stored" /\ stage'[u] # "stored"
        /\ Responsible(u)' => Responsible(u)
        /\ fd'[u] # None => fd'[u] = fd[u]
    BY DEF Refuse, Lose, End, RenameFails, Close, StreamError, OpenFails, Data, disk, offer, Responsible,
           Tidy, Linked, Types, TypeOK
  <1>2. \A v \in Uploads : Responsible(v)' => Responsible(v)
    BY <1>1 DEF Responsible
  <1>3. Aims' /\ OldParts'
    BY <1>1, <1>2 DEF Tidy, Aims, OldParts, Calm, Stem
  <1>4. Holds'
    BY <1>1 DEF Tidy, Holds, Calm, Stem
  <1>5. Stands'
    BY <1>1 DEF Tidy, Stands, Intact, Calm, Stem
  <1>6. QED
    BY <1>1, <1>3, <1>4, <1>5

LEMMA BeginStep ==
  ASSUME Plain, Tidy, NEW u \in Uploads, Begin(u)
  PROVE  /\ Aims' /\ OldParts' /\ Holds' /\ Stands'
         /\ UNCHANGED <<dir, name>>
         /\ \A v \in Uploads : stage'[v] = "stored" <=> stage[v] = "stored"
         /\ \A v \in Uploads : stage[v] = "stored" => target'[v] = target[v]
  <1>1. PICK k \in FreeSuffixes(name[u]) : target' = [target EXCEPT ![u] = Candidate(name[u], k)]
    BY DEF Begin
  <1>2. /\ target'[u] \in Paths /\ dir[target'[u]] = None
        /\ target'[u][1] = Stem(u)
        /\ \A v \in Uploads \ {u} : target'[v] = target[v]
    <2>1. name[u] \in Names /\ k \in 1 .. MaxSuffix /\ dir[Candidate(name[u], k)] = None
      BY <1>1 DEF FreeSuffixes, Tidy, Linked, Types, TypeOK
    <2>2. target'[u] = Candidate(name[u], k)
      BY <1>1 DEF Tidy, Linked, Types, TypeOK
    <2>3. QED
      BY <1>1, <2>1, <2>2, CandidateIsPath DEF Candidate, Stem, Tidy, Linked, Types, TypeOK
  <1>3. /\ UNCHANGED <<dir, data, name, fd, got, put>>
        /\ \A v \in Uploads \ {u} : stage'[v] = stage[v]
        /\ stage[u] = "waiting" /\ stage'[u] = "reading" /\ fd[u] = None
    BY DEF Begin, disk, offer, Tidy, Linked, Types, TypeOK, Handles, Streams
  <1>4. \A v \in Uploads : Calm(u) /\ Stem(v) = Stem(u) => ~Responsible(v)
    BY DEF Begin, Calm, Responsible, Begun, Settled
  <1>5. Aims'
    <2>1. \A v \in Uploads \ {u} : Responsible(v)' => Responsible(v)
      BY <1>3 DEF Responsible
    <2>2. \A v \in Uploads \ {u} : Stem(v)' = Stem(v) /\ Calm(v)' = Calm(v)
      BY <1>3 DEF Calm, Stem
    <2>3. Stem(u)' = Stem(u) /\ Calm(u)' = Calm(u)
      BY <1>3 DEF Calm, Stem
    <2>4. \A v, w \in Uploads :
            Calm(v)' /\ Responsible(v)' /\ Responsible(w)' /\ Stem(v)' = Stem(w)' => v = w
      BY <1>4, <2>1, <2>2, <2>3 DEF Tidy, Aims, Calm
    <2>5. QED
      BY <1>2, <1>3, <2>1, <2>2, <2>3, <2>4 DEF Tidy, Aims
  <1>6. OldParts' /\ Holds'
    BY <1>2, <1>3 DEF Tidy, OldParts, Holds, Calm, Stem
  <1>7. Stands'
    BY <1>2, <1>3 DEF Tidy, Stands, Intact, Calm, Stem
  <1>8. QED
    BY <1>2, <1>3, <1>5, <1>6, <1>7

-----------------------------------------------------------------------------
(* Steps on the files *)

\* What the step of an upload at work does to the files: it touches nothing but
\* its own two paths and what is found there, and keeps what is promised of it.
Effect(v) ==
  /\ Responsible(v) /\ stage[v] # "stored" /\ target[v] # None
  /\ UNCHANGED <<name, target, got>>
  /\ \A u \in Uploads \ {v} : stage'[u] = stage[u] /\ fd'[u] = fd[u] /\ put'[u] = put[u]
  /\ \A p \in Paths \ {target[v], Part(target[v])} :
       dir'[p] = dir[p] /\ (dir[p] # None => data'[dir[p]] = data[dir[p]])
  /\ dir'[Part(target[v])] \in Paths => dir'[Part(target[v])] = dir[Part(target[v])]
  /\ stage'[v] # "stored" => dir'[target[v]] = dir[target[v]]
  /\ Calm(v) =>
       /\ fd'[v] # None =>
            dir'[Part(target[v])] = fd'[v] /\ data'[fd'[v]] = Body(v, put'[v])
       /\ stage'[v] = "stored" => Intact(v)' /\ dir'[target[v]] # target[v]

LEMMA OpenEffect ==
  ASSUME Tidy, NEW v \in Uploads, Open(v)
  PROVE  Effect(v)
  <1>1. PICK part \in Paths, inode \in Inodes :
           /\ part = Part(target[v]) /\ part[3] = 1 /\ target[v] # None
           /\ inode # None /\ inode = (IF dir[part] = None THEN v ELSE dir[part])
           /\ dir'[part] = inode /\ \A p \in Paths \ {part} : dir'[p] = dir[p]
           /\ \A p \in Paths \ {part} : dir[p] # None => dir[p] # inode
           /\ fd'[v] = inode /\ \A w \in Uploads \ {v} : fd'[w] = fd[w]
           /\ data'[inode] = Empty /\ \A i \in Inodes \ {inode} : data'[i] = data[i]
           /\ UNCHANGED <<stage, target, got, put, error>>
           /\ Streams(v) /\ fd[v] = None /\ put[v] = 0
    BY OpenFacts DEF Tidy
  <1>2. name' = name /\ Responsible(v) /\ stage[v] # "stored"
    BY <1>1 DEF Open, offer, Streams, Responsible
  <1>3. \A p \in Paths \ {part} : dir[p] # None => data'[dir[p]] = data[dir[p]]
    BY <1>1 DEF Tidy, Linked, Types, TypeOK
  <1>4. target[v] \in Paths \ {part}
    BY <1>1, PathsOf DEF Tidy, Linked
  <1>5. dir'[part] \in Paths => dir'[part] = dir[part]
    BY <1>1, NoneAssumption
  <1>6. Body(v, 0) = Empty
    BY DEF Body, Empty, Chunks
  <1>7. QED
    BY <1>1, <1>2, <1>3, <1>4, <1>5, <1>6 DEF Effect

LEMMA WriteEffect ==
  ASSUME Tidy, NEW v \in Uploads, Write(v)
  PROVE  Effect(v)
  <1>1. /\ fd[v] # None /\ fd[v] \in Inodes /\ put'[v] = put[v] + 1
        /\ \A u \in Uploads \ {v} : put'[u] = put[u]
        /\ data[fd[v]] = Body(v, put[v]) => data'[fd[v]] = Body(v, put[v] + 1)
        /\ \A i \in Inodes \ {fd[v]} : data'[i] = data[i]
        /\ UNCHANGED <<dir, stage, target, fd, got, error>> /\ Streams(v)
    BY WriteFacts DEF Tidy, Linked
  <1>2. name' = name /\ Responsible(v) /\ stage[v] # "stored" /\ target[v] # None
    BY <1>1, PathsOf DEF Write, offer, Streams, Responsible, Tidy, Linked
  <1>3. \A p \in Paths \ {target[v], Part(target[v])} :
          dir[p] # None => data'[dir[p]] = data[dir[p]]
    <2>1. \A p \in Paths \ {target[v], Part(target[v])} : dir[p] # fd[v]
      BY <1>1 DEF Tidy, Linked, Links
    <2>2. QED
      BY <1>1, <2>1 DEF Tidy, Linked, Types, TypeOK
  <1>4. Calm(v) => dir'[Part(target[v])] = fd'[v] /\ data'[fd'[v]] = Body(v, put'[v])
    BY <1>1 DEF Tidy, Holds
  <1>5. QED
    BY <1>1, <1>2, <1>3, <1>4 DEF Effect

LEMMA RemoveEffect ==
  ASSUME Tidy, NEW v \in Uploads, Remove(v)
  PROVE  Effect(v)
  <1>1. /\ Responsible(v) /\ stage[v] = "removing" /\ stage'[v] = "failed"
        /\ \A w \in Uploads \ {v} : stage'[w] = stage[w]
        /\ UNCHANGED <<data, name, target, fd, got, put>>
    BY DEF Remove, offer, Responsible, Tidy, Linked, Types, TypeOK
  <1>2. fd[v] = None /\ target[v] # None
    BY <1>1, PathsOf DEF Tidy, Linked, Handles, Streams
  <1>3. PICK part \in Paths : part = Part(target[v]) /\ target[v] \in Paths \ {part}
    BY <1>2, PathsOf DEF Tidy, Linked
  <1>4. dir'[part] = None /\ \A p \in Paths \ {part} : dir'[p] = dir[p]
    BY <1>3 DEF Remove, Tidy, Linked, Types, TypeOK
  <1>5. QED
    BY <1>1, <1>2, <1>3, <1>4, NoneAssumption DEF Effect

LEMMA RenameEffect ==
  ASSUME Tidy, NEW v \in Uploads, Store(v) \/ StoreUnwritten(v)
  PROVE  Effect(v) /\ stage'[v] = "stored" /\ (Calm(v) => Store(v))
  <1>1. PICK part \in Paths, place \in Paths :
           /\ part = Part(target[v]) /\ place = target[v] /\ part # place
           /\ dir[part] # None /\ dir'[place] = dir[part] /\ dir'[part] = None
           /\ \A p \in Paths \ {part, place} : dir'[p] = dir[p]
           /\ stage[v] = "ending" /\ stage'[v] = "stored" /\ fd'[v] = None
           /\ \A w \in Uploads \ {v} : stage'[w] = stage[w] /\ fd'[w] = fd[w] /\ error'[w] = error[w]
           /\ error'[v] = "none" => fd[v] # None /\ put[v] = got[v]
           /\ UNCHANGED <<data, target, got, put>>
    BY RenameFacts DEF Tidy
  <1>2. name' = name /\ Responsible(v) /\ (Calm(v) => Store(v) /\ fd[v] # None /\ put[v] = got[v])
    BY <1>1 DEF Store, StoreUnwritten, Rename, offer, Responsible, Calm
  <1>3. target[v] # None /\ part[3] = 1
    BY <1>1, PathsOf DEF Tidy, Linked
  <1>4. Calm(v) => Intact(v)' /\ dir'[place] # place
    <2>1. dir[part] # place
      BY <1>1, <1>3 DEF Tidy, OldParts
    <2>2. Calm(v) => data[dir[part]] = Body(v, got[v])
      BY <1>1, <1>2 DEF Tidy, Holds
    <2>3. QED
      BY <1>1, <2>1, <2>2 DEF Intact
  <1>5. QED
    BY <1>1, <1>2, <1>3, <1>4, NoneAssumption DEF Effect

\* Places are not partial files, and those of rough uploads are not promised.
LEMMA PlacesApart ==
  ASSUME Tidy, NEW v \in Uploads, target[v] # None, NEW p \in Places
  PROVE  /\ p \in Paths /\ p # Part(target[v])
         /\ p = target[v] => Calm(v)
  BY PathsOf DEF Places, Tidy, Linked, Aims, Calm

LEMMA EffectStep ==
  ASSUME Tidy, NEW v \in Uploads, Effect(v), stage'[v] = "stored" \/ Responsible(v)' \/ stage'[v] = "failed"
  PROVE  Aims' /\ OldParts' /\ Holds' /\ Stands'
  <1>1. /\ \A u \in Uploads : Stem(u)' = Stem(u) /\ Calm(u)' = Calm(u)
        /\ \A u \in Uploads : Responsible(u)' => Responsible(u)
    BY DEF Effect, Stem, Calm, Responsible
  <1>2. ASSUME NEW u \in Uploads \ {v}, Calm(u), Responsible(u) \/ stage[u] = "stored"
        PROVE  /\ dir'[target[u]] = dir[target[u]]
               /\ dir[target[u]] # None => data'[dir[target[u]]] = data[dir[target[u]]]
               /\ Responsible(u) => LET part == Part(target[u]) IN
                    /\ dir'[part] = dir[part]
                    /\ dir[part] # None => data'[dir[part]] = data[dir[part]]
    BY <1>2, CalmApart DEF Effect
  <1>3. Aims'
    <2>1. ASSUME NEW u \in Uploads, Calm(u), Responsible(u)'
          PROVE  dir'[target'[u]] = None
      <3>1. dir[target[u]] = None /\ Responsible(u)
        BY <1>1, <2>1 DEF Tidy, Aims
      <3>2. CASE u = v
        BY <2>1, <3>1, <3>2 DEF Effect, Responsible
      <3>3. CASE u # v
        BY <1>2, <2>1, <3>1, <3>3 DEF Effect
      <3>4. QED
        BY <3>2, <3>3
    <2>2. QED
      BY <1>1, <2>1 DEF Tidy, Aims, Effect
  <1>4. OldParts'
    <2>1. target[v][3] = 0
      BY PathsOf DEF Effect, Tidy, Linked
    <2>2. QED
      BY <2>1 DEF Tidy, OldParts, Effect
  <1>5. Holds'
    <2>1. ASSUME NEW u \in Uploads \ {v}, Calm(u), fd[u] # None
          PROVE  dir'[Part(target[u])] = fd[u] /\ data'[fd[u]] = Body(u, put[u])
      <3>1. Responsible(u) /\ dir[Part(target[u])] = fd[u] /\ data[fd[u]] = Body(u, put[u])
        BY <2>1 DEF Tidy, Holds, Linked, Handles, Streams, Responsible
      <3>2. QED
        BY <1>2, <2>1, <3>1
    <2>2. QED
      BY <1>1, <2>1 DEF Effect, Holds
  <1>6. Stands'
    <2>1. ASSUME NEW u \in Uploads, Calm(u), stage'[u] = "stored"
          PROVE  Intact(u)' /\ dir'[target'[u]] # target'[u]
      <3>1. CASE u = v
        BY <2>1, <3>1 DEF Effect
      <3>2. CASE u # v
        <4>1. stage[u] = "stored" /\ target'[u] = target[u] /\ got'[u] = got[u]
          BY <2>1, <3>2 DEF Effect
        <4>2. Intact(u) /\ dir[target[u]] # target[u]
          BY <2>1, <4>1 DEF Tidy, Stands
        <4>3. QED
          BY <1>2, <2>1, <3>2, <4>1, <4>2 DEF Intact
      <3>3. QED
        BY <3>1, <3>2
    <2>2. ASSUME NEW u \in Uploads, NEW w \in Uploads, Calm(u),
                 stage'[u] = "stored", stage'[w] = "stored", target'[u] = target'[w]
          PROVE  u = w
      <3>1. target[u] = target[w] /\ (u # v => stage[u] = "stored") /\ (w # v => stage[w] = "stored")
        BY <2>2 DEF Effect
      <3>2. CASE u # v /\ w # v
        BY <2>2, <3>1, <3>2 DEF Tidy, Stands
      <3>3. CASE u # v /\ w = v
        BY <2>2, <3>1, <3>3, CalmApart DEF Effect
      <3>4. CASE u = v /\ w # v
        <4>1. Calm(w)
          <5>1. target[u] # None /\ target[w] # None
            BY <3>1, <3>4 DEF Effect
          <5>2. Stem(w) = Stem(u)
            BY <3>1, <5>1 DEF Tidy, Aims
          <5>3. QED
            BY <2>2, <5>2 DEF Calm
        <4>2. QED
          BY <3>1, <3>4, <4>1, CalmApart DEF Effect
      <3>5. QED
        BY <3>2, <3>3, <3>4
    <2>3. ASSUME NEW p \in Places, dir'[p] # None
          PROVE  \/ dir'[p] = p /\ data'[p] = OldData
                 \/ \E u \in Uploads : stage'[u] = "stored" /\ target'[u] = p
      <3>1. \A u \in Uploads : stage[u] = "stored" => stage'[u] = "stored" /\ target'[u] = target[u]
        BY DEF Effect
      <3>2. CASE p # target[v]
        <4>1. dir'[p] = dir[p] /\ data'[dir[p]] = data[dir[p]]
          BY <2>3, <3>2, PlacesApart DEF Effect
        <4>2. QED
          BY <2>3, <3>1, <4>1 DEF Tidy, Stands
      <3>3. CASE p = target[v]
        <4>1. dir[p] = None
          BY <3>3, PlacesApart DEF Effect, Tidy, Aims
        <4>2. stage'[v] = "stored" /\ target'[v] = p
          BY <2>3, <3>3, <4>1 DEF Effect
        <4>3. QED
          BY <4>2
      <3>4. QED
        BY <3>2, <3>3
    <2>4. QED
      BY <1>1, <2>1, <2>2, <2>3 DEF Stands
  <1>7. QED
    BY <1>3, <1>4, <1>5, <1>6

LEMMA FileStep ==
  ASSUME Tidy, NEW v \in Uploads,
         Open(v) \/ Write(v) \/ Remove(v) \/ Store(v) \/ StoreUnwritten(v)
  PROVE  /\ Aims' /\ OldParts' /\ Holds' /\ Stands' /\ Effect(v)
         /\ Calm(v) /\ stage'[v] = "stored" => Store(v)
  <1>1. Effect(v) /\ (Calm(v) /\ stage'[v] = "stored" => Store(v))
    <2>1. CASE Store(v) \/ StoreUnwritten(v)
      BY <2>1, RenameEffect
    <2>2. CASE Open(v) \/ Write(v) \/ Remove(v)
      <3>1. stage'[v] # "stored"
        BY <2>2 DEF Open, Write, Remove, Tidy, Linked, Types, TypeOK
      <3>2. QED
        BY <2>2, <3>1, OpenEffect, WriteEffect, RemoveEffect
    <2>3. QED
      BY <2>1, <2>2
  <1>2. stage'[v] = "stored" \/ Responsible(v)' \/ stage'[v] = "failed"
    BY DEF Open, Write, Remove, Store, StoreUnwritten, Rename, Responsible, Tidy, Linked, Types, TypeOK
  <1>3. QED
    BY <1>1, <1>2, EffectStep

\* An error that comes late removes nothing of a calm upload.
LEMMA LateStep ==
  ASSUME Tidy, NEW v \in Uploads, LateError(v)
  PROVE  /\ Aims' /\ OldParts' /\ Holds' /\ Stands'
         /\ UNCHANGED <<name, stage, target>>
         /\ \A p \in Places : dir'[p] = dir[p]
  <1>1. /\ \A p \in Paths \ {Part(target[v])} : dir'[p] = dir[p]
        /\ dir'[Part(target[v])] = None
        /\ UNCHANGED <<data, name, stage, target, fd, got, put>>
        /\ target[v] # None
    BY LinkedLate DEF Tidy
  <1>2. Part(target[v])[3] = 1 /\ Part(target[v])[1] = Stem(v) /\ Stem(v) \in Rough
    BY <1>1, PathsOf DEF LateError, Part, Tidy, Linked, Aims, Types, Targets
  <1>3. \A p \in Paths : p[3] = 0 => dir'[p] = dir[p]
    BY <1>1, <1>2
  <1>4. \A u \in Uploads : target[u] # None => target[u] \in Paths /\ target[u][3] = 0
    BY PathsOf DEF Tidy, Linked
  <1>5. \A u \in Uploads : stage[u] \notin {"waiting", "failed"} => target[u] # None
    BY PathsOf DEF Tidy, Linked
  <1>6. Aims'
    BY <1>1, <1>3, <1>4, <1>5 DEF Tidy, Aims, Calm, Stem, Responsible
  <1>7. OldParts'
    BY <1>1, NoneAssumption DEF Tidy, OldParts
  <1>8. Holds'
    <2>1. ASSUME NEW u \in Uploads, Calm(u), fd[u] # None
          PROVE  dir'[Part(target[u])] = dir[Part(target[u])]
      <3>1. target[u] # None /\ Part(target[u]) \in Paths
        BY <2>1, PathsOf DEF Tidy, Linked, Handles, Streams
      <3>2. Part(target[u])[1] = Stem(u)
        BY <3>1 DEF Part, Tidy, Aims
      <3>3. QED
        BY <1>1, <1>2, <2>1, <3>1, <3>2 DEF Calm
    <2>2. QED
      BY <1>1, <2>1 DEF Tidy, Holds, Calm, Stem
  <1>9. \A p \in Places : dir'[p] = dir[p]
    BY <1>3 DEF Places
  <1>10. Stands'
    <2>1. \A u \in Uploads : stage[u] = "stored" => dir'[target[u]] = dir[target[u]]
      BY <1>3, <1>4, <1>5
    <2>2. QED
      BY <1>1, <1>9, <2>1 DEF Tidy, Stands, Intact, Calm, Stem
  <1>11. QED
    BY <1>1, <1>6, <1>7, <1>8, <1>9, <1>10

LEMMA TidyStep == Plain /\ Tidy /\ [Next]_vars => Tidy'
  <1> SUFFICES ASSUME Plain, Tidy, [Next]_vars PROVE Tidy'
    OBVIOUS
  <1>1. Linked'
    BY LinkedStep DEF Tidy
  <1>2. CASE UNCHANGED vars
    BY <1>1, <1>2 DEF vars, Tidy, Aims, OldParts, Holds, Stands, Responsible, Intact, Calm, Stem
  <1>3. ASSUME NEW u \in Uploads, Sender(u) \/ Stream(u) \/ Fault(u)
        PROVE  Aims' /\ OldParts' /\ Holds' /\ Stands'
    BY <1>3, StageStep, BeginStep, FileStep, LateStep DEF Sender, Stream, Fault
  <1>4. QED
    BY <1>1, <1>2, <1>3 DEF Next, Tidy

-----------------------------------------------------------------------------
(* What the directory shows *)

\* The three things a place may show.
Showing ==
  \A p \in Places :
    /\ dir[p] = None => Shown(p) = None
    /\ dir[p] = p /\ data[p] = OldData => Shown(p) = Old
    /\ \A u \in Uploads : stage[u] = "stored" /\ target[u] = p => Shown(p) = u

LEMMA ShowingTidy == Tidy => Showing
  <1> SUFFICES ASSUME Tidy, NEW p \in Places
               PROVE  /\ dir[p] = None => Shown(p) = None
                      /\ dir[p] = p /\ data[p] = OldData => Shown(p) = Old
                      /\ \A u \in Uploads : stage[u] = "stored" /\ target[u] = p => Shown(p) = u
    BY DEF Showing
  <1>1. p # None
    BY PathsAreNotNone DEF Places
  <1>2. dir[p] = None => Shown(p) = None
    <2> DEFINE owners == {v \in Uploads : stage[v] = "stored" /\ target[v] = p /\ Intact(v)}
    <2>1. dir[p] = None => owners = {}
      BY DEF Intact
    <2>2. dir[p] = None => Cardinality(owners) = 0
      BY <2>1, FS_EmptySet
    <2>3. QED
      BY <1>1, <2>2 DEF Shown
  <1>3. dir[p] = p /\ data[p] = OldData => Shown(p) = Old
    BY <1>1 DEF Shown
  <1>4. ASSUME NEW u \in Uploads, stage[u] = "stored", target[u] = p
        PROVE  Shown(p) = u
    <2> DEFINE owners == {v \in Uploads : stage[v] = "stored" /\ target[v] = p /\ Intact(v)}
    <2>1. Calm(u)
      BY <1>1, <1>4, PlacesApart
    <2>2. dir[p] # None /\ dir[p] # p /\ Intact(u)
      BY <1>4, <2>1 DEF Tidy, Stands, Intact
    <2>3. owners = {u}
      BY <1>4, <2>1, <2>2 DEF Tidy, Stands
    <2>4. Cardinality(owners) = 1
      BY <2>3, FS_Singleton
    <2>5. (CHOOSE v \in owners : TRUE) = u
      BY <2>3
    <2>6. Shown(p) = CHOOSE v \in owners : TRUE
      BY <2>2, <2>4 DEF Shown
    <2>7. QED
      BY <2>5, <2>6
  <1>5. QED
    BY <1>2, <1>3, <1>4

LEMMA ShowingNext == Tidy' => Showing'
  BY ShowingTidy, PTL

\* A place that keeps its inode shows what it showed.
LEMMA PlaceKept ==
  ASSUME Tidy, Tidy', NEW p \in Places, dir'[p] = dir[p],
         \A u \in Uploads : stage[u] = "stored" => stage'[u] = "stored" /\ target'[u] = target[u]
  PROVE  Shown(p)' = Shown(p)
  <1>1. Showing /\ Showing'
    BY ShowingTidy, ShowingNext
  <1>2. CASE dir[p] = None
    BY <1>1, <1>2 DEF Showing
  <1>3. CASE \E u \in Uploads : stage[u] = "stored" /\ target[u] = p
    BY <1>1, <1>3 DEF Showing
  <1>4. CASE dir[p] = p /\ data[p] = OldData
    <2>1. p # None
      BY PathsAreNotNone DEF Places
    <2>2. ~ \E u \in Uploads : stage'[u] = "stored" /\ target'[u] = p
      <3>1. SUFFICES ASSUME NEW u \in Uploads, stage'[u] = "stored", target'[u] = p
                     PROVE  FALSE
        OBVIOUS
      <3>2. Calm(u)'
        <4>1. target'[u] # None
          BY <2>1, <3>1
        <4>2. target'[u][1] = Stem(u)'
          BY <4>1 DEF Tidy, Aims
        <4>3. QED
          BY <3>1, <4>2 DEF Calm, Places
      <3>3. QED
        BY <1>4, <3>1, <3>2 DEF Tidy, Stands
    <2>3. dir'[p] = p /\ data'[p] = OldData
      BY <1>4, <2>1, <2>2 DEF Tidy, Stands
    <2>4. QED
      BY <1>1, <1>4, <2>3 DEF Showing
  <1>5. QED
    BY <1>2, <1>3, <1>4 DEF Tidy, Stands

LEMMA InboxInit == Init => Inbox!Init
  <1> SUFFICES ASSUME Init PROVE Inbox!Init
    OBVIOUS
  <1>1. Tidy /\ Showing
    BY TidyInit, ShowingTidy
  <1>2. StoredUploads = {}
    BY DEF Init, StoredUploads
  <1>3. \A p \in Places : Shown(p) \in {Old, None}
    BY <1>1, <1>2 DEF Tidy, Stands, Showing, StoredUploads
  <1>4. QED
    BY <1>2, <1>3 DEF Inbox!Init, Delivered

LEMMA InboxStep == Plain /\ Tidy /\ Tidy' /\ [Next]_vars => [Inbox!Next]_(Inbox!vars)
  <1> SUFFICES ASSUME Plain, Tidy, Tidy', [Next]_vars
               PROVE  Inbox!Next \/ UNCHANGED Inbox!vars
    OBVIOUS
  <1>1. ASSUME NEW u \in Uploads, Store(u), Calm(u)
        PROVE  Inbox!Deliver(u)
    <2>1. Effect(u) /\ stage'[u] = "stored"
      BY <1>1, RenameEffect
    <2>2. /\ u \notin Delivered
          /\ Delivered' = Delivered \cup {u}
      BY <1>1, <2>1 DEF Effect, Delivered, StoredUploads, Calm, Stem
    <2>3. PICK place \in Places : place = target[u] /\ dir[place] = None
      <3>1. target[u] \in Paths /\ target[u][3] = 0 /\ target[u][1] = Stem(u)
        BY <2>1, PathsOf DEF Effect, Tidy, Linked, Aims
      <3>2. dir[target[u]] = None
        BY <1>1, <2>1 DEF Effect, Tidy, Aims
      <3>3. QED
        BY <1>1, <3>1, <3>2 DEF Places, Calm
    <2>4. Shown(place) = None /\ Shown(place)' = u
      <3>1. target'[u] = place
        BY <2>1, <2>3 DEF Effect
      <3>2. QED
        BY <2>1, <2>3, <3>1, ShowingTidy, ShowingNext DEF Showing
    <2>5. \A p \in Places \ {place} : Shown(p)' = Shown(p)
      <3>1. \A p \in Places \ {place} : dir'[p] = dir[p]
        BY <2>1, <2>3, PlacesApart DEF Effect
      <3>2. \A v \in Uploads : stage[v] = "stored" => stage'[v] = "stored" /\ target'[v] = target[v]
        BY <2>1 DEF Effect
      <3>3. QED
        BY <3>1, <3>2, PlaceKept
    <2>6. [p \in Places |-> Shown(p)'] = [[p \in Places |-> Shown(p)] EXCEPT ![place] = u]
      BY <2>3, <2>4, <2>5
    <2>7. QED
      BY <2>2, <2>3, <2>4, <2>6 DEF Inbox!Deliver
  <1>2. ASSUME UNCHANGED Delivered, \A p \in Places : dir'[p] = dir[p],
               \A u \in Uploads : stage[u] = "stored" => stage'[u] = "stored" /\ target'[u] = target[u]
        PROVE  UNCHANGED Inbox!vars
    <2>1. \A p \in Places : Shown(p)' = Shown(p)
      BY <1>2, PlaceKept
    <2>2. [p \in Places |-> Shown(p)'] = [p \in Places |-> Shown(p)]
      BY <2>1
    <2>3. QED
      BY <1>2, <2>2 DEF Inbox!vars
  <1>3. ASSUME NEW u \in Uploads, Sender(u) \/ Stream(u) \/ Fault(u), ~(Store(u) /\ Calm(u))
        PROVE  /\ UNCHANGED Delivered /\ \A p \in Places : dir'[p] = dir[p]
               /\ \A v \in Uploads :
                    stage[v] = "stored" => stage'[v] = "stored" /\ target'[v] = target[v]
    <2>1. CASE \/ Refuse(u) \/ Lose(u) \/ End(u) \/ RenameFails(u) \/ Close(u) \/ StreamError(u)
               \/ OpenFails(u) \/ Data(u) \/ Begin(u)
      <3>1. /\ UNCHANGED <<dir, name>>
            /\ \A v \in Uploads : stage'[v] = "stored" <=> stage[v] = "stored"
            /\ \A v \in Uploads : stage[v] = "stored" => target'[v] = target[v]
        BY <2>1, StageStep, BeginStep
      <3>2. QED
        BY <3>1 DEF Delivered, StoredUploads, Stem
    <2>2. CASE Open(u) \/ Write(u) \/ Remove(u) \/ Store(u) \/ StoreUnwritten(u)
      <3>1. Effect(u) /\ ~(Calm(u) /\ stage'[u] = "stored")
        BY <1>3, <2>2, FileStep
      <3>2. \A p \in Places : dir'[p] = dir[p]
        BY <3>1, PlacesApart DEF Effect
      <3>3. QED
        BY <3>1, <3>2 DEF Effect, Delivered, StoredUploads, Calm, Stem
    <2>3. CASE LateError(u)
      BY <2>3, LateStep DEF Delivered, StoredUploads, Stem
    <2>4. QED
      BY <1>3, <2>1, <2>2, <2>3 DEF Sender, Stream, Fault
  <1>4. CASE UNCHANGED vars
    <2>1. UNCHANGED Delivered
      BY <1>4 DEF vars, StoredUploads, Delivered, Stem
    <2>2. QED
      BY <1>2, <1>4, <2>1 DEF vars
  <1>5. QED
    BY <1>1, <1>2, <1>3, <1>4 DEF Next, Inbox!Next

\* Lost connections, late opens, oversized bodies, failing writes, and whatever
\* overlaps under other stems: where uploads come one after the other, the
\* directory changes only by whole files that appear at free places, one per
\* upload, and no file that was there is touched.
THEOREM StoreIsInbox ==
  ASSUME Plain
  PROVE  Spec => InboxSpec
  <1>1. Spec => []Tidy
    BY Plain, TidyInit, TidyStep, PTL DEF Spec
  <1>2. QED
    BY Plain, <1>1, InboxInit, InboxStep, PTL DEF Spec, InboxSpec, Inbox!Spec
=============================================================================
