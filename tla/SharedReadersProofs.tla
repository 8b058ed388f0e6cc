------------------------ MODULE SharedReadersProofs ------------------------
(***************************************************************************)
(* The invariants of SharedReaders, proved for every number of threads,    *)
(* files, contents, limits and calls.  IInv is inductive: each lemma below *)
(* takes one part of it through one group of steps.  At the end, that      *)
(* SharedReaders implements SnapshotService.                               *)
(***************************************************************************)
EXTENDS SharedReaders, FiniteSetTheorems, SequenceTheorems, WellFoundedInduction, TLAPS

(* A recorded identity is the name of a write that has happened.           *)
LEMMA JobIsIdentity ==
  ASSUME TypeOK, ExpressionsInv, ThreadInv,
         NEW t \in Threads, pc[t] # "idle"
  PROVE  /\ job[t] \in expressions
         /\ job[t] \in Identity
         /\ job[t].canonical_path \in Paths
         /\ job[t].size \in Nat
         /\ job[t].changed_ns \in 1 .. Len(writes)
         /\ job[t].file_id \in FileIds
         /\ writes[job[t].changed_ns] \in Write
         /\ Truth(job[t]) \in Contents
<1>1. job[t] \in expressions
  BY DEF ThreadInv, ThreadOK
<1>2. job[t] \in Identity /\ job[t].changed_ns \in 1 .. Len(writes)
  BY <1>1 DEF TypeOK, SharedTypeOK, ExpressionsInv
<1>3. writes[job[t].changed_ns] \in Write
  BY <1>2 DEF TypeOK, FilesTypeOK
<1>. QED
  BY <1>1, <1>2, <1>3 DEF Identity, Write, Truth

(* The first file of a run names nothing yet.                              *)
LEMMA InitIInv == Init => IInv
<1>. SUFFICES ASSUME Init PROVE IInv
  OBVIOUS
<1>. USE DEF Init, FilesInit, CacheInit, ThreadsInit
<1>1. FilesTypeOK
  BY MaxWritesIsNatural DEF FilesTypeOK
<1>2. CacheTypeOK
  BY UsizeMaxIsNatural DEF CacheTypeOK
<1>3. SharedTypeOK
  <2>1. calls \in 0 .. MaxCalls
    BY MaxCallsIsNatural
  <2>2. poisoned \in BOOLEAN
    BY Zenon
  <2>. QED
    BY <2>1, <2>2 DEF SharedTypeOK
<1>4. ThreadsTypeOK
  BY DEF ThreadsTypeOK, Labels, Errors
<1>5. FilesInv /\ ExpressionsInv
  BY DEF FilesInv, ExpressionsInv
<1>6. LockInv /\ ThreadInv /\ ChangedInv
  BY MarkersAreDistinct DEF LockInv, ThreadInv, ThreadOK, ChangedInv, Locked
<1>7. ReadersInv
  BY FS_EmptySet DEF ReadersInv
<1>8. SnapshotsFaithful /\ CacheIndexed /\ CacheBounded /\ OldestEvictedFirst /\ FailuresJustified
  BY DEF SnapshotsFaithful, AnswerFaithful, CacheIndexed, CacheBounded, OldestEvictedFirst,
     FailuresJustified, FailureJustified
<1>. QED
  BY <1>1, <1>2, <1>3, <1>4, <1>5, <1>6, <1>7, <1>8 DEF IInv, TypeOK

----------------------------------------------------------------------------
(* Other programs change files.                                            *)

(* What is common to the two ways of writing a file.                       *)
LEMMA WriteFileFacts ==
  ASSUME FilesTypeOK, NEW p \in Paths, NEW f \in FileIds, NEW c \in Contents,
         WriteFile(p, f, c)
  PROVE  /\ writes' \in Seq(Write)
         /\ Len(writes') = Len(writes) + 1
         /\ Len(writes') <= MaxWrites
         /\ \A k \in 1 .. Len(writes) : writes'[k] = writes[k]
         /\ writes'[Len(writes')] = [at |-> p, file_id |-> f, content |-> c]
         /\ disk' \in [FileIds -> 0 .. Len(writes')]
         /\ disk'[f] = Len(writes')
         /\ \A g \in FileIds \ {f} : disk'[g] = disk[g]
<1>. DEFINE w == [at |-> p, file_id |-> f, content |-> c]
<1>1. w \in Write
  BY DEF Write
<1>2. writes \in Seq(Write) /\ writes' = Append(writes, w)
  BY DEF FilesTypeOK, WriteFile
<1>. HIDE DEF w
<1>3. /\ writes' \in Seq(Write)
      /\ Len(writes') = Len(writes) + 1
      /\ \A k \in 1 .. Len(writes) : writes'[k] = writes[k]
      /\ writes'[Len(writes')] = w
  BY <1>1, <1>2
<1>4. Len(writes) \in Nat /\ Len(writes) < MaxWrites
  BY <1>2 DEF WriteFile
<1>5. disk \in [FileIds -> 0 .. Len(writes)] /\ disk' = [disk EXCEPT ![f] = Len(writes) + 1]
  BY DEF FilesTypeOK, WriteFile
<1>6. disk' \in [FileIds -> 0 .. Len(writes')] /\ disk'[f] = Len(writes')
  BY <1>3, <1>4, <1>5
<1>7. \A g \in FileIds \ {f} : disk'[g] = disk[g]
  BY <1>5
<1>. QED
  BY <1>3, <1>4, <1>6, <1>7, MaxWritesIsNatural DEF w

(* Writing a file that no other path holds keeps the invariant of files.   *)
LEMMA WriteFileKeeps ==
  ASSUME FilesTypeOK, FilesInv, NEW p \in Paths, NEW f \in FileIds, NEW c \in Contents,
         WriteFile(p, f, c),
         \A q \in Paths : dir[q] = f => q = p,
         dir' = [dir EXCEPT ![p] = f],
         target' = target
  PROVE  FilesTypeOK' /\ FilesInv'
<1>1. /\ writes' \in Seq(Write)
      /\ Len(writes') = Len(writes) + 1
      /\ Len(writes') <= MaxWrites
      /\ \A k \in 1 .. Len(writes) : writes'[k] = writes[k]
      /\ writes'[Len(writes')] = [at |-> p, file_id |-> f, content |-> c]
      /\ disk' \in [FileIds -> 0 .. Len(writes')]
      /\ disk'[f] = Len(writes')
      /\ \A g \in FileIds \ {f} : disk'[g] = disk[g]
  BY WriteFileFacts
<1>2. Len(writes) \in Nat /\ writes'[Len(writes')].at = p
  BY <1>1 DEF FilesTypeOK
<1>3. FilesTypeOK'
  BY <1>1 DEF FilesTypeOK
<1>4. ASSUME NEW q \in Paths, dir'[q] # NoFile
      PROVE  disk'[dir'[q]] # 0 /\ writes'[disk'[dir'[q]]].at = q
  <2>1. CASE q = p
    BY <2>1, <1>1, <1>2 DEF FilesTypeOK
  <2>2. CASE q # p
    <3>1. dir'[q] = dir[q] /\ dir[q] \in FileIds \ {f} /\ disk'[dir[q]] = disk[dir[q]]
      BY <2>2, <1>1, <1>4 DEF FilesTypeOK
    <3>2. disk[dir[q]] \in 1 .. Len(writes) /\ writes[disk[dir[q]]].at = q
      BY <3>1, <1>4 DEF FilesTypeOK, FilesInv
    <3>. QED
      BY <3>1, <3>2, <1>1
  <2>. QED
    BY <2>1, <2>2
<1>. QED
  BY <1>3, <1>4 DEF FilesInv

(* Every way of writing is a write to one path.                            *)
LEMMA WritesAreOfOnePath ==
  ASSUME FilesTypeOK, FilesInv, NEW open, NEW p \in Paths, NEW c \in Contents,
         ReplaceFile(p, c, open) \/ RewriteFile(p, c)
  PROVE  \E f \in FileIds :
           /\ WriteFile(p, f, c)
           /\ \A q \in Paths : dir[q] = f => q = p
           /\ dir' = [dir EXCEPT ![p] = f]
           /\ target' = target
           /\ f \in open => dir[p] = f
<1>1. CASE ReplaceFile(p, c, open)
  BY <1>1 DEF ReplaceFile
<1>2. CASE RewriteFile(p, c)
  <2>1. dir[p] \in FileIds /\ WriteFile(p, dir[p], c) /\ target' = target
    BY <1>2 DEF RewriteFile, FilesTypeOK
  <2>2. dir' = [dir EXCEPT ![p] = dir[p]]
    BY <1>2 DEF RewriteFile, FilesTypeOK
  <2>3. \A q \in Paths : dir[q] = dir[p] => q = p
    BY <2>1, NoFileIsNoFileId DEF FilesInv
  <2>. QED
    BY <2>1, <2>2, <2>3
<1>. QED
  BY <1>1, <1>2

(* The history only grows, and every path still leads to the last write.   *)
LEMMA FilesChangeKeeps ==
  ASSUME FilesTypeOK, FilesInv, NEW open, FilesChange(open)
  PROVE  /\ FilesTypeOK' /\ FilesInv'
         /\ Len(writes) <= Len(writes')
         /\ \A k \in 1 .. Len(writes) : writes'[k] = writes[k]
         /\ \A p \in Paths : target'[p] = p => target[p] = p
<1>0. Len(writes) \in Nat
  BY DEF FilesTypeOK
<1>1. ASSUME NEW p \in Paths, NEW c \in Contents,
             ReplaceFile(p, c, open) \/ RewriteFile(p, c)
      PROVE  /\ FilesTypeOK' /\ FilesInv'
             /\ Len(writes') = Len(writes) + 1
             /\ \A k \in 1 .. Len(writes) : writes'[k] = writes[k]
             /\ target' = target
  <2>1. PICK f \in FileIds :
          /\ WriteFile(p, f, c)
          /\ \A q \in Paths : dir[q] = f => q = p
          /\ dir' = [dir EXCEPT ![p] = f]
          /\ target' = target
          /\ f \in open => dir[p] = f
    BY <1>1, WritesAreOfOnePath
  <2>2. FilesTypeOK' /\ FilesInv'
    BY <2>1, WriteFileKeeps
  <2>3. /\ Len(writes') = Len(writes) + 1
        /\ \A k \in 1 .. Len(writes) : writes'[k] = writes[k]
    BY <2>1, WriteFileFacts
  <2>. QED
    BY <2>1, <2>2, <2>3
<1>2. ASSUME NEW p \in Paths, DeleteFile(p)
      PROVE  FilesTypeOK' /\ FilesInv' /\ writes' = writes /\ target' = target
  BY <1>2 DEF DeleteFile, FilesTypeOK, FilesInv
<1>3. ASSUME NEW p \in Paths, NEW q \in Paths, RelinkPath(p, q)
      PROVE  /\ FilesTypeOK' /\ FilesInv' /\ writes' = writes
             /\ \A r \in Paths : target'[r] = r => target[r] = r
  <2>1. /\ p # q /\ target[p] = p /\ target[q] = q
        /\ \A r \in Paths : target[r] = p => r = p
        /\ target' = [target EXCEPT ![p] = q]
        /\ writes' = writes /\ disk' = disk /\ dir' = dir
    BY <1>3 DEF RelinkPath
  <2>2. FilesTypeOK'
    BY <2>1 DEF FilesTypeOK
  <2>3. \A r \in Paths : target'[target'[r]] = target'[r]
    BY <2>1 DEF FilesTypeOK, FilesInv
  <2>4. FilesInv'
    BY <2>1, <2>3 DEF FilesInv
  <2>5. \A r \in Paths : target'[r] = r => target[r] = r
    BY <2>1 DEF FilesTypeOK
  <2>. QED
    BY <2>1, <2>2, <2>4, <2>5
<1>. QED
  BY <1>0, <1>1, <1>2, <1>3 DEF FilesChange

(* Once the file at the path of an identity is another one, it stays so:   *)
(* no later change of files brings an identity back.                       *)
LEMMA IdentityNeverReturns ==
  ASSUME FilesTypeOK, FilesInv, NEW open, FilesChange(open),
         NEW id \in Identity,
         id.changed_ns \in 1 .. Len(writes),
         writes[id.changed_ns].at = id.canonical_path,
         SameFile(id)'
  PROVE  SameFile(id)
<1>. DEFINE p == id.canonical_path
<1>0. p \in Paths /\ Len(writes) \in Nat
  BY DEF Identity, FilesTypeOK
<1>. USE DEF SameFile, IsFile, IdentityForPath, FileIdAt, ContentOf
<1>1. /\ dir'[target'[p]] # NoFile
      /\ id = [canonical_path |-> p, size |-> SizeOf[writes'[disk'[dir'[target'[p]]]].content],
               changed_ns |-> disk'[dir'[target'[p]]], file_id |-> dir'[target'[p]]]
  OBVIOUS
<1>2. /\ id.changed_ns = disk'[dir'[target'[p]]]
      /\ id.file_id = dir'[target'[p]]
      /\ id.size = SizeOf[writes'[disk'[dir'[target'[p]]]].content]
      /\ target'[p] \in Paths
      /\ dir'[target'[p]] \in FileIds
  <2>1. FilesTypeOK'
    BY FilesChangeKeeps
  <2>. QED
    BY <1>0, <1>1, <2>1 DEF FilesTypeOK
<1>3. SUFFICES /\ dir[target[p]] = dir'[target'[p]]
               /\ disk[dir[target[p]]] = disk'[dir'[target'[p]]]
               /\ writes[disk[dir[target[p]]]] = writes'[disk[dir[target[p]]]]
  BY <1>1
<1>. HIDE DEF SameFile, IsFile, IdentityForPath, FileIdAt, ContentOf
<1>4. \A k \in 1 .. Len(writes) : writes'[k] = writes[k]
  BY FilesChangeKeeps
<1>5. SUFFICES /\ dir[target[p]] = dir'[target'[p]]
               /\ disk[dir[target[p]]] = disk'[dir'[target'[p]]]
  BY <1>2, <1>4
<1>6. ASSUME NEW r \in Paths, NEW c \in Contents,
             ReplaceFile(r, c, open) \/ RewriteFile(r, c)
      PROVE  dir[target[p]] = dir'[target'[p]] /\ disk[dir[target[p]]] = disk'[dir'[target'[p]]]
  <2>1. PICK f \in FileIds :
          /\ WriteFile(r, f, c)
          /\ \A q \in Paths : dir[q] = f => q = r
          /\ dir' = [dir EXCEPT ![r] = f]
          /\ target' = target
          /\ f \in open => dir[r] = f
    BY <1>6, WritesAreOfOnePath
  <2>2. /\ disk'[f] = Len(writes) + 1
        /\ \A g \in FileIds \ {f} : disk'[g] = disk[g]
    BY <2>1, WriteFileFacts
  <2>3. dir'[target'[p]] # f
    BY <2>2, <1>0, <1>2
  <2>4. target[p] # r
    BY <2>1, <2>3 DEF FilesTypeOK
  <2>. QED
    BY <1>0, <1>2, <2>1, <2>2, <2>3, <2>4 DEF FilesTypeOK
<1>7. ASSUME NEW r \in Paths, DeleteFile(r)
      PROVE  dir[target[p]] = dir'[target'[p]] /\ disk[dir[target[p]]] = disk'[dir'[target'[p]]]
  BY <1>0, <1>1, <1>7 DEF DeleteFile, FilesTypeOK
<1>8. ASSUME NEW r \in Paths, NEW q \in Paths, RelinkPath(r, q)
      PROVE  target' = [target EXCEPT ![r] = q] /\ target'[p] = target[p]
             /\ dir' = dir /\ disk' = disk
  <2>1. /\ target' = [target EXCEPT ![r] = q] /\ target[r] = r /\ target[q] = q /\ r # q
        /\ writes' = writes /\ disk' = disk /\ dir' = dir
    BY <1>8 DEF RelinkPath
  <2>2. ASSUME p = r PROVE FALSE
    <3>1. target'[p] = q
      BY <1>0, <2>1, <2>2 DEF FilesTypeOK
    <3>2. writes[id.changed_ns].at = q
      BY <1>1, <1>2, <2>1, <3>1 DEF FilesInv
    <3>. QED
      BY <2>1, <2>2, <3>2
  <2>. QED
    BY <1>0, <2>1, <2>2 DEF FilesTypeOK
<1>. QED
  BY <1>6, <1>7, <1>8 DEF FilesChange

(* What the identities in use name is the same after a change of files.    *)
LEMMA TruthKept ==
  ASSUME FilesTypeOK, FilesInv, NEW open, FilesChange(open),
         NEW id \in Identity, id.changed_ns \in 1 .. Len(writes)
  PROVE  Truth(id)' = Truth(id) /\ writes'[id.changed_ns] = writes[id.changed_ns]
BY FilesChangeKeeps DEF Truth

LEMMA ChangeFilesStep ==
  ASSUME IInv, ChangeFiles
  PROVE  IInv'
<1>. PICK open : FilesChange(open)
  BY DEF ChangeFiles
<1>. USE DEF IInv, TypeOK
<1>0. /\ UNCHANGED <<cacheVars, lockVars, limitVars, exprVars, threadVars, inserted>>
      /\ FilesTypeOK' /\ FilesInv'
      /\ Len(writes) <= Len(writes')
      /\ \A k \in 1 .. Len(writes) : writes'[k] = writes[k]
      /\ \A p \in Paths : target'[p] = p => target[p] = p
      /\ Len(writes) \in Nat /\ Len(writes') \in Nat
  <2>1. /\ FilesTypeOK' /\ FilesInv'
        /\ Len(writes) <= Len(writes')
        /\ \A k \in 1 .. Len(writes) : writes'[k] = writes[k]
        /\ \A p \in Paths : target'[p] = p => target[p] = p
    BY FilesChangeKeeps
  <2>2. Len(writes) \in Nat /\ Len(writes') \in Nat
    BY <2>1 DEF FilesTypeOK
  <2>. QED
    BY <2>1, <2>2 DEF ChangeFiles
<1>1. CacheTypeOK' /\ SharedTypeOK' /\ ThreadsTypeOK'
  BY <1>0 DEF CacheTypeOK, SharedTypeOK, ThreadsTypeOK, cacheVars, lockVars, limitVars,
     exprVars, threadVars
<1>2. ASSUME NEW id \in expressions
      PROVE  /\ id \in Identity
             /\ id.canonical_path \in Paths
             /\ id.changed_ns \in 1 .. Len(writes)
             /\ id.changed_ns \in 1 .. Len(writes')
             /\ Truth(id)' = Truth(id)
             /\ writes'[id.changed_ns] = writes[id.changed_ns]
  <2>1. id \in Identity /\ id.changed_ns \in 1 .. Len(writes)
    BY DEF SharedTypeOK, ExpressionsInv
  <2>. QED
    BY <1>0, <2>1, TruthKept DEF Identity
<1>3. ExpressionsInv'
  BY <1>0, <1>2 DEF ExpressionsInv, exprVars, Canonicalize
<1>4. LockInv' /\ ReadersInv' /\ ChangedInv'
  BY <1>0 DEF LockInv, ReadersInv, ChangedInv, cacheVars, lockVars, limitVars, exprVars, threadVars
<1>5. ASSUME NEW id \in expressions, writes[id.changed_ns].at = id.canonical_path, SameFile(id)'
      PROVE  SameFile(id)
  BY <1>2, <1>5, IdentityNeverReturns
<1>6. ThreadInv'
  BY <1>0, <1>2, <1>5 DEF ThreadInv, ThreadOK, Locked, threadVars, cacheVars, exprVars, Cached
<1>7. SnapshotsFaithful'
  BY <1>0, <1>2 DEF SnapshotsFaithful, AnswerFaithful, ReadersInv, ThreadInv, ThreadOK,
     threadVars, cacheVars
<1>8. CacheIndexed' /\ CacheBounded' /\ OldestEvictedFirst'
  BY <1>0 DEF CacheIndexed, CacheBounded, OldestEvictedFirst, cacheVars, threadVars, limitVars
<1>9. FailuresJustified'
  BY <1>0, <1>2, <1>5
  DEF FailuresJustified, FailureJustified, ThreadInv, ThreadOK, ExpressionsInv, Canonicalize,
      Cached, threadVars, cacheVars, limitVars, exprVars, StillThere
<1>. QED
  BY <1>0, <1>1, <1>3, <1>4, <1>6, <1>7, <1>8, <1>9

----------------------------------------------------------------------------
(* Expressions, the environment variable, the start and end of calls.      *)

(* An identity taken now names the write that is under its path now.       *)
LEMMA IdentifyFacts ==
  ASSUME FilesTypeOK, FilesInv, NEW p \in Paths, IsFile(p)
  PROVE  /\ IdentityForPath(p) \in Identity
         /\ IdentityForPath(p).canonical_path = p
         /\ IdentityForPath(p).changed_ns \in 1 .. Len(writes)
         /\ Canonicalize(p) = p => writes[IdentityForPath(p).changed_ns].at = p
<1>1. target[p] \in Paths /\ FileIdAt(p) \in FileIds /\ FileIdAt(p) = dir[target[p]]
  BY DEF FilesTypeOK, IsFile, FileIdAt
<1>2. disk[FileIdAt(p)] \in 1 .. Len(writes) /\ writes[disk[FileIdAt(p)]].at = target[p]
  BY <1>1 DEF FilesTypeOK, FilesInv, IsFile
<1>3. SizeOf[ContentOf(FileIdAt(p))] \in Nat
  <2>1. writes[disk[FileIdAt(p)]] \in Write
    BY <1>2 DEF FilesTypeOK
  <2>2. ContentOf(FileIdAt(p)) \in Contents
    BY <2>1 DEF ContentOf, Write
  <2>. QED
    BY <2>2, SizesAreNatural
<1>. QED
  BY <1>1, <1>2, <1>3 DEF IdentityForPath, Identity, Canonicalize

(* A step that keeps files, expressions and locks, and what they are       *)
(* compared with, keeps what is said of them.                              *)
LEMMA FilesFrame ==
  ASSUME UNCHANGED fileVars
  PROVE  /\ FilesTypeOK => FilesTypeOK'
         /\ FilesInv => FilesInv'
         /\ \A id : Truth(id)' = Truth(id)
         /\ \A id : SameFile(id)' = SameFile(id)
         /\ \A id : StillThere(id)' = StillThere(id)
         /\ \A p : Canonicalize(p)' = Canonicalize(p)
<1>. USE DEF fileVars
<1>1. FilesTypeOK => FilesTypeOK'
  BY DEF FilesTypeOK
<1>2. FilesInv => FilesInv'
  BY DEF FilesInv
<1>3. \A id : Truth(id)' = Truth(id)
  BY DEF Truth
<1>4. \A id : SameFile(id)' = SameFile(id)
  BY DEF SameFile, IsFile, IdentityForPath, FileIdAt, ContentOf
<1>5. \A p : Canonicalize(p)' = Canonicalize(p)
  BY DEF Canonicalize
<1>6. \A id : StillThere(id)' = StillThere(id)
  BY <1>4, <1>5 DEF StillThere
<1>. QED
  BY <1>1, <1>2, <1>3, <1>4, <1>5, <1>6

LEMMA ConstructStep ==
  ASSUME IInv, NEW p \in Paths, ResolveDatabase(p) \/ IdentifyDatabase(p)
  PROVE  IInv'
<1>. USE DEF IInv, TypeOK
<1>0. UNCHANGED <<fileVars, cacheVars, lockVars, limitVars, threadVars, inserted>>
  BY DEF ResolveDatabase, IdentifyDatabase
<1>1. expressions \subseteq expressions' /\ resolved' \subseteq Paths
  BY DEF ResolveDatabase, IdentifyDatabase, SharedTypeOK, Canonicalize, FilesTypeOK
<1>2. \A id \in expressions' \ expressions : IsFile(p) /\ id = IdentityForPath(p)
  BY DEF ResolveDatabase, IdentifyDatabase
<1>3. ASSUME NEW id \in expressions'
      PROVE  /\ id \in Identity
             /\ id.changed_ns \in 1 .. Len(writes)
             /\ Canonicalize(id.canonical_path) = id.canonical_path =>
                  writes[id.changed_ns].at = id.canonical_path
  BY <1>2, IdentifyFacts DEF SharedTypeOK, ExpressionsInv
<1>4. CacheTypeOK' /\ SharedTypeOK' /\ ThreadsTypeOK'
  BY <1>0, <1>1, <1>3 DEF CacheTypeOK, SharedTypeOK, ThreadsTypeOK, cacheVars, lockVars,
     limitVars, threadVars
<1>5. FilesTypeOK' /\ FilesInv'
  BY <1>0, FilesFrame
<1>6. ExpressionsInv'
  BY <1>0, <1>3, FilesFrame DEF ExpressionsInv, fileVars
<1>7. LockInv' /\ ReadersInv' /\ ChangedInv'
  BY <1>0, <1>1 DEF LockInv, ReadersInv, ChangedInv, cacheVars, lockVars, limitVars, threadVars
<1>8. ThreadInv'
  BY <1>0, <1>1, FilesFrame DEF ThreadInv, ThreadOK, threadVars, cacheVars, Cached, fileVars
<1>9. SnapshotsFaithful' /\ FailuresJustified'
  BY <1>0, FilesFrame DEF SnapshotsFaithful, AnswerFaithful, FailuresJustified,
     FailureJustified, threadVars, cacheVars, limitVars, Cached
<1>10. CacheIndexed' /\ CacheBounded' /\ OldestEvictedFirst'
  BY <1>0 DEF CacheIndexed, CacheBounded, OldestEvictedFirst, cacheVars, threadVars, limitVars
<1>. QED
  BY <1>4, <1>5, <1>6, <1>7, <1>8, <1>9, <1>10

LEMMA SetLimitStep ==
  ASSUME IInv, NEW v \in LimitSettings, SetLimit(v)
  PROVE  IInv'
<1>. USE DEF IInv, TypeOK
<1>0. /\ UNCHANGED <<fileVars, cacheVars, lockVars, limit, exprVars, threadVars, inserted>>
      /\ setting' \in LimitSettings
  BY DEF SetLimit
<1>1. CacheTypeOK' /\ SharedTypeOK' /\ ThreadsTypeOK'
  BY <1>0 DEF CacheTypeOK, SharedTypeOK, ThreadsTypeOK, cacheVars, lockVars, exprVars, threadVars
<1>2. FilesTypeOK' /\ FilesInv'
  BY <1>0, FilesFrame
<1>3. ExpressionsInv' /\ LockInv' /\ ReadersInv' /\ ChangedInv'
  BY <1>0, FilesFrame
  DEF ExpressionsInv, LockInv, ReadersInv, ChangedInv, cacheVars, lockVars, exprVars,
      threadVars, fileVars
<1>4. ThreadInv' /\ SnapshotsFaithful' /\ FailuresJustified'
  BY <1>0, FilesFrame
  DEF ThreadInv, ThreadOK, SnapshotsFaithful, AnswerFaithful, FailuresJustified,
      FailureJustified, threadVars, cacheVars, exprVars, Cached, fileVars
<1>5. CacheIndexed' /\ CacheBounded' /\ OldestEvictedFirst'
  BY <1>0 DEF CacheIndexed, CacheBounded, OldestEvictedFirst, cacheVars, threadVars
<1>. QED
  BY <1>1, <1>2, <1>3, <1>4, <1>5

LEMMA UseStep ==
  ASSUME IInv, NEW t \in Threads, Use(t)
  PROVE  IInv'
<1>. USE DEF IInv, TypeOK
<1>0. /\ UNCHANGED <<fileVars, cacheVars, lockVars, limitVars, exprVars, handle, inserted>>
      /\ \/ Finish(t)
         \/ \E id \in expressions : Call(t, id)
  BY DEF Use, Finish, Call
<1>1. /\ pc' = [pc EXCEPT ![t] = IF pc[t] = "idle" THEN "probe" ELSE "idle"]
      /\ job' \in [Threads -> Identity \cup {NoIdentity}]
      /\ pc[t] = "idle" => job'[t] \in expressions
      /\ \A u \in Threads \ {t} : job'[u] = job[u] /\ held'[u] = held[u] /\ error'[u] = error[u]
      /\ held' \in [Threads -> Contents \cup {Nothing, Torn}]
      /\ error' \in [Threads -> Errors] /\ error'[t] = "none"
      /\ calls' \in 0 .. MaxCalls
      /\ pc[t] \in {"idle", "returned"}
  <2>1. CASE Finish(t)
    BY <2>1 DEF Finish, Goto, ThreadsTypeOK, SharedTypeOK, Errors
  <2>2. CASE \E id \in expressions : Call(t, id)
    <3>1. PICK id \in expressions : Call(t, id)
      BY <2>2
    <3>2. calls' \in 0 .. MaxCalls
      BY <3>1, MaxCallsIsNatural DEF Call, SharedTypeOK
    <3>3. id \in Identity /\ error[t] = "none"
      BY <3>1 DEF SharedTypeOK, ThreadInv, ThreadOK, Call, Goto
    <3>. QED
      BY <3>1, <3>2, <3>3 DEF Call, Goto, ThreadsTypeOK
  <2>. QED
    BY <1>0, <2>1, <2>2
<1>2. CacheTypeOK' /\ SharedTypeOK'
  BY <1>0, <1>1 DEF CacheTypeOK, SharedTypeOK, cacheVars, lockVars, limitVars, exprVars
<1>3. ThreadsTypeOK' /\ pc'[t] \in {"idle", "probe"} /\ \A u \in Threads \ {t} : pc'[u] = pc[u]
  BY <1>0, <1>1 DEF ThreadsTypeOK, Labels
<1>4. FilesTypeOK' /\ FilesInv' /\ ExpressionsInv'
  BY <1>0, FilesFrame DEF ExpressionsInv, exprVars, fileVars
<1>5. LockInv'
  BY <1>0, <1>1, <1>3 DEF LockInv, Locked, lockVars
<1>6. ThreadInv'
  BY <1>0, <1>1, <1>3, FilesFrame DEF ThreadInv, ThreadOK, Locked, cacheVars, exprVars, Cached,
     fileVars, ThreadsTypeOK
<1>7. ReadersInv' /\ ChangedInv'
  BY <1>0, <1>1, <1>3 DEF ReadersInv, ChangedInv, cacheVars, limitVars, exprVars
<1>8. SnapshotsFaithful'
  <2>1. \A u \in Threads : AnswerFaithful(u)'
    BY <1>0, <1>1, <1>3, FilesFrame DEF SnapshotsFaithful, AnswerFaithful
  <2>. QED
    BY <1>0, <2>1, FilesFrame DEF SnapshotsFaithful, cacheVars
<1>9. FailuresJustified'
  BY <1>0, <1>1, FilesFrame DEF FailuresJustified, FailureJustified, cacheVars, limitVars, Cached
<1>10. CacheIndexed' /\ OldestEvictedFirst'
  BY <1>0 DEF CacheIndexed, OldestEvictedFirst, cacheVars
<1>11. CacheBounded'
  BY <1>0, <1>1, <1>3 DEF CacheBounded, cacheVars, limitVars
<1>. QED
  BY <1>2, <1>3, <1>4, <1>5, <1>6, <1>7, <1>8, <1>9, <1>10, <1>11

----------------------------------------------------------------------------
(* A call, up to the insertion.                                            *)

(* The file an identity of a path itself names is reached without a link.  *)
LEMMA CurrentIsCanonical ==
  ASSUME FilesTypeOK, FilesInv, NEW id \in Identity,
         id.changed_ns \in 1 .. Len(writes),
         writes[id.changed_ns].at = id.canonical_path,
         SameFile(id)
  PROVE  StillThere(id)
<1>1. target[id.canonical_path] \in Paths
  BY DEF Identity, FilesTypeOK
<1>2. /\ dir[target[id.canonical_path]] # NoFile
      /\ id.changed_ns = disk[dir[target[id.canonical_path]]]
  BY DEF SameFile, IsFile, IdentityForPath, FileIdAt
<1>3. writes[id.changed_ns].at = target[id.canonical_path]
  BY <1>1, <1>2 DEF FilesInv
<1>. QED
  BY <1>3 DEF StillThere, Canonicalize

(* A step of one thread that touches neither files nor cache has only to   *)
(* answer for that thread and for the lock.                                *)
LEMMA ThreadStep ==
  ASSUME IInv, NEW t \in Threads, NEW to \in Labels \ {"idle", "evict"},
         UNCHANGED <<fileVars, cacheVars, setting, exprVars, job, calls, inserted>>,
         limit' \in Nat \cup {Unread, Malformed}, limit' # limit => limit = Unread,
         pc[t] \notin {"idle", "evict", "returned"},
         pc' = [pc EXCEPT ![t] = to],
         \A u \in Threads \ {t} :
           handle'[u] = handle[u] /\ held'[u] = held[u] /\ error'[u] = error[u],
         handle' \in [Threads -> FileIds \cup {NoFile}],
         held' \in [Threads -> Contents \cup {Nothing, Torn}],
         error' \in [Threads -> Errors],
         poisoned' = FALSE, writer' \in Threads \cup {NoThread},
         LockInv', ThreadOK(t)', AnswerFaithful(t)', FailureJustified(t)',
         error'[t] = "changed" => pc[t] \in Locked,
         to \in {"parse", "insert"} => pc[t] \in {"parse", "insert"} \/ StillThere(job[t])
  PROVE  IInv'
<1>. USE DEF IInv, TypeOK
<1>1. /\ pc'[t] = to
      /\ \A u \in Threads \ {t} : pc'[u] = pc[u]
      /\ job' = job
  BY DEF ThreadsTypeOK
<1>2. CacheTypeOK' /\ SharedTypeOK' /\ ThreadsTypeOK'
  <2>1. CacheTypeOK'
    BY DEF CacheTypeOK, cacheVars
  <2>2. SharedTypeOK'
    BY DEF SharedTypeOK, exprVars
  <2>3. ThreadsTypeOK'
    BY DEF ThreadsTypeOK
  <2>. QED
    BY <2>1, <2>2, <2>3
<1>3. FilesTypeOK' /\ FilesInv' /\ ExpressionsInv'
  BY FilesFrame DEF ExpressionsInv, exprVars, fileVars
<1>4. ThreadInv'
  <2>1. ASSUME NEW u \in Threads \ {t}
        PROVE  ThreadOK(u)'
    BY <1>1, FilesFrame DEF ThreadInv, ThreadOK, cacheVars, exprVars, fileVars, Cached
  <2>. QED
    BY <2>1 DEF ThreadInv
<1>5. ReadersInv'
  BY <1>1, LimitsAreNatural DEF ReadersInv, cacheVars, exprVars
<1>6. SnapshotsFaithful'
  <2>1. ASSUME NEW u \in Threads \ {t}
        PROVE  AnswerFaithful(u)'
    BY <1>1, FilesFrame DEF SnapshotsFaithful, AnswerFaithful
  <2>. QED
    BY <2>1, FilesFrame DEF SnapshotsFaithful, cacheVars
<1>7. FailuresJustified'
  <2>1. ASSUME NEW u \in Threads \ {t}
        PROVE  FailureJustified(u)'
    BY <1>1, FilesFrame, LimitsAreNatural DEF FailuresJustified, FailureJustified, cacheVars, Cached
  <2>. QED
    BY <2>1 DEF FailuresJustified
<1>8. CacheIndexed' /\ OldestEvictedFirst'
  BY DEF CacheIndexed, OldestEvictedFirst, cacheVars
<1>9. CacheBounded'
  BY <1>1, LimitsAreNatural DEF CacheBounded, ReadersInv, cacheVars
<1>10. ChangedInv'
  <2>. SUFFICES ASSUME NEW u \in Threads, NEW v \in Threads, error'[u] = "changed",
                       pc'[v] \in {"parse", "insert", "evict"}
                PROVE  job[u] # job[v]
    BY <1>1 DEF ChangedInv
  <2>1. CASE u = t /\ v = t
    BY <2>1 DEF ThreadOK
  <2>2. CASE u = t /\ v # t
    BY <2>2, <1>1 DEF LockInv, Locked
  <2>3. CASE u # t /\ v = t
    <3>1. error[u] = "changed"
      BY <2>3
    <3>2. CASE pc[t] \in {"parse", "insert"}
      BY <2>3, <3>1, <3>2 DEF ChangedInv
    <3>3. CASE StillThere(job[t])
      BY <2>3, <3>1, <3>3 DEF FailuresJustified, FailureJustified
    <3>. QED
      BY <2>3, <1>1, <3>2, <3>3
  <2>4. CASE u # t /\ v # t
    BY <2>4, <1>1 DEF ChangedInv
  <2>. QED
    BY <2>1, <2>2, <2>3, <2>4
<1>. QED
  BY <1>2, <1>3, <1>4, <1>5, <1>6, <1>7, <1>8, <1>9, <1>10

(* The lock stays with the same thread, or is given up by t.               *)
LEMMA LockStep ==
  ASSUME ThreadsTypeOK, LockInv, NEW t \in Threads, NEW to \in Labels,
         pc' = [pc EXCEPT ![t] = to], poisoned' = FALSE,
         \/ pc[t] \in Locked /\ to \in Locked /\ writer' = writer
         \/ pc[t] \notin Locked /\ to \notin Locked /\ writer' = writer
         \/ pc[t] \in Locked /\ to \notin Locked /\ writer' = NoThread
         \/ writer = NoThread /\ to \in Locked /\ writer' = t
  PROVE  LockInv'
<1>1. pc'[t] = to /\ \A u \in Threads \ {t} : pc'[u] = pc[u]
  BY DEF ThreadsTypeOK
<1>. QED
  BY <1>1, MarkersAreDistinct DEF LockInv

LEMMA ProbeStep ==
  ASSUME IInv, NEW t \in Threads, Probe(t)
  PROVE  IInv'
<1>. USE DEF IInv, TypeOK
<1>1. poisoned = FALSE /\ pc[t] = "probe" /\ error[t] = "none"
  BY DEF LockInv, Probe, ThreadInv, ThreadOK
<1>2. CASE Cached(job[t]) /\ Return(t, "probe", readers[job[t]])
  <2>1. /\ readers[job[t]] = Truth(job[t]) /\ readers[job[t]] \in Contents
        /\ pc' = [pc EXCEPT ![t] = "returned"] /\ "returned" \in Labels
        /\ held' = [held EXCEPT ![t] = readers[job[t]]]
        /\ UNCHANGED <<fileVars, cacheVars, lockVars, limitVars, exprVars, inserted, job,
                       handle, error, calls>>
    BY <1>1, <1>2 DEF SnapshotsFaithful, CacheTypeOK, Cached, Return, Goto, Probe, Labels
  <2>2. LockInv'
    BY <1>1, <2>1, LockStep DEF Locked, lockVars
  <2>3. ThreadOK(t)' /\ AnswerFaithful(t)' /\ FailureJustified(t)'
    BY <1>1, <2>1, FilesFrame
    DEF ThreadOK, ThreadInv, AnswerFaithful, FailureJustified, ThreadsTypeOK, Locked, exprVars
  <2>. QED
    BY <1>1, <2>1, <2>2, <2>3, ThreadStep DEF lockVars, limitVars, SharedTypeOK, ThreadsTypeOK
<1>3. CASE ~Cached(job[t]) /\ Advance(t, "probe", "acquire")
  <2>1. /\ pc' = [pc EXCEPT ![t] = "acquire"] /\ "acquire" \in Labels
        /\ UNCHANGED <<fileVars, cacheVars, lockVars, limitVars, exprVars, inserted, job, held,
                       handle, error, calls>>
    BY <1>1, <1>3 DEF Advance, Goto, Probe, Labels
  <2>2. LockInv'
    BY <1>1, <2>1, LockStep DEF Locked, lockVars
  <2>3. ThreadOK(t)' /\ AnswerFaithful(t)' /\ FailureJustified(t)'
    BY <1>1, <2>1, FilesFrame
    DEF ThreadOK, ThreadInv, AnswerFaithful, FailureJustified, ThreadsTypeOK, Locked, exprVars
  <2>. QED
    BY <1>1, <2>1, <2>2, <2>3, ThreadStep DEF lockVars, limitVars, SharedTypeOK, ThreadsTypeOK
<1>. QED
  BY <1>1, <1>2, <1>3 DEF Probe

LEMMA AcquireStep ==
  ASSUME IInv, NEW t \in Threads, Acquire(t)
  PROVE  IInv'
<1>. USE DEF IInv, TypeOK
<1>1. poisoned = FALSE /\ pc[t] = "acquire" /\ error[t] = "none" /\ writer = NoThread
  BY DEF LockInv, Acquire, ThreadInv, ThreadOK
<1>2. CASE Cached(job[t]) /\ Return(t, "acquire", readers[job[t]]) /\ UNCHANGED lockVars
  <2>1. /\ readers[job[t]] = Truth(job[t]) /\ readers[job[t]] \in Contents
        /\ pc' = [pc EXCEPT ![t] = "returned"] /\ "returned" \in Labels
        /\ held' = [held EXCEPT ![t] = readers[job[t]]]
        /\ UNCHANGED <<fileVars, cacheVars, lockVars, limitVars, exprVars, inserted, job,
                       handle, error, calls>>
    BY <1>1, <1>2 DEF SnapshotsFaithful, CacheTypeOK, Cached, Return, Goto, Acquire, Labels
  <2>2. LockInv'
    BY <1>1, <2>1, LockStep DEF Locked, lockVars
  <2>3. ThreadOK(t)' /\ AnswerFaithful(t)' /\ FailureJustified(t)'
    BY <1>1, <2>1, FilesFrame
    DEF ThreadOK, ThreadInv, AnswerFaithful, FailureJustified, ThreadsTypeOK, Locked, exprVars
  <2>. QED
    BY <1>1, <2>1, <2>2, <2>3, ThreadStep DEF lockVars, limitVars, SharedTypeOK, ThreadsTypeOK
<1>3. CASE ~Cached(job[t]) /\ Advance(t, "acquire", "canonicalize") /\ writer' = t
      /\ UNCHANGED poisoned
  <2>1. /\ pc' = [pc EXCEPT ![t] = "canonicalize"] /\ "canonicalize" \in Labels
        /\ UNCHANGED <<fileVars, cacheVars, limitVars, exprVars, inserted, job, held, handle,
                       error, calls>>
        /\ poisoned' = FALSE
    BY <1>1, <1>3 DEF Advance, Goto, Acquire, Labels
  <2>2. LockInv'
    BY <1>1, <1>3, <2>1, LockStep DEF Locked
  <2>3. ThreadOK(t)' /\ AnswerFaithful(t)' /\ FailureJustified(t)'
    BY <1>1, <1>3, <2>1, FilesFrame
    DEF ThreadOK, ThreadInv, AnswerFaithful, FailureJustified, ThreadsTypeOK, Locked, exprVars,
        cacheVars, Cached
  <2>. QED
    BY <1>1, <1>3, <2>1, <2>2, <2>3, ThreadStep DEF limitVars, SharedTypeOK, ThreadsTypeOK
<1>. QED
  BY <1>1, <1>2, <1>3 DEF Acquire

(* A call that gives up gives up the lock, for a reason that holds.        *)
LEMMA FailStep ==
  ASSUME IInv, NEW t \in Threads, NEW from \in Locked \ {"evict"},
         NEW why \in {"changed", "io", "corrupt", "limit"},
         Fail(t, from, why), Release,
         UNCHANGED <<fileVars, cacheVars, setting, exprVars, inserted>>,
         limit' \in Nat \cup {Unread, Malformed}, limit' # limit => limit = Unread,
         why = "changed" => ~StillThere(job[t]),
         why = "corrupt" => Verdict[Truth(job[t])] # "ok",
         why = "limit" => limit' = Malformed
  PROVE  IInv'
<1>. USE DEF IInv, TypeOK
<1>1. /\ pc[t] = from /\ pc[t] \in Locked \ {"evict"}
      /\ pc' = [pc EXCEPT ![t] = "returned"] /\ "returned" \in Labels
      /\ held' = [held EXCEPT ![t] = Nothing]
      /\ handle' = [handle EXCEPT ![t] = NoFile]
      /\ error' = [error EXCEPT ![t] = why]
      /\ job' = job /\ calls' = calls
      /\ writer' = NoThread /\ poisoned' = FALSE
  BY DEF Fail, Goto, Release, LockInv, Labels
<1>2. LockInv'
  BY <1>1, LockStep DEF Locked
<1>3. pc'[t] = "returned" /\ error'[t] = why
  BY <1>1 DEF ThreadsTypeOK
<1>4. ThreadOK(t)' /\ AnswerFaithful(t)'
  BY <1>1, <1>3 DEF ThreadOK, ThreadInv, AnswerFaithful, Locked, exprVars
<1>5. FailureJustified(t)'
  BY <1>1, <1>3, FilesFrame DEF FailureJustified, ThreadInv, ThreadOK, Cached, cacheVars
<1>6. /\ handle' \in [Threads -> FileIds \cup {NoFile}]
      /\ held' \in [Threads -> Contents \cup {Nothing, Torn}]
      /\ error' \in [Threads -> Errors]
      /\ \A u \in Threads \ {t} :
           handle'[u] = handle[u] /\ held'[u] = held[u] /\ error'[u] = error[u]
  BY <1>1 DEF ThreadsTypeOK, Errors
<1>7. pc[t] \notin {"idle", "evict", "returned"}
  BY <1>1 DEF Locked
<1>. QED
  BY <1>1, <1>2, <1>4, <1>5, <1>6, <1>7, ThreadStep

(* A system call failed.                                                   *)
LEMMA FailIoStep ==
  ASSUME IInv, NEW t \in Threads, NEW from \in Locked \ {"evict"}, FailIo(t, from),
         UNCHANGED <<fileVars, cacheVars, limitVars, exprVars, inserted>>
  PROVE  IInv'
<1>1. UNCHANGED <<setting, limit>> /\ limit \in Nat \cup {Unread, Malformed}
  BY DEF limitVars, IInv, TypeOK, SharedTypeOK
<1>. QED
  BY <1>1, FailStep DEF FailIo

(* A check passed, and nothing else happened.                              *)
LEMMA PassStep ==
  ASSUME IInv, NEW t \in Threads, NEW from \in Locked \ {"evict"}, NEW to \in Locked \ {"evict"},
         Advance(t, from, to), UNCHANGED lockVars,
         UNCHANGED <<fileVars, cacheVars, limitVars, exprVars, inserted>>,
         ThreadOK(t)',
         to \in {"parse", "insert"} => from = "parse" \/ StillThere(job[t])
  PROVE  IInv'
<1>. USE DEF IInv, TypeOK
<1>1. /\ pc[t] = from /\ pc' = [pc EXCEPT ![t] = to] /\ to \in Labels \ {"idle", "evict"}
      /\ job' = job /\ calls' = calls /\ handle' = handle /\ held' = held /\ error' = error
      /\ poisoned' = FALSE /\ writer' = writer
  BY DEF Advance, Goto, LockInv, Locked, Labels, lockVars
<1>2. LockInv'
  BY <1>1, LockStep
<1>3. pc'[t] = to /\ error[t] = "none" /\ from # "returned" /\ from # "idle" /\ to # "returned"
  BY <1>1 DEF ThreadsTypeOK, ThreadInv, ThreadOK, Locked
<1>4. AnswerFaithful(t)' /\ FailureJustified(t)'
  BY <1>1, <1>3 DEF AnswerFaithful, FailureJustified
<1>. QED
  BY <1>1, <1>2, <1>3, <1>4, ThreadStep DEF limitVars, SharedTypeOK, ThreadsTypeOK

(* A path that is no link holds the writes that were made to it.           *)
LEMMA CanonicalizePathStep ==
  ASSUME IInv, NEW t \in Threads, CanonicalizePath(t)
  PROVE  IInv'
<1>. DEFINE p == job[t].canonical_path
            ok == IsFile(p) /\ Canonicalize(p) = p
<1>. USE DEF IInv, TypeOK
<1>1. /\ Check(t, "canonicalize", "before", ok)
      /\ pc[t] = "canonicalize"
      /\ UNCHANGED <<fileVars, cacheVars, limitVars, exprVars, inserted>>
  BY DEF CanonicalizePath, Check
<1>2. CASE ok /\ Advance(t, "canonicalize", "before") /\ UNCHANGED lockVars
  <2>1. writes[job[t].changed_ns].at = p
    BY <1>1, <1>2 DEF ThreadInv, ThreadOK, ExpressionsInv
  <2>2. ThreadOK(t)'
    BY <1>1, <1>2, <2>1
    DEF ThreadInv, ThreadOK, Advance, Goto, ThreadsTypeOK, Locked, exprVars, cacheVars,
        fileVars, Cached
  <2>. QED
    BY <1>1, <1>2, <2>2, PassStep DEF Locked
<1>3. CASE ~ok /\ Fail(t, "canonicalize", "changed") /\ Release
  <2>1. ~StillThere(job[t])
    BY <1>3 DEF StillThere, SameFile
  <2>. QED
    BY <1>1, <1>3, <2>1, FailStep DEF Locked, limitVars, SharedTypeOK
<1>4. CASE FailIo(t, "canonicalize")
  BY <1>1, <1>4, FailIoStep DEF Locked
<1>. QED
  BY <1>1, <1>2, <1>3, <1>4 DEF Check

LEMMA CheckBeforeStep ==
  ASSUME IInv, NEW t \in Threads, CheckBefore(t)
  PROVE  IInv'
<1>. USE DEF IInv, TypeOK
<1>1. /\ Check(t, "before", "open", SameFile(job[t]))
      /\ pc[t] = "before"
      /\ UNCHANGED <<fileVars, cacheVars, limitVars, exprVars, inserted>>
  BY DEF CheckBefore, Check
<1>2. CASE Advance(t, "before", "open") /\ UNCHANGED lockVars
  <2>1. ThreadOK(t)'
    BY <1>1, <1>2
    DEF ThreadInv, ThreadOK, Advance, Goto, ThreadsTypeOK, Locked, exprVars, cacheVars,
        fileVars, Cached
  <2>. QED
    BY <1>1, <1>2, <2>1, PassStep DEF Locked
<1>3. CASE ~SameFile(job[t]) /\ Fail(t, "before", "changed") /\ Release
  <2>1. ~StillThere(job[t])
    BY <1>3 DEF StillThere
  <2>. QED
    BY <1>1, <1>3, <2>1, FailStep DEF Locked, limitVars, SharedTypeOK
<1>4. CASE FailIo(t, "before")
  BY <1>1, <1>4, FailIoStep DEF Locked
<1>. QED
  BY <1>1, <1>2, <1>3, <1>4 DEF Check

(* If the file opened is the one the identity names, the bytes are its.    *)
LEMMA OpenFileStep ==
  ASSUME IInv, NEW t \in Threads, OpenFile(t)
  PROVE  IInv'
<1>. DEFINE p == job[t].canonical_path
<1>. USE DEF IInv, TypeOK
<1>0. /\ pc[t] = "open"
      /\ UNCHANGED <<fileVars, cacheVars, limitVars, exprVars, inserted>>
  BY DEF OpenFile
<1>1. CASE /\ IsFile(p)
           /\ Goto(t, "open", "read")
           /\ handle' = [handle EXCEPT ![t] = FileIdAt(p)]
           /\ held' = [held EXCEPT ![t] = ContentOf(FileIdAt(p))]
           /\ UNCHANGED <<job, error, calls, lockVars>>
  <2>1. /\ FileIdAt(p) \in FileIds
        /\ disk[FileIdAt(p)] \in 1 .. Len(writes)
        /\ ContentOf(FileIdAt(p)) \in Contents
    <3>1. p \in Paths
      BY <1>0, JobIsIdentity
    <3>2. FileIdAt(p) \in FileIds /\ disk[FileIdAt(p)] \in 1 .. Len(writes)
      BY <1>1, <3>1 DEF FilesTypeOK, FilesInv, IsFile, FileIdAt
    <3>3. writes[disk[FileIdAt(p)]] \in Write
      BY <3>2 DEF FilesTypeOK
    <3>. QED
      BY <3>2, <3>3 DEF ContentOf, Write
  <2>2. SameFile(job[t]) => job[t].file_id = FileIdAt(p) /\ Truth(job[t]) = ContentOf(FileIdAt(p))
    BY DEF SameFile, IdentityForPath, Truth, ContentOf
  <2>3. /\ pc' = [pc EXCEPT ![t] = "read"] /\ pc'[t] = "read" /\ "read" \in Labels \ {"idle", "evict"}
        /\ handle'[t] = FileIdAt(p) /\ held'[t] = ContentOf(FileIdAt(p))
        /\ error[t] = "none" /\ poisoned' = FALSE /\ writer' = writer
    BY <1>0, <1>1 DEF Goto, ThreadsTypeOK, Labels, ThreadInv, ThreadOK, LockInv, lockVars
  <2>4. LockInv'
    BY <1>0, <2>3, LockStep DEF Locked
  <2>5. ThreadOK(t)'
    BY <1>0, <1>1, <2>1, <2>2, <2>3, FilesFrame
    DEF ThreadInv, ThreadOK, Locked, exprVars, cacheVars, fileVars, Cached
  <2>6. AnswerFaithful(t)' /\ FailureJustified(t)'
    BY <1>1, <2>3 DEF AnswerFaithful, FailureJustified
  <2>7. /\ handle' \in [Threads -> FileIds \cup {NoFile}]
        /\ held' \in [Threads -> Contents \cup {Nothing, Torn}]
        /\ \A u \in Threads \ {t} : handle'[u] = handle[u] /\ held'[u] = held[u]
    BY <1>1, <2>1 DEF ThreadsTypeOK
  <2>. QED
    BY <1>0, <1>1, <2>3, <2>4, <2>5, <2>6, <2>7, ThreadStep DEF limitVars, SharedTypeOK, ThreadsTypeOK
<1>2. CASE ~IsFile(p) /\ Fail(t, "open", "changed") /\ Release
  <2>1. ~StillThere(job[t])
    BY <1>2 DEF StillThere, SameFile
  <2>. QED
    BY <1>0, <1>2, <2>1, FailStep DEF Locked, limitVars, SharedTypeOK
<1>3. CASE FailIo(t, "open")
  BY <1>0, <1>3, FailIoStep DEF Locked
<1>. QED
  BY <1>0, <1>1, <1>2, <1>3 DEF OpenFile

LEMMA ReadRestStep ==
  ASSUME IInv, NEW t \in Threads, ReadRest(t)
  PROVE  IInv'
<1>. USE DEF IInv, TypeOK
<1>1. /\ pc[t] = "read"
      /\ UNCHANGED <<fileVars, cacheVars, limitVars, exprVars, inserted>>
  BY DEF ReadRest
<1>2. CASE FailIo(t, "read")
  BY <1>1, <1>2, FailIoStep DEF Locked
<1>3. CASE ~FailIo(t, "read")
  <2>0. /\ pc[t] = "read" /\ pc' = [pc EXCEPT ![t] = "after"]
           /\ "after" \in Labels \ {"idle", "evict"}
        /\ held' = [held EXCEPT ![t] = IF ContentOf(handle[t]) = held[t] THEN held[t] ELSE Torn]
        /\ handle' = [handle EXCEPT ![t] = NoFile]
        /\ UNCHANGED <<fileVars, cacheVars, lockVars, limitVars, exprVars, job, error, calls,
                       inserted>>
        /\ error[t] = "none" /\ poisoned' = FALSE /\ writer' = writer
    BY <1>3 DEF ReadRest, Goto, Labels, ThreadInv, ThreadOK, LockInv, lockVars
  <2>1. SameFile(job[t]) => ContentOf(handle[t]) = Truth(job[t])
    BY <2>0 DEF ThreadInv, ThreadOK, SameFile, IdentityForPath, ContentOf, Truth
  <2>2. SameFile(job[t]) => held'[t] = Truth(job[t])
    BY <2>0, <2>1 DEF ThreadInv, ThreadOK, ThreadsTypeOK
  <2>3. pc'[t] = "after"
    BY <2>0 DEF ThreadsTypeOK
  <2>4. LockInv'
    BY <2>0, LockStep DEF Locked
  <2>5. ThreadOK(t)'
    BY <2>0, <2>2, <2>3, FilesFrame DEF ThreadInv, ThreadOK, Locked, exprVars, cacheVars,
       fileVars, Cached
  <2>6. AnswerFaithful(t)' /\ FailureJustified(t)'
    BY <2>0, <2>3 DEF AnswerFaithful, FailureJustified
  <2>7. /\ handle' \in [Threads -> FileIds \cup {NoFile}]
        /\ held' \in [Threads -> Contents \cup {Nothing, Torn}]
        /\ \A u \in Threads \ {t} : handle'[u] = handle[u] /\ held'[u] = held[u]
    BY <2>0 DEF ThreadsTypeOK
  <2>. QED
    BY <2>0, <2>3, <2>4, <2>5, <2>6, <2>7, ThreadStep DEF limitVars, SharedTypeOK, ThreadsTypeOK
<1>. QED
  BY <1>2, <1>3

(* The file is still the same, so what was read is what it holds.          *)
LEMMA CheckAfterStep ==
  ASSUME IInv, NEW t \in Threads, CheckAfter(t)
  PROVE  IInv'
<1>. USE DEF IInv, TypeOK
<1>1. /\ Check(t, "after", "parse", SameFile(job[t]))
      /\ pc[t] = "after"
      /\ UNCHANGED <<fileVars, cacheVars, limitVars, exprVars, inserted>>
  BY DEF CheckAfter, Check
<1>2. CASE SameFile(job[t]) /\ Advance(t, "after", "parse") /\ UNCHANGED lockVars
  <2>1. held[t] = Truth(job[t]) /\ writes[job[t].changed_ns].at = job[t].canonical_path
    BY <1>1, <1>2 DEF ThreadInv, ThreadOK, Locked
  <2>2. StillThere(job[t])
    BY <1>1, <1>2, <2>1, JobIsIdentity, CurrentIsCanonical
  <2>3. ThreadOK(t)'
    BY <1>1, <1>2, <2>1, FilesFrame
    DEF ThreadInv, ThreadOK, Advance, Goto, ThreadsTypeOK, Locked, exprVars, cacheVars,
        fileVars, Cached
  <2>. QED
    BY <1>1, <1>2, <2>2, <2>3, PassStep DEF Locked
<1>3. CASE ~SameFile(job[t]) /\ Fail(t, "after", "changed") /\ Release
  <2>1. ~StillThere(job[t])
    BY <1>3 DEF StillThere
  <2>. QED
    BY <1>1, <1>3, <2>1, FailStep DEF Locked, limitVars, SharedTypeOK
<1>4. CASE FailIo(t, "after")
  BY <1>1, <1>4, FailIoStep DEF Locked
<1>. QED
  BY <1>1, <1>2, <1>3, <1>4 DEF Check

(* A verdict is the parser's verdict on the real content.                  *)
LEMMA ParseSnapshotStep ==
  ASSUME IInv, NEW t \in Threads, ParseSnapshot(t)
  PROVE  IInv'
<1>. USE DEF IInv, TypeOK
<1>0. /\ pc[t] = "parse"
      /\ UNCHANGED <<fileVars, cacheVars, limitVars, exprVars, inserted>>
      /\ held[t] = Truth(job[t])
  BY DEF ParseSnapshot, ThreadInv, ThreadOK
<1>1. Truth(job[t]) \in Contents
  BY <1>0, JobIsIdentity
<1>2. PICK v \in Verdicts(held[t]) :
        \/ CatchUnwind(v) = "ok" /\ Advance(t, "parse", "insert") /\ UNCHANGED lockVars
        \/ /\ CatchUnwind(v) # "ok"
           /\ Fail(t, "parse", "corrupt")
           /\ IF CatchUnwind(v) = "panic" THEN ReleaseUnwinding ELSE Release
  BY DEF ParseSnapshot
<1>3. v = Verdict[Truth(job[t])] /\ CatchUnwind(v) # "panic"
  BY <1>0, <1>1, <1>2, MarkersAreDistinct DEF Verdicts, CatchUnwind
<1>4. CASE Advance(t, "parse", "insert") /\ UNCHANGED lockVars
  <2>1. ThreadOK(t)'
    BY <1>0, <1>4, FilesFrame
    DEF ThreadInv, ThreadOK, Advance, Goto, ThreadsTypeOK, Locked, exprVars, cacheVars,
        fileVars, Cached
  <2>. QED
    BY <1>0, <1>4, <2>1, PassStep DEF Locked
<1>5. CASE CatchUnwind(v) # "ok" /\ Fail(t, "parse", "corrupt") /\ Release
  <2>1. Verdict[Truth(job[t])] # "ok"
    BY <1>3, <1>5 DEF CatchUnwind
  <2>. QED
    BY <1>0, <1>5, <2>1, FailStep DEF Locked, limitVars, SharedTypeOK
<1>. QED
  BY <1>2, <1>3, <1>4, <1>5

----------------------------------------------------------------------------
(* The insertion and the eviction loop.                                    *)

(* Only the thread inserting is in the locked part.                        *)
LEMMA OnlyWriterLocked ==
  ASSUME LockInv, NEW t \in Threads, pc[t] \in Locked
  PROVE  \A u \in Threads \ {t} : pc[u] \notin Locked
BY DEF LockInv

(* Either the limit does not parse, or it is a number from now on.         *)
LEMMA LimitIsRead ==
  ASSUME SharedTypeOK
  PROVE  /\ CacheMaxBytes \in Nat \cup {Malformed}
         /\ CacheMaxBytes # limit => limit = Unread
BY LimitsAreNatural DEF SharedTypeOK, CacheMaxBytes, ParseCacheMaxBytes

LEMMA InsertReaderStep ==
  ASSUME IInv, NEW t \in Threads, InsertReader(t)
  PROVE  IInv'
<1>. USE DEF IInv, TypeOK
<1>0. /\ pc[t] = "insert" /\ pc[t] \in Locked
      /\ UNCHANGED <<fileVars, exprVars, setting>>
      /\ limit' \in Nat \cup {Malformed}
      /\ limit' # limit => limit = Unread
      /\ held[t] = Truth(job[t])
      /\ ~Cached(job[t])
      /\ error[t] = "none"
  BY LimitIsRead DEF InsertReader, ThreadInv, ThreadOK, Locked
<1>1. /\ job[t] \in expressions /\ job[t] \in Identity
      /\ Truth(job[t]) \in Contents /\ job[t].size \in Nat
  BY <1>0, JobIsIdentity
<1>2. CASE /\ limit' = Malformed
           /\ Fail(t, "insert", "limit")
           /\ Release
           /\ UNCHANGED <<cacheVars, inserted>>
  BY <1>0, <1>2, FailStep DEF Locked
<1>3. CASE /\ limit' # Malformed
           /\ Advance(t, "insert", "evict")
           /\ AddReader(job[t], held[t])
           /\ inserted' = Append(inserted, job[t])
           /\ UNCHANGED lockVars
  <2>. DEFINE n == Len(insertion_order)
  <2>1. /\ pc' = [pc EXCEPT ![t] = "evict"] /\ pc'[t] = "evict"
        /\ \A u \in Threads \ {t} : pc'[u] = pc[u] /\ pc[u] \notin Locked
        /\ "evict" \in Labels \cap Locked
        /\ UNCHANGED <<job, handle, held, error, calls, lockVars>>
        /\ limit' \in Nat
    BY <1>0, <1>3, OnlyWriterLocked DEF Advance, Goto, ThreadsTypeOK, Labels, Locked
  <2>2. /\ insertion_order' = Append(insertion_order, job[t])
        /\ DOMAIN readers' = DOMAIN readers \cup {job[t]}
        /\ readers' = [id \in DOMAIN readers' |-> readers'[id]]
        /\ readers'[job[t]] = Truth(job[t])
        /\ \A id \in DOMAIN readers : readers'[id] = readers[id]
    BY <1>0, <1>3 DEF AddReader, Cached
  <2>3. bytes' \in 0 .. UsizeMax
    BY <1>1, <1>3, UsizeMaxIsNatural DEF AddReader, SaturatingAdd, Usize, CacheTypeOK
  <2>4. /\ insertion_order' \in Seq(Identity) /\ inserted' \in Seq(Identity)
        /\ Len(insertion_order') = n + 1 /\ n \in Nat
        /\ insertion_order'[n + 1] = job[t]
        /\ \A i \in 1 .. n : insertion_order'[i] = insertion_order[i]
        /\ Len(inserted') = Len(inserted) + 1 /\ Len(inserted) \in Nat
        /\ inserted'[Len(inserted) + 1] = job[t]
        /\ \A i \in 1 .. Len(inserted) : inserted'[i] = inserted[i]
    BY <1>1, <1>3, <2>2 DEF CacheTypeOK
  <2>5. FilesTypeOK' /\ FilesInv' /\ ExpressionsInv'
    BY <1>0, FilesFrame DEF ExpressionsInv, exprVars, fileVars
  <2>6. CacheTypeOK'
    BY <1>1, <2>2, <2>3, <2>4 DEF CacheTypeOK
  <2>7. SharedTypeOK' /\ ThreadsTypeOK'
    <3>1. SharedTypeOK'
      BY <1>0, <2>1 DEF SharedTypeOK, exprVars, lockVars
    <3>2. ThreadsTypeOK'
      BY <2>1 DEF ThreadsTypeOK
    <3>. QED
      BY <3>1, <3>2
  <2>8. LockInv'
    BY <1>0, <2>1, LockStep DEF LockInv, lockVars
  <2>9. ThreadInv'
    <3>1. ThreadOK(t)'
      BY <1>0, <1>1, <2>1, FilesFrame DEF ThreadInv, ThreadOK, exprVars, fileVars
    <3>2. ASSUME NEW u \in Threads \ {t}
          PROVE  ThreadOK(u)'
      BY <1>0, <2>1, FilesFrame DEF ThreadInv, ThreadOK, exprVars, fileVars, Locked
    <3>. QED
      BY <3>1, <3>2 DEF ThreadInv
  <2>10. ReadersInv'
    <3>1. IsFiniteSet(DOMAIN readers')
      BY <2>2, FS_AddElement DEF ReadersInv
    <3>2. ASSUME NEW u \in Threads, pc'[u] = "evict"
          PROVE  u = t
      BY <2>1, <3>2
    <3>3. insertion_order' # <<>> /\ insertion_order'[Len(insertion_order')] = job'[t]
      BY <2>1, <2>4
    <3>. QED
      BY <1>0, <1>1, <2>1, <2>2, <3>1, <3>2, <3>3 DEF ReadersInv, exprVars
  <2>11. ChangedInv'
    BY <1>0, <2>1 DEF ChangedInv, Locked
  <2>12. SnapshotsFaithful'
    BY <1>0, <2>1, <2>2, FilesFrame DEF SnapshotsFaithful, AnswerFaithful
  <2>13. CacheIndexed'
    <3>1. \A i \in 1 .. n : insertion_order[i] # job[t]
      BY <1>0 DEF CacheIndexed, Cached
    <3>2. {insertion_order'[i] : i \in 1 .. n + 1} = {insertion_order[i] : i \in 1 .. n} \cup {job[t]}
      BY <2>4
    <3>3. \A i, j \in 1 .. n + 1 : insertion_order'[i] = insertion_order'[j] => i = j
      BY <2>4, <3>1 DEF CacheIndexed
    <3>. QED
      BY <2>2, <2>4, <3>2, <3>3 DEF CacheIndexed
  <2>14. CacheBounded'
    BY <2>1 DEF CacheBounded
  <2>15. OldestEvictedFirst'
    <3>. DEFINE e == Len(inserted) - n
    <3>1. e \in Nat /\ \A i \in 1 .. n : insertion_order[i] = inserted[e + i]
      BY <2>4 DEF OldestEvictedFirst
    <3>2. Len(inserted') - Len(insertion_order') = e
      BY <2>4
    <3>3. ASSUME NEW i \in 1 .. Len(insertion_order')
          PROVE  insertion_order'[i] = inserted'[e + i]
      <4>1. CASE i = n + 1
        BY <4>1, <2>4, <3>1
      <4>2. CASE i \in 1 .. n
        BY <4>2, <2>4, <3>1
      <4>. QED
        BY <2>4, <4>1, <4>2
    <3>4. insertion_order' # <<>>
      BY <2>4
    <3>. QED
      BY <3>1, <3>2, <3>3, <3>4 DEF OldestEvictedFirst
  <2>16. FailuresJustified'
    <3>1. FailureJustified(t)'
      BY <1>0, <2>1 DEF FailureJustified
    <3>2. ASSUME NEW u \in Threads \ {t}
          PROVE  FailureJustified(u)'
      <4>1. error[u] = "changed" => job[u] # job[t]
        BY <1>0 DEF ChangedInv
      <4>2. error[u] = "limit" => limit = Malformed
        BY DEF FailuresJustified, FailureJustified
      <4>3. error[u] = "limit" => limit' = Malformed
        BY <1>0, <4>2, LimitsAreNatural
      <4>. QED
        BY <1>0, <2>1, <2>2, <4>1, <4>3, FilesFrame DEF FailuresJustified, FailureJustified, Cached
    <3>. QED
      BY <3>1, <3>2 DEF FailuresJustified
  <2>. QED
    BY <2>5, <2>6, <2>7, <2>8, <2>9, <2>10, <2>11, <2>12, <2>13, <2>14, <2>15, <2>16
<1>. QED
  BY <1>0, <1>2, <1>3 DEF InsertReader

(* While the loop runs over its limit there is an older snapshot to evict: *)
(* the ways out of the loop on a break are never taken.                    *)
LEMMA SomethingToEvict ==
  ASSUME IInv, NEW t \in Threads, pc[t] = "evict", OverLimit(limit)
  PROVE  /\ insertion_order # <<>>
         /\ Head(insertion_order) # job[t]
         /\ ~NothingToEvict(job[t])
<1>. USE DEF IInv, TypeOK
<1>. DEFINE n == Len(insertion_order)
<1>1. /\ insertion_order # <<>> /\ insertion_order[n] = job[t]
      /\ insertion_order \in Seq(Identity)
      /\ n \in Nat /\ n # 0 /\ Head(insertion_order) = insertion_order[1]
  BY DEF ReadersInv, CacheTypeOK
<1>2. ASSUME Head(insertion_order) = job[t]
      PROVE  FALSE
  <2>. DEFINE q == insertion_order
  <2>0. {q[i] : i \in 1 .. Len(q)} = DOMAIN readers /\ \A i, j \in 1 .. Len(q) : q[i] = q[j] => i = j
    BY DEF CacheIndexed
  <2>1. Len(q) = 1
    <3>1. Len(q) \in Nat /\ 1 \in 1 .. Len(q) /\ Len(q) \in 1 .. Len(q)
      BY <1>1
    <3>2. q[1] = q[Len(q)]
      BY <1>1, <1>2
    <3>. QED
      BY <2>0, <3>1, <3>2
  <2>2. DOMAIN readers = {job[t]}
    <3>1. q[1] = job[t] /\ \A i : i \in 1 .. 1 <=> i = 1
      BY <1>1, <2>1
    <3>2. {q[i] : i \in 1 .. 1} = {job[t]}
      BY <3>1
    <3>. QED
      BY <2>0, <2>1, <3>2
  <2>3. Cardinality(DOMAIN readers) = 1
    BY <2>2, FS_Singleton
  <2>. QED
    BY <2>3 DEF OverLimit
<1>. QED
  BY <1>1, <1>2 DEF NothingToEvict

LEMMA EvictReaderStep ==
  ASSUME IInv, NEW t \in Threads, EvictReader(t)
  PROVE  IInv'
<1>. USE DEF IInv, TypeOK
<1>. DEFINE n == Len(insertion_order)
            oldest == Head(insertion_order)
<1>0. /\ pc[t] = "evict" /\ pc[t] \in Locked
      /\ OverLimit(limit)
      /\ UNCHANGED <<fileVars, lockVars, limitVars, exprVars, threadVars, inserted>>
  BY DEF EvictReader, Locked
<1>1. /\ insertion_order # <<>> /\ oldest # job[t] /\ insertion_order[n] = job[t]
      /\ insertion_order \in Seq(Identity)
      /\ n \in Nat /\ oldest = insertion_order[1]
  BY <1>0, SomethingToEvict DEF ReadersInv, CacheTypeOK
<1>2. n > 1
  BY <1>1
<1>3. /\ insertion_order' = Tail(insertion_order)
      /\ DOMAIN readers' = DOMAIN readers \ {oldest}
      /\ readers' = [id \in DOMAIN readers' |-> readers'[id]]
      /\ \A id \in DOMAIN readers' : readers'[id] = readers[id]
  BY DEF EvictReader, EvictOldest, Without
<1>4. /\ insertion_order' \in Seq(Identity)
      /\ Len(insertion_order') = n - 1
      /\ \A i \in 1 .. n - 1 : insertion_order'[i] = insertion_order[i + 1]
  BY <1>1, <1>2, <1>3
<1>5. bytes' \in 0 .. UsizeMax
  <2>1. oldest \in Identity
    BY <1>1, <1>2
  <2>2. Usize(oldest.size) \in Nat /\ bytes \in 0 .. UsizeMax
    BY <2>1, UsizeMaxIsNatural DEF Usize, Identity, CacheTypeOK
  <2>3. bytes' = SaturatingSub(bytes, Usize(oldest.size)) \/ bytes' = bytes
    BY DEF EvictReader, EvictOldest
  <2>. QED
    BY <2>2, <2>3, UsizeMaxIsNatural DEF SaturatingSub
<1>6. \A u \in Threads \ {t} : pc[u] \notin Locked
  BY <1>0, OnlyWriterLocked
<1>7. FilesTypeOK' /\ FilesInv' /\ ExpressionsInv'
  BY <1>0, FilesFrame DEF ExpressionsInv, exprVars, fileVars
<1>8. CacheTypeOK'
  BY <1>0, <1>3, <1>4, <1>5 DEF CacheTypeOK
<1>9. SharedTypeOK' /\ ThreadsTypeOK' /\ LockInv' /\ ChangedInv'
  BY <1>0 DEF SharedTypeOK, ThreadsTypeOK, LockInv, ChangedInv, lockVars, limitVars, exprVars,
     threadVars
<1>10. ThreadInv'
  <2>1. ThreadOK(t)'
    BY <1>0, FilesFrame DEF ThreadInv, ThreadOK, exprVars, fileVars, threadVars
  <2>2. ASSUME NEW u \in Threads \ {t}
        PROVE  ThreadOK(u)'
    BY <1>0, <1>6, FilesFrame DEF ThreadInv, ThreadOK, exprVars, fileVars, threadVars, Locked
  <2>. QED
    BY <2>1, <2>2 DEF ThreadInv
<1>11. ReadersInv'
  <2>1. IsFiniteSet(DOMAIN readers')
    BY <1>3, FS_RemoveElement DEF ReadersInv
  <2>2. insertion_order' # <<>> /\ insertion_order'[Len(insertion_order')] = job[t]
    BY <1>1, <1>2, <1>4
  <2>3. \A u \in Threads : pc'[u] = "evict" => u = t
    BY <1>0, <1>6 DEF threadVars, Locked
  <2>. QED
    BY <1>0, <1>3, <2>1, <2>2, <2>3 DEF ReadersInv, exprVars, limitVars, threadVars
<1>12. SnapshotsFaithful'
  BY <1>0, <1>3, FilesFrame DEF SnapshotsFaithful, AnswerFaithful, threadVars
<1>13. CacheIndexed'
  <2>1. {insertion_order'[i] : i \in 1 .. n - 1} = {insertion_order[i] : i \in 2 .. n}
    <3>1. ASSUME NEW i \in 2 .. n
          PROVE  insertion_order[i] = insertion_order'[i - 1] /\ i - 1 \in 1 .. n - 1
      BY <1>1, <1>4
    <3>2. ASSUME NEW i \in 1 .. n - 1
          PROVE  insertion_order'[i] = insertion_order[i + 1] /\ i + 1 \in 2 .. n
      BY <1>1, <1>4
    <3>. HIDE DEF n
    <3>. QED
      BY <3>1, <3>2
  <2>2. {insertion_order[i] : i \in 2 .. n} = DOMAIN readers \ {oldest}
    BY <1>1, <1>2 DEF CacheIndexed
  <2>3. \A i, j \in 1 .. n - 1 : insertion_order'[i] = insertion_order'[j] => i = j
    BY <1>1, <1>4 DEF CacheIndexed
  <2>. QED
    BY <1>3, <1>4, <2>1, <2>2, <2>3 DEF CacheIndexed
<1>14. CacheBounded'
  BY <1>0 DEF CacheBounded, threadVars
<1>15. OldestEvictedFirst'
  <2>. DEFINE e == Len(inserted) - n
  <2>1. Len(inserted) \in Nat
    BY DEF CacheTypeOK
  <2>2. e >= 0 /\ \A i \in 1 .. n : insertion_order[i] = inserted[e + i]
    BY DEF OldestEvictedFirst
  <2>3. Len(inserted) - Len(insertion_order') = e + 1
    BY <1>1, <1>4, <2>1
  <2>4. ASSUME NEW i \in 1 .. n - 1
        PROVE  insertion_order'[i] = inserted[(e + 1) + i]
    <3>1. insertion_order'[i] = inserted[e + (i + 1)]
      BY <1>1, <1>4, <2>2
    <3>. QED
      BY <1>1, <2>1, <3>1
  <2>5. insertion_order' # <<>>
    BY <1>2, <1>4
  <2>. QED
    BY <1>0, <1>1, <1>4, <2>1, <2>2, <2>3, <2>4, <2>5 DEF OldestEvictedFirst
<1>16. FailuresJustified'
  BY <1>0, <1>3, FilesFrame DEF FailuresJustified, FailureJustified, Cached, threadVars, limitVars
<1>. QED
  BY <1>7, <1>8, <1>9, <1>10, <1>11, <1>12, <1>13, <1>14, <1>15, <1>16

(* The loop ends within the limit, or with one snapshot left.              *)
LEMMA FinishInsertStep ==
  ASSUME IInv, NEW t \in Threads, FinishInsert(t)
  PROVE  IInv'
<1>. USE DEF IInv, TypeOK
<1>0. /\ pc[t] = "evict" /\ pc[t] \in Locked
      /\ ~OverLimit(limit)
      /\ UNCHANGED cacheVars
      /\ UNCHANGED <<fileVars, limitVars, exprVars, inserted, job, handle, error, calls>>
      /\ pc' = [pc EXCEPT ![t] = "returned"] /\ "returned" \in Labels
      /\ held' = [held EXCEPT ![t] = held[t]]
      /\ writer' = NoThread /\ poisoned' = FALSE
      /\ held[t] = Truth(job[t]) /\ error[t] = "none" /\ limit \in Nat
  <2>1. pc[t] = "evict"
    BY DEF FinishInsert
  <2>2. ~OverLimit(limit)
    BY <2>1, SomethingToEvict DEF FinishInsert
  <2>. QED
    BY <2>1, <2>2
    DEF FinishInsert, Return, Goto, Release, Locked, Labels, LockInv, ThreadInv, ThreadOK, ReadersInv
<1>1. /\ pc'[t] = "returned" /\ held' = held
      /\ \A u \in Threads \ {t} : pc'[u] = pc[u] /\ pc[u] \notin Locked
  BY <1>0, OnlyWriterLocked DEF ThreadsTypeOK
<1>2. CacheTypeOK' /\ SharedTypeOK' /\ ThreadsTypeOK'
  <2>1. CacheTypeOK' /\ ThreadsTypeOK'
    BY <1>0, <1>1 DEF CacheTypeOK, ThreadsTypeOK, cacheVars
  <2>2. SharedTypeOK'
    BY <1>0 DEF SharedTypeOK, limitVars, exprVars
  <2>. QED
    BY <2>1, <2>2
<1>3. FilesTypeOK' /\ FilesInv' /\ ExpressionsInv'
  BY <1>0, FilesFrame DEF ExpressionsInv, exprVars, fileVars
<1>4. LockInv'
  BY <1>0, LockStep DEF Locked
<1>5. ThreadInv'
  <2>1. ThreadOK(t)'
    BY <1>0, <1>1 DEF ThreadInv, ThreadOK, exprVars, Locked
  <2>2. ASSUME NEW u \in Threads \ {t}
        PROVE  ThreadOK(u)'
    BY <1>0, <1>1, FilesFrame DEF ThreadInv, ThreadOK, exprVars, fileVars, Locked
  <2>. QED
    BY <2>1, <2>2 DEF ThreadInv
<1>6. ReadersInv' /\ ChangedInv'
  BY <1>0, <1>1 DEF ReadersInv, ChangedInv, cacheVars, limitVars, exprVars, Locked
<1>7. SnapshotsFaithful'
  <2>1. \A u \in Threads : AnswerFaithful(u)'
    BY <1>0, <1>1, FilesFrame DEF SnapshotsFaithful, AnswerFaithful
  <2>. QED
    BY <1>0, <2>1, FilesFrame DEF SnapshotsFaithful, cacheVars
<1>8. CacheIndexed' /\ OldestEvictedFirst'
  BY <1>0 DEF CacheIndexed, OldestEvictedFirst, cacheVars
<1>9. CacheBounded'
  <2>1. Cardinality(DOMAIN readers) \in Nat
    BY FS_CardinalityType DEF ReadersInv
  <2>2. bytes \in Nat
    BY UsizeMaxIsNatural DEF CacheTypeOK
  <2>3. bytes <= limit \/ Cardinality(DOMAIN readers) <= 1
    BY <1>0, <2>1, <2>2 DEF OverLimit
  <2>. QED
    BY <1>0, <2>3 DEF CacheBounded, cacheVars, limitVars
<1>10. FailuresJustified'
  BY <1>0, FilesFrame DEF FailuresJustified, FailureJustified, Cached, cacheVars, limitVars
<1>. QED
  BY <1>2, <1>3, <1>4, <1>5, <1>6, <1>7, <1>8, <1>9, <1>10

----------------------------------------------------------------------------
(* The invariant, and what it says.                                        *)

LEMMA StutterStep ==
  ASSUME IInv, UNCHANGED vars
  PROVE  IInv'
<1>. USE DEF IInv, TypeOK, vars
<1>1. CacheTypeOK' /\ SharedTypeOK' /\ ThreadsTypeOK'
  BY DEF CacheTypeOK, SharedTypeOK, ThreadsTypeOK, cacheVars, lockVars, limitVars, exprVars,
     threadVars
<1>2. FilesTypeOK' /\ FilesInv'
  BY FilesFrame
<1>3. ExpressionsInv' /\ LockInv' /\ ReadersInv' /\ ChangedInv'
  BY FilesFrame
  DEF ExpressionsInv, LockInv, ReadersInv, ChangedInv, cacheVars, lockVars, limitVars, exprVars,
      threadVars, fileVars
<1>4. ThreadInv' /\ SnapshotsFaithful' /\ FailuresJustified'
  BY FilesFrame
  DEF ThreadInv, ThreadOK, SnapshotsFaithful, AnswerFaithful, FailuresJustified, FailureJustified,
      threadVars, cacheVars, limitVars, exprVars, Cached, fileVars
<1>5. CacheIndexed' /\ CacheBounded' /\ OldestEvictedFirst'
  BY DEF CacheIndexed, CacheBounded, OldestEvictedFirst, cacheVars, threadVars, limitVars
<1>. QED
  BY <1>1, <1>2, <1>3, <1>4, <1>5

(* Every step keeps the inductive invariant.                               *)
LEMMA NextIInv == IInv /\ [Next]_vars => IInv'
<1>. SUFFICES ASSUME IInv, [Next]_vars PROVE IInv'
  OBVIOUS
<1>1. CASE ChangeFiles
  BY <1>1, ChangeFilesStep
<1>2. CASE Construct
  BY <1>2, ConstructStep DEF Construct
<1>3. CASE \E v \in LimitSettings : SetLimit(v)
  BY <1>3, SetLimitStep
<1>4. ASSUME NEW t \in Threads, Use(t)
      PROVE  IInv'
  BY <1>4, UseStep
<1>5. ASSUME NEW t \in Threads, Step(t)
      PROVE  IInv'
  BY <1>5, ProbeStep, AcquireStep, CanonicalizePathStep, CheckBeforeStep, OpenFileStep,
     ReadRestStep, CheckAfterStep, ParseSnapshotStep, InsertReaderStep, EvictReaderStep,
     FinishInsertStep
  DEF Step
<1>6. CASE UNCHANGED vars
  BY <1>6, StutterStep
<1>. QED
  BY <1>1, <1>2, <1>3, <1>4, <1>5, <1>6 DEF Next, Quiet

(* The inductive invariant holds throughout: every thread's place in       *)
(* reader_for agrees with the lock, the cache and the files.               *)
THEOREM Inductive == Spec => []IInv
BY InitIInv, NextIInv, PTL DEF Spec

(* Every variable keeps its type, bytes a usize included.                  *)
THEOREM TypeCorrect == Spec => []TypeOK
<1>1. IInv => TypeOK
  BY DEF IInv
<1>. QED
  BY <1>1, Inductive, PTL

(* No call is ever given bytes its identity does not name, and none is     *)
(* ever cached: for any number of threads and files and any interleaving   *)
(* of lookups with writes, deletions and moves.                            *)
THEOREM Faithful == Spec => []SnapshotsFaithful
<1>1. IInv => SnapshotsFaithful
  BY DEF IInv
<1>. QED
  BY <1>1, Inductive, PTL

(* The queue and the map of the cache name the same identities, each once. *)
THEOREM Indexed == Spec => []CacheIndexed
<1>1. IInv => CacheIndexed
  BY DEF IInv
<1>. QED
  BY <1>1, Inductive, PTL

(* Between insertions the cache is within its limit or holds one snapshot. *)
THEOREM Bounded == Spec => []CacheBounded
<1>1. IInv => CacheBounded
  BY DEF IInv
<1>. QED
  BY <1>1, Inductive, PTL

(* Eviction takes the oldest insertions and never the newest.              *)
THEOREM EvictionInOrder == Spec => []OldestEvictedFirst
<1>1. IInv => OldestEvictedFirst
  BY DEF IInv
<1>. QED
  BY <1>1, Inductive, PTL

(* An error is about the caller's own database or the limit.               *)
THEOREM Justified == Spec => []FailuresJustified
<1>1. IInv => FailuresJustified
  BY DEF IInv
<1>. QED
  BY <1>1, Inductive, PTL

----------------------------------------------------------------------------
(* The byte count.  A charge is a sum along a queue, so facts about it are *)
(* by induction on the place in the queue.                                 *)

(* Induction up to a bound, for a set of places.                           *)
LEMMA PlaceInduction ==
  ASSUME NEW n \in Nat, NEW S, 0 \in S, \A i \in 1 .. n : i - 1 \in S => i \in S
  PROVE  0 .. n \subseteq S
<1>. SUFFICES ASSUME ~(0 .. n \subseteq S) PROVE FALSE
  OBVIOUS
<1>. DEFINE bad == (0 .. n) \ S
<1>1. bad \subseteq Nat /\ bad # {}
  OBVIOUS
<1>2. PICK i \in bad : \A j \in bad : ~(<<j, i>> \in OpToRel(<, Nat))
  <2>. HIDE DEF bad
  <2>. QED
    BY <1>1, NatLessThanWellFounded, WFMin, Zenon
<1>3. \A j \in bad : ~(j < i)
  BY <1>1, <1>2 DEF OpToRel
<1>4. i \in 1 .. n /\ i \notin S /\ i - 1 \in 0 .. n
  <2>1. i \in 0 .. n /\ i \notin S /\ i # 0
    OBVIOUS
  <2>. QED
    BY <2>1
<1>5. i - 1 \in S
  BY <1>3, <1>4
<1>. QED
  BY <1>4, <1>5

(* The recursive definition of a charge has a solution.                    *)
LEMMA ChargeDef ==
  ASSUME NEW queue \in Seq(Identity)
  PROVE  ChargeUpTo(queue) =
           [i \in 0 .. Len(queue) |->
              IF i = 0 THEN 0 ELSE ChargeUpTo(queue)[i - 1] + queue[i].size]
<1>. DEFINE n == Len(queue)
            Body(f, i) == IF i = 0 THEN 0 ELSE f[i - 1] + queue[i].size
            S == {m \in 0 .. n : \E f : f = [i \in 0 .. m |-> Body(f, i)]}
<1>1. n \in Nat
  OBVIOUS
<1>2. 0 \in S
  <2>. DEFINE f == [i \in 0 .. 0 |-> 0]
  <2>1. \A i \in 0 .. 0 : Body(f, i) = 0
    OBVIOUS
  <2>2. f = [i \in 0 .. 0 |-> Body(f, i)]
    BY <2>1
  <2>3. \E h : h = [i \in 0 .. 0 |-> Body(h, i)]
    <3>. HIDE DEF Body, f
    <3>. QED
      BY <2>2
  <2>. QED
    BY <1>1, <2>3
<1>3. ASSUME NEW m \in 1 .. n, m - 1 \in S
      PROVE  m \in S
  <2>1. PICK g : g = [i \in 0 .. m - 1 |-> Body(g, i)]
    BY <1>3
  <2>. DEFINE f == [i \in 0 .. m |-> Body(g, i)]
  <2>2. ASSUME NEW i \in 0 .. m
        PROVE  Body(g, i) = Body(f, i)
    <3>1. CASE i = 0
      BY <3>1
    <3>2. CASE i # 0
      <4>1. i - 1 \in 0 .. m - 1 /\ i - 1 \in 0 .. m
        BY <3>2
      <4>2. g[i - 1] = Body(g, i - 1) /\ f[i - 1] = Body(g, i - 1)
        BY <2>1, <4>1
      <4>. QED
        BY <3>2, <4>2
    <3>. QED
      BY <3>1, <3>2
  <2>3. f = [i \in 0 .. m |-> Body(f, i)]
    BY <2>2
  <2>4. \E h : h = [i \in 0 .. m |-> Body(h, i)]
    <3>. HIDE DEF Body, f
    <3>. QED
      BY <2>3
  <2>. QED
    BY <2>4
<1>4. 0 .. n \subseteq S
  <2>. HIDE DEF S
  <2>. QED
    BY <1>1, <1>2, <1>3, PlaceInduction
<1>5. \E f : f = [i \in 0 .. n |-> Body(f, i)]
  BY <1>1, <1>4
<1>. QED
  BY <1>5 DEF ChargeUpTo

(* A charge is a number, and nothing for an empty queue.                   *)
LEMMA ChargeType ==
  ASSUME NEW queue \in Seq(Identity)
  PROVE  /\ \A i \in 0 .. Len(queue) : ChargeUpTo(queue)[i] \in Nat
         /\ Charge(queue) \in Nat
<1>. DEFINE n == Len(queue)
            S == {i \in 0 .. n : ChargeUpTo(queue)[i] \in Nat}
<1>1. n \in Nat
  OBVIOUS
<1>2. 0 \in S
  BY <1>1, ChargeDef
<1>3. ASSUME NEW i \in 1 .. n, i - 1 \in S
      PROVE  i \in S
  <2>1. ChargeUpTo(queue)[i] = ChargeUpTo(queue)[i - 1] + queue[i].size
    BY <1>1, ChargeDef
  <2>2. queue[i] \in Identity
    OBVIOUS
  <2>3. queue[i].size \in Nat
    BY <2>2 DEF Identity
  <2>. QED
    BY <1>3, <2>1, <2>3
<1>4. 0 .. n \subseteq S
  <2>. HIDE DEF S
  <2>. QED
    BY <1>1, <1>2, <1>3, PlaceInduction
<1>. QED
  BY <1>1, <1>4 DEF Charge

LEMMA ChargeEmpty == Charge(<<>>) = 0
<1>1. <<>> \in Seq(Identity)
  OBVIOUS
<1>2. Len(<<>>) = 0
  OBVIOUS
<1>3. 0 \in 0 .. Len(<<>>)
  BY <1>2
<1>4. ChargeUpTo(<<>>)[0] = 0
  BY <1>1, <1>3, ChargeDef
<1>. QED
  BY <1>2, <1>4 DEF Charge

(* A snapshot more at the end adds its size ...                            *)
LEMMA ChargeAppend ==
  ASSUME NEW queue \in Seq(Identity), NEW id \in Identity
  PROVE  Charge(Append(queue, id)) = Charge(queue) + id.size
<1>. DEFINE n == Len(queue)
            more == Append(queue, id)
            S == {i \in 0 .. n : ChargeUpTo(more)[i] = ChargeUpTo(queue)[i]}
<1>1. n \in Nat /\ more \in Seq(Identity) /\ Len(more) = n + 1 /\ more[n + 1] = id
  OBVIOUS
<1>2. 0 \in S
  BY <1>1, ChargeDef
<1>3. ASSUME NEW i \in 1 .. n, i - 1 \in S
      PROVE  i \in S
  <2>0. i \in 0 .. n + 1 /\ i # 0
    BY <1>1
  <2>1. more[i] = queue[i]
    OBVIOUS
  <2>2. ChargeUpTo(queue)[i] = ChargeUpTo(queue)[i - 1] + queue[i].size
    BY <1>1, ChargeDef
  <2>3. ChargeUpTo(more)[i] = ChargeUpTo(more)[i - 1] + more[i].size
    <3>. HIDE DEF more
    <3>. QED
      BY <1>1, <2>0, ChargeDef
  <2>. QED
    BY <1>3, <2>1, <2>2, <2>3
<1>4. 0 .. n \subseteq S
  <2>. HIDE DEF S
  <2>. QED
    BY <1>1, <1>2, <1>3, PlaceInduction
<1>5. ChargeUpTo(more)[n + 1] = ChargeUpTo(more)[n] + more[n + 1].size
  <2>. HIDE DEF more
  <2>. QED
    BY <1>1, ChargeDef
<1>. QED
  BY <1>1, <1>4, <1>5 DEF Charge

(* ... and one less at the head takes its size off.                        *)
LEMMA ChargeTail ==
  ASSUME NEW queue \in Seq(Identity), queue # <<>>
  PROVE  Charge(queue) = Charge(Tail(queue)) + Head(queue).size
<1>. DEFINE n == Len(queue)
            rest == Tail(queue)
            size == Head(queue).size
            S == {i \in 0 .. n - 1 : ChargeUpTo(queue)[i + 1] = ChargeUpTo(rest)[i] + size}
<1>1. /\ n \in Nat /\ n - 1 \in Nat /\ rest \in Seq(Identity) /\ Len(rest) = n - 1
      /\ Head(queue) = queue[1] /\ size \in Nat
  <2>1. Len(queue) \in Nat /\ Len(queue) # 0 /\ queue[1] \in Identity /\ Head(queue) = queue[1]
    OBVIOUS
  <2>2. rest \in Seq(Identity) /\ Len(rest) = n - 1
    OBVIOUS
  <2>. QED
    BY <2>1, <2>2 DEF Identity
<1>2. 0 \in S
  <2>1. ChargeUpTo(queue)[1] = ChargeUpTo(queue)[0] + size /\ ChargeUpTo(queue)[0] = 0
    BY <1>1, ChargeDef
  <2>2. ChargeUpTo(rest)[0] = 0
    BY <1>1, ChargeDef
  <2>. QED
    BY <1>1, <2>1, <2>2
<1>3. ASSUME NEW i \in 1 .. n - 1, i - 1 \in S
      PROVE  i \in S
  <2>1. rest[i] = queue[i + 1]
    OBVIOUS
  <2>2. ChargeUpTo(queue)[i + 1] = ChargeUpTo(queue)[i] + queue[i + 1].size
    BY <1>1, ChargeDef
  <2>3. ChargeUpTo(rest)[i] = ChargeUpTo(rest)[i - 1] + rest[i].size
    <3>. HIDE DEF rest
    <3>. QED
      BY <1>1, ChargeDef
  <2>4. /\ ChargeUpTo(queue)[i] = ChargeUpTo(rest)[i - 1] + size
        /\ ChargeUpTo(rest)[i - 1] \in Nat /\ rest[i].size \in Nat
    <3>1. i - 1 \in 0 .. n - 1 /\ i \in 1 .. Len(rest)
      BY <1>1
    <3>2. ChargeUpTo(rest)[i - 1] \in Nat
      <4>. HIDE DEF rest
      <4>. QED
        BY <1>1, <3>1, ChargeType
    <3>3. rest[i].size \in Nat
      <4>1. rest[i] \in Identity
        <5>. HIDE DEF rest
        <5>. QED
          BY <1>1, <3>1
      <4>. QED
        BY <4>1 DEF Identity
    <3>. QED
      BY <1>3, <3>2, <3>3
  <2>. QED
    BY <1>1, <2>1, <2>2, <2>3, <2>4
<1>4. 0 .. n - 1 \subseteq S
  <2>. HIDE DEF S
  <2>. QED
    BY <1>1, <1>2, <1>3, PlaceInduction
<1>5. n - 1 \in 0 .. n - 1
  BY <1>1
<1>. QED
  BY <1>1, <1>4, <1>5 DEF Charge

(* Saturating arithmetic never charges for more than there is, and is      *)
(* exact within a usize.                                                   *)
LEMMA SaturatingFacts ==
  ASSUME NEW a \in 0 .. UsizeMax, NEW n \in Nat
  PROVE  /\ SaturatingAdd(a, Usize(n)) <= a + n
         /\ a + n <= UsizeMax => SaturatingAdd(a, Usize(n)) = a + n
         /\ \A b \in Nat : a <= b + n => SaturatingSub(a, Usize(n)) <= b
         /\ n <= a => SaturatingSub(a, Usize(n)) = a - n
BY UsizeMaxIsNatural DEF SaturatingAdd, SaturatingSub, Usize

LEMMA InsertReaderBytes ==
  ASSUME IInv, BytesInv, NEW t \in Threads, InsertReader(t)
  PROVE  BytesInv'
<1>1. CASE UNCHANGED <<cacheVars, inserted>>
  BY <1>1 DEF BytesInv, BytesAccounted, cacheVars
<1>2. CASE AddReader(job[t], held[t]) /\ inserted' = Append(inserted, job[t])
  <2>1. job[t] \in Identity /\ job[t].size \in Nat
    BY JobIsIdentity DEF InsertReader, IInv, TypeOK, ThreadInv, ThreadOK
  <2>2. /\ insertion_order \in Seq(Identity) /\ inserted \in Seq(Identity)
        /\ bytes \in 0 .. UsizeMax /\ UsizeMax \in Nat
    BY UsizeMaxIsNatural DEF IInv, TypeOK, CacheTypeOK
  <2>3. /\ Charge(insertion_order') = Charge(insertion_order) + job[t].size
        /\ Charge(inserted') = Charge(inserted) + job[t].size
        /\ Charge(insertion_order) \in Nat /\ Charge(inserted) \in Nat
    BY <1>2, <2>1, <2>2, ChargeAppend, ChargeType DEF AddReader
  <2>4. bytes' = SaturatingAdd(bytes, Usize(job[t].size))
    BY <1>2 DEF AddReader
  <2>5. /\ bytes' <= bytes + job[t].size
        /\ bytes + job[t].size <= UsizeMax => bytes' = bytes + job[t].size
        /\ bytes' \in Nat
    <3>1. bytes' \in Nat
      BY <2>1, <2>2, <2>4 DEF SaturatingAdd, Usize
    <3>. QED
      BY <2>1, <2>2, <2>4, <3>1, SaturatingFacts
  <2>. QED
    BY <2>1, <2>2, <2>3, <2>5 DEF BytesInv, BytesAccounted
<1>. QED
  BY <1>1, <1>2 DEF InsertReader

LEMMA EvictReaderBytes ==
  ASSUME IInv, BytesInv, NEW t \in Threads, EvictReader(t)
  PROVE  BytesInv'
<1>. DEFINE oldest == Head(insertion_order)
<1>1. /\ insertion_order # <<>> /\ insertion_order \in Seq(Identity) /\ inserted \in Seq(Identity)
      /\ bytes \in 0 .. UsizeMax /\ UsizeMax \in Nat
  BY UsizeMaxIsNatural DEF IInv, TypeOK, CacheTypeOK, EvictReader, NothingToEvict
<1>2. oldest \in Identity /\ oldest.size \in Nat
  <2>1. oldest \in Identity
    BY <1>1
  <2>. QED
    BY <2>1 DEF Identity
<1>3. Cached(oldest)
  <2>1. 1 \in 1 .. Len(insertion_order) /\ oldest = insertion_order[1]
    BY <1>1
  <2>. QED
    BY <2>1 DEF IInv, CacheIndexed, Cached
<1>4. /\ insertion_order' = Tail(insertion_order) /\ inserted' = inserted
      /\ bytes' = SaturatingSub(bytes, Usize(oldest.size))
  BY <1>3 DEF EvictReader, EvictOldest
<1>5. /\ Charge(insertion_order) = Charge(insertion_order') + oldest.size
      /\ Charge(insertion_order') \in Nat /\ Charge(inserted') = Charge(inserted)
      /\ Charge(inserted) \in Nat
  <2>1. Tail(insertion_order) \in Seq(Identity)
    BY <1>1
  <2>. QED
    BY <1>1, <1>4, <2>1, ChargeTail, ChargeType
<1>6. bytes' <= Charge(insertion_order')
  <2>1. bytes <= Charge(insertion_order') + oldest.size
    BY <1>5 DEF BytesInv, BytesAccounted
  <2>2. \A b \in Nat : bytes <= b + oldest.size => SaturatingSub(bytes, Usize(oldest.size)) <= b
    BY <1>1, <1>2, SaturatingFacts
  <2>. QED
    BY <1>4, <1>5, <2>1, <2>2
<1>7. oldest.size <= bytes => bytes' = bytes - oldest.size
  BY <1>1, <1>2, <1>4, SaturatingFacts
<1>. QED
  BY <1>1, <1>2, <1>5, <1>6, <1>7 DEF BytesInv, BytesAccounted

(* No other step touches the count or the queue.                           *)
LEMMA NextBytesInv == IInv /\ BytesInv /\ [Next]_vars => BytesInv'
<1>. SUFFICES ASSUME IInv, BytesInv, [Next]_vars PROVE BytesInv'
  OBVIOUS
<1>1. CASE UNCHANGED <<cacheVars, inserted>>
  BY <1>1 DEF BytesInv, BytesAccounted, cacheVars
<1>2. ASSUME NEW t \in Threads, FinishInsert(t)
      PROVE  UNCHANGED <<cacheVars, inserted>>
  BY <1>2, SomethingToEvict DEF FinishInsert
<1>3. ASSUME NEW t \in Threads, Use(t)
      PROVE  UNCHANGED <<cacheVars, inserted>>
  BY <1>3 DEF Use, Finish, Call
<1>4. ASSUME NEW t \in Threads, Step(t), ~InsertReader(t), ~EvictReader(t)
      PROVE  UNCHANGED <<cacheVars, inserted>>
  BY <1>2, <1>4
  DEF Step, Probe, Acquire, CanonicalizePath, CheckBefore, CheckAfter, Check, OpenFile, ReadRest,
      FailIo, ParseSnapshot
<1>5. CASE ChangeFiles \/ Construct \/ (\E v \in LimitSettings : SetLimit(v)) \/ UNCHANGED vars
  BY <1>1, <1>5 DEF ChangeFiles, Construct, ResolveDatabase, IdentifyDatabase, SetLimit, vars
<1>. QED
  BY <1>1, <1>3, <1>4, <1>5, InsertReaderBytes, EvictReaderBytes DEF Next, Quiet

(* The byte count is what the cached snapshots take up: eviction gives     *)
(* back what insertion charged, for sequences of them of any length.       *)
THEOREM Accounted == Spec => []BytesAccounted
<1>1. Init => BytesInv
  BY ChargeEmpty, UsizeMaxIsNatural DEF Init, CacheInit, ThreadsInit, BytesInv, BytesAccounted
<1>2. BytesInv => BytesAccounted
  BY DEF BytesInv
<1>. QED
  BY <1>1, <1>2, NextBytesInv, Inductive, PTL DEF Spec

----------------------------------------------------------------------------
(* SharedReaders implements SnapshotService: every behaviour of the cache, *)
(* the lock and the files, seen through the mapping of SharedReaders, is a *)
(* behaviour of the service.  That the service also answers (its liveness) *)
(* is left to the model checker.                                           *)

(* The variables of the service, as the mapping has them.                  *)
Generations == [k \in 1 .. Len(writes) |-> writes[k].content]
Asked == [t \in Threads |-> IF pc[t] = "idle" THEN 0 ELSE job[t].changed_ns]
Answers == [t \in Threads |-> IF pc[t] # "returned" THEN Nothing
                              ELSE IF error[t] = "none" THEN held[t] ELSE Failed]

(* What every step inside a call has in common: one thread moves on, and   *)
(* neither the files nor anybody else's call is touched.                   *)
LEMMA StepShape ==
  ASSUME IInv, NEW t \in Threads, Step(t)
  PROVE  /\ UNCHANGED <<fileVars, job>>
         /\ pc[t] \notin {"idle", "returned"}
         /\ pc'[t] # "idle"
         /\ \A u \in Threads \ {t} : pc'[u] = pc[u] /\ held'[u] = held[u] /\ error'[u] = error[u]
<1>. USE DEF IInv, TypeOK, ThreadsTypeOK
<1>. USE DEF Goto, Return, Fail, Advance
<1>1. CASE Probe(t)
  BY <1>1 DEF Probe
<1>2. CASE Acquire(t)
  BY <1>2 DEF Acquire
<1>3a. CASE CanonicalizePath(t)
  BY <1>3a DEF CanonicalizePath, Check, FailIo
<1>3b. CASE CheckBefore(t)
  BY <1>3b DEF CheckBefore, Check, FailIo
<1>3c. CASE CheckAfter(t)
  BY <1>3c DEF CheckAfter, Check, FailIo
<1>4. CASE OpenFile(t)
  BY <1>4 DEF OpenFile, FailIo
<1>5. CASE ReadRest(t)
  BY <1>5 DEF ReadRest, FailIo
<1>6. CASE ParseSnapshot(t)
  BY <1>6 DEF ParseSnapshot
<1>7. CASE InsertReader(t)
  BY <1>7 DEF InsertReader
<1>8. CASE EvictReader(t)
  BY <1>8 DEF EvictReader, threadVars
<1>9. CASE FinishInsert(t)
  BY <1>9 DEF FinishInsert
<1>. QED
  BY <1>1, <1>2, <1>3a, <1>3b, <1>3c, <1>4, <1>5, <1>6, <1>7, <1>8, <1>9 DEF Step

(* The files change: a write publishes a generation, the rest is unseen.   *)
LEMMA FilesPublish ==
  ASSUME IInv, ChangeFiles
  PROVE  /\ Asked' = Asked /\ Answers' = Answers
         /\ \/ \E c \in Contents : Generations' = Append(Generations, c)
            \/ Generations' = Generations
<1>. USE DEF IInv, TypeOK
<1>1. PICK open : FilesChange(open)
  BY DEF ChangeFiles
<1>2. Asked' = Asked /\ Answers' = Answers
  BY DEF Asked, Answers, ChangeFiles, threadVars
<1>3. ASSUME NEW p \in Paths, NEW c \in Contents,
             ReplaceFile(p, c, open) \/ RewriteFile(p, c)
      PROVE  Generations' = Append(Generations, c)
  <2>1. PICK f \in FileIds :
          /\ WriteFile(p, f, c)
          /\ \A q \in Paths : dir[q] = f => q = p
          /\ dir' = [dir EXCEPT ![p] = f]
          /\ target' = target
          /\ f \in open => dir[p] = f
    BY <1>3, WritesAreOfOnePath
  <2>2. /\ Len(writes') = Len(writes) + 1
        /\ \A k \in 1 .. Len(writes) : writes'[k] = writes[k]
        /\ writes'[Len(writes')] = [at |-> p, file_id |-> f, content |-> c]
    BY <2>1, WriteFileFacts
  <2>3. Len(writes) \in Nat /\ writes'[Len(writes')].content = c
    BY <2>2 DEF FilesTypeOK
  <2>4. \A k \in 1 .. Len(writes) : writes[k].content \in Contents
    <3>1. \A k \in 1 .. Len(writes) : writes[k] \in Write
      BY DEF FilesTypeOK
    <3>. QED
      BY <3>1 DEF Write
  <2>5. Generations \in Seq(Contents) /\ Len(Generations) = Len(writes)
    BY <2>3, <2>4 DEF Generations
  <2>6. /\ Append(Generations, c) \in Seq(Contents)
        /\ Len(Append(Generations, c)) = Len(writes) + 1
        /\ \A k \in 1 .. Len(writes) : Append(Generations, c)[k] = writes[k].content
        /\ Append(Generations, c)[Len(writes) + 1] = c
    <3>1. \A k \in 1 .. Len(writes) : Generations[k] = writes[k].content
      BY DEF Generations
    <3>. QED
      BY <2>3, <2>5, <3>1, AppendProperties
  <2>7. \A k \in 1 .. Len(writes) + 1 : Append(Generations, c)[k] = writes'[k].content
    BY <2>2, <2>3, <2>6
  <2>8. Generations' \in Seq(Contents) /\ Len(Generations') = Len(writes) + 1
        /\ \A k \in 1 .. Len(writes) + 1 : Generations'[k] = writes'[k].content
    <3>1. \A k \in 1 .. Len(writes) + 1 : writes'[k].content \in Contents
      BY <2>2, <2>3, <2>4
    <3>. QED
      BY <2>2, <2>3, <3>1 DEF Generations
  <2>. HIDE DEF Generations
  <2>. QED
    BY <2>6, <2>7, <2>8, SeqEqual
<1>4. ASSUME writes' = writes
      PROVE  Generations' = Generations
  BY <1>4 DEF Generations
<1>. QED
  BY <1>1, <1>2, <1>3, <1>4 DEF FilesChange, DeleteFile, RelinkPath

(* Every step is a step of the service, or is not seen there.              *)
LEMMA NextServes ==
  ASSUME IInv, IInv', [Next]_vars
  PROVE  [Service!Next]_Service!vars
<1>. USE DEF IInv, TypeOK
<1>. DEFINE Publish(c) == /\ Generations' = Append(Generations, c)
                          /\ Asked' = Asked /\ Answers' = Answers
            Ask(t, g) == /\ Asked[t] = 0
                         /\ Asked' = [Asked EXCEPT ![t] = g]
                         /\ Generations' = Generations /\ Answers' = Answers
            Answer(t) == /\ Asked[t] # 0
                         /\ Answers[t] = Nothing
                         /\ \/ Answers' = [Answers EXCEPT ![t] = Generations[Asked[t]]]
                            \/ Answers' = [Answers EXCEPT ![t] = Failed]
                         /\ Generations' = Generations /\ Asked' = Asked
            Leave(t) == /\ Answers[t] # Nothing
                        /\ Asked' = [Asked EXCEPT ![t] = 0]
                        /\ Answers' = [Answers EXCEPT ![t] = Nothing]
                        /\ Generations' = Generations
            Unseen == Generations' = Generations /\ Asked' = Asked /\ Answers' = Answers
<1>1. ASSUME ChangeFiles
      PROVE  (\E c \in Contents : Publish(c)) \/ Unseen
  BY <1>1, FilesPublish
<1>2. ASSUME Construct \/ (\E v \in LimitSettings : SetLimit(v)) \/ UNCHANGED vars
      PROVE  Unseen
  <2>1. UNCHANGED <<fileVars, threadVars>>
    BY <1>2 DEF Construct, ResolveDatabase, IdentifyDatabase, SetLimit, vars
  <2>. QED
    BY <2>1 DEF fileVars, threadVars, Generations, Asked, Answers
<1>3. ASSUME NEW t \in Threads, Finish(t)
      PROVE  Leave(t)
  <2>1. /\ pc[t] = "returned" /\ pc' = [pc EXCEPT ![t] = "idle"]
        /\ \A u \in Threads \ {t} : job'[u] = job[u] /\ held'[u] = held[u] /\ error'[u] = error[u]
        /\ writes' = writes
    BY <1>3 DEF Finish, Goto, ThreadsTypeOK, fileVars
  <2>2. Answers[t] # Nothing
    <3>1. Truth(job[t]) \in Contents
      BY <2>1, JobIsIdentity
    <3>2. error[t] = "none" => held[t] = Truth(job[t])
      BY <2>1 DEF SnapshotsFaithful, AnswerFaithful
    <3>. QED
      BY <2>1, <3>1, <3>2, MarkersAreDistinct DEF Answers
  <2>3. Generations' = Generations
    BY <2>1 DEF Generations
  <2>4. pc'[t] = "idle" /\ \A u \in Threads \ {t} : pc'[u] = pc[u]
    BY <2>1 DEF ThreadsTypeOK
  <2>5. Asked' = [Asked EXCEPT ![t] = 0]
    BY <2>1, <2>4 DEF Asked
  <2>6. Answers' = [Answers EXCEPT ![t] = Nothing]
    BY <2>1, <2>4 DEF Answers
  <2>. QED
    BY <2>2, <2>3, <2>5, <2>6
<1>4. ASSUME NEW t \in Threads, NEW id \in expressions, Call(t, id)
      PROVE  \E g \in 1 .. Len(Generations) : Ask(t, g)
  <2>1. /\ pc[t] = "idle" /\ pc' = [pc EXCEPT ![t] = "probe"]
        /\ job' = [job EXCEPT ![t] = id]
        /\ held' = held /\ error' = error /\ writes' = writes
    BY <1>4 DEF Call, Goto, fileVars
  <2>2. pc'[t] = "probe" /\ job'[t] = id
        /\ \A u \in Threads \ {t} : pc'[u] = pc[u] /\ job'[u] = job[u]
    BY <2>1 DEF ThreadsTypeOK
  <2>3. id.changed_ns \in 1 .. Len(Generations)
    BY DEF ExpressionsInv, Generations, FilesTypeOK
  <2>4. Generations' = Generations
    BY <2>1 DEF Generations
  <2>5. Asked[t] = 0 /\ Asked' = [Asked EXCEPT ![t] = id.changed_ns]
    <3>1. Asked'[t] = id.changed_ns /\ Asked[t] = 0
      BY <2>1, <2>2 DEF Asked
    <3>2. \A u \in Threads \ {t} : Asked'[u] = Asked[u]
      BY <2>2 DEF Asked
    <3>. QED
      BY <3>1, <3>2 DEF Asked
  <2>6. Answers' = Answers
    BY <2>1, <2>2 DEF Answers
  <2>. QED
    BY <2>3, <2>4, <2>5, <2>6
<1>5. ASSUME NEW t \in Threads, Step(t)
      PROVE  Answer(t) \/ Unseen
  <2>1. /\ writes' = writes /\ job' = job
        /\ pc[t] \notin {"idle", "returned"} /\ pc'[t] # "idle"
        /\ \A u \in Threads \ {t} : pc'[u] = pc[u] /\ held'[u] = held[u] /\ error'[u] = error[u]
    BY <1>5, StepShape DEF fileVars
  <2>2. Generations' = Generations
    BY <2>1 DEF Generations
  <2>3. Asked' = Asked /\ Answers[t] = Nothing
    BY <2>1 DEF Asked, Answers
  <2>4. CASE pc'[t] # "returned"
    <3>1. Answers' = Answers
      BY <2>1, <2>4 DEF Answers
    <3>. QED
      BY <2>2, <2>3, <3>1
  <2>5. CASE pc'[t] = "returned"
    <3>1. /\ job[t].changed_ns \in 1 .. Len(writes)
          /\ Len(writes) \in Nat
      BY <2>1, JobIsIdentity DEF FilesTypeOK
    <3>2. Asked[t] = job[t].changed_ns /\ Asked[t] # 0
      BY <2>1, <3>1 DEF Asked
    <3>3. Generations[Asked[t]] = Truth(job[t])
      BY <3>1, <3>2 DEF Generations, Truth
    <3>4. error'[t] = "none" => held'[t] = Truth(job[t])
      BY <2>1, <2>5 DEF SnapshotsFaithful, AnswerFaithful, Truth
    <3>5. CASE error'[t] = "none"
      <4>1. Answers' = [Answers EXCEPT ![t] = Generations[Asked[t]]]
        BY <2>1, <2>5, <3>3, <3>4, <3>5 DEF Answers
      <4>. QED
        BY <2>2, <2>3, <3>2, <4>1
    <3>6. CASE error'[t] # "none"
      <4>1. Answers' = [Answers EXCEPT ![t] = Failed]
        BY <2>1, <2>5, <3>6 DEF Answers
      <4>. QED
        BY <2>2, <2>3, <3>2, <4>1
    <3>. QED
      BY <3>5, <3>6
  <2>. QED
    BY <2>4, <2>5
<1>. USE DEF Service!Next, Service!vars, Service!Publish, Service!Ask, Service!Answer, Service!Leave,
             Generations, Asked, Answers
<1>6. ASSUME NEW c \in Contents, Publish(c) PROVE Service!Publish(c)
  BY <1>6
<1>7. ASSUME NEW t \in Threads, NEW g, Ask(t, g) PROVE Service!Ask(t, g)
  BY <1>7
<1>8. ASSUME NEW t \in Threads, Answer(t) PROVE Service!Answer(t)
  BY <1>8
<1>9. ASSUME NEW t \in Threads, Leave(t) PROVE Service!Leave(t)
  BY <1>9
<1>10. ASSUME Unseen PROVE UNCHANGED Service!vars
  BY <1>10
<1>. QED
  BY <1>1, <1>2, <1>3, <1>4, <1>5, <1>6, <1>7, <1>8, <1>9, <1>10 DEF Next, Use, Quiet

(* Callers of reader_for cannot tell it from a service that hands out the  *)
(* generation they name or an error: no interleaving shows them another    *)
(* generation, a mixture, or an answer that changes.                       *)
THEOREM Refinement == Spec => ImplementsSafeService
<1>1. Init => Service!Init
  <2>. SUFFICES ASSUME Init PROVE Service!Init
    OBVIOUS
  <2>1. [k \in 1 .. Len(writes) |-> writes[k].content] = <<>>
    BY DEF Init, FilesInit
  <2>2. \A t \in Threads : pc[t] = "idle"
    BY DEF Init, ThreadsInit
  <2>. QED
    BY <2>1, <2>2 DEF Service!Init
<1>2. IInv /\ IInv' /\ [Next]_vars => [Service!Next]_Service!vars
  BY NextServes
<1>. QED
  BY <1>1, <1>2, Inductive, PTL DEF Spec, ImplementsSafeService, Service!SafeSpec

=============================================================================
