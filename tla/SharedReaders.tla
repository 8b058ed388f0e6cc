--------------------------- MODULE SharedReaders ---------------------------
(***************************************************************************)
(* reader_for and open_snapshot of src/cache.rs: Polars worker threads     *)
(* that look up expressions in one process share one ReaderCache behind an *)
(* RwLock, and read a snapshot from its file when the cache has none.  The *)
(* Python side that records an expression's identity is here too, since    *)
(* everything turns on what happens to the file after that moment.         *)
(*                                                                         *)
(* Steps are split where another thread or another program can get in      *)
(* between: around each lock operation and each system call.  The read     *)
(* lock covers one map access, which no writer can overlap, so Probe is a  *)
(* single step that needs the lock to have no writer.                      *)
(***************************************************************************)
EXTENDS DatabaseFiles, ReaderCache

CONSTANTS
  Threads,
  Verdict,           (* What Reader::from_source says of each content.     *)
  DefaultLimit,      (* DEFAULT_CACHE_MAX_BYTES                            *)
  LimitSettings,     (* Values MAXMINDDB_POLARS_CACHE_MAX_BYTES may have.  *)
  Unset, Malformed,  (* The variable is absent; it is not a number.        *)
  Unread,            (* CACHE_MAX_BYTES has not been evaluated.            *)
  NoThread, NoIdentity, Nothing, Torn, Failed,
  MaxCalls           (* Bounds the calls of reader_for.                    *)

ASSUME VerdictsAreKnown == Verdict \in [Contents -> {"ok", "error", "panic"}]
ASSUME LimitsAreNatural ==
  /\ DefaultLimit \in Nat
  /\ LimitSettings \subseteq Nat \cup {Unset, Malformed}
  /\ Unset \notin Nat /\ Malformed \notin Nat /\ Unread \notin Nat
  /\ Unread # Malformed /\ Unset # Malformed
ASSUME MarkersAreDistinct ==
  /\ NoThread \notin Threads
  /\ NoIdentity \notin Identity
  /\ {Nothing, Torn, Failed} \cap Contents = {}
  /\ Torn # Nothing /\ Failed # Nothing
ASSUME MaxCallsIsNatural == MaxCalls \in Nat

VARIABLES
  resolved,    (* Paths Python has resolved and not yet stat'ed.           *)
  expressions, (* The identities recorded in expressions.                  *)
  writer,      (* The thread that holds the write lock.                    *)
  poisoned,    (* Did a thread panic while it held the write lock?         *)
  setting,     (* The environment variable.                                *)
  limit,       (* CACHE_MAX_BYTES                                          *)
  pc, job,     (* Where each thread is, and the identity it looks for.     *)
  handle,      (* The file number fs::read has open.                       *)
  held,        (* The bytes read so far, then the snapshot the call        *)
               (* returned: an Arc, so eviction does not take it away.     *)
  error,       (* Why the call failed.                                     *)
  calls,
  inserted     (* History: every identity inserted, in order.              *)

lockVars   == <<writer, poisoned>>
limitVars  == <<setting, limit>>
exprVars   == <<resolved, expressions>>
threadVars == <<pc, job, handle, held, error, calls>>

vars == <<fileVars, cacheVars, lockVars, limitVars, exprVars, threadVars, inserted>>

Labels == {"idle", "probe", "acquire", "canonicalize", "before", "open", "read",
           "after", "parse", "insert", "evict", "returned"}

(* Where a thread is while it holds the write lock.                        *)
Locked == {"canonicalize", "before", "open", "read", "after", "parse", "insert", "evict"}

Errors == {"none", "poisoned", "changed", "io", "corrupt", "limit"}

----------------------------------------------------------------------------

ThreadsInit ==
  /\ writer = NoThread /\ poisoned = FALSE
  /\ setting \in LimitSettings /\ limit = Unread
  /\ pc = [t \in Threads |-> "idle"]
  /\ job = [t \in Threads |-> NoIdentity]
  /\ handle = [t \in Threads |-> NoFile]
  /\ held = [t \in Threads |-> Nothing]
  /\ error = [t \in Threads |-> "none"]
  /\ calls = 0
  /\ inserted = <<>>

Init ==
  /\ FilesInit
  /\ CacheInit
  /\ resolved = {} /\ expressions = {}
  /\ ThreadsInit

(* _database_identity resolves the path and makes sure it is a file ...    *)
ResolveDatabase(p) ==
  /\ IsFile(p)
  /\ resolved' = resolved \cup {Canonicalize(p)}
  /\ UNCHANGED <<fileVars, cacheVars, lockVars, limitVars, expressions, threadVars, inserted>>

(* ... and then asks for its identity, or raises if the file is gone or    *)
(* cannot be opened.                                                       *)
IdentifyDatabase(p) ==
  /\ p \in resolved
  /\ resolved' = resolved \ {p}
  /\ \/ IsFile(p) /\ expressions' = expressions \cup {IdentityForPath(p)}
     \/ UNCHANGED expressions
  /\ UNCHANGED <<fileVars, cacheVars, lockVars, limitVars, threadVars, inserted>>

(* os.environ may change at any time; only the first insertion reads it.   *)
SetLimit(v) ==
  /\ setting' = v
  /\ UNCHANGED <<fileVars, cacheVars, lockVars, limit, exprVars, threadVars, inserted>>

ChangeFiles ==
  /\ FilesChange({handle[t] : t \in Threads})
  /\ UNCHANGED <<cacheVars, lockVars, limitVars, exprVars, threadVars, inserted>>

----------------------------------------------------------------------------

Goto(t, from, to) ==
  /\ pc[t] = from
  /\ pc' = [pc EXCEPT ![t] = to]

(* The call returns Ok(snapshot).                                          *)
Return(t, from, snapshot) ==
  /\ Goto(t, from, "returned")
  /\ held' = [held EXCEPT ![t] = snapshot]
  /\ UNCHANGED <<job, handle, error, calls>>

(* The call returns Err; the file it may have had open is closed.          *)
Fail(t, from, why) ==
  /\ Goto(t, from, "returned")
  /\ held' = [held EXCEPT ![t] = Nothing]
  /\ handle' = [handle EXCEPT ![t] = NoFile]
  /\ error' = [error EXCEPT ![t] = why]
  /\ UNCHANGED <<job, calls>>

Advance(t, from, to) ==
  /\ Goto(t, from, to)
  /\ UNCHANGED <<job, handle, held, error, calls>>

(* Mutant: the lock is not released.                                       *)
KeepLock == UNCHANGED lockVars

Release == writer' = NoThread /\ UNCHANGED poisoned

(* A guard dropped while its thread unwinds poisons the lock.              *)
ReleaseUnwinding == writer' = NoThread /\ poisoned' = TRUE

(* An expression is planned or run: reader_for is called.                  *)
Call(t, id) ==
  /\ Goto(t, "idle", "probe")
  /\ calls < MaxCalls
  /\ calls' = calls + 1
  /\ job' = [job EXCEPT ![t] = id]
  /\ UNCHANGED <<fileVars, cacheVars, lockVars, limitVars, exprVars,
                 handle, held, error, inserted>>

(* The caller is done with the result and drops it.                        *)
Finish(t) ==
  /\ Goto(t, "returned", "idle")
  /\ job' = [job EXCEPT ![t] = NoIdentity]
  /\ held' = [held EXCEPT ![t] = Nothing]
  /\ error' = [error EXCEPT ![t] = "none"]
  /\ UNCHANGED <<fileVars, cacheVars, lockVars, limitVars, exprVars, handle, calls, inserted>>

(* READERS.read() and the first get().                                     *)
Probe(t) ==
  /\ pc[t] = "probe"
  /\ writer = NoThread
  /\ IF poisoned THEN Fail(t, "probe", "poisoned")
     ELSE \/ Cached(job[t]) /\ Return(t, "probe", readers[job[t]])
          \/ ~Cached(job[t]) /\ Advance(t, "probe", "acquire")
  /\ UNCHANGED <<fileVars, cacheVars, lockVars, limitVars, exprVars, inserted>>

(* Mutant: no second get().                                                *)
AcquireWithoutRecheck(t) ==
  /\ pc[t] = "acquire"
  /\ writer = NoThread
  /\ Advance(t, "acquire", "canonicalize")
  /\ writer' = t
  /\ UNCHANGED <<poisoned, fileVars, cacheVars, limitVars, exprVars, inserted>>

(* READERS.write() and the second get().                                   *)
Acquire(t) ==
  /\ pc[t] = "acquire"
  /\ writer = NoThread
  /\ IF poisoned THEN Fail(t, "acquire", "poisoned") /\ UNCHANGED lockVars
     ELSE \/ /\ Cached(job[t])
             /\ Return(t, "acquire", readers[job[t]])
             /\ UNCHANGED lockVars
          \/ /\ ~Cached(job[t])
             /\ Advance(t, "acquire", "canonicalize")
             /\ writer' = t
             /\ UNCHANGED poisoned
  /\ UNCHANGED <<fileVars, cacheVars, limitVars, exprVars, inserted>>

(* Any system call may fail, whether the file changed or not: too many     *)
(* open files, no permission, a disk that does not answer.                 *)
FailIo(t, from) == Fail(t, from, "io") /\ Release

(* A check of open_snapshot: go on if the file passes, else return Err.    *)
Check(t, from, to, passes) ==
  /\ pc[t] = from
  /\ \/ passes /\ Advance(t, from, to) /\ UNCHANGED lockVars
     \/ ~passes /\ Fail(t, from, "changed") /\ Release
     \/ FailIo(t, from)
  /\ UNCHANGED <<fileVars, cacheVars, limitVars, exprVars, inserted>>

(* Does the path still lead to the file the identity names?                *)
SameFile(id) ==
  /\ IsFile(id.canonical_path)
  /\ IdentityForPath(id.canonical_path) = id

CanonicalizePath(t) ==
  LET p == job[t].canonical_path
  IN  Check(t, "canonicalize", "before", IsFile(p) /\ Canonicalize(p) = p)

CheckBefore(t) == Check(t, "before", "open", SameFile(job[t]))

(* fs::read opens the path anew and reads the file in pieces, of which two *)
(* are enough to tear it.                                                  *)
OpenFile(t) ==
  LET p == job[t].canonical_path
  IN  /\ pc[t] = "open"
      /\ \/ /\ IsFile(p)
            /\ Goto(t, "open", "read")
            /\ handle' = [handle EXCEPT ![t] = FileIdAt(p)]
            /\ held' = [held EXCEPT ![t] = ContentOf(FileIdAt(p))]
            /\ UNCHANGED <<job, error, calls, lockVars>>
         \/ ~IsFile(p) /\ Fail(t, "open", "changed") /\ Release
         \/ FailIo(t, "open")
      /\ UNCHANGED <<fileVars, cacheVars, limitVars, exprVars, inserted>>

ReadRest(t) ==
  /\ pc[t] = "read"
  /\ \/ /\ Goto(t, "read", "after")
        /\ held' = [held EXCEPT ![t] = IF ContentOf(handle[t]) = @ THEN @ ELSE Torn]
        /\ handle' = [handle EXCEPT ![t] = NoFile]
        /\ UNCHANGED <<job, error, calls, lockVars>>
     \/ FailIo(t, "read")
  /\ UNCHANGED <<fileVars, cacheVars, limitVars, exprVars, inserted>>

(* Mutant: the file is not compared again after the read.                  *)
CheckStillAFile(t) == Check(t, "after", "parse", IsFile(job[t].canonical_path))

CheckAfter(t) == Check(t, "after", "parse", SameFile(job[t]))

(* What the parser may say of the bytes read.                              *)
Verdicts(c) == IF c = Torn THEN {"ok", "error", "panic"} ELSE {Verdict[c]}

(* Mutant: the panic is not caught.                                        *)
LetUnwind(verdict) == verdict

(* catch_mmdb_unwind turns a panic into an error.                          *)
CatchUnwind(verdict) == IF verdict = "panic" THEN "error" ELSE verdict

ParseSnapshot(t) ==
  /\ pc[t] = "parse"
  /\ \E v \in Verdicts(held[t]) :
       \/ CatchUnwind(v) = "ok" /\ Advance(t, "parse", "insert") /\ UNCHANGED lockVars
       \/ /\ CatchUnwind(v) # "ok"
          /\ Fail(t, "parse", "corrupt")
          /\ IF CatchUnwind(v) = "panic" THEN ReleaseUnwinding ELSE Release
  /\ UNCHANGED <<fileVars, cacheVars, limitVars, exprVars, inserted>>

(* Mutant: no default.                                                     *)
ParseWithoutDefault(value) == value

(* parse_cache_max_bytes; Malformed stands for its error.                  *)
ParseCacheMaxBytes(value) == IF value = Unset THEN DefaultLimit ELSE value

(* CACHE_MAX_BYTES is evaluated once.                                      *)
CacheMaxBytes == IF limit = Unread THEN ParseCacheMaxBytes(setting) ELSE limit

(* cache_max_bytes()?, then insert() up to its loop.                       *)
InsertReader(t) ==
  /\ pc[t] = "insert"
  /\ limit' = CacheMaxBytes
  /\ \/ /\ limit' = Malformed
        /\ Fail(t, "insert", "limit")
        /\ Release
        /\ UNCHANGED <<cacheVars, inserted>>
     \/ /\ limit' # Malformed
        /\ Advance(t, "insert", "evict")
        /\ AddReader(job[t], held[t])
        /\ inserted' = Append(inserted, job[t])
        /\ UNCHANGED lockVars
  /\ UNCHANGED <<fileVars, exprVars, setting>>

(* The loop of insert() ends, and with it the call.                        *)
FinishInsert(t) ==
  /\ pc[t] = "evict"
  /\ ~OverLimit(limit) \/ NothingToEvict(job[t])
  /\ IF OverLimit(limit) THEN StopEvicting(job[t]) ELSE UNCHANGED cacheVars
  /\ Return(t, "evict", held[t])
  /\ Release
  /\ UNCHANGED <<fileVars, limitVars, exprVars, inserted>>

EvictReader(t) ==
  /\ pc[t] = "evict"
  /\ OverLimit(limit) /\ ~NothingToEvict(job[t])
  /\ EvictOldest
  /\ UNCHANGED <<fileVars, lockVars, limitVars, exprVars, threadVars, inserted>>

----------------------------------------------------------------------------

(* The steps of a call of reader_for, once made.                           *)
Step(t) ==
  \/ Probe(t) \/ Acquire(t)
  \/ CanonicalizePath(t) \/ CheckBefore(t) \/ OpenFile(t) \/ ReadRest(t)
  \/ CheckAfter(t) \/ ParseSnapshot(t)
  \/ InsertReader(t) \/ EvictReader(t) \/ FinishInsert(t)

Construct == \E p \in Paths : ResolveDatabase(p) \/ IdentifyDatabase(p)

Use(t) == Finish(t) \/ \E id \in expressions : Call(t, id)

(* Every call is over: the program need not do anything more.              *)
Quiet == (\A t \in Threads : pc[t] = "idle") /\ UNCHANGED vars

Next ==
  \/ ChangeFiles
  \/ Construct
  \/ \E v \in LimitSettings : SetLimit(v)
  \/ \E t \in Threads : Use(t) \/ Step(t)
  \/ Quiet

(* The operating system runs every thread, and every call made is bounded  *)
(* by MaxCalls, so no thread is overtaken at the lock for ever.            *)
Fairness == \A t \in Threads : WF_vars(Step(t))

Spec == Init /\ [][Next]_vars

FairSpec == Spec /\ Fairness

----------------------------------------------------------------------------

CacheTypeOK ==
  /\ DOMAIN readers \subseteq Identity
  /\ readers = [id \in DOMAIN readers |-> readers[id]]
  /\ \A id \in DOMAIN readers : readers[id] \in Contents
  /\ insertion_order \in Seq(Identity)
  /\ inserted \in Seq(Identity)
  /\ bytes \in 0 .. UsizeMax

SharedTypeOK ==
  /\ resolved \subseteq Paths
  /\ expressions \subseteq Identity
  /\ writer \in Threads \cup {NoThread}
  /\ poisoned \in BOOLEAN
  /\ setting \in LimitSettings
  /\ limit \in Nat \cup {Unread, Malformed}
  /\ calls \in 0 .. MaxCalls

ThreadsTypeOK ==
  /\ pc \in [Threads -> Labels]
  /\ job \in [Threads -> Identity \cup {NoIdentity}]
  /\ handle \in [Threads -> FileIds \cup {NoFile}]
  /\ held \in [Threads -> Contents \cup {Nothing, Torn}]
  /\ error \in [Threads -> Errors]

(* Every variable keeps its type; the byte count stays within a usize.     *)
TypeOK == FilesTypeOK /\ CacheTypeOK /\ SharedTypeOK /\ ThreadsTypeOK

(* What was in the file an identity names when the identity was taken.     *)
Truth(id) == writes[id.changed_ns].content

AnswerFaithful(t) ==
  pc[t] = "returned" /\ error[t] = "none" => held[t] = Truth(job[t])

(* Every snapshot in the cache, and every snapshot a call has returned, is *)
(* the whole content of the file its identity names: reading by path       *)
(* between two stats never lets in the bytes of another generation, nor    *)
(* half of two, however the file is replaced or rewritten meanwhile.       *)
SnapshotsFaithful ==
  /\ \A id \in DOMAIN readers : readers[id] = Truth(id)
  /\ \A t \in Threads : AnswerFaithful(t)

(* The queue holds the cached identities, each once.  The second get(),    *)
(* under the write lock, is what keeps two threads that missed the same    *)
(* snapshot from charging and queueing it twice.                           *)
CacheIndexed ==
  /\ {insertion_order[i] : i \in 1 .. Len(insertion_order)} = DOMAIN readers
  /\ \A i, j \in 1 .. Len(insertion_order) :
       insertion_order[i] = insertion_order[j] => i = j

(* When no insertion is under way, the cache is within its limit or holds  *)
(* one snapshot, and a limit that does not parse has cached nothing.       *)
CacheBounded ==
  (\A t \in Threads : pc[t] # "evict") =>
    \/ DOMAIN readers = {}
    \/ limit \in Nat /\ (bytes <= limit \/ Cardinality(DOMAIN readers) <= 1)

(* Whatever the limit, the snapshot inserted last is still cached, and the *)
(* ones that were evicted are the ones inserted before all that are left:  *)
(* the queue is the end of the history of insertions.                      *)
OldestEvictedFirst ==
  LET evicted == Len(inserted) - Len(insertion_order)
  IN  /\ evicted >= 0
      /\ \A i \in 1 .. Len(insertion_order) : insertion_order[i] = inserted[evicted + i]
      /\ inserted # <<>> => insertion_order # <<>>

(* What the snapshots of a queue take up, from its head to each place.     *)
ChargeUpTo(queue) ==
  LET upto[i \in 0 .. Len(queue)] == IF i = 0 THEN 0 ELSE upto[i - 1] + queue[i].size
  IN  upto

Charge(queue) == ChargeUpTo(queue)[Len(queue)]

(* The byte count the eviction loop goes by is what the cached snapshots   *)
(* really take, whatever was inserted, evicted and inserted again: it      *)
(* never leaks, which would shrink the cache for good, and it falls short  *)
(* only once more bytes were inserted, altogether, than a usize counts.    *)
BytesAccounted ==
  /\ bytes <= Charge(insertion_order)
  /\ Charge(inserted) <= UsizeMax => bytes = Charge(insertion_order)

(* Could open_snapshot still succeed?                                      *)
StillThere(id) == SameFile(id) /\ Canonicalize(id.canonical_path) = id.canonical_path

FailureJustified(t) ==
  /\ error[t] = "changed" =>
       /\ ~StillThere(job[t])
       /\ ~Cached(job[t])
  /\ error[t] = "corrupt" => Verdict[Truth(job[t])] # "ok"
  /\ error[t] = "limit" => limit = Malformed
  /\ error[t] # "poisoned"

(* A call fails for a reason of its own: its file is no longer the one the *)
(* expression was made for and no snapshot of it is cached, the operating  *)
(* system would not let it have the file, its bytes do not parse, or the   *)
(* limit is malformed; never because some other call panicked in the       *)
(* parser, or failed in any other way, while it held the lock.             *)
FailuresJustified == \A t \in Threads : FailureJustified(t)

----------------------------------------------------------------------------
(* Why they hold: the invariant that every step keeps.                     *)

(* Every file is the last thing written to it, and a path leads through    *)
(* one link at most.                                                       *)
FilesInv ==
  /\ \A p \in Paths : target[target[p]] = target[p]
  /\ \A p \in Paths : dir[p] # NoFile =>
       /\ disk[dir[p]] # 0
       /\ writes[disk[dir[p]]].at = p

(* An identity names a write, to its own path unless the path was already  *)
(* a link.                                                                 *)
ExpressionsInv ==
  \A id \in expressions :
    /\ id.changed_ns \in 1 .. Len(writes)
    /\ Canonicalize(id.canonical_path) = id.canonical_path =>
         writes[id.changed_ns].at = id.canonical_path

(* The write lock is held exactly by the thread between its two ends.      *)
LockInv ==
  /\ poisoned = FALSE
  /\ \A t \in Threads : pc[t] \in Locked <=> writer = t

(* Past the first check, the identity is one of the path itself.  While    *)
(* the file at the path is still the one the identity names, the handle is *)
(* open on it and what was read is its content, because nothing has        *)
(* written to it since; past the last check it is that content for good.   *)
ThreadOK(t) ==
  /\ pc[t] # "idle" => job[t] \in expressions
  /\ pc[t] # "returned" => error[t] = "none"
  /\ pc[t] \in Locked \ {"canonicalize"} =>
       writes[job[t].changed_ns].at = job[t].canonical_path
  /\ pc[t] \in {"read", "after"} /\ SameFile(job[t]) => held[t] = Truth(job[t])
  /\ pc[t] = "read" =>
       /\ handle[t] \in FileIds
       /\ SameFile(job[t]) => handle[t] = job[t].file_id
  /\ pc[t] \in {"parse", "insert", "evict"} => held[t] = Truth(job[t])
  /\ pc[t] \in Locked \ {"evict"} => ~Cached(job[t])

ThreadInv == \A t \in Threads : ThreadOK(t)

(* The cache holds snapshots of identities in use, the one being inserted  *)
(* comes last, and only a limit that parses lets it in.                    *)
ReadersInv ==
  /\ DOMAIN readers \subseteq expressions
  /\ IsFiniteSet(DOMAIN readers)
  /\ DOMAIN readers # {} => limit \in Nat
  /\ \A t \in Threads : pc[t] = "evict" =>
       /\ insertion_order # <<>>
       /\ insertion_order[Len(insertion_order)] = job[t]
       /\ limit \in Nat

(* A call that found its file changed is not contradicted by a later one.  *)
ChangedInv ==
  \A t, u \in Threads :
    error[t] = "changed" /\ pc[u] \in {"parse", "insert", "evict"} => job[t] # job[u]

(* What is cached is among what was inserted.                              *)
BytesInv == BytesAccounted /\ Charge(insertion_order) <= Charge(inserted)

IInv ==
  /\ TypeOK
  /\ FilesInv /\ ExpressionsInv /\ LockInv /\ ThreadInv /\ ReadersInv /\ ChangedInv
  /\ SnapshotsFaithful /\ CacheIndexed /\ CacheBounded /\ OldestEvictedFirst
  /\ FailuresJustified

----------------------------------------------------------------------------

(* Every call of reader_for returns, also when it queues for the lock      *)
(* behind calls that fail, panic or evict.                                 *)
CallsReturn ==
  \A t \in Threads : (pc[t] = "probe") ~> (pc[t] = "returned")

(* The service of SnapshotService, with change times for generations.      *)
Service == INSTANCE SnapshotService WITH
  Callers     <- Threads,
  NoAnswer    <- Nothing,
  generations <- [k \in 1 .. Len(writes) |-> writes[k].content],
  asked       <- [t \in Threads |-> IF pc[t] = "idle" THEN 0 ELSE job[t].changed_ns],
  answer      <- [t \in Threads |-> IF pc[t] # "returned" THEN Nothing
                                    ELSE IF error[t] = "none" THEN held[t] ELSE Failed]

(* Each call gets the content of the generation it asked for or an error,  *)
(* and gets one, whatever happens to the files and in the other calls.     *)
ImplementsService == Service!Spec

(* The safety half of that: no call gets any other answer.                 *)
ImplementsSafeService == Service!SafeSpec

=============================================================================
