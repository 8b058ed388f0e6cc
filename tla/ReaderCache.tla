---------------------------- MODULE ReaderCache ----------------------------
(***************************************************************************)
(* struct ReaderCache of src/cache.rs: the snapshots by identity, the      *)
(* queue of identities in insertion order, and the byte count that decides *)
(* when to evict.  A reader is the content it was parsed from.  Each       *)
(* operator is a piece of insert(); the module SharedReaders runs them     *)
(* under the write lock, one iteration of the eviction loop at a time.     *)
(***************************************************************************)
EXTENDS Integers, Sequences, FiniteSets

CONSTANT UsizeMax    (* usize::MAX                                         *)

ASSUME UsizeMaxIsNatural == UsizeMax \in Nat

VARIABLES
  readers,           (* The snapshot cached under each identity.           *)
  insertion_order,   (* The cached identities, oldest first.               *)
  bytes              (* What the cached snapshots are charged.             *)

cacheVars == <<readers, insertion_order, bytes>>

(* usize::try_from(size).unwrap_or(usize::MAX)                             *)
Usize(n) == IF n > UsizeMax THEN UsizeMax ELSE n

SaturatingAdd(a, b) == Usize(a + b)

SaturatingSub(a, b) == IF b > a THEN 0 ELSE a - b

Without(cache, id) == [i \in DOMAIN cache \ {id} |-> cache[i]]

CacheInit ==
  /\ readers = [i \in {} |-> 0]
  /\ insertion_order = <<>>
  /\ bytes = 0

Cached(id) == id \in DOMAIN readers

(* Mutant: the newest identity goes to the front of the queue.             *)
AddInFront(id, content) ==
  /\ bytes' = SaturatingAdd(bytes, Usize(id.size))
  /\ insertion_order' = <<id>> \o insertion_order
  /\ readers' = [i \in DOMAIN readers \cup {id} |->
                   IF i = id THEN content ELSE readers[i]]

(* insert() up to its loop.                                                *)
AddReader(id, content) ==
  /\ bytes' = SaturatingAdd(bytes, Usize(id.size))
  /\ insertion_order' = Append(insertion_order, id)
  /\ readers' = [i \in DOMAIN readers \cup {id} |->
                   IF i = id THEN content ELSE readers[i]]

(* Mutant: eviction stops one snapshot too early.                          *)
OverLimitOfTwo(max_bytes) ==
  /\ bytes > max_bytes
  /\ Cardinality(DOMAIN readers) > 2

(* The condition of the loop.                                              *)
OverLimit(max_bytes) ==
  /\ bytes > max_bytes
  /\ Cardinality(DOMAIN readers) > 1

(* pop_front() found nothing, or found the identity being inserted.        *)
NothingToEvict(id) == insertion_order = <<>> \/ Head(insertion_order) = id

(* The two ways out of the loop on a break: the queue is as it was, except *)
(* that an identity popped by mistake went back to its end.                *)
StopEvicting(id) ==
  /\ insertion_order' = IF insertion_order = <<>> THEN <<>>
                        ELSE Append(Tail(insertion_order), id)
  /\ UNCHANGED <<readers, bytes>>

(* Mutant: the evicted snapshot stays charged.                             *)
EvictUnaccounted ==
  /\ insertion_order' = Tail(insertion_order)
  /\ readers' = Without(readers, Head(insertion_order))
  /\ UNCHANGED bytes

(* An iteration that drops the oldest snapshot.                            *)
EvictOldest ==
  LET oldest == Head(insertion_order)
  IN  /\ insertion_order' = Tail(insertion_order)
      /\ readers' = Without(readers, oldest)
      /\ bytes' = IF Cached(oldest)
                  THEN SaturatingSub(bytes, Usize(oldest.size))
                  ELSE bytes

=============================================================================
