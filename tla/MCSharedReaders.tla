-------------------------- MODULE MCSharedReaders --------------------------
(***************************************************************************)
(* SharedReaders on small instances.                                       *)
(***************************************************************************)
EXTENDS SharedReaders, TLC

CONSTANTS p1, p2, p3, c1, c2, bad, t1, t2

(* Two contents of the same length, so that only the change time tells two *)
(* generations of a file apart, and one that panics the parser.            *)
MCSizeOf == [c \in Contents |-> IF c = bad THEN 1 ELSE 2]
MCVerdict == [c \in Contents |-> IF c = bad THEN "panic" ELSE "ok"]

(* Sizes that need different numbers of evictions to make room.            *)
MCUnequalSizes == [c \in Contents |-> IF c = c1 THEN 1 ELSE IF c = c2 THEN 2 ELSE 3]
MCAllParse == [c \in Contents |-> "ok"]

MCLimits == {Unset, Malformed, 0}

MCThreads == Permutations(Threads)
MCAlike == MCThreads \cup Permutations({c1, c2}) \cup Permutations(Paths)

(* A reachable state to start from when only the cache is of interest:     *)
(* three files of different sizes, an expression for each, and nobody      *)
(* touches the files.                                                      *)
MCSettledInit ==
  /\ writes = <<[at |-> p1, file_id |-> 1, content |-> c1],
               [at |-> p2, file_id |-> 2, content |-> c2],
               [at |-> p3, file_id |-> 3, content |-> bad]>>
  /\ disk = [f \in FileIds |-> f]
  /\ dir = (p1 :> 1) @@ (p2 :> 2) @@ (p3 :> 3)
  /\ target = [p \in Paths |-> p]
  /\ resolved = {}
  /\ expressions = {IdentityForPath(p) : p \in Paths}
  /\ CacheInit /\ ThreadsInit

MCSettledSpec ==
  MCSettledInit /\ [][Next /\ UNCHANGED <<fileVars, exprVars>>]_vars

=============================================================================
