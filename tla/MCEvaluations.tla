---------------------------- MODULE MCEvaluations ----------------------------
(***************************************************************************)
(* Evaluations of queries for files whose generations have equal length    *)
(* and different dtypes, in a cache that has room for one.                 *)
(***************************************************************************)
EXTENDS Evaluations, TLC

CONSTANTS p1, p2, c1, c2, d1, d2, q1, q2

MCSizeOf == [c \in Contents |-> 2]
MCVerdict == [c \in Contents |-> "ok"]
MCDtypeOf == (c1 :> d1) @@ (c2 :> d2) @@ (Torn :> d1)

(* Two files and an expression for each, and one about to be made for p1:  *)
(* a reachable state to start from.                                        *)
MCInit ==
  /\ writes = <<[at |-> p1, file_id |-> 1, content |-> c1],
               [at |-> p2, file_id |-> 2, content |-> c2]>>
  /\ disk = [f \in FileIds |-> IF f = 3 THEN 0 ELSE f]
  /\ dir = (p1 :> 1) @@ (p2 :> 2)
  /\ target = [p \in Paths |-> p]
  /\ resolved = {p1}
  /\ expressions = {IdentityForPath(p) : p \in Paths}
  /\ CacheInit /\ ThreadsInit
  /\ database = [q \in Queries |-> NoIdentity]
  /\ planned = [q \in Queries |-> NoDtype]
  /\ outputs = [q \in Queries |-> {}]
  /\ task = [t \in Threads |-> Idle]

(* From there files are replaced or rewritten, not deleted or linked, and  *)
(* one more expression is made, for whatever generation p1 has by then.    *)
MCFiles == (dir' = dir \/ writes' # writes) /\ target' = target
MCNext == EvalNext /\ MCFiles /\ resolved' \subseteq resolved

MCSpec == MCInit /\ [][MCNext]_evalVars /\ EvalFairness

=============================================================================
