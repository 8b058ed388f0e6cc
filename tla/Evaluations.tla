----------------------------- MODULE Evaluations -----------------------------
(***************************************************************************)
(* Whole evaluations: an expression is built for the identity a file had,  *)
(* planned once or more (output_dtype, record_output_dtype) and run on the *)
(* batches of its column (lookup_path_series, lookup_record_series), which *)
(* Polars may do long afterwards, again and on several threads: lookup is  *)
(* elementwise, and lookup_path runs once for each column and collection.  *)
(* Each of these calls asks SharedReaders for the snapshot anew and        *)
(* resolves the dtype from it anew; nothing else is kept.                  *)
(***************************************************************************)
EXTENDS SharedReaders

CONSTANTS
  Queries,
  Dtypes,
  DtypeOf,           (* The dtype that a file's metadata and the request   *)
                     (* resolve to; Torn is a file torn, if it parses.     *)
  NoDtype, Idle

ASSUME DtypesAreResolved ==
  DtypeOf \in [Contents \cup {Torn} -> Dtypes] /\ NoDtype \notin Dtypes
ASSUME IdleIsNoTask == Idle \notin [query : Queries, does : {"plan", "run"}]

VARIABLES
  database,    (* The identity in the expression of each query.            *)
  planned,     (* The dtype Polars was told for it.                        *)
  outputs,     (* The batches it has: what they are of, and their dtypes.  *)
  task         (* What each thread evaluates.                              *)

queryVars == <<database, planned, outputs, task>>
evalVars == <<vars, queryVars>>

EvalInit ==
  /\ Init
  /\ database = [q \in Queries |-> NoIdentity]
  /\ planned = [q \in Queries |-> NoDtype]
  /\ outputs = [q \in Queries |-> {}]
  /\ task = [t \in Threads |-> Idle]

(* lookup() or lookup_path() returns an expression, in Python.             *)
BuildQuery(q, id) ==
  /\ database[q] = NoIdentity
  /\ database' = [database EXCEPT ![q] = id]
  /\ UNCHANGED <<vars, planned, outputs, task>>

Begin(t, q, does) ==
  /\ task[t] = Idle
  /\ Call(t, database[q])
  /\ task' = [task EXCEPT ![t] = [query |-> q, does |-> does]]
  /\ UNCHANGED <<database, planned, outputs>>

Plan(t, q) == database[q] # NoIdentity /\ Begin(t, q, "plan")

(* Polars runs what has been planned; a schema that failed stops a query.  *)
RunBatch(t, q) == planned[q] # NoDtype /\ Begin(t, q, "run")

(* The dtype is that of the snapshot, or an error is raised.               *)
FinishPlan(t) ==
  /\ task[t] # Idle /\ task[t].does = "plan"
  /\ Finish(t)
  /\ planned' = IF error[t] # "none" THEN planned
                ELSE [planned EXCEPT ![task[t].query] = DtypeOf[held[t]]]
  /\ task' = [task EXCEPT ![t] = Idle]
  /\ UNCHANGED <<database, outputs>>

(* The batch is decoded from the snapshot, in the dtype resolved from it.  *)
FinishBatch(t) ==
  /\ task[t] # Idle /\ task[t].does = "run"
  /\ Finish(t)
  /\ outputs' = IF error[t] # "none" THEN outputs
                ELSE [outputs EXCEPT ![task[t].query] =
                        @ \cup {[content |-> held[t], dtype |-> DtypeOf[held[t]]]}]
  /\ task' = [task EXCEPT ![t] = Idle]
  /\ UNCHANGED <<database, planned>>

Environment ==
  /\ ChangeFiles \/ Construct \/ \E v \in LimitSettings : SetLimit(v)
  /\ UNCHANGED queryVars

Evaluate(t) ==
  \/ Step(t) /\ UNCHANGED queryVars
  \/ FinishPlan(t)
  \/ FinishBatch(t)

Start ==
  \/ \E q \in Queries, id \in expressions : BuildQuery(q, id)
  \/ \E t \in Threads, q \in Queries : Plan(t, q) \/ RunBatch(t, q)

(* No evaluation is under way, and none need follow.                       *)
Rest == (\A t \in Threads : task[t] = Idle) /\ UNCHANGED evalVars

EvalNext == Environment \/ Start \/ (\E t \in Threads : Evaluate(t)) \/ Rest

EvalSpec == EvalInit /\ [][EvalNext]_evalVars

(* Every thread keeps running.                                             *)
EvalFairness == \A t \in Threads : WF_evalVars(Evaluate(t))

EvalFairSpec == EvalSpec /\ EvalFairness

----------------------------------------------------------------------------

(* Every variable of an evaluation keeps its type.                         *)
EvalTypeOK ==
  /\ database \in [Queries -> Identity \cup {NoIdentity}]
  /\ planned \in [Queries -> Dtypes \cup {NoDtype}]
  /\ outputs \in [Queries -> SUBSET [content : Contents, dtype : Dtypes]]
  /\ task \in [Threads -> [query : Queries, does : {"plan", "run"}] \cup {Idle}]

(* All batches of a query are of the one generation of the file that its   *)
(* expression was built for, in the dtype that was planned from it: though *)
(* the file was replaced, the snapshot evicted and read again in between,  *)
(* or the batches were run side by side.                                   *)
OutputsAsPlanned ==
  \A q \in Queries : \A o \in outputs[q] :
    o.content = Truth(database[q]) /\ o.dtype = planned[q]

(* Planning again never comes to another dtype.                            *)
PlansAgree == [][\A q \in Queries : planned[q] # NoDtype => planned'[q] = planned[q]]_evalVars

(* A plan or a batch that was begun ends, in a result or in an error.      *)
EvaluationsEnd == \A t \in Threads : (task[t] # Idle) ~> (task[t] = Idle)

----------------------------------------------------------------------------

(* A thread that evaluates is in a call for the query's identity.          *)
TasksInv ==
  \A t \in Threads :
    IF task[t] = Idle THEN pc[t] = "idle"
    ELSE pc[t] # "idle" /\ job[t] = database[task[t].query]

(* A plan is the dtype of the generation, once there is an identity.       *)
PlansInv ==
  \A q \in Queries :
    /\ database[q] \in expressions \cup {NoIdentity}
    /\ planned[q] # NoDtype =>
         database[q] # NoIdentity /\ planned[q] = DtypeOf[Truth(database[q])]
    /\ outputs[q] # {} => planned[q] # NoDtype

(* A query has its identity before it is planned, its plan before it runs. *)
BatchesBegun == \A t \in Threads : task[t] # Idle =>
  /\ database[task[t].query] # NoIdentity
  /\ task[t].does = "run" => planned[task[t].query] # NoDtype

(* What every step of EvalNext keeps, together with IInv.                  *)
EvalInv == EvalTypeOK /\ TasksInv /\ PlansInv /\ BatchesBegun /\ OutputsAsPlanned

=============================================================================
