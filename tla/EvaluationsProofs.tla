-------------------------- MODULE EvaluationsProofs --------------------------
(***************************************************************************)
(* Every batch of a query is of the generation its expression was built    *)
(* for and in the dtype that was planned, for every number of queries,     *)
(* threads, files, generations and calls.  A step of an evaluation is a    *)
(* step of SharedReaders or none, so that IInv holds here too; what is     *)
(* added is that an identity in use keeps naming the same generation.      *)
(***************************************************************************)
EXTENDS Evaluations, SharedReadersProofs

LEMMA InitEvalInv == EvalInit => IInv /\ EvalInv
<1>. SUFFICES ASSUME EvalInit PROVE IInv /\ EvalInv
  OBVIOUS
<1>1. IInv
  BY InitIInv DEF EvalInit
<1>2. pc = [t \in Threads |-> "idle"]
  BY DEF EvalInit, Init, ThreadsInit
<1>. QED
  BY <1>1, <1>2 DEF EvalInit, EvalInv, EvalTypeOK, TasksInv, PlansInv, BatchesBegun, OutputsAsPlanned

(* What an identity in use names is a content, and stays the same when the *)
(* files change.                                                           *)
LEMMA TruthStays ==
  ASSUME IInv, ChangeFiles \/ UNCHANGED fileVars, NEW id \in expressions
  PROVE  Truth(id) \in Contents /\ Truth(id)' = Truth(id)
<1>. USE DEF IInv, TypeOK
<1>1. id \in Identity /\ id.changed_ns \in 1 .. Len(writes)
  BY DEF SharedTypeOK, ExpressionsInv
<1>2. writes[id.changed_ns] \in Write
  BY <1>1 DEF FilesTypeOK
<1>3. Truth(id)' = Truth(id)
  <2>1. CASE ChangeFiles
    BY <1>1, <2>1, TruthKept DEF ChangeFiles
  <2>2. CASE UNCHANGED fileVars
    BY <2>2, FilesFrame
  <2>. QED
    BY <2>1, <2>2
<1>. QED
  BY <1>2, <1>3 DEF Truth, Write

(* A step that leaves the evaluations alone.                               *)
LEMMA FrameStep ==
  ASSUME IInv, EvalInv,
         UNCHANGED queryVars,
         ChangeFiles \/ UNCHANGED fileVars,
         expressions \subseteq expressions',
         TasksInv'
  PROVE  EvalInv'
<1>. USE DEF EvalInv
<1>1. \A q \in Queries : database[q] # NoIdentity =>
        database[q] \in expressions' /\ Truth(database[q])' = Truth(database[q])
  BY TruthStays DEF PlansInv, queryVars
<1>2. EvalTypeOK' /\ BatchesBegun'
  BY DEF EvalTypeOK, BatchesBegun, queryVars
<1>3. PlansInv'
  BY <1>1 DEF PlansInv, queryVars
<1>4. OutputsAsPlanned'
  BY <1>1 DEF OutputsAsPlanned, PlansInv, queryVars
<1>. QED
  BY <1>2, <1>3, <1>4

LEMMA EnvironmentStep ==
  ASSUME IInv, EvalInv, Environment
  PROVE  [Next]_vars /\ EvalInv'
<1>1. Next
  BY DEF Environment, Next
<1>2. /\ UNCHANGED <<queryVars, threadVars>>
      /\ ChangeFiles \/ UNCHANGED fileVars
      /\ expressions \subseteq expressions'
  BY DEF Environment, ChangeFiles, Construct, ResolveDatabase, IdentifyDatabase, SetLimit, exprVars
<1>3. TasksInv'
  BY <1>2 DEF EvalInv, TasksInv, queryVars, threadVars
<1>. QED
  BY <1>1, <1>2, <1>3, FrameStep

LEMMA BuildQueryStep ==
  ASSUME IInv, EvalInv, NEW q \in Queries, NEW id \in expressions, BuildQuery(q, id)
  PROVE  [Next]_vars /\ EvalInv'
<1>. USE DEF EvalInv
<1>1. /\ UNCHANGED <<vars, planned, outputs, task>>
      /\ database[q] = NoIdentity
      /\ database' = [database EXCEPT ![q] = id]
  BY DEF BuildQuery
<1>2. UNCHANGED <<fileVars, pc, job, expressions>>
  BY <1>1 DEF vars, threadVars, exprVars
<1>3. id \in Identity
  BY DEF IInv, TypeOK, SharedTypeOK
<1>4. \A i \in Queries \ {q} : database'[i] = database[i]
  BY <1>1 DEF EvalTypeOK
<1>5. /\ planned[q] = NoDtype /\ outputs[q] = {}
      /\ \A t \in Threads : task[t] # Idle => task[t].query # q
  BY <1>1 DEF PlansInv, BatchesBegun
<1>6. \A t \in Threads : task[t] # Idle => task[t].query \in Queries
  BY DEF EvalTypeOK
<1>7. EvalTypeOK' /\ TasksInv' /\ BatchesBegun'
  BY <1>1, <1>2, <1>3, <1>4, <1>5, <1>6 DEF EvalTypeOK, TasksInv, BatchesBegun
<1>8. ASSUME NEW i \in Queries
      PROVE  Truth(database[i])' = Truth(database'[i])
  BY <1>2 DEF Truth, fileVars
<1>9. PlansInv' /\ OutputsAsPlanned'
  <2>1. ASSUME NEW i \in Queries
        PROVE  /\ database'[i] \in expressions' \cup {NoIdentity}
               /\ planned'[i] # NoDtype =>
                    database'[i] # NoIdentity /\ planned'[i] = DtypeOf[Truth(database'[i])]
               /\ outputs'[i] # {} => planned'[i] # NoDtype
               /\ \A o \in outputs'[i] : o.content = Truth(database'[i]) /\ o.dtype = planned'[i]
    <3>1. CASE i = q
      BY <1>1, <1>2, <1>5, <3>1 DEF EvalTypeOK
    <3>2. CASE i # q
      BY <1>1, <1>2, <1>4, <3>2 DEF PlansInv, OutputsAsPlanned
    <3>. QED
      BY <3>1, <3>2
  <2>. QED
    BY <1>8, <2>1 DEF PlansInv, OutputsAsPlanned
<1>. QED
  BY <1>1, <1>7, <1>9

(* A plan or a batch begins: it is a call for the identity of its query.   *)
LEMMA BeginStep ==
  ASSUME IInv, EvalInv, NEW t \in Threads, NEW q \in Queries, Plan(t, q) \/ RunBatch(t, q)
  PROVE  [Next]_vars /\ EvalInv'
<1>. USE DEF EvalInv
<1>1. PICK does \in {"plan", "run"} :
        /\ Begin(t, q, does)
        /\ does = "run" => planned[q] # NoDtype
  BY DEF Plan, RunBatch
<1>2. database[q] # NoIdentity /\ database[q] \in expressions
  BY DEF Plan, RunBatch, PlansInv
<1>3. /\ task' = [task EXCEPT ![t] = [query |-> q, does |-> does]]
      /\ UNCHANGED <<database, planned, outputs>>
      /\ Call(t, database[q])
  BY <1>1 DEF Begin
<1>4. Next
  BY <1>2, <1>3 DEF Next, Use
<1>5. /\ UNCHANGED <<fileVars, expressions>>
      /\ pc' = [pc EXCEPT ![t] = "probe"]
      /\ job' = [job EXCEPT ![t] = database[q]]
  BY <1>3 DEF Call, Goto, exprVars
<1>6. /\ pc \in [Threads -> Labels] /\ job \in [Threads -> Identity \cup {NoIdentity}]
      /\ [query |-> q, does |-> does] \in [query : Queries, does : {"plan", "run"}]
  BY DEF IInv, TypeOK, ThreadsTypeOK
<1>7. EvalTypeOK' /\ TasksInv' /\ BatchesBegun'
  BY <1>1, <1>2, <1>3, <1>5, <1>6, IdleIsNoTask DEF EvalTypeOK, TasksInv, BatchesBegun
<1>8. PlansInv' /\ OutputsAsPlanned'
  BY <1>3, <1>5 DEF PlansInv, OutputsAsPlanned, Truth, fileVars
<1>. QED
  BY <1>4, <1>7, <1>8

LEMMA ThreadStepOfTask ==
  ASSUME IInv, EvalInv, NEW t \in Threads, Step(t), UNCHANGED queryVars
  PROVE  [Next]_vars /\ EvalInv'
<1>1. Next
  BY DEF Next
<1>2. /\ UNCHANGED <<fileVars, job>>
      /\ pc[t] \notin {"idle", "returned"}
      /\ pc'[t] # "idle"
      /\ \A u \in Threads \ {t} : pc'[u] = pc[u]
  BY StepShape
<1>3. expressions' = expressions
  BY DEF Step, Probe, Acquire, CanonicalizePath, CheckBefore, CheckAfter, Check, OpenFile,
     ReadRest, ParseSnapshot, InsertReader, EvictReader, FinishInsert, exprVars
<1>4. TasksInv'
  BY <1>2 DEF EvalInv, TasksInv, queryVars
<1>. QED
  BY <1>1, <1>2, <1>3, <1>4, FrameStep

(* What the two ways for an evaluation to end have in common.              *)
LEMMA FinishFacts ==
  ASSUME IInv, EvalInv, NEW t \in Threads, task[t] # Idle, Finish(t),
         task' = [task EXCEPT ![t] = Idle], UNCHANGED database
  PROVE  /\ [Next]_vars
         /\ UNCHANGED <<fileVars, expressions>>
         /\ task[t].query \in Queries
         /\ database[task[t].query] \in expressions
         /\ error[t] = "none" => held[t] = Truth(database[task[t].query])
         /\ TasksInv'
<1>1. Next
  BY DEF Next, Use
<1>2. /\ UNCHANGED <<fileVars, expressions>>
      /\ pc[t] = "returned"
      /\ pc' = [pc EXCEPT ![t] = "idle"]
      /\ job' = [job EXCEPT ![t] = NoIdentity]
  BY DEF Finish, Goto, exprVars
<1>3. task[t].query \in Queries /\ database[task[t].query] \in expressions
  BY DEF EvalInv, EvalTypeOK, BatchesBegun, PlansInv
<1>4. job[t] = database[task[t].query]
  BY DEF EvalInv, TasksInv
<1>5. error[t] = "none" => held[t] = Truth(database[task[t].query])
  BY <1>2, <1>4 DEF IInv, SnapshotsFaithful, AnswerFaithful
<1>6. pc \in [Threads -> Labels] /\ job \in [Threads -> Identity \cup {NoIdentity}]
  BY DEF IInv, TypeOK, ThreadsTypeOK
<1>7. TasksInv'
  BY <1>2, <1>6 DEF EvalInv, EvalTypeOK, TasksInv
<1>. QED
  BY <1>1, <1>2, <1>3, <1>5, <1>7

LEMMA FinishPlanStep ==
  ASSUME IInv, EvalInv, NEW t \in Threads, FinishPlan(t)
  PROVE  /\ [Next]_vars /\ EvalInv'
         /\ \A q \in Queries : planned[q] # NoDtype => planned'[q] = planned[q]
<1>. DEFINE q == task[t].query
<1>1. /\ task[t] # Idle /\ Finish(t)
      /\ planned' = IF error[t] # "none" THEN planned
                    ELSE [planned EXCEPT ![q] = DtypeOf[held[t]]]
      /\ task' = [task EXCEPT ![t] = Idle]
      /\ UNCHANGED <<database, outputs>>
  BY DEF FinishPlan
<1>2. /\ [Next]_vars
      /\ UNCHANGED <<fileVars, expressions>>
      /\ q \in Queries
      /\ database[q] \in expressions
      /\ error[t] = "none" => held[t] = Truth(database[q])
      /\ TasksInv'
  BY <1>1, FinishFacts
<1>3. Truth(database[q]) \in Contents /\ database[q] # NoIdentity
  <2>1. database[q] \in Identity
    BY <1>2 DEF IInv, TypeOK, SharedTypeOK
  <2>. QED
    BY <1>2, <2>1, TruthStays, MarkersAreDistinct
<1>4. DtypeOf[Truth(database[q])] \in Dtypes /\ DtypeOf[Truth(database[q])] # NoDtype
  BY <1>3, DtypesAreResolved
<1>5. planned' \in [Queries -> Dtypes \cup {NoDtype}]
  BY <1>1, <1>2, <1>4 DEF EvalInv, EvalTypeOK
<1>6. ASSUME NEW i \in Queries
      PROVE  /\ planned[i] # NoDtype => planned'[i] = planned[i]
             /\ planned'[i] # NoDtype =>
                  database[i] # NoIdentity /\ planned'[i] = DtypeOf[Truth(database[i])]
    <2>1. CASE planned'[i] = planned[i]
      BY <2>1 DEF EvalInv, PlansInv
    <2>2. CASE i = q /\ planned'[i] = DtypeOf[Truth(database[i])]
      BY <2>2, <1>3 DEF EvalInv, PlansInv
    <2>. QED
      BY <1>1, <1>2, <2>1, <2>2 DEF EvalInv, EvalTypeOK
<1>. HIDE DEF q
<1>7. EvalTypeOK' /\ BatchesBegun'
  BY <1>1, <1>4, <1>5, <1>6 DEF EvalInv, EvalTypeOK, BatchesBegun
<1>8. PlansInv' /\ OutputsAsPlanned'
  BY <1>1, <1>2, <1>6 DEF EvalInv, PlansInv, OutputsAsPlanned, Truth, fileVars
<1>. QED
  BY <1>2, <1>6, <1>7, <1>8 DEF EvalInv

LEMMA FinishBatchStep ==
  ASSUME IInv, EvalInv, NEW t \in Threads, FinishBatch(t)
  PROVE  [Next]_vars /\ EvalInv'
<1>. DEFINE q == task[t].query
            batch == [content |-> held[t], dtype |-> DtypeOf[held[t]]]
<1>1. /\ task[t] # Idle /\ task[t].does = "run" /\ Finish(t)
      /\ outputs' = IF error[t] # "none" THEN outputs
                    ELSE [outputs EXCEPT ![q] = @ \cup {batch}]
      /\ task' = [task EXCEPT ![t] = Idle]
      /\ UNCHANGED <<database, planned>>
  BY DEF FinishBatch
<1>2. /\ [Next]_vars
      /\ UNCHANGED <<fileVars, expressions>>
      /\ q \in Queries
      /\ database[q] \in expressions
      /\ error[t] = "none" => held[t] = Truth(database[q])
      /\ TasksInv'
  BY <1>1, FinishFacts
<1>3. Truth(database[q]) \in Contents
  BY <1>2, TruthStays
<1>4. planned[q] # NoDtype /\ planned[q] = DtypeOf[Truth(database[q])]
  BY <1>1, <1>2 DEF EvalInv, BatchesBegun, PlansInv
<1>5. error[t] = "none" =>
        /\ batch \in [content : Contents, dtype : Dtypes]
        /\ batch.content = Truth(database[q]) /\ batch.dtype = planned[q]
  BY <1>2, <1>3, <1>4, DtypesAreResolved
<1>. HIDE DEF batch
<1>6. ASSUME NEW i \in Queries
      PROVE  \/ outputs'[i] = outputs[i]
             \/ i = q /\ error[t] = "none" /\ outputs'[i] = outputs[i] \cup {batch}
  BY <1>1, <1>2 DEF EvalInv, EvalTypeOK
<1>. HIDE DEF q
<1>7. outputs' \in [Queries -> SUBSET [content : Contents, dtype : Dtypes]]
  BY <1>1, <1>2, <1>5 DEF EvalInv, EvalTypeOK
<1>8. EvalTypeOK' /\ BatchesBegun'
  BY <1>1, <1>7 DEF EvalInv, EvalTypeOK, BatchesBegun
<1>9. PlansInv'
  BY <1>1, <1>2, <1>4, <1>6 DEF EvalInv, PlansInv, Truth, fileVars
<1>10. OutputsAsPlanned'
  BY <1>1, <1>2, <1>5, <1>6 DEF EvalInv, OutputsAsPlanned, Truth, fileVars
<1>. QED
  BY <1>2, <1>8, <1>9, <1>10 DEF EvalInv

(* A step of the evaluations is one of SharedReaders, keeps the invariant, *)
(* and takes back no plan.                                                 *)
LEMMA NextEvalInv ==
  ASSUME IInv, EvalInv, [EvalNext]_evalVars
  PROVE  /\ [Next]_vars /\ EvalInv'
         /\ \A q \in Queries : planned[q] # NoDtype => planned'[q] = planned[q]
<1>1. CASE Environment
  BY <1>1, EnvironmentStep DEF Environment, queryVars
<1>2. ASSUME NEW q \in Queries, NEW id \in expressions, BuildQuery(q, id)
      PROVE  [Next]_vars /\ EvalInv' /\ UNCHANGED planned
  BY <1>2, BuildQueryStep DEF BuildQuery
<1>3. ASSUME NEW t \in Threads, NEW q \in Queries, Plan(t, q) \/ RunBatch(t, q)
      PROVE  [Next]_vars /\ EvalInv' /\ UNCHANGED planned
  BY <1>3, BeginStep DEF Plan, RunBatch, Begin
<1>4. ASSUME NEW t \in Threads, Step(t), UNCHANGED queryVars
      PROVE  [Next]_vars /\ EvalInv' /\ UNCHANGED planned
  BY <1>4, ThreadStepOfTask DEF queryVars
<1>5. ASSUME NEW t \in Threads, FinishPlan(t)
      PROVE  /\ [Next]_vars /\ EvalInv'
             /\ \A q \in Queries : planned[q] # NoDtype => planned'[q] = planned[q]
  BY <1>5, FinishPlanStep
<1>6. ASSUME NEW t \in Threads, FinishBatch(t)
      PROVE  [Next]_vars /\ EvalInv' /\ UNCHANGED planned
  BY <1>6, FinishBatchStep DEF FinishBatch
<1>7. CASE UNCHANGED evalVars
  <2>1. /\ UNCHANGED <<vars, queryVars>>
        /\ UNCHANGED <<fileVars, pc, job, expressions>>
    BY <1>7 DEF evalVars, vars, threadVars, exprVars
  <2>2. TasksInv'
    BY <2>1 DEF EvalInv, TasksInv, queryVars
  <2>3. EvalInv'
    BY <2>1, <2>2, FrameStep
  <2>. QED
    BY <2>1, <2>3 DEF queryVars
<1>. QED
  BY <1>1, <1>2, <1>3, <1>4, <1>5, <1>6, <1>7 DEF EvalNext, Start, Evaluate, Rest

(* Evaluations are calls of SharedReaders and keep its invariant too.      *)
THEOREM EvaluationsInductive == EvalSpec => [](IInv /\ EvalInv)
<1>1. EvalInit => IInv /\ EvalInv
  BY InitEvalInv
<1>2. IInv /\ EvalInv /\ [EvalNext]_evalVars => (IInv /\ EvalInv)'
  BY NextEvalInv, NextIInv
<1>. QED
  BY <1>1, <1>2, PTL DEF EvalSpec

(* All batches of a query are of one generation, the one its expression    *)
(* was built for, and in the dtype that was planned from it: for every     *)
(* number of queries, threads, files, generations and calls.               *)
THEOREM BatchesMatchPlan == EvalSpec => []OutputsAsPlanned
<1>1. EvalInv => OutputsAsPlanned
  BY DEF EvalInv
<1>. QED
  BY <1>1, EvaluationsInductive, PTL

(* However often a query is planned, it is planned with the same dtype.    *)
THEOREM PlansNeverChange == EvalSpec => PlansAgree
<1>1. IInv /\ EvalInv /\ [EvalNext]_evalVars =>
        [\A q \in Queries : planned[q] # NoDtype => planned'[q] = planned[q]]_evalVars
  BY NextEvalInv
<1>. QED
  BY <1>1, EvaluationsInductive, PTL DEF EvalSpec, PlansAgree

=============================================================================
