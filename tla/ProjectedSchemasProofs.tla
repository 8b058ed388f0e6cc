----------------------- MODULE ProjectedSchemasProofs -----------------------
(***************************************************************************)
(* That every decoding goes by its own schema and leaves the thread's      *)
(* stack empty, for any number of threads, schemas, leaves and records.    *)
(***************************************************************************)
EXTENDS ProjectedSchemas, TLAPS

(* The initial state, in which no thread has a schema, satisfies IInv.     *)
LEMMA InitIInv == Init => IInv
  BY DEF Init, IInv, TypeOK, LeavesLeft, FreshLeaf, DecodedByOwnSchema, SchemaActive,
         StackRestored, Labels, Errors

(* What the other threads' state is after a step of thread t.              *)
OthersUnchanged(t) ==
  \A u \in Threads \ {t} :
    /\ projected_schemas'[u] = projected_schemas[u]
    /\ pc'[u] = pc[u] /\ leaves'[u] = leaves[u]
    /\ values'[u] = values[u] /\ error'[u] = error[u]

(* What the thread's own state has to be after it.                         *)
ThreadOK(t) ==
  /\ pc'[t] # "idle" => leaves'[t] # <<>>
  /\ pc'[t] \notin {"decode", "drop"} => values'[t] = <<>>
  /\ \A i \in 1 .. Len(values'[t]) : values'[t][i] \in {Head(leaves'[t]), Absent}
  /\ error'[t] # "no_schema"
  /\ projected_schemas'[t] =
       IF pc'[t] \in {"decode", "drop"} THEN <<Head(leaves'[t])>> ELSE <<>>

(* A step of one thread keeps IInv if it leaves the other threads' state   *)
(* alone and the thread's own state is as IInv wants it.                   *)
LEMMA OneThread ==
  ASSUME IInv, TypeOK', NEW t \in Threads, OthersUnchanged(t), ThreadOK(t)
  PROVE  IInv'
  BY DEF OthersUnchanged, ThreadOK, IInv, LeavesLeft, FreshLeaf, DecodedByOwnSchema,
         SchemaActive, StackRestored

(* A call begins with the thread's stack empty.                            *)
LEMMA BeginIInv ==
  ASSUME IInv, NEW t \in Threads, NEW schemas \in Projections, NEW records \in 0 .. MaxRecords,
         Begin(t, schemas, records)
  PROVE  IInv'
<1>1. schemas \in Seq(Schemas) /\ schemas # <<>>
  <2>1. PICK n \in 1 .. MaxLeaves : schemas \in [1 .. n -> Schemas]
    BY DEF Projections
  <2>2. n \in Nat \ {0}
    BY BoundsAreNat
  <2>3. QED
    BY <2>1, <2>2
<1>2. TypeOK'
  BY <1>1, BoundsAreNat DEF IInv, TypeOK, Begin, Goto, Labels, Errors
<1>3. OthersUnchanged(t)
  BY DEF OthersUnchanged, IInv, TypeOK, Begin, Goto
<1>4. ThreadOK(t)
  <2>1. projected_schemas[t] = <<>>
    BY DEF IInv, StackRestored, Begin, Goto
  <2>2. values'[t] = <<>> /\ error'[t] = "none" /\ pc'[t] = "push" /\ leaves'[t] = schemas
    BY DEF IInv, TypeOK, Begin, Goto
  <2>3. QED
    BY <1>1, <2>1, <2>2 DEF ThreadOK, Begin
<1>5. QED
  BY <1>2, <1>3, <1>4, OneThread

(* The schema pushed is the leaf's, on a stack that was empty.             *)
LEMMA PushSchemaIInv ==
  ASSUME IInv, NEW t \in Threads, PushSchema(t)
  PROVE  IInv'
<1>1. Head(leaves[t]) \in Schemas
  BY DEF IInv, TypeOK, LeavesLeft, PushSchema, Goto
<1>2. projected_schemas[t] = <<>> /\ values[t] = <<>>
  BY DEF IInv, StackRestored, FreshLeaf, PushSchema, Goto
<1>3. projected_schemas' = [projected_schemas EXCEPT ![t] = <<Head(leaves[t])>>]
  BY <1>1, <1>2 DEF PushSchema, SetStack, Stack, ThreadLocal
<1>4. TypeOK'
  BY <1>1, <1>3 DEF IInv, TypeOK, PushSchema, Goto, Labels
<1>5. OthersUnchanged(t)
  BY <1>3 DEF OthersUnchanged, IInv, TypeOK, PushSchema, Goto
<1>6. ThreadOK(t)
  BY <1>2, <1>3 DEF ThreadOK, IInv, TypeOK, LeavesLeft, SchemaActive, PushSchema, Goto
<1>7. QED
  BY <1>4, <1>5, <1>6, OneThread

(* The top of the stack is the leaf's schema.                              *)
LEMMA DecodeProjectedPathIInv ==
  ASSUME IInv, NEW t \in Threads, DecodeProjectedPath(t)
  PROVE  IInv'
<1>1. Stack(t) = <<Head(leaves[t])>> /\ leaves[t] # <<>>
  BY DEF IInv, StackRestored, LeavesLeft, DecodeProjectedPath, Stack, ThreadLocal
<1>2. Last(Stack(t)) = Head(leaves[t]) /\ Head(leaves[t]) \in Schemas /\ Stack(t) # <<>>
  BY <1>1 DEF IInv, TypeOK, Last
<1>3. CASE \E value \in {Head(leaves[t]), Absent} : Keep(t, value)
  <2>1. PICK value \in {Head(leaves[t]), Absent} : Keep(t, value)
    BY <1>3
  <2>2. values' = [values EXCEPT ![t] = Append(values[t], value)]
    BY <2>1 DEF Keep
  <2>3. value \in Schemas \cup {Absent} /\ values[t] \in Seq(Schemas \cup {Absent})
    BY <1>2 DEF IInv, TypeOK
  <2>4. TypeOK'
    BY <2>1, <2>2, <2>3 DEF IInv, TypeOK, Keep, DecodeProjectedPath
  <2>5. values'[t] = Append(values[t], value)
    BY <2>2 DEF IInv, TypeOK
  <2>6. \A i \in 1 .. Len(values'[t]) : values'[t][i] \in {Head(leaves[t]), Absent}
    BY <2>3, <2>5 DEF IInv, DecodedByOwnSchema
  <2>7. OthersUnchanged(t)
    BY <2>1 DEF OthersUnchanged, IInv, TypeOK, Keep, DecodeProjectedPath
  <2>8. ThreadOK(t)
    BY <2>1, <2>6
    DEF ThreadOK, IInv, LeavesLeft, SchemaActive, StackRestored, Keep, DecodeProjectedPath
  <2>9. QED
    BY <2>4, <2>7, <2>8, OneThread
<1>4. CASE \E reason \in {"decode", "panic"} : Stop(t, reason)
  <2>1. PICK reason \in {"decode", "panic"} : Stop(t, reason)
    BY <1>4
  <2>2. TypeOK'
    BY <2>1 DEF IInv, TypeOK, Stop, DecodeProjectedPath, Labels, Errors
  <2>3. OthersUnchanged(t)
    BY <2>1 DEF OthersUnchanged, IInv, TypeOK, Stop, DecodeProjectedPath
  <2>4. ThreadOK(t)
    BY <2>1
    DEF ThreadOK, IInv, TypeOK, LeavesLeft, DecodedByOwnSchema, StackRestored, Stop,
        DecodeProjectedPath
  <2>5. QED
    BY <2>2, <2>3, <2>4, OneThread
<1>5. QED
  BY <1>2, <1>3, <1>4 DEF DecodeProjectedPath

(* The callback has returned, and the guard still holds the schema.        *)
LEMMA DecodedIInv ==
  ASSUME IInv, NEW t \in Threads, Decoded(t)
  PROVE  IInv'
<1>1. TypeOK'
  BY DEF IInv, TypeOK, Decoded, Goto, Labels
<1>2. OthersUnchanged(t)
  BY DEF OthersUnchanged, IInv, TypeOK, Decoded, Goto
<1>3. ThreadOK(t)
  BY DEF ThreadOK, IInv, TypeOK, LeavesLeft, DecodedByOwnSchema, SchemaActive, StackRestored,
         Decoded, Goto
<1>4. QED
  BY <1>1, <1>2, <1>3, OneThread

(* The guard pops the one schema there is, whatever ended the callback.    *)
LEMMA LeaveSchemaIInv ==
  ASSUME IInv, NEW t \in Threads, LeaveSchema(t)
  PROVE  IInv'
<1>1. Stack(t) = <<Head(leaves[t])>> /\ leaves[t] # <<>> /\ leaves[t] \in Seq(Schemas)
  BY DEF IInv, TypeOK, StackRestored, LeavesLeft, LeaveSchema, Stack, ThreadLocal
<1>2. Stack(t) # <<>> /\ Front(Stack(t)) = <<>>
  BY <1>1 DEF Front
<1>3. projected_schemas' = [projected_schemas EXCEPT ![t] = <<>>]
  BY <1>2 DEF LeaveSchema, DropGuard, Pop, SetStack, ThreadLocal
<1>4. (IF error[t] = "none" THEN Tail(leaves[t]) ELSE <<>>) \in Seq(Schemas)
  BY <1>1
<1>5. TypeOK'
  BY <1>3, <1>4 DEF IInv, TypeOK, LeaveSchema, Labels
<1>6. OthersUnchanged(t)
  BY <1>3 DEF OthersUnchanged, IInv, TypeOK, LeaveSchema
<1>7. ThreadOK(t)
  BY <1>3 DEF ThreadOK, IInv, TypeOK, SchemaActive, LeaveSchema
<1>8. QED
  BY <1>5, <1>6, <1>7, OneThread

(* Every step keeps IInv.                                                  *)
LEMMA NextIInv == IInv /\ [Next]_vars => IInv'
<1> SUFFICES ASSUME IInv, [Next]_vars PROVE IInv'
  OBVIOUS
<1>1. CASE UNCHANGED vars
  BY <1>1 DEF vars, callVars, IInv, TypeOK, LeavesLeft, FreshLeaf, DecodedByOwnSchema,
              SchemaActive, StackRestored
<1>2. ASSUME NEW t \in Threads, Step(t) PROVE IInv'
  BY <1>2, PushSchemaIInv, DecodeProjectedPathIInv, DecodedIInv, LeaveSchemaIInv DEF Step
<1>3. QED
  BY <1>1, <1>2, BeginIInv DEF Next

(* IInv holds in every state.                                              *)
THEOREM Inductive == Spec => []IInv
  BY InitIInv, NextIInv, PTL DEF Spec

(* No value is ever decoded by another call's schema, or by another leaf's.*)
THEOREM OwnSchema == Spec => []DecodedByOwnSchema
<1>1. IInv => DecodedByOwnSchema
  BY DEF IInv
<1>2. QED
  BY <1>1, Inductive, PTL

(* After every leaf, error and panic the stack is empty again.             *)
THEOREM Restored == Spec => []StackRestored
<1>1. IInv => StackRestored
  BY DEF IInv
<1>2. QED
  BY <1>1, Inductive, PTL

(* No call ever finds the stack empty in the middle of a leaf.             *)
THEOREM Active == Spec => []SchemaActive
<1>1. IInv => SchemaActive
  BY DEF IInv
<1>2. QED
  BY <1>1, Inductive, PTL

=============================================================================
