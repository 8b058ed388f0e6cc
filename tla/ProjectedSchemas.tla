-------------------------- MODULE ProjectedSchemas --------------------------
(***************************************************************************)
(* How a schema gets to serde in src/value.rs.  Deserialize takes no       *)
(* parameter, so that with_projected_schema pushes the schema on a stack   *)
(* of the thread, ProjectedValue::deserialize reads the top of it, and a   *)
(* guard pops it when the callback returns or panics.                      *)
(*                                                                         *)
(* Threads run calls of the functions of src/lookup.rs that decode by      *)
(* schema: decode_nested_path_values, with one schema, and                 *)
(* decode_projection_series, with the schema of each leaf in turn.  None   *)
(* of the callbacks calls with_projected_schema or enters Rayon.           *)
(***************************************************************************)
EXTENDS Naturals, SequencesExt

CONSTANTS
  Threads, Schemas,
  MaxLeaves,         (* Bounds the schemas of a call.                      *)
  MaxRecords,        (* Bounds the records decoded by each.                *)
  Absent             (* What a record has that lacks the path.             *)

ASSUME AbsentIsNoSchema == Absent \notin Schemas
ASSUME BoundsAreNat == MaxLeaves \in Nat /\ MaxRecords \in Nat

VARIABLES
  projected_schemas, (* PROJECTED_SCHEMAS, by thread.                      *)
  pc,
  leaves,            (* The schemas the call has yet to decode by.         *)
  results,           (* How many records it decodes.                       *)
  values,            (* The schemas the present leaf's were decoded by.    *)
  error              (* What came of the call, so far.                     *)

callVars == <<pc, leaves, results, values, error>>
vars == <<projected_schemas, callVars>>

Labels == {"idle", "push", "decode", "drop"}
Errors == {"none", "no_schema", "decode", "panic"}

Init ==
  /\ projected_schemas = [t \in Threads |-> <<>>]
  /\ pc = [t \in Threads |-> "idle"]
  /\ leaves = [t \in Threads |-> <<>>]
  /\ results = [t \in Threads |-> 0]
  /\ values = [t \in Threads |-> <<>>]
  /\ error = [t \in Threads |-> "none"]

(* Mutant: one stack for all threads, as behind a Mutex.                   *)
OneForAll(t) == CHOOSE u \in Threads : TRUE

(* thread_local!: the stack a thread gets to see.                          *)
ThreadLocal(t) == t

Stack(t) == projected_schemas[ThreadLocal(t)]

SetStack(t, stack) ==
  projected_schemas' = [projected_schemas EXCEPT ![ThreadLocal(t)] = stack]

Pop(t) == SetStack(t, IF Stack(t) = <<>> THEN <<>> ELSE Front(Stack(t)))

Goto(t, from, to) == pc[t] = from /\ pc' = [pc EXCEPT ![t] = to]

(* A call begins to decode.                                                *)
Begin(t, schemas, records) ==
  /\ Goto(t, "idle", "push")
  /\ leaves' = [leaves EXCEPT ![t] = schemas]
  /\ results' = [results EXCEPT ![t] = records]
  /\ values' = [values EXCEPT ![t] = <<>>]
  /\ error' = [error EXCEPT ![t] = "none"]
  /\ UNCHANGED projected_schemas

(* Mutant: "let _ = ProjectedSchemaGuard" drops the guard at once.         *)
PushAndDrop(t) ==
  /\ Goto(t, "push", "decode")
  /\ UNCHANGED <<projected_schemas, leaves, results, values, error>>

PushSchema(t) ==
  /\ Goto(t, "push", "decode")
  /\ SetStack(t, Append(Stack(t), Head(leaves[t])))
  /\ UNCHANGED <<leaves, results, values, error>>

Keep(t, value) ==
  /\ values' = [values EXCEPT ![t] = Append(@, value)]
  /\ UNCHANGED <<pc, error>>

(* The callback ends with an error, or with a panic to unwind.             *)
Stop(t, reason) ==
  /\ pc' = [pc EXCEPT ![t] = "drop"]
  /\ error' = [error EXCEPT ![t] = reason]
  /\ UNCHANGED values

(* One record: only if it has the path does serde come to the schema, and  *)
(* then the record may not fit, or the parser panic.                       *)
DecodeProjectedPath(t) ==
  /\ pc[t] = "decode"
  /\ Len(values[t]) < results[t]
  /\ \/ Keep(t, Absent)
     \/ Stack(t) = <<>> /\ Stop(t, "no_schema")
     \/ Stack(t) # <<>> /\ Keep(t, Last(Stack(t)))
     \/ \E reason \in {"decode", "panic"} : Stop(t, reason)
  /\ UNCHANGED <<projected_schemas, leaves, results>>

Decoded(t) ==
  /\ Goto(t, "decode", "drop")
  /\ Len(values[t]) = results[t]
  /\ UNCHANGED <<projected_schemas, leaves, results, values, error>>

(* Mutant: the pop follows the callback instead of being a guard's drop.   *)
PopUnlessUnwinding(t) ==
  IF error[t] = "panic" THEN UNCHANGED projected_schemas ELSE Pop(t)

(* ProjectedSchemaGuard::drop, also while the thread unwinds.              *)
DropGuard(t) == Pop(t)

(* The guard is dropped, and guard_mmdb_operation makes an error of a      *)
(* panic.  An error ends the call, and so does the last leaf.              *)
LeaveSchema(t) ==
  /\ pc[t] = "drop"
  /\ DropGuard(t)
  /\ leaves' = [leaves EXCEPT ![t] = IF error[t] = "none" THEN Tail(@) ELSE <<>>]
  /\ pc' = [pc EXCEPT ![t] = IF leaves'[t] = <<>> THEN "idle" ELSE "push"]
  /\ values' = [values EXCEPT ![t] = <<>>]
  /\ UNCHANGED <<results, error>>

Step(t) == PushSchema(t) \/ DecodeProjectedPath(t) \/ Decoded(t) \/ LeaveSchema(t)

(* The leaves of one projection, or a single path's dtype.                 *)
Projections == UNION {[1 .. n -> Schemas] : n \in 1 .. MaxLeaves}

Next ==
  \E t \in Threads :
    \/ \E schemas \in Projections, records \in 0 .. MaxRecords : Begin(t, schemas, records)
    \/ Step(t)

Spec == Init /\ [][Next]_vars

----------------------------------------------------------------------------

(* Every variable keeps its type.                                          *)
TypeOK ==
  /\ projected_schemas \in [Threads -> Seq(Schemas)]
  /\ pc \in [Threads -> Labels]
  /\ leaves \in [Threads -> Seq(Schemas)]
  /\ results \in [Threads -> Nat]
  /\ values \in [Threads -> Seq(Schemas \cup {Absent})]
  /\ error \in [Threads -> Errors]

(* What a leaf decodes is decoded by the schema of that leaf, whatever     *)
(* other threads decode at the time and whatever the thread did before.    *)
DecodedByOwnSchema ==
  \A t \in Threads : \A i \in 1 .. Len(values[t]) :
    values[t][i] \in {Head(leaves[t]), Absent}

(* A call never fails because the schema it pushed is gone.                *)
SchemaActive == \A t \in Threads : error[t] # "no_schema"

(* A leaf leaves the thread's stack as it found it, which is empty, also   *)
(* when the parser panicked in the middle of it.                           *)
StackRestored ==
  \A t \in Threads :
    projected_schemas[t] = IF pc[t] \in {"decode", "drop"} THEN <<Head(leaves[t])>> ELSE <<>>

(* A call under way has a schema to decode by.                             *)
LeavesLeft == \A t \in Threads : pc[t] # "idle" => leaves[t] # <<>>

(* A call starts a leaf, and ends one, with no values.                     *)
FreshLeaf ==
  \A t \in Threads : pc[t] \notin {"decode", "drop"} => values[t] = <<>>

(* What every step keeps.                                                  *)
IInv ==
  /\ TypeOK /\ LeavesLeft /\ FreshLeaf
  /\ DecodedByOwnSchema /\ SchemaActive /\ StackRestored

=============================================================================
