---------------------------- MODULE BatchLookup ----------------------------
(***************************************************************************)
(* The scalar half of lookup_path_series in src/lookup.rs.  A small column *)
(* is looked up serially, decoding each record once however many rows it   *)
(* serves.  A large one is cut into tasks of bounded size that Rayon's     *)
(* workers take in any order; their chunks are put together again.         *)
(*                                                                         *)
(* Nothing is shared by running tasks but the error that collect() saves,  *)
(* so a task is claimed in one step and done in another.                   *)
(***************************************************************************)
EXTENDS Integers, FiniteSets, Sequences

CONSTANTS
  Workers,           (* RAYON's threads                                    *)
  MinRows,           (* PARALLEL_SCALAR_MIN_ROWS                           *)
  MaxTaskRows,       (* PARALLEL_SCALAR_MAX_CHUNK_ROWS                     *)
  Ips, Offsets, Values,
  Search,            (* Reader::lookup: the record of each address.        *)
  Decode,            (* decode_path: the value in each record.             *)
  Columns,           (* Input columns, as the sequences of their rows.     *)
  MaxArrays,         (* Bounds the physical chunks of a column.            *)
  Null, NotAnIp,     (* Rows with no string and with one that is no IP.    *)
  NoIp, Missing,     (* There is nothing to look up, or no record.         *)
  InvalidIp, LookupFailed, DecodeFailed, Panicked,
  Idle, Pending

Errors == {InvalidIp, LookupFailed, DecodeFailed, Panicked}
Texts == Ips \cup {Null, NotAnIp}
Cells == Values \cup {Null}

ASSUME SizesArePositive == MinRows \in Nat \ {0} /\ MaxTaskRows \in Nat \ {0}
ASSUME WorkersAreFinite == IsFiniteSet(Workers)
ASSUME SearchResults == Search \in [Ips -> Offsets \cup {Missing, LookupFailed, Panicked}]
ASSUME DecodeResults == Decode \in [Offsets -> Cells \cup {DecodeFailed, Panicked}]
ASSUME ColumnsAreSequences == Columns \subseteq Seq(Texts) /\ MaxArrays \in Nat
ASSUME KindsAreDistinct ==
  /\ Ips \cap {Null, NotAnIp} = {} /\ Null # NotAnIp
  /\ Offsets \cap {NoIp, Missing} = {} /\ NoIp # Missing
  /\ Errors \cap (Offsets \cup Cells \cup {NoIp, Missing, Pending}) = {}
  /\ Pending \notin Seq(Cells)
  /\ Errors \cap Seq(Cells) = {}
  /\ Idle \notin Nat

VARIABLES
  ips,         (* The rows of the input column.                            *)
  ends,        (* Where each of its physical chunks (arrays) ends.         *)
  strict,
  stage,       (* How far the call is.                                     *)
  offsets, unique, rows,  (* lookup_batch: the index of each record found, *)
                          (* the records, and the index for each row.      *)
  tasks, task, (* The tasks cut so far, and the one being filled: a task   *)
  task_rows,   (* holds the rows after its start up to its end.            *)
  array, start,
  unclaimed,   (* Tasks no worker has taken.                               *)
  running,     (* The task of each worker.                                 *)
  chunks,      (* The chunks built so far, by task.                        *)
  saved,       (* The errors that collect() may return.                    *)
  panicked,    (* Did a task panic?                                        *)
  column,      (* The chunks appended to the first so far,                 *)
  appended,    (* and how many that is.                                    *)
  output

inputVars == <<ips, ends, strict>>
batchVars == <<offsets, unique, rows>>
cutVars   == <<tasks, task, task_rows, array, start>>
runVars   == <<unclaimed, running, chunks, saved, panicked>>
joinVars  == <<column, appended>>

vars == <<inputVars, stage, batchVars, cutVars, runVars, joinVars, output>>

----------------------------------------------------------------------------

(* lookup_one; NoIp is its None.                                           *)
LookupOne(value) ==
  IF value = Null THEN NoIp
  ELSE IF value = NotAnIp THEN IF strict THEN InvalidIp ELSE NoIp
  ELSE Search[value]

(* LookupResult::decode_path on what lookup_one found.                     *)
DecodePath(result) ==
  IF result \in Offsets THEN Decode[result] ELSE Null

(* A row on its own.                                                       *)
RowOutcome(value) ==
  LET result == LookupOne(value)
  IN  IF result \in Errors THEN result ELSE DecodePath(result)

HasError(results) == \E i \in 1 .. Len(results) : results[i] \in Errors

FirstError(results) ==
  results[CHOOSE i \in 1 .. Len(results) :
            results[i] \in Errors /\ \A j \in 1 .. i - 1 : results[j] \notin Errors]

(* collect() into a Result.                                                *)
CollectResults(results) == IF HasError(results) THEN FirstError(results) ELSE results

Init ==
  /\ ips \in Columns
  /\ ends \in {e \in UNION {[1 .. n -> 0 .. Len(ips)] : n \in 0 .. MaxArrays} :
                 /\ Len(ips) > 0 => e # <<>> /\ e[Len(e)] = Len(ips)
                 /\ \A k \in 2 .. Len(e) : e[k - 1] <= e[k]}
  /\ strict \in BOOLEAN
  /\ stage = "called"
  /\ offsets = [o \in {} |-> 0] /\ unique = <<>> /\ rows = <<>>
  /\ tasks = <<>> /\ task = [from |-> 0, to |-> 0] /\ task_rows = 0
  /\ array = 1 /\ start = 0
  /\ unclaimed = {} /\ running = [w \in Workers |-> Idle]
  /\ chunks = <<>> /\ saved = {} /\ panicked = FALSE
  /\ column = <<>> /\ appended = 0
  /\ output = Pending

Return(result) == stage' = "done" /\ output' = result

(* Which path a column takes.                                              *)
Dispatch ==
  /\ stage = "called"
  /\ stage' = IF Len(ips) >= MinRows /\ Cardinality(Workers) > 2 THEN "cut" ELSE "lookup"
  /\ UNCHANGED <<inputVars, batchVars, cutVars, runVars, joinVars, output>>

----------------------------------------------------------------------------
(* The serial path.                                                        *)

(* Mutant: a known record is taken to be the last one found.               *)
AddRowToLast(result) ==
  \/ /\ result \notin Offsets
     /\ rows' = Append(rows, 0)
     /\ UNCHANGED <<offsets, unique>>
  \/ /\ result \in DOMAIN offsets
     /\ rows' = Append(rows, Len(unique))
     /\ UNCHANGED <<offsets, unique>>
  \/ /\ result \in Offsets \ DOMAIN offsets
     /\ unique' = Append(unique, result)
     /\ offsets' = [o \in DOMAIN offsets \cup {result} |->
                      IF o = result THEN Len(unique) + 1 ELSE offsets[o]]
     /\ rows' = Append(rows, Len(unique) + 1)

(* A row with no record gets 0, for None; a record is kept once.           *)
AddRow(result) ==
  \/ /\ result \notin Offsets
     /\ rows' = Append(rows, 0)
     /\ UNCHANGED <<offsets, unique>>
  \/ /\ result \in DOMAIN offsets
     /\ rows' = Append(rows, offsets[result])
     /\ UNCHANGED <<offsets, unique>>
  \/ /\ result \in Offsets \ DOMAIN offsets
     /\ unique' = Append(unique, result)
     /\ offsets' = [o \in DOMAIN offsets \cup {result} |->
                      IF o = result THEN Len(unique) + 1 ELSE offsets[o]]
     /\ rows' = Append(rows, Len(unique) + 1)

(* One turn of the loop of lookup_batch_inner.                             *)
LookupRow ==
  /\ stage = "lookup"
  /\ Len(rows) < Len(ips)
  /\ LET result == LookupOne(ips[Len(rows) + 1])
     IN  IF result \in Errors THEN Return(result) /\ UNCHANGED batchVars
         ELSE AddRow(result) /\ UNCHANGED <<stage, output>>
  /\ UNCHANGED <<inputVars, cutVars, runVars, joinVars>>

(* The rest of decode_scalar_values, and the gather into a column.         *)
DecodeScalarValues ==
  /\ stage = "lookup"
  /\ Len(rows) = Len(ips)
  /\ LET decoded == [u \in 1 .. Len(unique) |-> DecodePath(unique[u])]
     IN  IF HasError(decoded) THEN Return(FirstError(decoded))
         ELSE Return([i \in 1 .. Len(rows) |->
                        IF rows[i] = 0 THEN Null ELSE decoded[rows[i]]])
  /\ UNCHANGED <<inputVars, batchVars, cutVars, runVars, joinVars>>

----------------------------------------------------------------------------
(* The parallel path: first the column is cut into tasks.                  *)

ArrayBase == IF array = 1 THEN 0 ELSE ends[array - 1]
ArrayLen == ends[array] - ArrayBase

(* The rows of the array that still fit into the task.                     *)
SliceRows ==
  IF MaxTaskRows - task_rows < ArrayLen - start THEN MaxTaskRows - task_rows
  ELSE ArrayLen - start

(* Mutant: the row count is not reset when a task is full.                 *)
AddSliceWithoutReset ==
  /\ start' = start + SliceRows
  /\ \/ /\ task_rows + SliceRows < MaxTaskRows
        /\ task' = [task EXCEPT !.to = ArrayBase + start']
        /\ task_rows' = task_rows + SliceRows
        /\ UNCHANGED tasks
     \/ /\ task_rows + SliceRows = MaxTaskRows
        /\ tasks' = Append(tasks, [task EXCEPT !.to = ArrayBase + start'])
        /\ task' = [from |-> ArrayBase + start', to |-> ArrayBase + start']
        /\ task_rows' = MaxTaskRows - 1

AddSlice ==
  /\ start' = start + SliceRows
  /\ \/ /\ task_rows + SliceRows < MaxTaskRows
        /\ task' = [task EXCEPT !.to = ArrayBase + start']
        /\ task_rows' = task_rows + SliceRows
        /\ UNCHANGED tasks
     \/ /\ task_rows + SliceRows = MaxTaskRows
        /\ tasks' = Append(tasks, [task EXCEPT !.to = ArrayBase + start'])
        /\ task' = [from |-> ArrayBase + start', to |-> ArrayBase + start']
        /\ task_rows' = 0

(* One turn of the inner loop of scalar_input_tasks.                       *)
CutSlice ==
  /\ stage = "cut"
  /\ array <= Len(ends) /\ start < ArrayLen
  /\ AddSlice
  /\ UNCHANGED <<inputVars, stage, batchVars, array, runVars, joinVars, output>>

NextArray ==
  /\ stage = "cut"
  /\ array <= Len(ends) /\ start = ArrayLen
  /\ array' = array + 1 /\ start' = 0
  /\ UNCHANGED <<inputVars, stage, batchVars, tasks, task, task_rows, runVars, joinVars,
                 output>>

(* The last task may be a small one.                                       *)
StartTasks ==
  /\ stage = "cut"
  /\ array > Len(ends)
  /\ stage' = "running"
  /\ tasks' = IF task.from = task.to THEN tasks ELSE Append(tasks, task)
  /\ unclaimed' = 1 .. Len(tasks')
  /\ chunks' = [k \in 1 .. Len(tasks') |-> <<>>]
  /\ UNCHANGED <<inputVars, batchVars, task, task_rows, array, start, running, saved,
                 panicked, joinVars, output>>

----------------------------------------------------------------------------
(* Then the tasks are run.                                                 *)

ClaimTask(w, k) ==
  /\ stage = "running"
  /\ running[w] = Idle
  /\ k \in unclaimed
  /\ running' = [running EXCEPT ![w] = k]
  /\ unclaimed' = unclaimed \ {k}
  /\ UNCHANGED <<inputVars, stage, batchVars, cutVars, chunks, saved, panicked,
                 joinVars, output>>

(* Mutant: a row's error is taken for its value.                           *)
TaskResultUnchecked(t) == [i \in 1 .. t.to - t.from |-> RowOutcome(ips[t.from + i])]

(* The body of a task: its chunk, or its first error.                      *)
TaskResult(t) ==
  CollectResults([i \in 1 .. t.to - t.from |-> RowOutcome(ips[t.from + i])])

(* Mutant: a panic takes its worker with it.                               *)
RunTaskOrDie(w) ==
  /\ running[w] # Idle
  /\ LET result == TaskResult(tasks[running[w]])
     IN  /\ result # Panicked
         /\ saved' = IF result \in Errors THEN saved \cup {result} ELSE saved
         /\ chunks' = IF result \in Errors THEN chunks
                      ELSE [chunks EXCEPT ![running[w]] = result]
  /\ running' = [running EXCEPT ![w] = Idle]
  /\ UNCHANGED <<inputVars, stage, batchVars, cutVars, unclaimed, panicked, joinVars, output>>

(* Rayon carries a panic over to the thread that waits in install().       *)
RunTask(w) ==
  /\ running[w] # Idle
  /\ LET result == TaskResult(tasks[running[w]])
     IN  \/ /\ result = Panicked
            /\ panicked' = TRUE
            /\ UNCHANGED <<saved, chunks>>
         \/ /\ result \in Errors \ {Panicked}
            /\ saved' = saved \cup {result}
            /\ UNCHANGED <<panicked, chunks>>
         \/ /\ result \notin Errors
            /\ chunks' = [chunks EXCEPT ![running[w]] = result]
            /\ UNCHANGED <<saved, panicked>>
  /\ running' = [running EXCEPT ![w] = Idle]
  /\ UNCHANGED <<inputVars, stage, batchVars, cutVars, unclaimed, joinVars, output>>

(* Mutant: only a panic makes the call fail.                               *)
CollectedUnlessPanicked == IF panicked THEN {Panicked} ELSE {}

(* guard_mmdb_operation catches a panic; else collect() returns an error   *)
(* that was saved, if any.                                                 *)
Collected == IF panicked THEN {Panicked} ELSE saved

(* An error or a panic lets Rayon skip the tasks nobody has begun.         *)
JoinTasks ==
  /\ stage = "running"
  /\ \A w \in Workers : running[w] = Idle
  /\ unclaimed = {} \/ saved # {} \/ panicked
  /\ \/ \E error \in Collected : Return(error) /\ UNCHANGED joinVars
     \/ /\ Collected = {}
        /\ stage' = "append"
        /\ column' = Head(chunks) /\ appended' = 1
        /\ UNCHANGED output
  /\ UNCHANGED <<inputVars, batchVars, cutVars, runVars>>

(* One turn of the loop that appends the other chunks.                     *)
AppendChunk ==
  /\ stage = "append"
  /\ appended < Len(chunks)
  /\ column' = column \o chunks[appended + 1]
  /\ appended' = appended + 1
  /\ UNCHANGED <<inputVars, stage, batchVars, cutVars, runVars, output>>

ReturnColumn ==
  /\ stage = "append"
  /\ appended = Len(chunks)
  /\ Return(column)
  /\ UNCHANGED <<inputVars, batchVars, cutVars, runVars, joinVars>>

----------------------------------------------------------------------------

Caller ==
  \/ Dispatch
  \/ LookupRow \/ DecodeScalarValues
  \/ CutSlice \/ NextArray \/ StartTasks \/ JoinTasks
  \/ AppendChunk \/ ReturnColumn

Worker(w) == RunTask(w) \/ \E k \in unclaimed : ClaimTask(w, k)

Returned == stage = "done" /\ UNCHANGED vars

Next == Caller \/ (\E w \in Workers : Worker(w)) \/ Returned

Spec == Init /\ [][Next]_vars

(* The caller and each of Rayon's threads keep running.                    *)
Fairness == WF_vars(Caller) /\ \A w \in Workers : WF_vars(Worker(w))

FairSpec == Spec /\ Fairness

----------------------------------------------------------------------------

Intervals == [from : 0 .. Len(ips), to : 0 .. Len(ips)]

(* Every variable keeps its type.                                          *)
TypeOK ==
  /\ ips \in Seq(Texts) /\ ends \in Seq(0 .. Len(ips))
  /\ strict \in BOOLEAN
  /\ stage \in {"called", "lookup", "cut", "running", "append", "done"}
  /\ unique \in Seq(Offsets)
  /\ offsets \in [DOMAIN offsets -> 1 .. Len(unique)] /\ DOMAIN offsets \subseteq Offsets
  /\ rows \in Seq(0 .. Len(unique))
  /\ tasks \in Seq(Intervals) /\ task \in Intervals
  /\ task_rows \in 0 .. MaxTaskRows - 1
  /\ array \in 1 .. Len(ends) + 1 /\ start \in 0 .. Len(ips)
  /\ unclaimed \subseteq 1 .. Len(tasks)
  /\ running \in [Workers -> (1 .. Len(tasks)) \cup {Idle}]
  /\ chunks \in Seq(Seq(Cells))
  /\ saved \subseteq Errors
  /\ panicked \in BOOLEAN
  /\ column \in Seq(Cells) /\ appended \in 0 .. Len(chunks)
  /\ output \in Errors \cup {Pending} \/ output \in Seq(Cells)

(* Sharing a record among rows, as the serial path does, gives no row the  *)
(* record of another and keeps no record twice.                            *)
RecordsShared ==
  /\ \A i, j \in 1 .. Len(unique) : unique[i] = unique[j] => i = j
  /\ \A i \in 1 .. Len(rows) :
       LET result == LookupOne(ips[i])
       IN  IF rows[i] = 0 THEN result \in {NoIp, Missing} ELSE unique[rows[i]] = result

(* Where k tasks end that are as large as a task may be.                   *)
FullTo(k) == k * MaxTaskRows

(* The tasks put end to end are the column, however it is chunked; none is *)
(* larger than a task may be, and only the last is smaller.                *)
TasksCoverColumn ==
  stage \in {"running", "append"} =>
    /\ \A k \in 1 .. Len(tasks) :
         /\ tasks[k].from = FullTo(k - 1)
         /\ k < Len(tasks) => tasks[k].to = FullTo(k)
         /\ k = Len(tasks) => tasks[k].to = Len(ips)
         /\ tasks[k].to - tasks[k].from \in 1 .. MaxTaskRows
    /\ tasks # <<>>

(* Both paths answer row by row: a column of the rows' own values if none  *)
(* has an error, else an error of one of them, whichever task came first,  *)
(* whichever tasks were skipped and whichever worker panicked.             *)
AnswersRowByRow ==
  LET outcomes == [i \in 1 .. Len(ips) |-> RowOutcome(ips[i])]
  IN  stage = "done" =>
        IF HasError(outcomes)
        THEN output \in Errors /\ \E i \in 1 .. Len(ips) : outcomes[i] = output
        ELSE output = outcomes

----------------------------------------------------------------------------
(* Why they hold: the invariant that every step keeps.                     *)

Outcome(i) == RowOutcome(ips[i])

(* The arrays of a column follow each other up to its end.                 *)
ArraysInv ==
  /\ Len(ips) > 0 => ends # <<>> /\ ends[Len(ends)] = Len(ips)
  /\ \A k \in 2 .. Len(ends) : ends[k - 1] <= ends[k]

(* Every record kept is that of a row before, and is found by its offset.  *)
SerialInv ==
  /\ Len(rows) <= Len(ips)
  /\ DOMAIN offsets = {unique[u] : u \in 1 .. Len(unique)}
  /\ \A o \in DOMAIN offsets : unique[offsets[o]] = o
  /\ \A u \in 1 .. Len(unique) : \E i \in 1 .. Len(rows) : rows[i] = u
  /\ RecordsShared

(* The tasks cut so far are full, and the one being filled begins where    *)
(* they end and ends where the cutting is.                                 *)
CutInv ==
  stage \in {"called", "cut"} =>
    /\ stage = "cut" => Len(ips) > 0
    /\ stage = "called" => array = 1 /\ start = 0
    /\ \A k \in 1 .. Len(tasks) :
         tasks[k].from = FullTo(k - 1) /\ tasks[k].to = FullTo(k)
    /\ task.from = FullTo(Len(tasks))
    /\ task.to = task.from + task_rows
    /\ task.to = ArrayBase + start
    /\ IF array <= Len(ends) THEN start <= ArrayLen ELSE start = 0

ChunkDone(k) ==
  /\ Len(chunks[k]) = tasks[k].to - tasks[k].from
  /\ \A i \in 1 .. Len(chunks[k]) : chunks[k][i] = Outcome(tasks[k].from + i)

(* A task is waiting, with a worker or done, unless one failed; and what   *)
(* failed was a row.                                                       *)
RunInv ==
  /\ stage # "running" => \A w \in Workers : running[w] = Idle
  /\ \A e \in saved : \E i \in 1 .. Len(ips) : Outcome(i) = e
  /\ panicked => \E i \in 1 .. Len(ips) : Outcome(i) = Panicked
  /\ stage \in {"running", "append"} =>
       /\ Len(chunks) = Len(tasks)
       /\ \A k \in 1 .. Len(tasks) :
            \/ k \in unclaimed \/ (\E w \in Workers : running[w] = k) \/ ChunkDone(k)
            \/ saved # {} \/ panicked

(* All chunks are done, and those appended reach as far as their tasks.    *)
AppendInv ==
  /\ stage \in {"called", "lookup", "cut", "running"} => appended = 0
  /\ stage = "append" =>
       /\ \A k \in 1 .. Len(tasks) : ChunkDone(k)
       /\ appended \in 1 .. Len(tasks)
       /\ Len(column) = tasks[appended].to
       /\ \A i \in 1 .. Len(column) : column[i] = Outcome(i)

IInv ==
  /\ TypeOK /\ ArraysInv /\ SerialInv /\ CutInv /\ RunInv /\ AppendInv
  /\ TasksCoverColumn
  /\ output = Pending <=> stage # "done"
  /\ AnswersRowByRow

----------------------------------------------------------------------------

(* The call returns, whatever the tasks do.                                *)
CallReturns == <>(stage = "done")

Service == INSTANCE RowLookup WITH
  Values   <- Cells,
  outcomes <- [i \in 1 .. Len(ips) |-> RowOutcome(ips[i])],
  answer   <- output

(* The two ways to look a column up are one and the same service.          *)
ImplementsRowLookup == Service!Spec

(* The safety half of that: there is one answer, and it is no other.       *)
ImplementsSafeRowLookup == Service!SafeSpec

=============================================================================
