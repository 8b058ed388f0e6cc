---------------------------- MODULE NestedLookup ----------------------------
(***************************************************************************)
(* The lookups of src/lookup.rs past lookup_batch, given the records found *)
(* and the index of each row's: lookup(), which decodes a record leaf by   *)
(* leaf of the dtype into a column each, or whole if maxminddb has a       *)
(* struct for it, and lookup_path() with a List or Struct at the end of    *)
(* the path, which decodes values whole too and then splits them into such *)
(* columns; the columns become nested ones again at last.                  *)
(* lookup_path() to a scalar is here for its result only: the module       *)
(* BatchLookup has how it comes about.                                     *)
(***************************************************************************)
EXTENDS SchemaResolution

CONSTANTS
  Requests,          (* [entry, path, explicit]: the kwargs of a call.     *)
  KnownDtypes,       (* known_schema of the database, or NoDtype.          *)
  TypedDtypes,       (* Those that are the schema of a KnownRecord.        *)
  RecordLists,       (* Records that lookup_batch may find.                *)
  MaxRows            (* Bounds the rows of a column.                       *)

ASSUME RequestsAreCalls ==
  \A q \in Requests :
    /\ q.entry \in {"record", "path"}
    /\ q.path \in Seq(PathPart)
    /\ q.explicit \in Dtype \cup {NoDtype}
ASSUME KnownDtypesAreDtypes ==
  /\ KnownDtypes \subseteq Dtype \cup {NoDtype}
  /\ TypedDtypes \subseteq KnownDtypes \ {NoDtype}
ASSUME RecordsAreValues == \A list \in RecordLists : list \in Seq(Value)
ASSUME MaxRowsIsNatural == MaxRows \in Nat

VARIABLES
  request, known, records, rows,
  stage,
  dtype,             (* What the call was resolved to.                     *)
  values,            (* What each record has at the path, once decoded.    *)
  columns,           (* The columns of the leaves gathered so far.         *)
  result

inputVars == <<request, known, records, rows>>

vars == <<inputVars, stage, dtype, values, columns, result>>

----------------------------------------------------------------------------
Keys(names) == [i \in 1 .. Len(names) |-> Key(names[i])]

----------------------------------------------------------------------------
(* Columns of leaves.                                                      *)

(* The leaves of a field, under its name.                                  *)
Within(name, leaves) ==
  [k \in 1 .. Len(leaves) |-> [path |-> <<name>> \o leaves[k].path, dtype |-> leaves[k].dtype]]

(* The leaves of a struct's fields, from the first to each of them.        *)
Gather(leaves, fields) ==
  LET upto[i \in 0 .. Len(fields)] ==
        IF i = 0 THEN <<>>
        ELSE upto[i - 1] \o Within(fields[i].name, leaves[fields[i].dtype])
  IN  upto

(* flatten_projection                                                      *)
Leaves[d \in Dtype] ==
  IF d.type # "struct" THEN <<[path |-> <<>>, dtype |-> d]>>
  ELSE Gather(Leaves, d.fields)[Len(d.fields)]

(* value_at_path, which finds nothing where decode_path would complain.    *)
ValueAtPath(value, names) ==
  LET found == Navigate(value, Keys(names))
  IN  IF found = Mismatch THEN None ELSE found

(* The leaves are taken off the iterator in order, so a field's first one  *)
(* is past those of the fields before it.                                  *)
LeavesBefore(fields, i) == Len(Gather(Leaves, fields)[i - 1])

(* Mutant: every field takes the column of the first.                      *)
AssembleFirst(cols, validity) ==
  LET column[d \in Dtype] ==
        [first \in Nat |->
           IF d.type # "struct" THEN cols[first]
           ELSE [r \in 1 .. Len(validity) |->
                   IF validity[r]
                   THEN MapValue([i \in 1 .. Len(d.fields) |->
                                    Entry(d.fields[i].name, column[d.fields[i].dtype][first][r])])
                   ELSE Null]]
  IN  column

(* assemble_projection_series, of the columns from a first one on.         *)
Assemble(cols, validity) ==
  LET column[d \in Dtype] ==
        [first \in Nat |->
           IF d.type # "struct" THEN cols[first]
           ELSE [r \in 1 .. Len(validity) |->
                   IF validity[r]
                   THEN MapValue([i \in 1 .. Len(d.fields) |->
                          Entry(d.fields[i].name,
                                column[d.fields[i].dtype][first + LeavesBefore(d.fields, i)][r])])
                   ELSE Null]]
  IN  column

----------------------------------------------------------------------------

Pending == [status |-> "pending"]
Ok(column) == [status |-> "ok", column |-> column]
Error(what) == [status |-> what]

(* Each record was found for some row, and they are in the order of the    *)
(* rows that first reach them.                                             *)
RowsOf(list) ==
  {r \in UNION {[1 .. n -> 0 .. Len(list)] : n \in 0 .. MaxRows} :
     /\ \A u \in 1 .. Len(list) : \E i \in 1 .. Len(r) : r[i] = u
     /\ \A i \in 1 .. Len(r) : \A u \in 1 .. r[i] - 1 : \E j \in 1 .. i - 1 : r[j] = u}

Init ==
  /\ request \in Requests
  /\ known \in KnownDtypes
  /\ records \in RecordLists
  /\ rows \in RowsOf(records)
  /\ stage = "plan" /\ dtype = NoDtype
  /\ values = <<>> /\ columns = <<>> /\ result = Pending

Return(outcome) == stage' = "done" /\ result' = outcome

IsRecordLookup == request.entry = "record"
Path == ToMmdbPath(request.path)

Resolves ==
  IF IsRecordLookup THEN ResolvesRecord(known, request.explicit)
  ELSE ResolvesPath(known, request.path, request.explicit)

(* The output type function, whose result the call will find again.        *)
Plan ==
  /\ stage = "plan"
  /\ IF ~Resolves THEN Return(Error("schema")) /\ UNCHANGED dtype
     ELSE /\ dtype' = IF IsRecordLookup THEN RecordDtype(known, request.explicit)
                      ELSE PathDtype(known, request.path, request.explicit)
          /\ stage' = "execute"
          /\ UNCHANGED result
  /\ UNCHANGED <<inputVars, values, columns>>

(* direct_record: is the record that of one of maxminddb's own structs?    *)
IsDirectRecord == known \in TypedDtypes /\ dtype = known

(* Only now is the path converted.                                         *)
Execute ==
  /\ stage = "execute"
  /\ IF IsRecordLookup
     THEN stage' = (IF IsDirectRecord THEN "typed" ELSE "leaves") /\ UNCHANGED result
     ELSE IF ~ConvertsPath(request.path) THEN Return(Error("index"))
     ELSE /\ stage' = IF IsNested(dtype) THEN "values" ELSE "scalars"
          /\ UNCHANGED result
  /\ UNCHANGED <<inputVars, dtype, values, columns>>

(* Mutant: a record that lacks the path is an error.                       *)
DecodesIfPresent(way, record, path, d) == Navigate(record, path) \in Decodable[d][way]

(* Does decode_path succeed for a record, and with what?                   *)
DecodesAt(way, record, path, d) ==
  LET value == Navigate(record, path)
  IN  value # Mismatch /\ (value = None \/ value \in Decodable[d][way])

DecodedAt(way, record, path, d) ==
  LET value == Navigate(record, path)
  IN  IF value = None THEN None ELSE Decoded[d][way][value]

(* The scalar results, however BatchLookup comes by them.                  *)
DecodeScalars ==
  /\ stage = "scalars"
  /\ IF \E u \in 1 .. Len(records) : ~DecodesAt("leaves", records[u], Path, dtype)
     THEN Return(Error("decode"))
     ELSE Return(Ok(Take(ValuesToSeries([u \in 1 .. Len(records) |->
                                           DecodedAt("leaves", records[u], Path, dtype)],
                                        dtype), rows)))
  /\ UNCHANGED <<inputVars, dtype, values, columns>>

DecodeValues(way, path) ==
  /\ IF \E u \in 1 .. Len(records) : ~DecodesAt(way, records[u], path, dtype)
     THEN Return(Error("decode")) /\ UNCHANGED values
     ELSE /\ values' = [u \in 1 .. Len(records) |-> DecodedAt(way, records[u], path, dtype)]
          /\ stage' = "split"
          /\ UNCHANGED result
  /\ UNCHANGED <<inputVars, dtype, columns>>

(* decode_nested_path_values up to its last call.                          *)
DecodeNestedValues == stage = "values" /\ DecodeValues("seed", Path)

(* decode_known fills a struct with a field for each of the schema's and   *)
(* the same defaults, and makes a Value of it again.                       *)
DecodeKnown == stage = "typed" /\ DecodeValues("struct", <<>>)

NextLeaf == Leaves[dtype][Len(columns) + 1]
LeavesLeft == Len(columns) < Len(Leaves[dtype])

(* A leaf that is not there is given its default.                          *)
Defaulted(found, d) ==
  [u \in 1 .. Len(found) |-> IF found[u] = None THEN DefaultValue[d] ELSE found[u]]

(* values_to_series and take of one leaf.                                  *)
AddColumn(found, d) ==
  LET column == Defaulted(found, d)
  IN  IF \A u \in 1 .. Len(column) : column[u] \in Buildable[d]
      THEN /\ columns' = Append(columns, Take(ValuesToSeries(column, d), rows))
           /\ UNCHANGED <<stage, result>>
      ELSE Return(Error("build")) /\ UNCHANGED columns

(* One turn of the loop of decoded_values_to_series.                       *)
SplitLeaf ==
  /\ stage = "split" /\ LeavesLeft
  /\ AddColumn([u \in 1 .. Len(records) |->
                  IF values[u] = None THEN None ELSE ValueAtPath(values[u], NextLeaf.path)],
               NextLeaf.dtype)
  /\ UNCHANGED <<inputVars, dtype, values>>

(* One turn of the loop of decode_projection_series, with decode_leaf.     *)
DecodeLeaf ==
  /\ stage = "leaves" /\ LeavesLeft
  /\ LET path == Keys(NextLeaf.path)
     IN  IF \E u \in 1 .. Len(records) : ~DecodesAt("leaves", records[u], path, NextLeaf.dtype)
         THEN Return(Error("decode")) /\ UNCHANGED columns
         ELSE AddColumn([u \in 1 .. Len(records) |->
                           DecodedAt("leaves", records[u], path, NextLeaf.dtype)], NextLeaf.dtype)
  /\ UNCHANGED <<inputVars, dtype, values>>

(* Rows with a record and, where values were decoded whole, with a value.  *)
Validity ==
  [r \in 1 .. Len(rows) |-> rows[r] # 0 /\ (stage = "leaves" \/ values[rows[r]] # None)]

AssembleColumns ==
  /\ stage \in {"split", "leaves"} /\ ~LeavesLeft
  /\ Return(Ok(Assemble(columns, Validity)[dtype][1]))
  /\ UNCHANGED <<inputVars, dtype, values, columns>>

Returned == stage = "done" /\ UNCHANGED vars

Next ==
  \/ Plan \/ Execute
  \/ DecodeScalars
  \/ DecodeNestedValues \/ DecodeKnown \/ SplitLeaf
  \/ DecodeLeaf
  \/ AssembleColumns
  \/ Returned

Spec == Init /\ [][Next]_vars

----------------------------------------------------------------------------

(* The cells of a column of a dtype.                                       *)
CellsOf[d \in Dtype] ==
  {Null} \cup
  {cell \in Value :
     CASE d.type = "struct" ->
            /\ cell.kind = "map" /\ Len(cell.entries) = Len(d.fields)
            /\ \A i \in 1 .. Len(d.fields) :
                 /\ cell.entries[i].name = d.fields[i].name
                 /\ cell.entries[i].value \in CellsOf[d.fields[i].dtype]
       [] d.type = "list" ->
            /\ cell.kind = "list"
            /\ \A i \in 1 .. Len(cell.items) : cell.items[i] \in CellsOf[d.inner]
       [] OTHER -> cell.kind = d.type /\ ValidScalar(cell, d.type)}

(* A lookup that succeeds returns what its plan announced: a cell of the   *)
(* planned dtype for every row, fields in order, integers within range.    *)
OutputAsPlanned ==
  result.status = "ok" =>
    /\ Len(result.column) = Len(rows)
    /\ \A r \in 1 .. Len(rows) : result.column[r] \in CellsOf[dtype]

(* Python's element of a list; None if there is no such element.           *)
PythonElement(items, i) ==
  IF i \in 0 .. Len(items) - 1 THEN items[i + 1]
  ELSE IF -i \in 1 .. Len(items) THEN items[Len(items) + i + 1]
  ELSE None

(* What a part of a path means to a caller.                                *)
PythonDescend(value, part) ==
  IF part.at = "index" /\ value.kind = "list" THEN PythonElement(value.items, part.index)
  ELSE Descend(value, part)

PythonAlong(value, path) ==
  LET at[i \in 0 .. Len(path)] == IF i = 0 THEN value ELSE PythonDescend(at[i - 1], path[i])
  IN  at

(* The value a row's record has for the call, and what it comes out as.    *)
Wanted(record) ==
  IF IsRecordLookup THEN record ELSE PythonAlong(record, request.path)[Len(request.path)]

RowCell(way, r) ==
  IF rows[r] = 0 \/ Wanted(records[rows[r]]) = None THEN Null
  ELSE LET value == Wanted(records[rows[r]])
       IN  IF value \in Decodable[dtype][way] THEN Cell[dtype][Decoded[dtype][way][value]]
           ELSE Mismatch

(* The way in which such a call decodes.                                   *)
WayOfCall ==
  IF IsRecordLookup THEN IF IsDirectRecord THEN "struct" ELSE "leaves"
  ELSE IF IsNested(dtype) THEN "seed" ELSE "leaves"

(* A Struct with no field anywhere in it asks nothing of a record that is  *)
(* decoded leaf by leaf: does the dtype have none?                         *)
HasLeavesThroughout[d \in Dtype] ==
  d.type = "struct" =>
    /\ d.fields # <<>>
    /\ \A i \in 1 .. Len(d.fields) : HasLeavesThroughout[d.fields[i].dtype]

AsksOfRecords == IsRecordLookup => HasLeavesThroughout[dtype]

(* Decoding by columns, once for each record, is decoding by rows: every   *)
(* row is its own record's value, with the defaults of the dtype for what  *)
(* the record lacks, and null if there is no record or no such path.       *)
(* And where a record's value keeps to the dtype, the row does not depend  *)
(* on which of the decoders the call came to.                              *)
(* (Where the path ends in a List, see AbsentPathIsNull.)                  *)
ColumnsMatchRows ==
  result.status = "ok" /\ AsksOfRecords =>
    \A r \in 1 .. Len(rows), way \in Ways :
      (way = WayOfCall \/ (rows[r] # 0 /\ Wanted(records[rows[r]]) \in KeepingTo(dtype))) =>
        \/ result.column[r] = RowCell(way, r)
        \/ ~IsRecordLookup /\ dtype.type = "list" /\ RowCell(way, r) = Null

(* A call fails for the data's sake only if some record's value is refused *)
(* by the call's own decoder, taken whole, and then it does fail; values   *)
(* that keep to the dtype never make it fail; and values that were         *)
(* accepted when they were decoded are not refused when the column is      *)
(* built.  (What else the decoders accept, see DtypeMismatchFails.)        *)
DecodeFailuresJustified ==
  /\ result.status = "decode" => \E u \in 1 .. Len(records) :
       LET value == Wanted(records[u])
       IN  value # None /\ value \notin Decodable[dtype][WayOfCall] \cup KeepingTo(dtype)
  /\ result.status = "ok" /\ AsksOfRecords => \A u \in 1 .. Len(records) :
       LET value == Wanted(records[u])
       IN  value = None \/ value \in Decodable[dtype][WayOfCall]
  /\ result.status # "build"

(* Planning against a known schema is enough: records that keep to that    *)
(* schema are decoded without an error under whatever part of it, or path  *)
(* into it, the plan allowed.                                              *)
KnownDataDecodes ==
  /\ known # NoDtype
  /\ \A u \in 1 .. Len(records) : records[u] \in KeepingTo(known)
  => result.status \notin {"decode", "build"}

(* "Corrupt data or custom dtype mismatch: Polars compute error": a call   *)
(* that decodes a value that validate_scalar would say does not match the  *)
(* requested dtype fails.                                                  *)
DtypeMismatchFails ==
  result.status = "ok" /\ AsksOfRecords => \A u \in 1 .. Len(records) :
    LET value == Wanted(records[u])
    IN  value = None \/ value \in Decodable[dtype]["seed"]

(* "Path absent from a record or List index out of range: null output",    *)
(* for a List at the end of the path too.                                  *)
AbsentPathIsNull ==
  result.status = "ok" /\ ~IsRecordLookup =>
    \A r \in 1 .. Len(rows) :
      rows[r] # 0 /\ Wanted(records[rows[r]]) = None => result.column[r] = Null

(* "List index out of range: null output", whatever the index, for paths   *)
(* that end in anything but a List.                                        *)
OutOfRangeIsNull ==
  (/\ stage = "done" /\ result.status # "schema"
   /\ ~IsRecordLookup /\ dtype.type # "list" /\ records # <<>>
   /\ \A u \in 1 .. Len(records) : Wanted(records[u]) = None)
  => /\ result.status = "ok"
     /\ \A r \in 1 .. Len(rows) : result.column[r] = Null

=============================================================================
