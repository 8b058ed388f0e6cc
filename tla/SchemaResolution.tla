-------------------------- MODULE SchemaResolution --------------------------
(***************************************************************************)
(* src/schema.rs: the dtype of a lookup, from the one requested and the    *)
(* one known for the kind of database, and the path it follows.  Each      *)
(* operator Resolves... says whether the code returns Ok, and its          *)
(* companion with what.                                                    *)
(***************************************************************************)
EXTENDS ValueDecoding

CONSTANTS
  IndexMax,             (* i64::MAX                                        *)
  UsizeMax              (* usize::MAX                                      *)

ASSUME BoundsAreNatural == IndexMax \in Nat /\ UsizeMax \in Nat

IndexMin == -IndexMax - 1

(* No dtype was requested, or none is known.                               *)
NoDtype == [type |-> "none"]

(* PathPart; the elements of the path decode_path takes are tagged too.    *)
Key(name) == [at |-> "key", name |-> name]
Index(index) == [at |-> "index", index |-> index]
FromEnd(index) == [at |-> "from_end", index |-> index]

PathPart == [at : {"key"}, name : STRING] \cup [at : {"index"}, index : IndexMin .. IndexMax]

HasField(dtype, name) == dtype.type = "struct" /\ Has(dtype.fields, name)
FieldDtype(dtype, name) == Find(dtype.fields, name).dtype

----------------------------------------------------------------------------

(* One turn of the loop of dtype_at_path; NoDtype stands for its error.    *)
DtypeAtPart(dtype, part) ==
  IF part.at = "key"
  THEN IF HasField(dtype, part.name) THEN FieldDtype(dtype, part.name) ELSE NoDtype
  ELSE IF dtype.type = "list" THEN dtype.inner ELSE NoDtype

DtypesAlong(dtype, path) ==
  LET at[i \in 0 .. Len(path)] ==
        IF i = 0 THEN dtype ELSE DtypeAtPart(at[i - 1], path[i])
  IN  at

(* dtype_at_path                                                           *)
DtypeAtPath(dtype, path) == DtypesAlong(dtype, path)[Len(path)]

(* resolve_path_dtype                                                      *)
ResolvesPath(known, path, explicit) ==
  /\ path # <<>>
  /\ known # NoDtype =>
       /\ DtypeAtPath(known, path) # NoDtype
       /\ explicit \in {NoDtype, DtypeAtPath(known, path)}
  /\ known = NoDtype => explicit # NoDtype

PathDtype(known, path, explicit) ==
  IF explicit # NoDtype THEN explicit ELSE DtypeAtPath(known, path)

(* Mutant: a field's dtype is not compared inside lists.                   *)
PartsOutsideLists[known \in Dtype] ==
  {requested \in Dtype :
     CASE requested.type = "struct" /\ known.type = "struct" ->
            \A i \in 1 .. Len(requested.fields) :
              LET field == requested.fields[i]
              IN  /\ HasField(known, field.name)
                  /\ field.dtype \in PartsOutsideLists[FieldDtype(known, field.name)]
       [] requested.type = "list" /\ known.type = "list" -> TRUE
       [] OTHER -> requested = known}

PartialOutsideLists(requested, known) == requested \in PartsOutsideLists[known]

(* The dtypes that validate_partial_schema accepts.                        *)
PartialSchemas[known \in Dtype] ==
  {requested \in Dtype :
     CASE requested.type = "struct" /\ known.type = "struct" ->
            \A i \in 1 .. Len(requested.fields) :
              LET field == requested.fields[i]
              IN  /\ HasField(known, field.name)
                  /\ field.dtype \in PartialSchemas[FieldDtype(known, field.name)]
       [] requested.type = "list" /\ known.type = "list" ->
            requested.inner \in PartialSchemas[known.inner]
       [] OTHER -> requested = known}

IsPartialSchema(requested, known) == requested \in PartialSchemas[known]

(* resolve_record_dtype                                                    *)
ResolvesRecord(known, explicit) ==
  /\ explicit = NoDtype => known # NoDtype
  /\ explicit # NoDtype =>
       /\ explicit.type = "struct"
       /\ known # NoDtype => IsPartialSchema(explicit, known)

RecordDtype(known, explicit) == IF explicit # NoDtype THEN explicit ELSE known

----------------------------------------------------------------------------

(* i64::checked_neg, then checked_sub(1): does neither overflow?           *)
Negates(index) == -index <= IndexMax

(* to_mmdb_path of one part ...                                            *)
ConvertsPart(part) ==
  part.at = "index" =>
    IF part.index >= 0 THEN part.index <= UsizeMax
    ELSE Negates(part.index) /\ -part.index - 1 \in 0 .. UsizeMax

(* Mutant: -1 is the last but one.                                         *)
FromEndByOne(part) ==
  IF part.at = "key" THEN part
  ELSE IF part.index >= 0 THEN Index(part.index) ELSE FromEnd(-part.index)

PathElement(part) ==
  IF part.at = "key" THEN part
  ELSE IF part.index >= 0 THEN Index(part.index) ELSE FromEnd(-part.index - 1)

(* ... and of a whole path.                                                *)
ConvertsPath(path) == \A i \in 1 .. Len(path) : ConvertsPart(path[i])

ToMmdbPath(path) == [i \in 1 .. Len(path) |-> PathElement(path[i])]

----------------------------------------------------------------------------
(* decode_path of maxminddb: follows a path into a record.                 *)

Mismatch == [kind |-> "mismatch"]

Descend(value, part) ==
  IF value \in {None, Mismatch} THEN value
  ELSE IF part.at = "key"
  THEN IF value.kind = "map" THEN FindOr(value.entries, part.name, None) ELSE Mismatch
  ELSE IF value.kind # "list" THEN Mismatch
  ELSE LET n == Len(value.items)
           i == IF part.at = "index" THEN part.index + 1 ELSE n - part.index
       IN  IF i \in 1 .. n THEN value.items[i] ELSE None

ValuesAlong(value, path) ==
  LET at[i \in 0 .. Len(path)] == IF i = 0 THEN value ELSE Descend(at[i - 1], path[i])
  IN  at

Navigate(value, path) == ValuesAlong(value, path)[Len(path)]

=============================================================================
