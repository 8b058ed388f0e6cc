--------------------------- MODULE ValueDecoding ---------------------------
(***************************************************************************)
(* src/value.rs: how MMDB data becomes Values of a requested dtype, and    *)
(* Values become the cells of a Polars column.                             *)
(*                                                                         *)
(* A scalar is its kind and its bits: k for a number of k binary digits    *)
(* and -1-k for a negative one, which needs k beside the sign's.  For a    *)
(* float those are its significant digits; for binary data, 0 says that    *)
(* it is UTF-8.  Strings and booleans have 0.                              *)
(*                                                                         *)
(* Data is decoded in three ways, which treat scalars differently.         *)
(* What the code does by recursion is a recursive function of the dtype    *)
(* here: the set of values it accepts, or what it makes of each of them.   *)
(***************************************************************************)
EXTENDS Integers, SequencesExt

CONSTANT MaxDepth    (* Bounds how deep dtypes and data nest.              *)

ASSUME MaxDepthIsNatural == MaxDepth \in Nat

UnsignedBits == [uint8 |-> 8, uint16 |-> 16, uint32 |-> 32, uint64 |-> 64, uint128 |-> 128]
SignedBits == [int8 |-> 8, int16 |-> 16, int32 |-> 32, int64 |-> 64, int128 |-> 128]

ScalarTypes ==
  DOMAIN UnsignedBits \cup DOMAIN SignedBits
    \cup {"boolean", "float32", "float64", "string", "binary"}

(* No two of them share a name.                                            *)
NamesDiffer(named) ==
  \A i, j \in 1 .. Len(named) : named[i].name = named[j].name => i = j

(* SchemaSpec.  Polars refuses a Struct with two fields of one name.       *)
Scalar(type) == [type |-> type]
ListOf(inner) == [type |-> "list", inner |-> inner]
StructOf(fields) == [type |-> "struct", fields |-> fields]
Field(name, dtype) == [name |-> name, dtype |-> dtype]
IsNested(dtype) == dtype.type \in {"list", "struct"}

DtypesTo[n \in 0 .. MaxDepth] ==
  IF n = 0 THEN [type : ScalarTypes]
  ELSE [type : ScalarTypes]
    \cup [type : {"list"}, inner : DtypesTo[n - 1]]
    \cup {d \in [type : {"struct"}, fields : Seq([name : STRING, dtype : DtypesTo[n - 1]])] :
            NamesDiffer(d.fields)}

Dtype == DtypesTo[MaxDepth]

(* Value, and the None of an Option<Value>.  A map of MMDB has no name     *)
(* twice.                                                                  *)
Null == [kind |-> "null"]
Leaf(kind, bits) == [kind |-> kind, bits |-> bits]
ListValue(items) == [kind |-> "list", items |-> items]
MapValue(entries) == [kind |-> "map", entries |-> entries]
Entry(name, value) == [name |-> name, value |-> value]
None == [kind |-> "none"]

ValuesTo[n \in 0 .. MaxDepth] ==
  IF n = 0 THEN {Null} \cup [kind : ScalarTypes, bits : Int]
  ELSE {Null} \cup [kind : ScalarTypes, bits : Int]
    \cup [kind : {"list"}, items : Seq(ValuesTo[n - 1])]
    \cup {v \in [kind : {"map"}, entries : Seq([name : STRING, value : ValuesTo[n - 1]])] :
            NamesDiffer(v.entries)}

Value == ValuesTo[MaxDepth]

Has(entries, name) == \E i \in 1 .. Len(entries) : entries[i].name = name

(* find(): the first of that name.                                         *)
Find(entries, name) ==
  entries[SelectInSeq(entries, LAMBDA e : e.name = name)]

FindOr(entries, name, default) ==
  IF Has(entries, name) THEN Find(entries, name).value ELSE default

----------------------------------------------------------------------------

(* default_value                                                           *)
DefaultValue[dtype \in Dtype] ==
  CASE dtype.type = "struct" ->
         MapValue([i \in 1 .. Len(dtype.fields) |->
                     Entry(dtype.fields[i].name, DefaultValue[dtype.fields[i].dtype])])
    [] dtype.type = "list" -> ListValue(<<>>)
    [] OTHER -> Null

(* The integers of a type, by their bits.                                  *)
FitsInteger(bits, type) ==
  IF type \in DOMAIN UnsignedBits THEN bits \in 0 .. UnsignedBits[type]
  ELSE bits \in -SignedBits[type] .. SignedBits[type] - 1

(* validate_scalar, with unsigned() and signed()                           *)
ValidScalar(value, type) ==
  IF type \in DOMAIN UnsignedBits
  THEN value.kind \in DOMAIN UnsignedBits /\ FitsInteger(value.bits, type)
  ELSE IF type \in DOMAIN SignedBits
  THEN value.kind \in DOMAIN SignedBits /\ FitsInteger(value.bits, type)
  ELSE value.kind \in (IF type = "float64" THEN {"float32", "float64"} ELSE {type})

(* What serde's own Deserialize of u8, f32, &str and so on takes from a    *)
(* Deserializer that hands it the data's own type, as maxminddb's does.    *)
IntegerTypes == DOMAIN UnsignedBits \cup DOMAIN SignedBits
Types128 == {"uint128", "int128"}
FloatTypes == {"float32", "float64"}

KindsReadAs(type) ==
  CASE type \in Types128 -> IntegerTypes
    [] type \in IntegerTypes \ Types128 -> IntegerTypes \ Types128
    [] type \in FloatTypes -> (IntegerTypes \ Types128) \cup FloatTypes
    [] type \in {"string", "binary"} -> {"string", "binary"}
    [] OTHER -> {type}

Reads(value, type) ==
  /\ value.kind \in KindsReadAs(type)
  /\ type \in IntegerTypes => FitsInteger(value.bits, type)
  /\ type = "string" /\ value.kind = "binary" => value.bits = 0

Significand == [float32 |-> 24, float64 |-> 53]

Rounded(bits, type) ==
  IF bits > Significand[type] THEN Significand[type]
  ELSE IF bits < -1 - Significand[type] THEN -1 - Significand[type]
  ELSE bits

(* What it makes of that.                                                  *)
Converted(value, type) ==
  Leaf(type, IF type \in FloatTypes /\ value.kind \notin {type, "float32"}
             THEN Rounded(value.bits, type) ELSE value.bits)

(* "seed": SchemaSeed, for nested values.  "leaves": decode_leaf, scalars  *)
(* by serde but lists by SchemaSeed, and decode_path of a scalar.          *)
(* "struct": all of it by serde, as maxminddb's own structs are read.      *)
Ways == {"seed", "leaves", "struct"}
InList(way) == IF way = "leaves" THEN "seed" ELSE way

(* The values that decode as a dtype, each way.  Entries of other names    *)
(* are skipped unread.                                                     *)
Decodable[dtype \in Dtype] ==
  [way \in Ways |->
     {value \in Value :
        CASE dtype.type = "struct" ->
               /\ value.kind = "map"
               /\ \A i \in 1 .. Len(dtype.fields) :
                    LET field == dtype.fields[i]
                    IN  Has(value.entries, field.name) =>
                          Find(value.entries, field.name).value \in Decodable[field.dtype][way]
          [] dtype.type = "list" ->
               /\ value.kind = "list"
               /\ \A i \in 1 .. Len(value.items) :
                    value.items[i] \in Decodable[dtype.inner][InList(way)]
          [] OTHER -> IF way = "seed" THEN ValidScalar(value, dtype.type)
                      ELSE Reads(value, dtype.type)}]

(* What each of them yields: the dtype's fields in the dtype's order,      *)
(* those the map lacks with their defaults.                                *)
Decoded[dtype \in Dtype] ==
  [way \in Ways |->
     [value \in Decodable[dtype][way] |->
        CASE dtype.type = "struct" ->
               MapValue([i \in 1 .. Len(dtype.fields) |->
                 LET field == dtype.fields[i]
                 IN  Entry(field.name,
                           IF Has(value.entries, field.name)
                           THEN Decoded[field.dtype][way][Find(value.entries, field.name).value]
                           ELSE DefaultValue[field.dtype])])
          [] dtype.type = "list" ->
               ListValue([i \in 1 .. Len(value.items) |->
                            Decoded[dtype.inner][InList(way)][value.items[i]]])
          [] OTHER -> IF way = "seed" THEN value ELSE Converted(value, dtype.type)]]

(* Data that keeps to a dtype: its scalars are of the dtype's own types    *)
(* whoever reads them.                                                     *)
KeepingTo(dtype) == Decodable[dtype]["seed"] \cap Decodable[dtype]["struct"]

----------------------------------------------------------------------------
(* Columns: sequences of cells.                                            *)

(* The values that values_to_series accepts.                               *)
Buildable[dtype \in Dtype] ==
  {None, Null} \cup
  {value \in Value :
     CASE dtype.type = "struct" ->
            /\ value.kind = "map"
            /\ \A i \in 1 .. Len(dtype.fields) :
                 LET field == dtype.fields[i]
                 IN  FindOr(value.entries, field.name, DefaultValue[field.dtype])
                       \in Buildable[field.dtype]
       [] dtype.type = "list" ->
            /\ value.kind = "list"
            /\ \A i \in 1 .. Len(value.items) : value.items[i] \in Buildable[dtype.inner]
       [] OTHER -> ValidScalar(value, dtype.type)}

(* The cell it makes of each: struct_series, list_series and the scalars,  *)
(* which take on the column's type.                                        *)
Cell[dtype \in Dtype] ==
  [value \in Buildable[dtype] |->
     IF value \in {None, Null} THEN Null
     ELSE CASE dtype.type = "struct" ->
                 MapValue([i \in 1 .. Len(dtype.fields) |->
                   LET field == dtype.fields[i]
                   IN  Entry(field.name,
                             Cell[field.dtype][FindOr(value.entries, field.name,
                                                      DefaultValue[field.dtype])])])
            [] dtype.type = "list" ->
                 ListValue([i \in 1 .. Len(value.items) |-> Cell[dtype.inner][value.items[i]]])
            [] OTHER -> Leaf(dtype.type, value.bits)]

(* values_to_series, of values it accepts.                                 *)
ValuesToSeries(values, dtype) == [i \in 1 .. Len(values) |-> Cell[dtype][values[i]]]

(* Series::take, of an optional index for each row; 0 is none.             *)
Take(column, rows) == [r \in 1 .. Len(rows) |-> IF rows[r] = 0 THEN Null ELSE column[rows[r]]]

=============================================================================
