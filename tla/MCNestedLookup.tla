--------------------------- MODULE MCNestedLookup ---------------------------
(***************************************************************************)
(* NestedLookup on a small schema, with data that keeps to it and data     *)
(* that does not.                                                          *)
(***************************************************************************)
EXTENDS NestedLookup

U8 == Scalar("uint8")
U16 == Scalar("uint16")
U32 == Scalar("uint32")
Text == Scalar("string")

Place == StructOf(<<Field("x", U16), Field("y", Text)>>)
Known == StructOf(<<Field("a", Place), Field("b", ListOf(Place)), Field("c", ListOf(U16))>>)

(* A kind of database whose records maxminddb has no struct for.           *)
Flow == StructOf(<<Field("c", ListOf(U16)), Field("z", U16)>>)

Only(name, d) == StructOf(<<Field(name, d)>>)

(* Parts of the known schema, then dtypes at odds with it.                 *)
Dtypes ==
  {NoDtype, Known,
   StructOf(<<Field("c", ListOf(U16)), Field("a", Only("y", Text))>>),
   Only("b", ListOf(Only("x", U16))),
   Only("a", Only("x", U8)), Only("b", ListOf(Only("x", U32))),
   StructOf(<<Field("a", StructOf(<<Field("y", Text), Field("z", ListOf(U8))>>)),
              Field("z", Place)>>),
   StructOf(<<Field("a", StructOf(<<>>)), Field("c", ListOf(StructOf(<<>>)))>>),
   Only("a", Text), Only("c", ListOf(Scalar("float64"))), U16}

(* Scalars, alone and in a list, that much of the data is not stored as.   *)
ScalarDtypes == [type : {"uint16", "int32", "uint128", "float32", "float64", "string", "binary"}]
ScalarRequests ==
  {[entry |-> "record", path |-> <<>>,
    explicit |-> StructOf(<<Field("z", t), Field("c", ListOf(t))>>)] :
     t \in ScalarDtypes}
    \cup {[entry |-> "path", path |-> <<Key("z")>>, explicit |-> t] : t \in ScalarDtypes}
    \cup {[entry |-> "path", path |-> <<Key("c")>>, explicit |-> ListOf(t)] : t \in ScalarDtypes}

PathDtypes == {NoDtype, Place, Only("y", Text), ListOf(U16), ListOf(U8), U16}

KeyPaths ==
  {<<>>, <<Key("a")>>, <<Key("b")>>, <<Key("c")>>, <<Key("z")>>,
   <<Key("a"), Key("x")>>, <<Key("a"), Key("c")>>, <<Index(0)>>}
IndexPaths ==
  {<<Key(name), Index(i)>> : name \in {"a", "b", "c"}, i \in IndexMin .. IndexMax}

MCRequests ==
  {[entry |-> "record", path |-> <<>>, explicit |-> d] : d \in Dtypes}
    \cup {[entry |-> "path", path |-> p, explicit |-> d] :
            p \in KeyPaths \cup IndexPaths, d \in PathDtypes}
    \cup ScalarRequests

MCKnownDtypes == {NoDtype, Known, Flow}
MCTypedDtypes == {Known}

Short == Leaf("uint16", 7)
Long == Leaf("uint16", 9)
Wide == Leaf("uint32", 20)
String == Leaf("string", 0)

Full ==
  MapValue(<<Entry("c", ListValue(<<Long, Short, Short>>)),
             Entry("a", MapValue(<<Entry("x", Short), Entry("y", String)>>)),
             Entry("b", ListValue(<<MapValue(<<Entry("y", String)>>),
                                    MapValue(<<Entry("x", Long)>>)>>))>>)
Sparse == MapValue(<<Entry("a", MapValue(<<Entry("x", Long)>>)), Entry("b", ListValue(<<>>))>>)
Empty == MapValue(<<>>)

Flat == MapValue(<<Entry("a", String), Entry("c", ListValue(<<String>>))>>)
TooWide ==
  MapValue(<<Entry("a", MapValue(<<Entry("x", Wide)>>)), Entry("c", ListValue(<<Wide>>)),
             Entry("z", MapValue(<<Entry("x", Short)>>))>>)

MCRecords == {Full, Sparse, Empty, Flat, TooWide, String}

(* Numbers and bytes stored otherwise than most of the dtypes have them.   *)
Stored ==
  {Leaf("int32", 7), Leaf("int32", -8), Leaf("uint128", 7), Leaf("uint64", 60),
   Leaf("float32", 5), Leaf("float64", 30), Leaf("binary", 0), Leaf("binary", 1)}

StoredOtherwise ==
  {MapValue(<<Entry("z", v)>>) : v \in Stored}
    \cup {MapValue(<<Entry("z", Short), Entry("c", ListValue(<<v>>))>>) : v \in Stored}
    \cup {MapValue(<<Entry("a", MapValue(<<Entry("x", v), Entry("y", String)>>))>>) : v \in Stored}

MCRecordLists ==
  {<<>>} \cup {<<r>> : r \in MCRecords \cup StoredOtherwise}
    \cup {<<r, s>> : r \in {Full, Empty}, s \in MCRecords}

=============================================================================
