--------------------------- MODULE MCKnownRecords ---------------------------
(***************************************************************************)
(* Records of every known database type: one with everything in it, with   *)
(* its names in reverse and one unknown, one with numbers of other types,  *)
(* an empty one, and the full one with any one entry or item missing.      *)
(***************************************************************************)
EXTENDS KnownRecords

(* How many scalars a full record has; lists have two items.               *)
RECURSIVE Size(_)
Size(d) ==
  CASE d.type = "struct" -> FoldLeft(LAMBDA n, f : n + Size(f.dtype), 0, d.fields)
    [] d.type = "list" -> 2 * Size(d.inner)
    [] OTHER -> 1

(* The full record, in which the scalars are numbered, modulo their width. *)
RECURSIVE FullFrom(_, _)
FullFrom(d, n) ==
  CASE d.type = "struct" ->
         MapValue([i \in 1 .. Len(d.fields) |->
           Entry(d.fields[i].name,
                 FullFrom(d.fields[i].dtype, n + Size(StructOf(SubSeq(d.fields, 1, i - 1)))))])
    [] d.type = "list" -> ListValue(<<FullFrom(d.inner, n), FullFrom(d.inner, n + Size(d.inner))>>)
    [] d.type \in DOMAIN UnsignedBits -> Leaf(d.type, 1 + (n % UnsignedBits[d.type]))
    [] OTHER -> Leaf(d.type, n)

Full(d) == FullFrom(d, 0)

(* A record with one entry or one item less, somewhere.                    *)
RECURSIVE Lacking(_)
Lacking(v) ==
  CASE v.kind = "map" ->
         {MapValue(RemoveAt(v.entries, i)) : i \in 1 .. Len(v.entries)}
           \cup UNION {{MapValue([v.entries EXCEPT ![i].value = w]) : w \in Lacking(v.entries[i].value)} :
                         i \in 1 .. Len(v.entries)}
    [] v.kind = "list" ->
         {ListValue(RemoveAt(v.items, i)) : i \in 1 .. Len(v.items)}
           \cup UNION {{ListValue([v.items EXCEPT ![i] = w]) : w \in Lacking(v.items[i])} :
                         i \in 1 .. Len(v.items)}
    [] OTHER -> {}

Unordered(v) == MapValue(<<Entry("unknown", Leaf("uint32", 3))>> \o Reverse(v.entries))

(* The numbers in other types that they are accepted in.                   *)
OtherKind ==
  [uint8 |-> "uint16", uint16 |-> "uint32", uint32 |-> "uint64", float64 |-> "float32"]

RECURSIVE Retyped(_)
Retyped(v) ==
  CASE v.kind = "map" ->
         MapValue([i \in 1 .. Len(v.entries) |->
                     Entry(v.entries[i].name, Retyped(v.entries[i].value))])
    [] v.kind = "list" -> ListValue([i \in 1 .. Len(v.items) |-> Retyped(v.items[i])])
    [] v.kind \in DOMAIN OtherKind -> Leaf(OtherKind[v.kind], v.bits)
    [] OTHER -> v

MCRecordsOf(d) ==
  {Full(d), Unordered(Full(d)), Retyped(Full(d)), MapValue(<<>>)} \cup Lacking(Full(d))

=============================================================================
