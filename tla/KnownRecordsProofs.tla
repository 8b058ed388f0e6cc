------------------------- MODULE KnownRecordsProofs -------------------------
(***************************************************************************)
(* Theorems about KnownRecords, for every record that keeps to its schema: *)
(* the tables of src/schema.rs are dtypes, the conversions of src/known.rs *)
(* make of a record the cell that its schema makes of it, and a path to a  *)
(* scalar gets what that cell has there.                                   *)
(***************************************************************************)
EXTENDS KnownRecords, DecodingProofs

----------------------------------------------------------------------------
(* Cells of Structs, field by field.                                       *)

(* The cell that a value becomes by way of maxminddb's structs.            *)
Whole(d, s) == CellOf(d, Yields("struct", d, s))

LEMMA StructIsWay == "struct" \in Ways /\ InList("struct") = "struct"
BY DEF Ways, InList

(* The cell of one field.                                                  *)
FieldCell(field, s) ==
  IF HasEntry(s, field.name) THEN Whole(field.dtype, EntryOf(s, field.name))
  ELSE CellOf(field.dtype, DefaultOf(field.dtype))

EntriesOf(fields, s) ==
  [i \in 1 .. Len(fields) |-> Entry(fields[i].name, FieldCell(fields[i], s))]

(* A map whose entries decode as the fields of their names.                *)
Keeps(fields, s) ==
  /\ s \in Maps
  /\ \A i \in 1 .. Len(fields) :
       HasEntry(s, fields[i].name) =>
         EntryOf(s, fields[i].name) \in Accepts("struct", fields[i].dtype)

(* Those entries are the cells of those fields.                            *)
Matches(fields, entries, s) ==
  /\ Len(fields) \in Nat
  /\ Keeps(fields, s) => entries = EntriesOf(fields, s)

Fields == [name : STRING, dtype : Dtype]

LEMMA WholeStruct ==
  ASSUME NEW d \in Structs, NEW s \in Accepts("struct", d)
  PROVE  Keeps(d.fields, s) /\ Whole(d, s) = MapValue(EntriesOf(d.fields, s))
<1>1. s \in Maps /\ \A i \in 1 .. Arity(d) :
        HasEntry(s, NameAt(d, i)) => EntryOf(s, NameAt(d, i)) \in Accepts("struct", PartAt(d, i))
  BY AcceptsStruct, StructIsWay
<1>2. PICK c : /\ Whole(d, s) = Made(d, c)
               /\ \A i \in 1 .. Arity(d) : At(c, i) = CellOf(PartAt(d, i), YieldsAt("struct", d, s, i))
  BY CellOfStruct, StructIsWay DEF Whole
<1>3. \A i \in 1 .. Len(d.fields) : c[i] = FieldCell(d.fields[i], s)
  BY <1>2 DEF Arity, At, YieldsAt, FieldCell, Whole, NameAt, PartAt
<1>4. [i \in 1 .. Len(d.fields) |-> Entry(d.fields[i].name, c[i])] = EntriesOf(d.fields, s)
  BY <1>3 DEF EntriesOf
<1>. QED
  BY <1>1, <1>2, <1>4 DEF Made, Keeps, Arity, NameAt, PartAt

(* The cell of a Struct that the record lacks is that of an empty map.     *)
LEMMA EmptyStruct ==
  ASSUME NEW d \in Structs
  PROVE  /\ MapValue(<<>>) \in Accepts("struct", d)
         /\ CellOf(d, DefaultOf(d)) = Whole(d, MapValue(<<>>))
<1>. DEFINE s == MapValue(<<>>)
<1>1. d \in Dtype
  BY StructFacts
<1>2. s.kind = "map" /\ s.entries = <<>>
  BY DEF MapValue
<1>3. \A name : ~HasEntry(s, name)
  BY <1>2 DEF HasEntry, Has
<1>4. PICK w : DefaultOf(d) = Made(d, w)
      /\ \A i \in 1 .. Arity(d) : At(w, i) = DefaultOf(PartAt(d, i))
  BY DefaultStruct
<1>5. s \in Value
  <2>1. PICK n \in 0 .. MaxDepth : n = 1
    BY MaxDepthIsNatural, KnownSchemasFit
  <2>2. ValuesTo[n] = ValuesOver(ValuesTo[n - 1])
    BY <2>1, MaxDepthIsNatural, ValuesToNext
  <2>3. s \in MapsOver(ValuesTo[n - 1])
    <3>1. <<>> \in Seq([name : STRING, value : ValuesTo[n - 1]]) /\ NamesDiffer(<<>>)
      BY DEF NamesDiffer
    <3>. QED
      BY <3>1 DEF MapsOver, MapValue
  <2>4. s \in ValuesTo[n]
    BY <2>2, <2>3 DEF ValuesOver
  <2>. QED
    BY <2>1, <2>4, ValuesToInValue
<1>6. s \in Maps
  BY <1>2, <1>5 DEF Maps
<1>. HIDE DEF s
<1>7. s \in Accepts("struct", d)
  BY <1>3, <1>6, AcceptsStruct, StructIsWay
<1>8. PICK x : /\ Yields("struct", d, s) = Made(d, x)
               /\ \A i \in 1 .. Arity(d) : At(x, i) = YieldsAt("struct", d, s, i)
  BY <1>7, YieldsStruct, StructIsWay
<1>9. \A i \in 1 .. Arity(d) : At(x, i) = At(w, i)
  BY <1>3, <1>4, <1>8 DEF YieldsAt
<1>10. Yields("struct", d, s) = DefaultOf(d)
  BY <1>4, <1>8, <1>9, MadeEqual
<1>. QED
  BY <1>7, <1>10 DEF Whole, s

(* The cell of a scalar is what serde makes of it for a field.             *)
LEMMA ScalarWhole ==
  ASSUME NEW d \in Scalars, NEW v \in Accepts("struct", d)
  PROVE  Whole(d, v) = Converted(v, d.type)
<1>. DEFINE y == Yields("struct", d, v)
<1>1. v \in Value /\ AcceptsAsScalar("struct", v, d.type) /\ d \in Dtype /\ d.type \in ScalarTypes
  BY AcceptsScalar, ScalarFacts, StructIsWay
<1>2. y = AsScalar("struct", v, d.type) /\ y = Converted(v, d.type)
  BY YieldsScalar, StructIsWay DEF AsScalar
<1>3. y \in Builds(d)
  BY <1>1, FullIsBuildable, StructIsWay DEF FullValues
<1>4. y \in ScalarValues
  BY <1>1, <1>2, ScalarsAreValid, StructIsWay
<1>. HIDE DEF y
<1>5. y # None /\ y # Null
  BY <1>4, ScalarTypesAre DEF ScalarValues, None, Null
<1>6. CellOf(d, y) = Leaf(d.type, y.bits)
  BY <1>3, <1>5, CellScalar
<1>7. Leaf(d.type, y.bits) = y
  BY <1>2 DEF Converted, Leaf
<1>. QED
  BY <1>2, <1>6, <1>7 DEF Whole, y

LEMMA ScalarCell ==
  ASSUME NEW k \in ScalarTypes, NEW s \in Maps, NEW name,
         HasEntry(s, name) => EntryOf(s, name) \in Accepts("struct", Scalar(k))
  PROVE  FieldCell(Field(name, Scalar(k)), s) = Optional(FindOr(s.entries, name, None), k)
<1>. DEFINE d == Scalar(k)
            v == EntryOf(s, name)
<1>1. d \in Scalars /\ d \in Dtype /\ d.type = k
  <2>1. d \in [type : ScalarTypes] /\ d.type = k
    BY DEF Scalar
  <2>2. d \in Dtype
    <3>1. 0 \in 0 .. MaxDepth
      BY MaxDepthIsNatural
    <3>. QED
      BY <2>1, <3>1, DtypesToZero, DtypesToInDtype
  <2>. QED
    BY <2>1, <2>2 DEF Scalars
<1>2. Field(name, d).name = name /\ Field(name, d).dtype = d
  BY DEF Field
<1>3. FindOr(s.entries, name, None) = IF HasEntry(s, name) THEN v ELSE None
  BY DEF FindOr, HasEntry, EntryOf
<1>. HIDE DEF d, v
<1>4. CASE HasEntry(s, name)
  <2>1. v \in Accepts("struct", d)
    BY <1>4 DEF d, v
  <2>2. Whole(d, v) = Converted(v, k)
    BY <1>1, <2>1, ScalarWhole
  <2>3. v # None
    BY <1>1, <2>1, AcceptedIsValue, NoValues, StructIsWay
  <2>. QED
    BY <1>2, <1>3, <1>4, <2>2, <2>3 DEF FieldCell, Optional, d, v
<1>5. CASE ~HasEntry(s, name)
  <2>1. CellOf(d, DefaultOf(d)) = Null
    BY <1>1, DefaultScalar, CellNull
  <2>. QED
    BY <1>2, <1>3, <1>5, <2>1 DEF FieldCell, Optional, d
<1>. QED
  BY <1>4, <1>5

----------------------------------------------------------------------------
(* Entries that match fields, side by side.                                *)

LEMMA ConcatOf ==
  ASSUME NEW T, NEW x \in Seq(T), NEW y \in Seq(T)
  PROVE  /\ x \o y \in Seq(T) /\ Len(x \o y) = Len(x) + Len(y)
         /\ \A i \in 1 .. Len(x) + Len(y) :
              (x \o y)[i] = IF i <= Len(x) THEN x[i] ELSE y[i - Len(x)]
OBVIOUS

LEMMA JoinMatches ==
  ASSUME NEW a \in Seq(Fields), NEW b \in Seq(Fields), NEW x, NEW y, NEW s,
         Matches(a, x, s), Matches(b, y, s)
  PROVE  Matches(a \o b, x \o y, s)
<1>. DEFINE ab == a \o b
            m == Len(a)
            n == Len(b)
<1>1. /\ m \in Nat /\ n \in Nat /\ Len(ab) = m + n
      /\ \A i \in 1 .. m : ab[i] = a[i]
      /\ \A i \in 1 .. n : ab[m + i] = b[i]
  OBVIOUS
<1>. HIDE DEF ab, m, n
<1>2. ASSUME Keeps(ab, s)
      PROVE  Keeps(a, s) /\ Keeps(b, s)
  <2>1. \A i \in 1 .. m : i \in 1 .. m + n
    BY <1>1
  <2>2. \A i \in 1 .. n : m + i \in 1 .. m + n
    BY <1>1
  <2>. QED
    BY <1>1, <1>2, <2>1, <2>2 DEF Keeps, m, n
<1>3. ASSUME Keeps(ab, s)
      PROVE  x \o y = EntriesOf(ab, s)
  <2>1. x = EntriesOf(a, s) /\ y = EntriesOf(b, s)
    BY <1>2, <1>3 DEF Matches
  <2>. DEFINE E(f) == Entry(f.name, FieldCell(f, s))
  <2>2. x = [i \in 1 .. m |-> E(a[i])] /\ y = [i \in 1 .. n |-> E(b[i])]
    BY <2>1 DEF EntriesOf, m, n
  <2>3. EntriesOf(ab, s) = [i \in 1 .. m + n |-> E(ab[i])]
    BY <1>1 DEF EntriesOf
  <2>. HIDE DEF E
  <2>. DEFINE T == {E(f) : f \in Fields}
  <2>4. x \in Seq(T) /\ y \in Seq(T) /\ Len(x) = m /\ Len(y) = n
    <3>1. \A i \in 1 .. m : a[i] \in Fields /\ x[i] \in T
      BY <2>2, ElementOf DEF m
    <3>2. \A i \in 1 .. n : b[i] \in Fields /\ y[i] \in T
      BY <2>2, ElementOf DEF n
    <3>3. x = [i \in 1 .. m |-> x[i]] /\ y = [i \in 1 .. n |-> y[i]]
      BY <2>2
    <3>. HIDE DEF T
    <3>. QED
      BY <1>1, <3>1, <3>2, <3>3, SequenceOf
  <2>. HIDE DEF T
  <2>5. x \o y = [i \in 1 .. m + n |-> IF i <= m THEN x[i] ELSE y[i - m]]
    <3>. DEFINE xy == x \o y
    <3>1. /\ xy \in Seq(T) /\ Len(xy) = m + n
          /\ \A i \in 1 .. m + n : xy[i] = IF i <= m THEN x[i] ELSE y[i - m]
      BY <2>4, ConcatOf
    <3>. HIDE DEF xy
    <3>2. xy = [i \in 1 .. m + n |-> xy[i]]
      BY <3>1
    <3>. QED
      BY <3>1, <3>2 DEF xy
  <2>6. \A i \in 1 .. m + n : (IF i <= m THEN x[i] ELSE y[i - m]) = E(ab[i])
    <3>1. \A i \in 1 .. m : x[i] = E(ab[i])
      BY <1>1, <2>2
    <3>2. \A i \in 1 .. n : y[i] = E(ab[m + i])
      BY <1>1, <2>2
    <3>3. \A i \in 1 .. m + n : ~(i <= m) => i - m \in 1 .. n /\ m + (i - m) = i
      BY <1>1
    <3>4. \A i \in 1 .. m + n : i <= m => i \in 1 .. m
      BY <1>1
    <3>. QED
      BY <3>1, <3>2, <3>3, <3>4
  <2>. QED
    BY <2>3, <2>5, <2>6
<1>. QED
  BY <1>1, <1>3 DEF Matches, ab

LEMMA OneMatches ==
  ASSUME NEW f, NEW s, NEW cell0, Keeps(<<f>>, s) => cell0 = FieldCell(f, s)
  PROVE  Matches(<<f>>, <<Entry(f.name, cell0)>>, s)
<1>1. Len(<<f>>) = 1 /\ <<f>>[1] = f
  OBVIOUS
<1>2. EntriesOf(<<f>>, s) = <<Entry(f.name, FieldCell(f, s))>>
  BY <1>1 DEF EntriesOf
<1>. QED
  BY <1>1, <1>2 DEF Matches

(* A conversion of scalars, by the names they have in the schema.          *)
LEMMA ScalarsMatch ==
  ASSUME NEW k \in ScalarTypes, NEW names, Len(names) \in Nat, NEW s,
         \A i \in 1 .. Len(names) : names[i] \notin DOMAIN KeyOf
  PROVE  Matches(FieldsOf(names, Scalar(k)),
                 [i \in 1 .. Len(names) |->
                    Entry(names[i], Optional(Member(s, names[i], None), k))], s)
<1>. DEFINE n == Len(names)
            fields == FieldsOf(names, Scalar(k))
<1>1. /\ n \in Nat /\ Len(fields) = n
      /\ \A i \in 1 .. n : fields[i] = Field(names[i], Scalar(k))
  BY DEF FieldsOf
<1>. HIDE DEF fields
<1>2. \A i \in 1 .. n : fields[i].name = names[i] /\ fields[i].dtype = Scalar(k)
  <2>1. \A a, b : Field(a, b).name = a /\ Field(a, b).dtype = b
    BY DEF Field
  <2>. QED
    BY <1>1, <2>1
<1>3. ASSUME Keeps(fields, s), NEW i \in 1 .. n
      PROVE  FieldCell(fields[i], s) = Optional(Member(s, names[i], None), k)
  <2>1. s \in Maps /\ (HasEntry(s, names[i]) => EntryOf(s, names[i]) \in Accepts("struct", Scalar(k)))
    BY <1>1, <1>2, <1>3 DEF Keeps
  <2>2. Member(s, names[i], None) = FindOr(s.entries, names[i], None)
    BY DEF Member
  <2>. QED
    BY <1>1, <2>1, <2>2, ScalarCell
<1>4. ASSUME Keeps(fields, s)
      PROVE  EntriesOf(fields, s)
               = [i \in 1 .. n |-> Entry(names[i], Optional(Member(s, names[i], None), k))]
  BY <1>1, <1>2, <1>3, <1>4 DEF EntriesOf
<1>. QED
  BY <1>1, <1>4 DEF Matches, fields

LEMMA KindsMatch ==
  ASSUME NEW names, Len(names) \in Nat, NEW s,
         \A i \in 1 .. Len(names) : names[i] \notin DOMAIN KeyOf
  PROVE  /\ Matches(FieldsOf(names, Text), Strings(s, names), s)
         /\ Matches(FieldsOf(names, Bool), Booleans(s, names), s)
         /\ Matches(FieldsOf(names, U8), Uints8(s, names), s)
         /\ Matches(FieldsOf(names, U16), Uints16(s, names), s)
         /\ Matches(FieldsOf(names, U32), Uints32(s, names), s)
         /\ Matches(FieldsOf(names, F64), Floats64(s, names), s)
<1>1. {"string", "boolean", "uint8", "uint16", "uint32", "float64"} \subseteq ScalarTypes
  BY ScalarTypesAre
<1>. QED
  BY <1>1, ScalarsMatch
     DEF Text, Bool, U8, U16, U32, F64, Strings, Booleans, Uints8, Uints16, Uints32, Floats64

(* The same of one that maxminddb names otherwise.                         *)
LEMMA RenamedMatches ==
  ASSUME NEW field \in DOMAIN KeyOf, NEW s
  PROVE  Matches(<<Field(KeyOf[field], Text)>>, <<Renamed(s, KeyOf[field], field)>>, s)
<1>. DEFINE f == Field(KeyOf[field], Text)
<1>1. f.name = KeyOf[field] /\ f.dtype = Scalar("string") /\ "string" \in ScalarTypes
  BY ScalarTypesAre DEF Field, Text
<1>2. Member(s, field, None) = FindOr(s.entries, f.name, None)
  BY <1>1 DEF Member
<1>3. ASSUME Keeps(<<f>>, s)
      PROVE  Optional(Member(s, field, None), "string") = FieldCell(f, s)
  <2>1. s \in Maps /\ (HasEntry(s, f.name) => EntryOf(s, f.name) \in Accepts("struct", Scalar("string")))
    <3>1. 1 \in 1 .. Len(<<f>>) /\ <<f>>[1] = f
      OBVIOUS
    <3>. QED
      BY <1>1, <1>3, <3>1 DEF Keeps
  <2>. QED
    BY <1>1, <1>2, <2>1, ScalarCell DEF Text
<1>. QED
  BY <1>1, <1>3, OneMatches DEF Renamed

(* A Struct within: what is made of it may rest on its keeping to the      *)
(* schema.                                                                 *)
LEMMA StructMatches ==
  ASSUME NEW d \in Structs, NEW name, name \notin DOMAIN KeyOf, NEW s, NEW made,
         StructIn(s, name) \in Accepts("struct", d) => made = Whole(d, StructIn(s, name))
  PROVE  Matches(<<Field(name, d)>>, <<Entry(name, made)>>, s)
<1>. DEFINE f == Field(name, d)
<1>1. f.name = name /\ f.dtype = d
  BY DEF Field
<1>2. StructIn(s, name) = IF HasEntry(s, name) THEN EntryOf(s, name) ELSE MapValue(<<>>)
  BY DEF StructIn, Member, FindOr, HasEntry, EntryOf
<1>3. ASSUME Keeps(<<f>>, s)
      PROVE  made = FieldCell(f, s)
  <2>1. HasEntry(s, name) => EntryOf(s, name) \in Accepts("struct", d)
    <3>1. 1 \in 1 .. Len(<<f>>) /\ <<f>>[1] = f
      OBVIOUS
    <3>. QED
      BY <1>1, <1>3, <3>1 DEF Keeps
  <2>. QED
    BY <1>1, <1>2, <2>1, EmptyStruct DEF FieldCell
<1>. QED
  BY <1>1, <1>3, OneMatches

(* A list of Structs within.                                               *)
LEMMA WholeList ==
  ASSUME NEW d \in Lists, NEW v \in Accepts("struct", d)
  PROVE  Whole(d, v) = ListValue([i \in 1 .. Len(v.items) |-> Whole(d.inner, v.items[i])])
<1>1. PICK c : /\ Whole(d, v) = MadeList(Count(v), c)
               /\ \A i \in 1 .. Count(v) : At(c, i) = Whole(Inner(d), ItemAt(v, i))
  BY CellOfList, StructIsWay DEF Whole
<1>2. [i \in 1 .. Count(v) |-> c[i]] = [i \in 1 .. Count(v) |-> Whole(Inner(d), ItemAt(v, i))]
  BY <1>1 DEF At
<1>. QED
  BY <1>1, <1>2 DEF MadeList, Count, Inner, ItemAt

LEMMA ListMatches ==
  ASSUME NEW d \in Structs, ListOf(d) \in Dtype, NEW name, name \notin DOMAIN KeyOf, NEW s, NEW w,
         \A i \in 1 .. Len(ItemsIn(s, name)) :
           ItemsIn(s, name)[i] \in Accepts("struct", d) => w[i] = Whole(d, ItemsIn(s, name)[i])
  PROVE  Matches(<<Field(name, ListOf(d))>>,
                 <<Entry(name, ListValue([i \in 1 .. Len(ItemsIn(s, name)) |-> w[i]]))>>, s)
<1>. DEFINE l == ListOf(d)
            f == Field(name, l)
            items == ItemsIn(s, name)
            made == ListValue([i \in 1 .. Len(items) |-> w[i]])
<1>1. f.name = name /\ f.dtype = l
  BY DEF Field
<1>2. l \in Lists /\ Inner(l) = d /\ l.inner = d
  BY DEF ListOf, Lists, Inner
<1>3. items = IF HasEntry(s, name) THEN EntryOf(s, name).items ELSE <<>>
  BY DEF ItemsIn, Member, FindOr, HasEntry, EntryOf, ListValue
<1>4. ASSUME Keeps(<<f>>, s)
      PROVE  made = FieldCell(f, s)
  <2>1. HasEntry(s, name) => EntryOf(s, name) \in Accepts("struct", l)
    <3>1. 1 \in 1 .. Len(<<f>>) /\ <<f>>[1] = f
      OBVIOUS
    <3>. QED
      BY <1>1, <1>4, <3>1 DEF Keeps
  <2>. HIDE DEF l, f, items
  <2>2. CASE HasEntry(s, name)
    <3>. DEFINE v == EntryOf(s, name)
    <3>1. v \in Accepts("struct", l) /\ items = v.items
      BY <1>3, <2>1, <2>2
    <3>2. \A i \in 1 .. Len(items) : items[i] \in Accepts("struct", d)
      BY <1>2, <3>1, AcceptsList, StructIsWay DEF Count, ItemAt
    <3>3. \A i \in 1 .. Len(items) : w[i] = Whole(d, items[i])
      BY <3>2 DEF items
    <3>4. made = ListValue([i \in 1 .. Len(items) |-> Whole(d, items[i])])
      BY <3>3
    <3>5. Whole(l, v) = ListValue([i \in 1 .. Len(items) |-> Whole(d, items[i])])
      BY <1>2, <3>1, WholeList
    <3>. QED
      BY <1>1, <2>2, <3>4, <3>5 DEF FieldCell
  <2>3. CASE ~HasEntry(s, name)
    <3>1. Len(items) = 0
      BY <1>3, <2>3
    <3>2. PICK x : DefaultOf(l) = MadeList(0, x)
      BY <1>2, DefaultList
    <3>3. DefaultOf(l) \in Builds(l)
      BY <1>2, ListFacts, FullIsBuildable, StructIsWay DEF FullValues
    <3>4. DefaultOf(l).kind = "list" /\ Count(DefaultOf(l)) = 0
      BY <3>2, MadeListFacts
    <3>5. DefaultOf(l) # None /\ DefaultOf(l) # Null
      BY <3>4 DEF None, Null
    <3>6. PICK c : CellOf(l, DefaultOf(l)) = MadeList(0, c)
      BY <1>2, <3>3, <3>4, <3>5, CellList
    <3>7. made = MadeList(0, c)
      <4>1. [i \in 1 .. 0 |-> w[i]] = [i \in 1 .. 0 |-> c[i]]
        OBVIOUS
      <4>. QED
        BY <3>1, <4>1 DEF MadeList
    <3>. QED
      BY <1>1, <2>3, <3>6, <3>7 DEF FieldCell
  <2>. QED
    BY <2>2, <2>3
<1>. QED
  BY <1>1, <1>4, OneMatches

----------------------------------------------------------------------------
(* The known schemas are dtypes.                                           *)

WellNamed(fields, dtypes) ==
  fields \in Seq([name : STRING, dtype : dtypes]) /\ NamesDiffer(fields)

LEMMA Depths ==
  /\ 1 \in 1 .. MaxDepth /\ 2 \in 1 .. MaxDepth /\ 3 \in 1 .. MaxDepth /\ 4 \in 1 .. MaxDepth
  /\ DtypesTo[0] \subseteq DtypesTo[1] /\ DtypesTo[1] \subseteq DtypesTo[2]
  /\ DtypesTo[2] \subseteq DtypesTo[3] /\ DtypesTo[3] \subseteq DtypesTo[4]
<1>1. 1 \in 1 .. MaxDepth /\ 2 \in 1 .. MaxDepth /\ 3 \in 1 .. MaxDepth /\ 4 \in 1 .. MaxDepth
  BY MaxDepthIsNatural, KnownSchemasFit
<1>2. DtypesTo[1 - 1] \subseteq DtypesTo[1]
  BY <1>1, DtypesGrow
<1>3. DtypesTo[2 - 1] \subseteq DtypesTo[2]
  BY <1>1, DtypesGrow
<1>4. DtypesTo[3 - 1] \subseteq DtypesTo[3]
  BY <1>1, DtypesGrow
<1>5. DtypesTo[4 - 1] \subseteq DtypesTo[4]
  BY <1>1, DtypesGrow
<1>. QED
  BY <1>1, <1>2, <1>3, <1>4, <1>5

LEMMA NamedStruct ==
  ASSUME NEW n \in 1 .. MaxDepth, NEW fields, WellNamed(fields, DtypesTo[n - 1])
  PROVE  StructOf(fields) \in DtypesTo[n] /\ StructOf(fields) \in Structs
<1>1. StructOf(fields) \in StructDtypes(DtypesTo[n - 1])
  BY DEF StructOf, StructDtypes, WellNamed
<1>2. StructOf(fields) \in DtypesTo[n]
  BY <1>1, DtypesToNext DEF DtypesOver
<1>. QED
  BY <1>2, DtypesToInDtype DEF StructOf, Structs

LEMMA ScalarDtypes ==
  ASSUME NEW n \in 0 .. 3
  PROVE  {Bool, U8, U16, U32, F64, Text} \subseteq DtypesTo[n]
<1>1. {Bool, U8, U16, U32, F64, Text} \subseteq DtypesTo[0]
  BY DtypesToZero, ScalarTypesAre DEF Bool, U8, U16, U32, F64, Text, Scalar
<1>. QED
  BY <1>1, Depths

LEMMA AField ==
  ASSUME NEW T, NEW name \in FieldNames, NEW d \in T
  PROVE  Field(name, d) \in [name : STRING, dtype : T]
BY NamesAreStrings DEF Field

LEMMA FieldsNamed == \A name, d : Field(name, d).name = name
BY DEF Field

LEMMA NamesDtype ==
  /\ NamesSchema \in DtypesTo[1] /\ NamesSchema \in Structs
  /\ NamesSchema.fields =
       <<Field("de", Text), Field("en", Text), Field("es", Text), Field("fr", Text),
         Field("ja", Text), Field("pt-BR", Text), Field("ru", Text), Field("zh-CN", Text)>>
<1>. DEFINE T == DtypesTo[0]
            fields == <<Field("de", Text), Field("en", Text), Field("es", Text),
                        Field("fr", Text), Field("ja", Text), Field("pt-BR", Text),
                        Field("ru", Text), Field("zh-CN", Text)>>
<1>1. NamesSchema = StructOf(fields)
  BY DEF NamesSchema, FieldsOf
<1>2. {Text} \subseteq T
  BY ScalarDtypes
<1>3. /\ Field("de", Text) \in [name : STRING, dtype : T]
      /\ Field("en", Text) \in [name : STRING, dtype : T]
      /\ Field("es", Text) \in [name : STRING, dtype : T]
      /\ Field("fr", Text) \in [name : STRING, dtype : T]
      /\ Field("ja", Text) \in [name : STRING, dtype : T]
      /\ Field("pt-BR", Text) \in [name : STRING, dtype : T]
      /\ Field("ru", Text) \in [name : STRING, dtype : T]
      /\ Field("zh-CN", Text) \in [name : STRING, dtype : T]
  <2>. HIDE DEF T
  <2>1. {"de", "en", "es", "fr", "ja", "pt-BR", "ru", "zh-CN"} \subseteq FieldNames
    BY DEF FieldNames
  <2>2. \A name \in FieldNames : \A d \in T : Field(name, d) \in [name : STRING, dtype : T]
    BY AField
  <2>. QED
    BY <1>2, <2>1, <2>2
<1>4. NamesDiffer(fields)
  BY FieldsNamed DEF NamesDiffer
<1>5. WellNamed(fields, T)
  BY <1>3, <1>4 DEF WellNamed
<1>. QED
  BY <1>1, <1>5, Depths, NamedStruct DEF StructOf

LEMMA ContinentDtype ==
  /\ ContinentSchema \in DtypesTo[2] /\ ContinentSchema \in Structs
  /\ ContinentSchema.fields =
       <<Field("code", Text), Field("geoname_id", U32), Field("names", NamesSchema)>>
<1>. DEFINE T == DtypesTo[1]
            fields == <<Field("code", Text), Field("geoname_id", U32),
                        Field("names", NamesSchema)>>
<1>1. ContinentSchema = StructOf(fields)
  BY DEF ContinentSchema, GeonameIdField, NamesField
<1>2. {NamesSchema, Text, U32} \subseteq T
  BY ScalarDtypes, NamesDtype
<1>3. /\ Field("code", Text) \in [name : STRING, dtype : T]
      /\ Field("geoname_id", U32) \in [name : STRING, dtype : T]
      /\ Field("names", NamesSchema) \in [name : STRING, dtype : T]
  <2>. HIDE DEF T
  <2>. QED
    BY <1>2, AField DEF FieldNames
<1>4. NamesDiffer(fields)
  BY FieldsNamed DEF NamesDiffer
<1>5. WellNamed(fields, T)
  BY <1>3, <1>4 DEF WellNamed
<1>. QED
  BY <1>1, <1>5, Depths, NamedStruct DEF StructOf

LEMMA CountryDtype ==
  /\ CountrySchema \in DtypesTo[2] /\ CountrySchema \in Structs
  /\ CountrySchema.fields =
       <<Field("geoname_id", U32), Field("is_in_european_union", Bool),
         Field("iso_code", Text), Field("names", NamesSchema)>>
<1>. DEFINE T == DtypesTo[1]
            fields == <<Field("geoname_id", U32), Field("is_in_european_union", Bool),
                        Field("iso_code", Text), Field("names", NamesSchema)>>
<1>1. CountrySchema = StructOf(fields)
  BY DEF CountrySchema, GeonameIdField, NamesField
<1>2. {Bool, NamesSchema, Text, U32} \subseteq T
  BY ScalarDtypes, NamesDtype
<1>3. /\ Field("geoname_id", U32) \in [name : STRING, dtype : T]
      /\ Field("is_in_european_union", Bool) \in [name : STRING, dtype : T]
      /\ Field("iso_code", Text) \in [name : STRING, dtype : T]
      /\ Field("names", NamesSchema) \in [name : STRING, dtype : T]
  <2>. HIDE DEF T
  <2>. QED
    BY <1>2, AField DEF FieldNames
<1>4. NamesDiffer(fields)
  BY FieldsNamed DEF NamesDiffer
<1>5. WellNamed(fields, T)
  BY <1>3, <1>4 DEF WellNamed
<1>. QED
  BY <1>1, <1>5, Depths, NamedStruct DEF StructOf

LEMMA RepresentedCountryDtype ==
  /\ RepresentedCountrySchema \in DtypesTo[2] /\ RepresentedCountrySchema \in Structs
  /\ RepresentedCountrySchema.fields =
       <<Field("geoname_id", U32), Field("is_in_european_union", Bool),
         Field("iso_code", Text), Field("names", NamesSchema), Field("type", Text)>>
<1>. DEFINE T == DtypesTo[1]
<1>1. PICK fields :
        fields = <<Field("geoname_id", U32), Field("is_in_european_union", Bool),
                   Field("iso_code", Text), Field("names", NamesSchema),
                   Field("type", Text)>>
  OBVIOUS
<1>2. RepresentedCountrySchema = StructOf(fields)
  <2>1. fields = Append(CountrySchema.fields, Field("type", Text))
    BY <1>1, CountryDtype
  <2>. QED
    BY <2>1 DEF RepresentedCountrySchema
<1>3. {Bool, NamesSchema, Text, U32} \subseteq T
  BY ScalarDtypes, NamesDtype
<1>4. /\ Field("geoname_id", U32) \in [name : STRING, dtype : T]
      /\ Field("is_in_european_union", Bool) \in [name : STRING, dtype : T]
      /\ Field("iso_code", Text) \in [name : STRING, dtype : T]
      /\ Field("names", NamesSchema) \in [name : STRING, dtype : T]
      /\ Field("type", Text) \in [name : STRING, dtype : T]
  <2>. HIDE DEF T
  <2>1. {"geoname_id", "is_in_european_union", "iso_code", "names", "type"} \subseteq FieldNames
    BY DEF FieldNames
  <2>2. \A name \in FieldNames : \A d \in T : Field(name, d) \in [name : STRING, dtype : T]
    BY AField
  <2>. QED
    BY <1>3, <2>1, <2>2
<1>5. NamesDiffer(fields)
  BY <1>1, FieldsNamed DEF NamesDiffer
<1>6. WellNamed(fields, T)
  BY <1>1, <1>4, <1>5 DEF WellNamed
<1>. QED
  BY <1>1, <1>2, <1>6, Depths, NamedStruct DEF StructOf

LEMMA CountryTraitsDtype ==
  /\ CountryTraitsSchema \in DtypesTo[1] /\ CountryTraitsSchema \in Structs
  /\ CountryTraitsSchema.fields =
       <<Field("is_anycast", Bool)>>
<1>. DEFINE T == DtypesTo[0]
            fields == <<Field("is_anycast", Bool)>>
<1>1. CountryTraitsSchema = StructOf(fields)
  BY DEF CountryTraitsSchema
<1>2. {Bool} \subseteq T
  BY ScalarDtypes
<1>3. /\ Field("is_anycast", Bool) \in [name : STRING, dtype : T]
  <2>. HIDE DEF T
  <2>. QED
    BY <1>2, AField DEF FieldNames
<1>4. NamesDiffer(fields)
  BY FieldsNamed DEF NamesDiffer
<1>5. WellNamed(fields, T)
  BY <1>3, <1>4 DEF WellNamed
<1>. QED
  BY <1>1, <1>5, Depths, NamedStruct DEF StructOf

LEMMA CountryRecordDtype ==
  /\ CountryRecordSchema \in DtypesTo[3] /\ CountryRecordSchema \in Structs
  /\ CountryRecordSchema.fields =
       <<Field("continent", ContinentSchema), Field("country", CountrySchema),
         Field("registered_country", CountrySchema),
         Field("represented_country", RepresentedCountrySchema),
         Field("traits", CountryTraitsSchema)>>
<1>. DEFINE T == DtypesTo[2]
            fields == <<Field("continent", ContinentSchema),
                        Field("country", CountrySchema),
                        Field("registered_country", CountrySchema),
                        Field("represented_country", RepresentedCountrySchema),
                        Field("traits", CountryTraitsSchema)>>
<1>1. CountryRecordSchema = StructOf(fields)
  BY DEF CountryRecordSchema
<1>2. {ContinentSchema, CountrySchema, CountryTraitsSchema, RepresentedCountrySchema} \subseteq T
  BY Depths, ContinentDtype, CountryDtype, RepresentedCountryDtype, CountryTraitsDtype
<1>3. /\ Field("continent", ContinentSchema) \in [name : STRING, dtype : T]
      /\ Field("country", CountrySchema) \in [name : STRING, dtype : T]
      /\ Field("registered_country", CountrySchema) \in [name : STRING, dtype : T]
      /\ Field("represented_country", RepresentedCountrySchema) \in [name : STRING, dtype : T]
      /\ Field("traits", CountryTraitsSchema) \in [name : STRING, dtype : T]
  <2>. HIDE DEF T
  <2>1. {"continent", "country", "registered_country", "represented_country",
         "traits"} \subseteq FieldNames
    BY DEF FieldNames
  <2>2. \A name \in FieldNames : \A d \in T : Field(name, d) \in [name : STRING, dtype : T]
    BY AField
  <2>. QED
    BY <1>2, <2>1, <2>2
<1>4. NamesDiffer(fields)
  BY FieldsNamed DEF NamesDiffer
<1>5. WellNamed(fields, T)
  BY <1>3, <1>4 DEF WellNamed
<1>. QED
  BY <1>1, <1>5, Depths, NamedStruct DEF StructOf

(* Structs that have no name of their own in the tables.                   *)
CitySchema == StructOf(<<GeonameIdField, NamesField>>)
PostalSchema == StructOf(<<Field("code", Text)>>)
EnterprisePostalSchema == StructOf(<<Field("code", Text), ConfidenceField>>)

LEMMA CityDtype ==
  /\ CitySchema \in DtypesTo[2] /\ CitySchema \in Structs
  /\ CitySchema.fields =
       <<Field("geoname_id", U32), Field("names", NamesSchema)>>
<1>. DEFINE T == DtypesTo[1]
            fields == <<Field("geoname_id", U32), Field("names", NamesSchema)>>
<1>1. CitySchema = StructOf(fields)
  BY DEF CitySchema, GeonameIdField, NamesField
<1>2. {NamesSchema, U32} \subseteq T
  BY ScalarDtypes, NamesDtype
<1>3. /\ Field("geoname_id", U32) \in [name : STRING, dtype : T]
      /\ Field("names", NamesSchema) \in [name : STRING, dtype : T]
  <2>. HIDE DEF T
  <2>. QED
    BY <1>2, AField DEF FieldNames
<1>4. NamesDiffer(fields)
  BY FieldsNamed DEF NamesDiffer
<1>5. WellNamed(fields, T)
  BY <1>3, <1>4 DEF WellNamed
<1>. QED
  BY <1>1, <1>5, Depths, NamedStruct DEF StructOf

LEMMA LocationDtype ==
  /\ LocationSchema \in DtypesTo[1] /\ LocationSchema \in Structs
  /\ LocationSchema.fields =
       <<Field("accuracy_radius", U16), Field("latitude", F64), Field("longitude", F64),
         Field("metro_code", U16), Field("time_zone", Text)>>
<1>. DEFINE T == DtypesTo[0]
            fields == <<Field("accuracy_radius", U16), Field("latitude", F64),
                        Field("longitude", F64), Field("metro_code", U16),
                        Field("time_zone", Text)>>
<1>1. LocationSchema = StructOf(fields)
  BY DEF LocationSchema
<1>2. {F64, Text, U16} \subseteq T
  BY ScalarDtypes
<1>3. /\ Field("accuracy_radius", U16) \in [name : STRING, dtype : T]
      /\ Field("latitude", F64) \in [name : STRING, dtype : T]
      /\ Field("longitude", F64) \in [name : STRING, dtype : T]
      /\ Field("metro_code", U16) \in [name : STRING, dtype : T]
      /\ Field("time_zone", Text) \in [name : STRING, dtype : T]
  <2>. HIDE DEF T
  <2>1. {"accuracy_radius", "latitude", "longitude", "metro_code",
         "time_zone"} \subseteq FieldNames
    BY DEF FieldNames
  <2>2. \A name \in FieldNames : \A d \in T : Field(name, d) \in [name : STRING, dtype : T]
    BY AField
  <2>. QED
    BY <1>2, <2>1, <2>2
<1>4. NamesDiffer(fields)
  BY FieldsNamed DEF NamesDiffer
<1>5. WellNamed(fields, T)
  BY <1>3, <1>4 DEF WellNamed
<1>. QED
  BY <1>1, <1>5, Depths, NamedStruct DEF StructOf

LEMMA PostalDtype ==
  /\ PostalSchema \in DtypesTo[1] /\ PostalSchema \in Structs
  /\ PostalSchema.fields =
       <<Field("code", Text)>>
<1>. DEFINE T == DtypesTo[0]
            fields == <<Field("code", Text)>>
<1>1. PostalSchema = StructOf(fields)
  BY DEF PostalSchema
<1>2. {Text} \subseteq T
  BY ScalarDtypes
<1>3. /\ Field("code", Text) \in [name : STRING, dtype : T]
  <2>. HIDE DEF T
  <2>. QED
    BY <1>2, AField DEF FieldNames
<1>4. NamesDiffer(fields)
  BY FieldsNamed DEF NamesDiffer
<1>5. WellNamed(fields, T)
  BY <1>3, <1>4 DEF WellNamed
<1>. QED
  BY <1>1, <1>5, Depths, NamedStruct DEF StructOf

LEMMA SubdivisionDtype ==
  /\ SubdivisionSchema \in DtypesTo[2] /\ SubdivisionSchema \in Structs
  /\ SubdivisionSchema.fields =
       <<Field("geoname_id", U32), Field("iso_code", Text), Field("names", NamesSchema)>>
<1>. DEFINE T == DtypesTo[1]
            fields == <<Field("geoname_id", U32), Field("iso_code", Text),
                        Field("names", NamesSchema)>>
<1>1. SubdivisionSchema = StructOf(fields)
  BY DEF SubdivisionSchema, GeonameIdField, NamesField
<1>2. {NamesSchema, Text, U32} \subseteq T
  BY ScalarDtypes, NamesDtype
<1>3. /\ Field("geoname_id", U32) \in [name : STRING, dtype : T]
      /\ Field("iso_code", Text) \in [name : STRING, dtype : T]
      /\ Field("names", NamesSchema) \in [name : STRING, dtype : T]
  <2>. HIDE DEF T
  <2>. QED
    BY <1>2, AField DEF FieldNames
<1>4. NamesDiffer(fields)
  BY FieldsNamed DEF NamesDiffer
<1>5. WellNamed(fields, T)
  BY <1>3, <1>4 DEF WellNamed
<1>. QED
  BY <1>1, <1>5, Depths, NamedStruct DEF StructOf

LEMMA SubdivisionsDtype == ListOf(SubdivisionSchema) \in DtypesTo[3]
<1>1. ListOf(SubdivisionSchema) \in DtypesOver(DtypesTo[3 - 1])
  BY SubdivisionDtype DEF ListOf, DtypesOver
<1>. QED
  BY <1>1, Depths, DtypesToNext

LEMMA CityRecordDtype ==
  /\ CityRecordSchema \in DtypesTo[4] /\ CityRecordSchema \in Structs
  /\ CityRecordSchema.fields =
       <<Field("city", CitySchema), Field("continent", ContinentSchema),
         Field("country", CountrySchema), Field("location", LocationSchema),
         Field("postal", PostalSchema), Field("registered_country", CountrySchema),
         Field("represented_country", RepresentedCountrySchema),
         Field("subdivisions", ListOf(SubdivisionSchema)),
         Field("traits", CountryTraitsSchema)>>
<1>. DEFINE T == DtypesTo[3]
            fields == <<Field("city", CitySchema), Field("continent", ContinentSchema),
                        Field("country", CountrySchema),
                        Field("location", LocationSchema), Field("postal", PostalSchema),
                        Field("registered_country", CountrySchema),
                        Field("represented_country", RepresentedCountrySchema),
                        Field("subdivisions", ListOf(SubdivisionSchema)),
                        Field("traits", CountryTraitsSchema)>>
<1>1. CityRecordSchema = StructOf(fields)
  BY DEF CityRecordSchema, CitySchema, PostalSchema
<1>2. {CitySchema, ContinentSchema, CountrySchema, CountryTraitsSchema,
       ListOf(SubdivisionSchema), LocationSchema, PostalSchema, RepresentedCountrySchema}
      \subseteq T
  BY Depths, ContinentDtype, CountryDtype, RepresentedCountryDtype, CountryTraitsDtype,
     CityDtype, LocationDtype, PostalDtype, SubdivisionsDtype
<1>3. /\ Field("city", CitySchema) \in [name : STRING, dtype : T]
      /\ Field("continent", ContinentSchema) \in [name : STRING, dtype : T]
      /\ Field("country", CountrySchema) \in [name : STRING, dtype : T]
      /\ Field("location", LocationSchema) \in [name : STRING, dtype : T]
      /\ Field("postal", PostalSchema) \in [name : STRING, dtype : T]
      /\ Field("registered_country", CountrySchema) \in [name : STRING, dtype : T]
      /\ Field("represented_country", RepresentedCountrySchema) \in [name : STRING, dtype : T]
      /\ Field("subdivisions", ListOf(SubdivisionSchema)) \in [name : STRING, dtype : T]
      /\ Field("traits", CountryTraitsSchema) \in [name : STRING, dtype : T]
  <2>. HIDE DEF T
  <2>1. {"city", "continent", "country", "location", "postal", "registered_country",
         "represented_country", "subdivisions", "traits"} \subseteq FieldNames
    BY DEF FieldNames
  <2>2. \A name \in FieldNames : \A d \in T : Field(name, d) \in [name : STRING, dtype : T]
    BY AField
  <2>. QED
    BY <1>2, <2>1, <2>2
<1>4. NamesDiffer(fields)
  BY FieldsNamed DEF NamesDiffer
<1>5. WellNamed(fields, T)
  BY <1>3, <1>4 DEF WellNamed
<1>. QED
  BY <1>1, <1>5, Depths, NamedStruct DEF StructOf

LEMMA AsnDtype ==
  /\ AsnSchema \in DtypesTo[1] /\ AsnSchema \in Structs
  /\ AsnSchema.fields =
       <<Field("autonomous_system_number", U32),
         Field("autonomous_system_organization", Text)>>
<1>. DEFINE T == DtypesTo[0]
            fields == <<Field("autonomous_system_number", U32),
                        Field("autonomous_system_organization", Text)>>
<1>1. AsnSchema = StructOf(fields)
  BY DEF AsnSchema
<1>2. {Text, U32} \subseteq T
  BY ScalarDtypes
<1>3. /\ Field("autonomous_system_number", U32) \in [name : STRING, dtype : T]
      /\ Field("autonomous_system_organization", Text) \in [name : STRING, dtype : T]
  <2>. HIDE DEF T
  <2>. QED
    BY <1>2, AField DEF FieldNames
<1>4. NamesDiffer(fields)
  BY FieldsNamed DEF NamesDiffer
<1>5. WellNamed(fields, T)
  BY <1>3, <1>4 DEF WellNamed
<1>. QED
  BY <1>1, <1>5, Depths, NamedStruct DEF StructOf

LEMMA EnterpriseCityDtype ==
  /\ Confident(CitySchema) \in DtypesTo[2] /\ Confident(CitySchema) \in Structs
  /\ Confident(CitySchema).fields =
       <<Field("confidence", U8), Field("geoname_id", U32), Field("names", NamesSchema)>>
<1>. DEFINE T == DtypesTo[1]
<1>1. PICK fields :
        fields = <<Field("confidence", U8), Field("geoname_id", U32),
                   Field("names", NamesSchema)>>
  OBVIOUS
<1>2. Confident(CitySchema) = StructOf(fields)
  <2>1. fields = <<Field("confidence", U8)>> \o CitySchema.fields
    BY <1>1, CityDtype
  <2>. QED
    BY <2>1 DEF Confident, ConfidenceField
<1>3. {NamesSchema, U32, U8} \subseteq T
  BY ScalarDtypes, NamesDtype
<1>4. /\ Field("confidence", U8) \in [name : STRING, dtype : T]
      /\ Field("geoname_id", U32) \in [name : STRING, dtype : T]
      /\ Field("names", NamesSchema) \in [name : STRING, dtype : T]
  <2>. HIDE DEF T
  <2>1. {"confidence", "geoname_id", "names"} \subseteq FieldNames
    BY DEF FieldNames
  <2>2. \A name \in FieldNames : \A d \in T : Field(name, d) \in [name : STRING, dtype : T]
    BY AField
  <2>. QED
    BY <1>3, <2>1, <2>2
<1>5. NamesDiffer(fields)
  BY <1>1, FieldsNamed DEF NamesDiffer
<1>6. WellNamed(fields, T)
  BY <1>1, <1>4, <1>5 DEF WellNamed
<1>. QED
  BY <1>1, <1>2, <1>6, Depths, NamedStruct DEF StructOf

LEMMA EnterpriseCountryDtype ==
  /\ Confident(CountrySchema) \in DtypesTo[2] /\ Confident(CountrySchema) \in Structs
  /\ Confident(CountrySchema).fields =
       <<Field("confidence", U8), Field("geoname_id", U32),
         Field("is_in_european_union", Bool), Field("iso_code", Text),
         Field("names", NamesSchema)>>
<1>. DEFINE T == DtypesTo[1]
<1>1. PICK fields :
        fields = <<Field("confidence", U8), Field("geoname_id", U32),
                   Field("is_in_european_union", Bool), Field("iso_code", Text),
                   Field("names", NamesSchema)>>
  OBVIOUS
<1>2. Confident(CountrySchema) = StructOf(fields)
  <2>1. fields = <<Field("confidence", U8)>> \o CountrySchema.fields
    BY <1>1, CountryDtype
  <2>. QED
    BY <2>1 DEF Confident, ConfidenceField
<1>3. {Bool, NamesSchema, Text, U32, U8} \subseteq T
  BY ScalarDtypes, NamesDtype
<1>4. /\ Field("confidence", U8) \in [name : STRING, dtype : T]
      /\ Field("geoname_id", U32) \in [name : STRING, dtype : T]
      /\ Field("is_in_european_union", Bool) \in [name : STRING, dtype : T]
      /\ Field("iso_code", Text) \in [name : STRING, dtype : T]
      /\ Field("names", NamesSchema) \in [name : STRING, dtype : T]
  <2>. HIDE DEF T
  <2>1. {"confidence", "geoname_id", "is_in_european_union", "iso_code", "names"} \subseteq FieldNames
    BY DEF FieldNames
  <2>2. \A name \in FieldNames : \A d \in T : Field(name, d) \in [name : STRING, dtype : T]
    BY AField
  <2>. QED
    BY <1>3, <2>1, <2>2
<1>5. NamesDiffer(fields)
  BY <1>1, FieldsNamed DEF NamesDiffer
<1>6. WellNamed(fields, T)
  BY <1>1, <1>4, <1>5 DEF WellNamed
<1>. QED
  BY <1>1, <1>2, <1>6, Depths, NamedStruct DEF StructOf

LEMMA EnterpriseSubdivisionDtype ==
  /\ Confident(SubdivisionSchema) \in DtypesTo[2] /\ Confident(SubdivisionSchema) \in Structs
  /\ Confident(SubdivisionSchema).fields =
       <<Field("confidence", U8), Field("geoname_id", U32), Field("iso_code", Text),
         Field("names", NamesSchema)>>
<1>. DEFINE T == DtypesTo[1]
<1>1. PICK fields :
        fields = <<Field("confidence", U8), Field("geoname_id", U32),
                   Field("iso_code", Text), Field("names", NamesSchema)>>
  OBVIOUS
<1>2. Confident(SubdivisionSchema) = StructOf(fields)
  <2>1. fields = <<Field("confidence", U8)>> \o SubdivisionSchema.fields
    BY <1>1, SubdivisionDtype
  <2>. QED
    BY <2>1 DEF Confident, ConfidenceField
<1>3. {NamesSchema, Text, U32, U8} \subseteq T
  BY ScalarDtypes, NamesDtype
<1>4. /\ Field("confidence", U8) \in [name : STRING, dtype : T]
      /\ Field("geoname_id", U32) \in [name : STRING, dtype : T]
      /\ Field("iso_code", Text) \in [name : STRING, dtype : T]
      /\ Field("names", NamesSchema) \in [name : STRING, dtype : T]
  <2>. HIDE DEF T
  <2>1. {"confidence", "geoname_id", "iso_code", "names"} \subseteq FieldNames
    BY DEF FieldNames
  <2>2. \A name \in FieldNames : \A d \in T : Field(name, d) \in [name : STRING, dtype : T]
    BY AField
  <2>. QED
    BY <1>3, <2>1, <2>2
<1>5. NamesDiffer(fields)
  BY <1>1, FieldsNamed DEF NamesDiffer
<1>6. WellNamed(fields, T)
  BY <1>1, <1>4, <1>5 DEF WellNamed
<1>. QED
  BY <1>1, <1>2, <1>6, Depths, NamedStruct DEF StructOf

LEMMA EnterpriseSubdivisionsDtype == ListOf(Confident(SubdivisionSchema)) \in DtypesTo[3]
<1>1. ListOf(Confident(SubdivisionSchema)) \in DtypesOver(DtypesTo[3 - 1])
  BY EnterpriseSubdivisionDtype DEF ListOf, DtypesOver
<1>. QED
  BY <1>1, Depths, DtypesToNext

LEMMA EnterprisePostalDtype ==
  /\ EnterprisePostalSchema \in DtypesTo[1] /\ EnterprisePostalSchema \in Structs
  /\ EnterprisePostalSchema.fields =
       <<Field("code", Text), Field("confidence", U8)>>
<1>. DEFINE T == DtypesTo[0]
            fields == <<Field("code", Text), Field("confidence", U8)>>
<1>1. EnterprisePostalSchema = StructOf(fields)
  BY DEF EnterprisePostalSchema, ConfidenceField
<1>2. {Text, U8} \subseteq T
  BY ScalarDtypes
<1>3. /\ Field("code", Text) \in [name : STRING, dtype : T]
      /\ Field("confidence", U8) \in [name : STRING, dtype : T]
  <2>. HIDE DEF T
  <2>. QED
    BY <1>2, AField DEF FieldNames
<1>4. NamesDiffer(fields)
  BY FieldsNamed DEF NamesDiffer
<1>5. WellNamed(fields, T)
  BY <1>3, <1>4 DEF WellNamed
<1>. QED
  BY <1>1, <1>5, Depths, NamedStruct DEF StructOf

LEMMA IspDtype ==
  /\ IspSchema \in DtypesTo[1] /\ IspSchema \in Structs
  /\ IspSchema.fields =
       <<Field("autonomous_system_number", U32),
         Field("autonomous_system_organization", Text), Field("isp", Text),
         Field("mobile_country_code", Text), Field("mobile_network_code", Text),
         Field("organization", Text)>>
<1>. DEFINE T == DtypesTo[0]
<1>1. PICK fields :
        fields = <<Field("autonomous_system_number", U32),
                   Field("autonomous_system_organization", Text), Field("isp", Text),
                   Field("mobile_country_code", Text),
                   Field("mobile_network_code", Text), Field("organization", Text)>>
  OBVIOUS
<1>2. IspSchema = StructOf(fields)
  <2>1. fields = AsnSchema.fields
                   \o FieldsOf(<<"isp", "mobile_country_code", "mobile_network_code",
                                 "organization">>, Text)
    BY <1>1, AsnDtype DEF FieldsOf
  <2>. QED
    BY <2>1 DEF IspSchema
<1>3. {Text, U32} \subseteq T
  BY ScalarDtypes
<1>4. /\ Field("autonomous_system_number", U32) \in [name : STRING, dtype : T]
      /\ Field("autonomous_system_organization", Text) \in [name : STRING, dtype : T]
      /\ Field("isp", Text) \in [name : STRING, dtype : T]
      /\ Field("mobile_country_code", Text) \in [name : STRING, dtype : T]
      /\ Field("mobile_network_code", Text) \in [name : STRING, dtype : T]
      /\ Field("organization", Text) \in [name : STRING, dtype : T]
  <2>. HIDE DEF T
  <2>1. {"autonomous_system_number", "autonomous_system_organization", "isp",
         "mobile_country_code", "mobile_network_code", "organization"} \subseteq FieldNames
    BY DEF FieldNames
  <2>2. \A name \in FieldNames : \A d \in T : Field(name, d) \in [name : STRING, dtype : T]
    BY AField
  <2>. QED
    BY <1>3, <2>1, <2>2
<1>5. NamesDiffer(fields)
  BY <1>1, FieldsNamed DEF NamesDiffer
<1>6. WellNamed(fields, T)
  BY <1>1, <1>4, <1>5 DEF WellNamed
<1>. QED
  BY <1>1, <1>2, <1>6, Depths, NamedStruct DEF StructOf

LEMMA AnonymousIpDtype ==
  /\ AnonymousIpSchema \in DtypesTo[1] /\ AnonymousIpSchema \in Structs
  /\ AnonymousIpSchema.fields =
       <<Field("is_anonymous", Bool), Field("is_anonymous_vpn", Bool),
         Field("is_hosting_provider", Bool), Field("is_public_proxy", Bool),
         Field("is_residential_proxy", Bool), Field("is_tor_exit_node", Bool)>>
<1>. DEFINE T == DtypesTo[0]
            fields == <<Field("is_anonymous", Bool), Field("is_anonymous_vpn", Bool),
                        Field("is_hosting_provider", Bool),
                        Field("is_public_proxy", Bool),
                        Field("is_residential_proxy", Bool),
                        Field("is_tor_exit_node", Bool)>>
<1>1. AnonymousIpSchema = StructOf(fields)
  BY DEF AnonymousIpSchema, FieldsOf
<1>2. {Bool} \subseteq T
  BY ScalarDtypes
<1>3. /\ Field("is_anonymous", Bool) \in [name : STRING, dtype : T]
      /\ Field("is_anonymous_vpn", Bool) \in [name : STRING, dtype : T]
      /\ Field("is_hosting_provider", Bool) \in [name : STRING, dtype : T]
      /\ Field("is_public_proxy", Bool) \in [name : STRING, dtype : T]
      /\ Field("is_residential_proxy", Bool) \in [name : STRING, dtype : T]
      /\ Field("is_tor_exit_node", Bool) \in [name : STRING, dtype : T]
  <2>. HIDE DEF T
  <2>1. {"is_anonymous", "is_anonymous_vpn", "is_hosting_provider", "is_public_proxy",
         "is_residential_proxy", "is_tor_exit_node"} \subseteq FieldNames
    BY DEF FieldNames
  <2>2. \A name \in FieldNames : \A d \in T : Field(name, d) \in [name : STRING, dtype : T]
    BY AField
  <2>. QED
    BY <1>2, <2>1, <2>2
<1>4. NamesDiffer(fields)
  BY FieldsNamed DEF NamesDiffer
<1>5. WellNamed(fields, T)
  BY <1>3, <1>4 DEF WellNamed
<1>. QED
  BY <1>1, <1>5, Depths, NamedStruct DEF StructOf

LEMMA EnterpriseTraitsDtype ==
  /\ EnterpriseTraitsSchema \in DtypesTo[1] /\ EnterpriseTraitsSchema \in Structs
  /\ EnterpriseTraitsSchema.fields =
       <<Field("autonomous_system_number", U32),
         Field("autonomous_system_organization", Text), Field("connection_type", Text),
         Field("domain", Text), Field("is_anonymous", Bool),
         Field("is_anonymous_vpn", Bool), Field("is_anycast", Bool),
         Field("is_hosting_provider", Bool), Field("isp", Text),
         Field("is_public_proxy", Bool), Field("is_residential_proxy", Bool),
         Field("is_tor_exit_node", Bool), Field("mobile_country_code", Text),
         Field("mobile_network_code", Text), Field("organization", Text),
         Field("user_type", Text)>>
<1>. DEFINE T == DtypesTo[0]
<1>1. PICK fields :
        fields = <<Field("autonomous_system_number", U32),
                   Field("autonomous_system_organization", Text),
                   Field("connection_type", Text), Field("domain", Text),
                   Field("is_anonymous", Bool), Field("is_anonymous_vpn", Bool),
                   Field("is_anycast", Bool), Field("is_hosting_provider", Bool),
                   Field("isp", Text), Field("is_public_proxy", Bool),
                   Field("is_residential_proxy", Bool), Field("is_tor_exit_node", Bool),
                   Field("mobile_country_code", Text),
                   Field("mobile_network_code", Text), Field("organization", Text),
                   Field("user_type", Text)>>
  OBVIOUS
<1>2. EnterpriseTraitsSchema = StructOf(fields)
  <2>1. fields = AsnSchema.fields
                   \o FieldsOf(<<"connection_type", "domain">>, Text)
                   \o FieldsOf(<<"is_anonymous", "is_anonymous_vpn", "is_anycast",
                                 "is_hosting_provider">>, Bool)
                   \o <<Field("isp", Text)>>
                   \o FieldsOf(<<"is_public_proxy", "is_residential_proxy",
                                 "is_tor_exit_node">>, Bool)
                   \o FieldsOf(<<"mobile_country_code", "mobile_network_code", "organization",
                                 "user_type">>, Text)
    BY <1>1, AsnDtype DEF FieldsOf
  <2>. QED
    BY <2>1 DEF EnterpriseTraitsSchema
<1>3. {Bool, Text, U32} \subseteq T
  BY ScalarDtypes
<1>4. /\ Field("autonomous_system_number", U32) \in [name : STRING, dtype : T]
      /\ Field("autonomous_system_organization", Text) \in [name : STRING, dtype : T]
      /\ Field("connection_type", Text) \in [name : STRING, dtype : T]
      /\ Field("domain", Text) \in [name : STRING, dtype : T]
      /\ Field("is_anonymous", Bool) \in [name : STRING, dtype : T]
      /\ Field("is_anonymous_vpn", Bool) \in [name : STRING, dtype : T]
      /\ Field("is_anycast", Bool) \in [name : STRING, dtype : T]
      /\ Field("is_hosting_provider", Bool) \in [name : STRING, dtype : T]
      /\ Field("isp", Text) \in [name : STRING, dtype : T]
      /\ Field("is_public_proxy", Bool) \in [name : STRING, dtype : T]
      /\ Field("is_residential_proxy", Bool) \in [name : STRING, dtype : T]
      /\ Field("is_tor_exit_node", Bool) \in [name : STRING, dtype : T]
      /\ Field("mobile_country_code", Text) \in [name : STRING, dtype : T]
      /\ Field("mobile_network_code", Text) \in [name : STRING, dtype : T]
      /\ Field("organization", Text) \in [name : STRING, dtype : T]
      /\ Field("user_type", Text) \in [name : STRING, dtype : T]
  <2>. HIDE DEF T
  <2>1. {"autonomous_system_number", "autonomous_system_organization", "connection_type",
         "domain", "is_anonymous", "is_anonymous_vpn", "is_anycast",
         "is_hosting_provider", "isp", "is_public_proxy", "is_residential_proxy",
         "is_tor_exit_node", "mobile_country_code", "mobile_network_code",
         "organization", "user_type"} \subseteq FieldNames
    BY DEF FieldNames
  <2>2. \A name \in FieldNames : \A d \in T : Field(name, d) \in [name : STRING, dtype : T]
    BY AField
  <2>. QED
    BY <1>3, <2>1, <2>2
<1>5. NamesDiffer(fields)
  BY <1>1, FieldsNamed DEF NamesDiffer
<1>6. WellNamed(fields, T)
  BY <1>1, <1>4, <1>5 DEF WellNamed
<1>. QED
  BY <1>1, <1>2, <1>6, Depths, NamedStruct DEF StructOf

LEMMA EnterpriseRecordDtype ==
  /\ EnterpriseRecordSchema \in DtypesTo[4] /\ EnterpriseRecordSchema \in Structs
  /\ EnterpriseRecordSchema.fields =
       <<Field("city", Confident(CitySchema)), Field("continent", ContinentSchema),
         Field("country", Confident(CountrySchema)), Field("location", LocationSchema),
         Field("postal", EnterprisePostalSchema),
         Field("registered_country", Confident(CountrySchema)),
         Field("represented_country", RepresentedCountrySchema),
         Field("subdivisions", ListOf(Confident(SubdivisionSchema))),
         Field("traits", EnterpriseTraitsSchema)>>
<1>. DEFINE T == DtypesTo[3]
            fields == <<Field("city", Confident(CitySchema)),
                        Field("continent", ContinentSchema),
                        Field("country", Confident(CountrySchema)),
                        Field("location", LocationSchema),
                        Field("postal", EnterprisePostalSchema),
                        Field("registered_country", Confident(CountrySchema)),
                        Field("represented_country", RepresentedCountrySchema),
                        Field("subdivisions", ListOf(Confident(SubdivisionSchema))),
                        Field("traits", EnterpriseTraitsSchema)>>
<1>1. EnterpriseRecordSchema = StructOf(fields)
  BY DEF EnterpriseRecordSchema, CitySchema, EnterprisePostalSchema
<1>2. {Confident(CitySchema), Confident(CountrySchema), ContinentSchema, EnterprisePostalSchema,
       EnterpriseTraitsSchema, ListOf(Confident(SubdivisionSchema)), LocationSchema,
       RepresentedCountrySchema} \subseteq T
  BY Depths, ContinentDtype, RepresentedCountryDtype, EnterpriseTraitsDtype,
     EnterpriseCityDtype, EnterpriseCountryDtype, LocationDtype, EnterprisePostalDtype,
     EnterpriseSubdivisionsDtype
<1>3. /\ Field("city", Confident(CitySchema)) \in [name : STRING, dtype : T]
      /\ Field("continent", ContinentSchema) \in [name : STRING, dtype : T]
      /\ Field("country", Confident(CountrySchema)) \in [name : STRING, dtype : T]
      /\ Field("location", LocationSchema) \in [name : STRING, dtype : T]
      /\ Field("postal", EnterprisePostalSchema) \in [name : STRING, dtype : T]
      /\ Field("registered_country", Confident(CountrySchema)) \in [name : STRING, dtype : T]
      /\ Field("represented_country", RepresentedCountrySchema) \in [name : STRING, dtype : T]
      /\ Field("subdivisions", ListOf(Confident(SubdivisionSchema))) \in [name : STRING, dtype : T]
      /\ Field("traits", EnterpriseTraitsSchema) \in [name : STRING, dtype : T]
  <2>. HIDE DEF T
  <2>1. {"city", "continent", "country", "location", "postal", "registered_country",
         "represented_country", "subdivisions", "traits"} \subseteq FieldNames
    BY DEF FieldNames
  <2>2. \A name \in FieldNames : \A d \in T : Field(name, d) \in [name : STRING, dtype : T]
    BY AField
  <2>. QED
    BY <1>2, <2>1, <2>2
<1>4. NamesDiffer(fields)
  BY FieldsNamed DEF NamesDiffer
<1>5. WellNamed(fields, T)
  BY <1>3, <1>4 DEF WellNamed
<1>. QED
  BY <1>1, <1>5, Depths, NamedStruct DEF StructOf

(* Schemas without a name of their own in the tables.                      *)
ConnectionTypeSchema == StructOf(<<Field("connection_type", Text)>>)
DensityIncomeSchema == StructOf(FieldsOf(<<"average_income", "population_density">>, U32))
DomainSchema == StructOf(<<Field("domain", Text)>>)
StaticIpScoreSchema == StructOf(<<Field("score", F64)>>)

LEMMA ConnectionTypeDtype ==
  /\ ConnectionTypeSchema \in DtypesTo[1] /\ ConnectionTypeSchema \in Structs
  /\ ConnectionTypeSchema.fields =
       <<Field("connection_type", Text)>>
<1>. DEFINE T == DtypesTo[0]
            fields == <<Field("connection_type", Text)>>
<1>1. ConnectionTypeSchema = StructOf(fields)
  BY DEF ConnectionTypeSchema
<1>2. {Text} \subseteq T
  BY ScalarDtypes
<1>3. /\ Field("connection_type", Text) \in [name : STRING, dtype : T]
  <2>. HIDE DEF T
  <2>. QED
    BY <1>2, AField DEF FieldNames
<1>4. NamesDiffer(fields)
  BY FieldsNamed DEF NamesDiffer
<1>5. WellNamed(fields, T)
  BY <1>3, <1>4 DEF WellNamed
<1>. QED
  BY <1>1, <1>5, Depths, NamedStruct DEF StructOf

LEMMA DensityIncomeDtype ==
  /\ DensityIncomeSchema \in DtypesTo[1] /\ DensityIncomeSchema \in Structs
  /\ DensityIncomeSchema.fields =
       <<Field("average_income", U32), Field("population_density", U32)>>
<1>. DEFINE T == DtypesTo[0]
            fields == <<Field("average_income", U32), Field("population_density", U32)>>
<1>1. DensityIncomeSchema = StructOf(fields)
  BY DEF DensityIncomeSchema, FieldsOf
<1>2. {U32} \subseteq T
  BY ScalarDtypes
<1>3. /\ Field("average_income", U32) \in [name : STRING, dtype : T]
      /\ Field("population_density", U32) \in [name : STRING, dtype : T]
  <2>. HIDE DEF T
  <2>. QED
    BY <1>2, AField DEF FieldNames
<1>4. NamesDiffer(fields)
  BY FieldsNamed DEF NamesDiffer
<1>5. WellNamed(fields, T)
  BY <1>3, <1>4 DEF WellNamed
<1>. QED
  BY <1>1, <1>5, Depths, NamedStruct DEF StructOf

LEMMA DomainDtype ==
  /\ DomainSchema \in DtypesTo[1] /\ DomainSchema \in Structs
  /\ DomainSchema.fields =
       <<Field("domain", Text)>>
<1>. DEFINE T == DtypesTo[0]
            fields == <<Field("domain", Text)>>
<1>1. DomainSchema = StructOf(fields)
  BY DEF DomainSchema
<1>2. {Text} \subseteq T
  BY ScalarDtypes
<1>3. /\ Field("domain", Text) \in [name : STRING, dtype : T]
  <2>. HIDE DEF T
  <2>. QED
    BY <1>2, AField DEF FieldNames
<1>4. NamesDiffer(fields)
  BY FieldsNamed DEF NamesDiffer
<1>5. WellNamed(fields, T)
  BY <1>3, <1>4 DEF WellNamed
<1>. QED
  BY <1>1, <1>5, Depths, NamedStruct DEF StructOf

LEMMA StaticIpScoreDtype ==
  /\ StaticIpScoreSchema \in DtypesTo[1] /\ StaticIpScoreSchema \in Structs
  /\ StaticIpScoreSchema.fields =
       <<Field("score", F64)>>
<1>. DEFINE T == DtypesTo[0]
            fields == <<Field("score", F64)>>
<1>1. StaticIpScoreSchema = StructOf(fields)
  BY DEF StaticIpScoreSchema
<1>2. {F64} \subseteq T
  BY ScalarDtypes
<1>3. /\ Field("score", F64) \in [name : STRING, dtype : T]
  <2>. HIDE DEF T
  <2>. QED
    BY <1>2, AField DEF FieldNames
<1>4. NamesDiffer(fields)
  BY FieldsNamed DEF NamesDiffer
<1>5. WellNamed(fields, T)
  BY <1>3, <1>4 DEF WellNamed
<1>. QED
  BY <1>1, <1>5, Depths, NamedStruct DEF StructOf

LEMMA ResidentialProxyDtype ==
  /\ ResidentialProxySchema \in DtypesTo[1] /\ ResidentialProxySchema \in Structs
  /\ ResidentialProxySchema.fields =
       <<Field("anonymizer_confidence", U16), Field("network_last_seen", Text),
         Field("provider_name", Text)>>
<1>. DEFINE T == DtypesTo[0]
            fields == <<Field("anonymizer_confidence", U16),
                        Field("network_last_seen", Text), Field("provider_name", Text)>>
<1>1. ResidentialProxySchema = StructOf(fields)
  BY DEF ResidentialProxySchema
<1>2. {Text, U16} \subseteq T
  BY ScalarDtypes
<1>3. /\ Field("anonymizer_confidence", U16) \in [name : STRING, dtype : T]
      /\ Field("network_last_seen", Text) \in [name : STRING, dtype : T]
      /\ Field("provider_name", Text) \in [name : STRING, dtype : T]
  <2>. HIDE DEF T
  <2>. QED
    BY <1>2, AField DEF FieldNames
<1>4. NamesDiffer(fields)
  BY FieldsNamed DEF NamesDiffer
<1>5. WellNamed(fields, T)
  BY <1>3, <1>4 DEF WellNamed
<1>. QED
  BY <1>1, <1>5, Depths, NamedStruct DEF StructOf

LEMMA AnonymousPlusDtype ==
  /\ AnonymousPlusSchema \in DtypesTo[1] /\ AnonymousPlusSchema \in Structs
  /\ AnonymousPlusSchema.fields =
       <<Field("is_anonymous", Bool), Field("is_anonymous_vpn", Bool),
         Field("is_hosting_provider", Bool), Field("is_public_proxy", Bool),
         Field("is_residential_proxy", Bool), Field("is_tor_exit_node", Bool),
         Field("anonymizer_confidence", U16), Field("network_last_seen", Text),
         Field("provider_name", Text)>>
<1>. DEFINE T == DtypesTo[0]
<1>1. PICK fields :
        fields = <<Field("is_anonymous", Bool), Field("is_anonymous_vpn", Bool),
                   Field("is_hosting_provider", Bool), Field("is_public_proxy", Bool),
                   Field("is_residential_proxy", Bool), Field("is_tor_exit_node", Bool),
                   Field("anonymizer_confidence", U16), Field("network_last_seen", Text),
                   Field("provider_name", Text)>>
  OBVIOUS
<1>2. AnonymousPlusSchema = StructOf(fields)
  <2>1. fields = AnonymousIpSchema.fields \o ResidentialProxySchema.fields
    BY <1>1, AnonymousIpDtype, ResidentialProxyDtype
  <2>. QED
    BY <2>1 DEF AnonymousPlusSchema
<1>3. {Bool, Text, U16} \subseteq T
  BY ScalarDtypes
<1>4. /\ Field("is_anonymous", Bool) \in [name : STRING, dtype : T]
      /\ Field("is_anonymous_vpn", Bool) \in [name : STRING, dtype : T]
      /\ Field("is_hosting_provider", Bool) \in [name : STRING, dtype : T]
      /\ Field("is_public_proxy", Bool) \in [name : STRING, dtype : T]
      /\ Field("is_residential_proxy", Bool) \in [name : STRING, dtype : T]
      /\ Field("is_tor_exit_node", Bool) \in [name : STRING, dtype : T]
      /\ Field("anonymizer_confidence", U16) \in [name : STRING, dtype : T]
      /\ Field("network_last_seen", Text) \in [name : STRING, dtype : T]
      /\ Field("provider_name", Text) \in [name : STRING, dtype : T]
  <2>. HIDE DEF T
  <2>1. {"is_anonymous", "is_anonymous_vpn", "is_hosting_provider", "is_public_proxy",
         "is_residential_proxy", "is_tor_exit_node", "anonymizer_confidence",
         "network_last_seen", "provider_name"} \subseteq FieldNames
    BY DEF FieldNames
  <2>2. \A name \in FieldNames : \A d \in T : Field(name, d) \in [name : STRING, dtype : T]
    BY AField
  <2>. QED
    BY <1>3, <2>1, <2>2
<1>5. NamesDiffer(fields)
  BY <1>1, FieldsNamed DEF NamesDiffer
<1>6. WellNamed(fields, T)
  BY <1>1, <1>4, <1>5 DEF WellNamed
<1>. QED
  BY <1>1, <1>2, <1>6, Depths, NamedStruct DEF StructOf

LEMMA IpRiskDtype ==
  /\ IpRiskSchema \in DtypesTo[1] /\ IpRiskSchema \in Structs
  /\ IpRiskSchema.fields =
       <<Field("ip_risk", F64), Field("is_anonymous", Bool),
         Field("is_anonymous_vpn", Bool), Field("is_hosting_provider", Bool),
         Field("is_public_proxy", Bool), Field("is_residential_proxy", Bool),
         Field("is_tor_exit_node", Bool), Field("anonymizer_confidence", U16),
         Field("network_last_seen", Text), Field("provider_name", Text)>>
<1>. DEFINE T == DtypesTo[0]
<1>1. PICK fields :
        fields = <<Field("ip_risk", F64), Field("is_anonymous", Bool),
                   Field("is_anonymous_vpn", Bool), Field("is_hosting_provider", Bool),
                   Field("is_public_proxy", Bool), Field("is_residential_proxy", Bool),
                   Field("is_tor_exit_node", Bool), Field("anonymizer_confidence", U16),
                   Field("network_last_seen", Text), Field("provider_name", Text)>>
  OBVIOUS
<1>2. IpRiskSchema = StructOf(fields)
  <2>1. fields = <<Field("ip_risk", F64)>> \o AnonymousPlusSchema.fields
    BY <1>1, AnonymousPlusDtype
  <2>. QED
    BY <2>1 DEF IpRiskSchema
<1>3. {Bool, F64, Text, U16} \subseteq T
  BY ScalarDtypes
<1>4. /\ Field("ip_risk", F64) \in [name : STRING, dtype : T]
      /\ Field("is_anonymous", Bool) \in [name : STRING, dtype : T]
      /\ Field("is_anonymous_vpn", Bool) \in [name : STRING, dtype : T]
      /\ Field("is_hosting_provider", Bool) \in [name : STRING, dtype : T]
      /\ Field("is_public_proxy", Bool) \in [name : STRING, dtype : T]
      /\ Field("is_residential_proxy", Bool) \in [name : STRING, dtype : T]
      /\ Field("is_tor_exit_node", Bool) \in [name : STRING, dtype : T]
      /\ Field("anonymizer_confidence", U16) \in [name : STRING, dtype : T]
      /\ Field("network_last_seen", Text) \in [name : STRING, dtype : T]
      /\ Field("provider_name", Text) \in [name : STRING, dtype : T]
  <2>. HIDE DEF T
  <2>1. {"ip_risk", "is_anonymous", "is_anonymous_vpn", "is_hosting_provider",
         "is_public_proxy", "is_residential_proxy", "is_tor_exit_node",
         "anonymizer_confidence", "network_last_seen", "provider_name"} \subseteq FieldNames
    BY DEF FieldNames
  <2>2. \A name \in FieldNames : \A d \in T : Field(name, d) \in [name : STRING, dtype : T]
    BY AField
  <2>. QED
    BY <1>3, <2>1, <2>2
<1>5. NamesDiffer(fields)
  BY <1>1, FieldsNamed DEF NamesDiffer
<1>6. WellNamed(fields, T)
  BY <1>1, <1>4, <1>5 DEF WellNamed
<1>. QED
  BY <1>1, <1>2, <1>6, Depths, NamedStruct DEF StructOf

LEMMA UserCountDtype ==
  /\ UserCountSchema \in DtypesTo[1] /\ UserCountSchema \in Structs
  /\ UserCountSchema.fields =
       <<Field("ipv4_24", U32), Field("ipv4_32", U32), Field("ipv6_32", U32),
         Field("ipv6_48", U32), Field("ipv6_64", U32)>>
<1>. DEFINE T == DtypesTo[0]
            fields == <<Field("ipv4_24", U32), Field("ipv4_32", U32),
                        Field("ipv6_32", U32), Field("ipv6_48", U32),
                        Field("ipv6_64", U32)>>
<1>1. UserCountSchema = StructOf(fields)
  BY DEF UserCountSchema, FieldsOf
<1>2. {U32} \subseteq T
  BY ScalarDtypes
<1>3. /\ Field("ipv4_24", U32) \in [name : STRING, dtype : T]
      /\ Field("ipv4_32", U32) \in [name : STRING, dtype : T]
      /\ Field("ipv6_32", U32) \in [name : STRING, dtype : T]
      /\ Field("ipv6_48", U32) \in [name : STRING, dtype : T]
      /\ Field("ipv6_64", U32) \in [name : STRING, dtype : T]
  <2>. HIDE DEF T
  <2>1. {"ipv4_24", "ipv4_32", "ipv6_32", "ipv6_48", "ipv6_64"} \subseteq FieldNames
    BY DEF FieldNames
  <2>2. \A name \in FieldNames : \A d \in T : Field(name, d) \in [name : STRING, dtype : T]
    BY AField
  <2>. QED
    BY <1>2, <2>1, <2>2
<1>4. NamesDiffer(fields)
  BY FieldsNamed DEF NamesDiffer
<1>5. WellNamed(fields, T)
  BY <1>3, <1>4 DEF WellNamed
<1>. QED
  BY <1>1, <1>5, Depths, NamedStruct DEF StructOf

----------------------------------------------------------------------------
(* Which schema and which struct a database type has.                      *)

KnownStructs == DOMAIN TypesOf

LEMMA KnownStructsAre ==
  /\ KnownStructs = {"City", "Country", "Enterprise", "Isp", "ConnectionType",
                     "AnonymousIp", "DensityIncome", "Domain", "Asn"}
  /\ NoRecord \notin KnownStructs
BY DEF KnownStructs, TypesOf, NoRecord

LEMMA SchemaOnlyIs ==
  /\ DOMAIN SchemaOnly = {"GeoIP-Residential-Proxy", "GeoIP-Anonymous-Plus", "GeoIP2-IP-Risk",
                          "GeoIP2-Static-IP-Score", "GeoIP2-User-Count"}
  /\ \A t \in DOMAIN SchemaOnly :
       SchemaOnly[t] \in {ResidentialProxySchema, AnonymousPlusSchema, IpRiskSchema,
                          StaticIpScoreSchema, UserCountSchema}
BY DEF SchemaOnly, StaticIpScoreSchema

LEMMA RecordSchemas ==
  /\ RecordSchema["City"] = CityRecordSchema
  /\ RecordSchema["Country"] = CountryRecordSchema
  /\ RecordSchema["Enterprise"] = EnterpriseRecordSchema
  /\ RecordSchema["Isp"] = IspSchema
  /\ RecordSchema["ConnectionType"] = ConnectionTypeSchema
  /\ RecordSchema["AnonymousIp"] = AnonymousIpSchema
  /\ RecordSchema["DensityIncome"] = DensityIncomeSchema
  /\ RecordSchema["Domain"] = DomainSchema
  /\ RecordSchema["Asn"] = AsnSchema
BY DEF RecordSchema, ConnectionTypeSchema, DensityIncomeSchema, DomainSchema

(* A type that has a struct has no schema besides.                         *)
LEMMA TypeOfStruct ==
  ASSUME NEW k \in KnownStructs, NEW t \in TypesOf[k]
  PROVE  t \notin DOMAIN SchemaOnly
<1>1. CASE k = "City"
  BY <1>1, SchemaOnlyIs DEF TypesOf
<1>2. CASE k = "Country"
  BY <1>2, SchemaOnlyIs DEF TypesOf
<1>3. CASE k = "Enterprise"
  BY <1>3, SchemaOnlyIs DEF TypesOf
<1>4. CASE k = "Isp"
  BY <1>4, SchemaOnlyIs DEF TypesOf
<1>5. CASE k = "ConnectionType"
  BY <1>5, SchemaOnlyIs DEF TypesOf
<1>6. CASE k = "AnonymousIp"
  BY <1>6, SchemaOnlyIs DEF TypesOf
<1>7. CASE k = "DensityIncome"
  BY <1>7, SchemaOnlyIs DEF TypesOf
<1>8. CASE k = "Domain"
  BY <1>8, SchemaOnlyIs DEF TypesOf
<1>9. CASE k = "Asn"
  BY <1>9, SchemaOnlyIs DEF TypesOf
<1>. QED
  BY <1>1, <1>2, <1>3, <1>4, <1>5, <1>6, <1>7, <1>8, <1>9, KnownStructsAre

LEMMA FromTypeOfStruct ==
  ASSUME NEW t, FromDatabaseType(t) # NoRecord
  PROVE  /\ FromDatabaseType(t) \in KnownStructs
         /\ t \notin DOMAIN SchemaOnly
         /\ KnownSchema(t) = RecordSchema[FromDatabaseType(t)]
<1>1. FromDatabaseType(t) \in KnownStructs /\ t \in TypesOf[FromDatabaseType(t)]
  BY DEF FromDatabaseType, KnownStructs
<1>2. t \notin DOMAIN SchemaOnly
  BY <1>1, TypeOfStruct
<1>. QED
  BY <1>1, <1>2 DEF KnownSchema

LEMMA RecordSchemasAreStructs == \A k \in KnownStructs : RecordSchema[k] \in Structs
BY KnownStructsAre, RecordSchemas, CityRecordDtype, CountryRecordDtype, EnterpriseRecordDtype,
   IspDtype, ConnectionTypeDtype, AnonymousIpDtype, DensityIncomeDtype, DomainDtype, AsnDtype

(* Every known database type has a schema, and that is a Struct whose      *)
(* fields differ in name, all the way down, within the depth that the      *)
(* model looks at: the tables that src/schema.rs writes out, and those it  *)
(* puts together from others, never repeat a name.                         *)
THEOREM TablesAreDtypes == \A t \in DatabaseTypes : KnownSchema(t) \in Structs
<1>. SUFFICES ASSUME NEW t \in DatabaseTypes
              PROVE  KnownSchema(t) \in Structs
  OBVIOUS
<1>1. CASE t \in DOMAIN SchemaOnly
  BY <1>1, SchemaOnlyIs, ResidentialProxyDtype, AnonymousPlusDtype, IpRiskDtype,
     StaticIpScoreDtype, UserCountDtype DEF KnownSchema
<1>2. CASE t \notin DOMAIN SchemaOnly
  <2>1. PICK k \in DOMAIN TypesOf : t \in TypesOf[k]
    BY <1>2 DEF DatabaseTypes
  <2>2. FromDatabaseType(t) \in DOMAIN TypesOf
    BY <2>1 DEF FromDatabaseType
  <2>3. FromDatabaseType(t) # NoRecord
    BY <2>2, KnownStructsAre DEF KnownStructs
  <2>. QED
    BY <2>3, FromTypeOfStruct, RecordSchemasAreStructs
<1>. QED
  BY <1>1, <1>2

----------------------------------------------------------------------------
(* The conversions of src/known.rs, each by the schema that it goes with.  *)

Agrees(fields, entries, s) == fields \in Seq(Fields) /\ Matches(fields, entries, s)

(* Names that are the same in maxminddb's structs.                         *)
PlainNames == FieldNames \ DOMAIN KeyOf

LEMMA KeyOfIs ==
  DOMAIN KeyOf = {"german", "english", "spanish", "french", "japanese", "brazilian_portuguese",
                  "russian", "simplified_chinese", "representation_type"}
BY DEF KeyOf

LEMMA NamedField ==
  ASSUME NEW name \in FieldNames, NEW d \in Dtype
  PROVE  Field(name, d) \in Fields
BY AField DEF Fields

LEMMA ScalarsAreDtypes == {Bool, U8, U16, U32, F64, Text} \subseteq Dtype
<1>1. 0 \in 0 .. 3 /\ 0 \in 0 .. MaxDepth
  BY MaxDepthIsNatural
<1>. QED
  BY <1>1, ScalarDtypes, DtypesToInDtype

LEMMA JoinAgrees ==
  ASSUME NEW a, NEW b, NEW x, NEW y, NEW s, Agrees(a, x, s), Agrees(b, y, s)
  PROVE  Agrees(a \o b, x \o y, s)
<1>1. a \in Seq(Fields) /\ b \in Seq(Fields) /\ Matches(a, x, s) /\ Matches(b, y, s)
  BY DEF Agrees
<1>2. a \o b \in Seq(Fields)
  BY <1>1, ConcatOf
<1>. QED
  BY <1>1, <1>2, JoinMatches DEF Agrees

LEMMA KindsAgree ==
  ASSUME NEW names \in Seq(PlainNames), NEW s
  PROVE  /\ Agrees(FieldsOf(names, Text), Strings(s, names), s)
         /\ Agrees(FieldsOf(names, Bool), Booleans(s, names), s)
         /\ Agrees(FieldsOf(names, U8), Uints8(s, names), s)
         /\ Agrees(FieldsOf(names, U16), Uints16(s, names), s)
         /\ Agrees(FieldsOf(names, U32), Uints32(s, names), s)
         /\ Agrees(FieldsOf(names, F64), Floats64(s, names), s)
<1>1. Len(names) \in Nat /\ \A i \in 1 .. Len(names) : names[i] \in PlainNames
  OBVIOUS
<1>2. \A i \in 1 .. Len(names) : names[i] \in FieldNames /\ names[i] \notin DOMAIN KeyOf
  BY <1>1 DEF PlainNames
<1>3. ASSUME NEW d \in Dtype
      PROVE  FieldsOf(names, d) \in Seq(Fields)
  <2>1. \A i \in 1 .. Len(names) : Field(names[i], d) \in Fields
    BY <1>2, NamedField
  <2>. QED
    BY <1>1, <2>1 DEF FieldsOf
<1>. QED
  BY <1>1, <1>2, <1>3, ScalarsAreDtypes, KindsMatch DEF Agrees

LEMMA RenamedAgrees ==
  ASSUME NEW field \in DOMAIN KeyOf, KeyOf[field] \in FieldNames, NEW s
  PROVE  Agrees(<<Field(KeyOf[field], Text)>>, <<Renamed(s, KeyOf[field], field)>>, s)
<1>1. Field(KeyOf[field], Text) \in Fields
  BY NamedField, ScalarsAreDtypes
<1>2. <<Field(KeyOf[field], Text)>> \in Seq(Fields)
  BY <1>1
<1>. QED
  BY <1>2, RenamedMatches DEF Agrees

LEMMA StructAgrees ==
  ASSUME NEW d \in Structs, NEW name \in PlainNames, NEW s, NEW made,
         StructIn(s, name) \in Accepts("struct", d) => made = Whole(d, StructIn(s, name))
  PROVE  Agrees(<<Field(name, d)>>, <<Entry(name, made)>>, s)
<1>1. name \in FieldNames /\ name \notin DOMAIN KeyOf
  BY DEF PlainNames
<1>2. Field(name, d) \in Fields
  BY <1>1, NamedField, StructFacts
<1>3. <<Field(name, d)>> \in Seq(Fields)
  BY <1>2
<1>. QED
  BY <1>1, <1>3, StructMatches DEF Agrees

LEMMA ListAgrees ==
  ASSUME NEW d \in Structs, ListOf(d) \in Dtype, NEW name \in PlainNames, NEW s, NEW w,
         \A i \in 1 .. Len(ItemsIn(s, name)) :
           ItemsIn(s, name)[i] \in Accepts("struct", d) => w[i] = Whole(d, ItemsIn(s, name)[i])
  PROVE  Agrees(<<Field(name, ListOf(d))>>,
                <<Entry(name, ListValue([i \in 1 .. Len(ItemsIn(s, name)) |-> w[i]]))>>, s)
<1>1. name \in FieldNames /\ name \notin DOMAIN KeyOf
  BY DEF PlainNames
<1>2. Field(name, ListOf(d)) \in Fields
  BY <1>1, NamedField
<1>3. <<Field(name, ListOf(d))>> \in Seq(Fields)
  BY <1>2
<1>. QED
  BY <1>1, <1>3, ListMatches DEF Agrees

(* Entries one by one.                                                     *)
LEMMA EachAgrees ==
  ASSUME NEW n \in Nat, NEW fields, NEW entries, NEW s,
         fields = [i \in 1 .. n |-> fields[i]], entries = [i \in 1 .. n |-> entries[i]],
         \A i \in 1 .. n : Agrees(<<fields[i]>>, <<entries[i]>>, s)
  PROVE  Agrees(fields, entries, s)
<1>1. \A f : Len(<<f>>) = 1 /\ <<f>>[1] = f
  OBVIOUS
<1>2. \A i \in 1 .. n : fields[i] \in Fields
  <2>1. \A f : <<f>> \in Seq(Fields) => f \in Fields
    BY <1>1, ElementOf
  <2>. QED
    BY <2>1 DEF Agrees
<1>3. fields \in Seq(Fields) /\ Len(fields) = n
  BY <1>2, SequenceOf
<1>4. ASSUME Keeps(fields, s), NEW i \in 1 .. n
      PROVE  entries[i] = Entry(fields[i].name, FieldCell(fields[i], s))
  <2>1. Keeps(<<fields[i]>>, s)
    BY <1>1, <1>3, <1>4 DEF Keeps
  <2>2. <<entries[i]>> = EntriesOf(<<fields[i]>>, s)
    BY <1>4, <2>1 DEF Agrees, Matches
  <2>3. EntriesOf(<<fields[i]>>, s)[1] = Entry(fields[i].name, FieldCell(fields[i], s))
    BY <1>1 DEF EntriesOf
  <2>. QED
    BY <2>2, <2>3
<1>5. ASSUME Keeps(fields, s)
      PROVE  entries = EntriesOf(fields, s)
  BY <1>3, <1>4, <1>5 DEF EntriesOf
<1>. QED
  BY <1>3, <1>5 DEF Agrees, Matches

LEMMA WholeByEntries ==
  ASSUME NEW d \in Structs, NEW s \in Accepts("struct", d), NEW entries, Agrees(d.fields, entries, s)
  PROVE  MapValue(entries) = Whole(d, s)
BY WholeStruct DEF Agrees, Matches

LEMMA NamesWhole ==
  ASSUME NEW s \in Accepts("struct", NamesSchema)
  PROVE  Names(s) = Whole(NamesSchema, s)
<1>. DEFINE fields == <<Field("de", Text), Field("en", Text), Field("es", Text),
                        Field("fr", Text), Field("ja", Text), Field("pt-BR", Text),
                        Field("ru", Text), Field("zh-CN", Text)>>
            entries == <<Renamed(s, "de", "german"), Renamed(s, "en", "english"),
                         Renamed(s, "es", "spanish"), Renamed(s, "fr", "french"),
                         Renamed(s, "ja", "japanese"), Renamed(s, "pt-BR", "brazilian_portuguese"),
                         Renamed(s, "ru", "russian"), Renamed(s, "zh-CN", "simplified_chinese")>>
<1>1. \A field \in DOMAIN KeyOf : KeyOf[field] \in FieldNames
  BY DEF KeyOf, FieldNames
<1>2. /\ KeyOf["german"] = "de" /\ KeyOf["english"] = "en" /\ KeyOf["spanish"] = "es"
      /\ KeyOf["french"] = "fr" /\ KeyOf["japanese"] = "ja"
      /\ KeyOf["brazilian_portuguese"] = "pt-BR" /\ KeyOf["russian"] = "ru"
      /\ KeyOf["simplified_chinese"] = "zh-CN"
  BY DEF KeyOf
<1>3. \A i \in 1 .. 8 : Agrees(<<fields[i]>>, <<entries[i]>>, s)
  <2>1. \A field \in DOMAIN KeyOf :
          Agrees(<<Field(KeyOf[field], Text)>>, <<Renamed(s, KeyOf[field], field)>>, s)
    BY <1>1, RenamedAgrees
  <2>2. /\ Agrees(<<fields[1]>>, <<entries[1]>>, s)
        /\ Agrees(<<fields[2]>>, <<entries[2]>>, s)
        /\ Agrees(<<fields[3]>>, <<entries[3]>>, s)
        /\ Agrees(<<fields[4]>>, <<entries[4]>>, s)
        /\ Agrees(<<fields[5]>>, <<entries[5]>>, s)
        /\ Agrees(<<fields[6]>>, <<entries[6]>>, s)
        /\ Agrees(<<fields[7]>>, <<entries[7]>>, s)
        /\ Agrees(<<fields[8]>>, <<entries[8]>>, s)
    BY <1>2, <2>1, KeyOfIs
  <2>. QED
    BY <2>2
<1>4. fields = [i \in 1 .. 8 |-> fields[i]] /\ entries = [i \in 1 .. 8 |-> entries[i]]
  OBVIOUS
<1>5. Agrees(NamesSchema.fields, entries, s)
  <2>1. NamesSchema.fields = fields
    BY NamesDtype
  <2>. HIDE DEF fields, entries
  <2>2. Agrees(fields, entries, s)
    BY <1>3, <1>4, EachAgrees
  <2>. QED
    BY <2>1, <2>2
<1>. QED
  BY <1>5, NamesDtype, WholeByEntries DEF Names

LEMMA NamesAgrees ==
  ASSUME NEW s
  PROVE  Agrees(<<Field("names", NamesSchema)>>, NamesEntry(s), s)
<1>1. "names" \in PlainNames
  BY KeyOfIs DEF PlainNames, FieldNames
<1>. QED
  BY <1>1, NamesDtype, NamesWhole, StructAgrees DEF NamesEntry

LEMMA ContinentWhole ==
  ASSUME NEW s \in Accepts("struct", ContinentSchema)
  PROVE  Continent(s) = Whole(ContinentSchema, s)
<1>1. ContinentSchema.fields
        = FieldsOf(<<"code">>, Text) \o FieldsOf(<<"geoname_id">>, U32)
            \o <<Field("names", NamesSchema)>>
  BY ContinentDtype DEF FieldsOf
<1>2. /\ Agrees(FieldsOf(<<"code">>, Text), Strings(s, <<"code">>), s)
      /\ Agrees(FieldsOf(<<"geoname_id">>, U32), Uints32(s, <<"geoname_id">>), s)
  <2>1. <<"code">> \in Seq(PlainNames) /\ <<"geoname_id">> \in Seq(PlainNames)
    BY KeyOfIs DEF PlainNames, FieldNames
  <2>. QED
    BY <2>1, KindsAgree
<1>3. Agrees(ContinentSchema.fields,
             Strings(s, <<"code">>) \o Uints32(s, <<"geoname_id">>) \o NamesEntry(s), s)
  BY <1>1, <1>2, NamesAgrees, JoinAgrees
<1>. QED
  BY <1>3, ContinentDtype, WholeByEntries DEF Continent

LEMMA TypeAgrees ==
  ASSUME NEW s
  PROVE  Agrees(<<Field("type", Text)>>, <<Renamed(s, "type", "representation_type")>>, s)
<1>1. /\ "representation_type" \in DOMAIN KeyOf /\ KeyOf["representation_type"] = "type"
      /\ "type" \in FieldNames
  BY DEF KeyOf, FieldNames
<1>. QED
  BY <1>1, RenamedAgrees

LEMMA CountryWhole ==
  ASSUME NEW s \in Accepts("struct", CountrySchema)
  PROVE  Country(s) = Whole(CountrySchema, s)
<1>1. CountrySchema.fields
        = FieldsOf(<<"geoname_id">>, U32) \o FieldsOf(<<"is_in_european_union">>, Bool)
            \o FieldsOf(<<"iso_code">>, Text) \o <<Field("names", NamesSchema)>>
  BY CountryDtype DEF FieldsOf
<1>2. /\ Agrees(FieldsOf(<<"geoname_id">>, U32), Uints32(s, <<"geoname_id">>), s)
      /\ Agrees(FieldsOf(<<"is_in_european_union">>, Bool),
                Booleans(s, <<"is_in_european_union">>), s)
      /\ Agrees(FieldsOf(<<"iso_code">>, Text), Strings(s, <<"iso_code">>), s)
  <2>1. /\ <<"geoname_id">> \in Seq(PlainNames)
        /\ <<"is_in_european_union">> \in Seq(PlainNames)
        /\ <<"iso_code">> \in Seq(PlainNames)
    BY KeyOfIs DEF PlainNames, FieldNames
  <2>. QED
    BY <2>1, KindsAgree
<1>3. Agrees(CountrySchema.fields,
             Uints32(s, <<"geoname_id">>) \o Booleans(s, <<"is_in_european_union">>)
               \o Strings(s, <<"iso_code">>) \o NamesEntry(s), s)
  BY <1>1, <1>2, NamesAgrees, JoinAgrees
<1>. QED
  BY <1>3, CountryDtype, WholeByEntries DEF Country

LEMMA RepresentedCountryWhole ==
  ASSUME NEW s \in Accepts("struct", RepresentedCountrySchema)
  PROVE  RepresentedCountry(s) = Whole(RepresentedCountrySchema, s)
<1>1. RepresentedCountrySchema.fields
        = FieldsOf(<<"geoname_id">>, U32) \o FieldsOf(<<"is_in_european_union">>, Bool)
            \o FieldsOf(<<"iso_code">>, Text) \o <<Field("names", NamesSchema)>>
            \o <<Field("type", Text)>>
  BY RepresentedCountryDtype DEF FieldsOf
<1>2. /\ Agrees(FieldsOf(<<"geoname_id">>, U32), Uints32(s, <<"geoname_id">>), s)
      /\ Agrees(FieldsOf(<<"is_in_european_union">>, Bool),
                Booleans(s, <<"is_in_european_union">>), s)
      /\ Agrees(FieldsOf(<<"iso_code">>, Text), Strings(s, <<"iso_code">>), s)
  <2>1. /\ <<"geoname_id">> \in Seq(PlainNames)
        /\ <<"is_in_european_union">> \in Seq(PlainNames)
        /\ <<"iso_code">> \in Seq(PlainNames)
    BY KeyOfIs DEF PlainNames, FieldNames
  <2>. QED
    BY <2>1, KindsAgree
<1>3. Agrees(RepresentedCountrySchema.fields,
             Uints32(s, <<"geoname_id">>) \o Booleans(s, <<"is_in_european_union">>)
               \o Strings(s, <<"iso_code">>) \o NamesEntry(s)
               \o <<Renamed(s, "type", "representation_type")>>, s)
  BY <1>1, <1>2, NamesAgrees, TypeAgrees, JoinAgrees
<1>. QED
  BY <1>3, RepresentedCountryDtype, WholeByEntries DEF RepresentedCountry

LEMMA CountryTraitsWhole ==
  ASSUME NEW s \in Accepts("struct", CountryTraitsSchema)
  PROVE  CountryTraits(s) = Whole(CountryTraitsSchema, s)
<1>1. CountryTraitsSchema.fields
        = FieldsOf(<<"is_anycast">>, Bool)
  BY CountryTraitsDtype DEF FieldsOf
<1>2. Agrees(FieldsOf(<<"is_anycast">>, Bool), Booleans(s, <<"is_anycast">>), s)
  <2>1. <<"is_anycast">> \in Seq(PlainNames)
    BY KeyOfIs DEF PlainNames, FieldNames
  <2>. QED
    BY <2>1, KindsAgree
<1>3. Agrees(CountryTraitsSchema.fields, Booleans(s, <<"is_anycast">>), s)
  BY <1>1, <1>2
<1>. QED
  BY <1>3, CountryTraitsDtype, WholeByEntries DEF CountryTraits

LEMMA CountryRecordWhole ==
  ASSUME NEW s \in Accepts("struct", CountryRecordSchema)
  PROVE  CountryRecord(s) = Whole(CountryRecordSchema, s)
<1>. DEFINE entries ==
              <<Entry("continent", Continent(StructIn(s, "continent"))),
                Entry("country", Country(StructIn(s, "country"))),
                Entry("registered_country", Country(StructIn(s, "registered_country"))),
                Entry("represented_country", RepresentedCountry(StructIn(s, "represented_country"))),
                Entry("traits", CountryTraits(StructIn(s, "traits")))>>
            fields == CountryRecordSchema.fields
<1>1. {"continent", "country", "registered_country", "represented_country", "traits"}
      \subseteq PlainNames
  BY KeyOfIs DEF PlainNames, FieldNames
<1>2. Agrees(<<fields[1]>>, <<entries[1]>>, s)
  BY <1>1, CountryRecordDtype, ContinentDtype, ContinentWhole, StructAgrees
<1>3. Agrees(<<fields[2]>>, <<entries[2]>>, s)
  BY <1>1, CountryRecordDtype, CountryDtype, CountryWhole, StructAgrees
<1>4. Agrees(<<fields[3]>>, <<entries[3]>>, s)
  BY <1>1, CountryRecordDtype, CountryDtype, CountryWhole, StructAgrees
<1>5. Agrees(<<fields[4]>>, <<entries[4]>>, s)
  BY <1>1, CountryRecordDtype, RepresentedCountryDtype, RepresentedCountryWhole, StructAgrees
<1>6. Agrees(<<fields[5]>>, <<entries[5]>>, s)
  BY <1>1, CountryRecordDtype, CountryTraitsDtype, CountryTraitsWhole, StructAgrees
<1>7. fields = [i \in 1 .. 5 |-> fields[i]]
  BY CountryRecordDtype
<1>8. entries = [i \in 1 .. 5 |-> entries[i]]
  OBVIOUS
<1>9. Agrees(fields, entries, s)
  <2>. HIDE DEF fields, entries
  <2>1. \A i \in 1 .. 5 : Agrees(<<fields[i]>>, <<entries[i]>>, s)
    BY <1>2, <1>3, <1>4, <1>5, <1>6
  <2>. QED
    BY <1>7, <1>8, <2>1, EachAgrees
<1>. QED
  BY <1>9, CountryRecordDtype, WholeByEntries DEF CountryRecord

LEMMA CityWhole ==
  ASSUME NEW s \in Accepts("struct", CitySchema)
  PROVE  City(s) = Whole(CitySchema, s)
<1>1. CitySchema.fields
        = FieldsOf(<<"geoname_id">>, U32) \o <<Field("names", NamesSchema)>>
  BY CityDtype DEF FieldsOf
<1>2. Agrees(FieldsOf(<<"geoname_id">>, U32), Uints32(s, <<"geoname_id">>), s)
  <2>1. <<"geoname_id">> \in Seq(PlainNames)
    BY KeyOfIs DEF PlainNames, FieldNames
  <2>. QED
    BY <2>1, KindsAgree
<1>3. Agrees(CitySchema.fields,
             Uints32(s, <<"geoname_id">>) \o NamesEntry(s), s)
  BY <1>1, <1>2, NamesAgrees, JoinAgrees
<1>. QED
  BY <1>3, CityDtype, WholeByEntries DEF City

LEMMA LocationWhole ==
  ASSUME NEW s \in Accepts("struct", LocationSchema)
  PROVE  Location(s) = Whole(LocationSchema, s)
<1>1. LocationSchema.fields
        = FieldsOf(<<"accuracy_radius">>, U16)
            \o FieldsOf(<<"latitude", "longitude">>, F64) \o FieldsOf(<<"metro_code">>, U16)
            \o FieldsOf(<<"time_zone">>, Text)
  BY LocationDtype DEF FieldsOf
<1>2. /\ Agrees(FieldsOf(<<"accuracy_radius">>, U16), Uints16(s, <<"accuracy_radius">>), s)
      /\ Agrees(FieldsOf(<<"latitude", "longitude">>, F64),
                Floats64(s, <<"latitude", "longitude">>), s)
      /\ Agrees(FieldsOf(<<"metro_code">>, U16), Uints16(s, <<"metro_code">>), s)
      /\ Agrees(FieldsOf(<<"time_zone">>, Text), Strings(s, <<"time_zone">>), s)
  <2>1. /\ <<"accuracy_radius">> \in Seq(PlainNames)
        /\ <<"latitude", "longitude">> \in Seq(PlainNames)
        /\ <<"metro_code">> \in Seq(PlainNames)
        /\ <<"time_zone">> \in Seq(PlainNames)
    BY KeyOfIs DEF PlainNames, FieldNames
  <2>. QED
    BY <2>1, KindsAgree
<1>3. Agrees(LocationSchema.fields,
             Uints16(s, <<"accuracy_radius">>) \o Floats64(s, <<"latitude", "longitude">>)
               \o Uints16(s, <<"metro_code">>) \o Strings(s, <<"time_zone">>), s)
  BY <1>1, <1>2, JoinAgrees
<1>. QED
  BY <1>3, LocationDtype, WholeByEntries DEF Location

LEMMA PostalWhole ==
  ASSUME NEW s \in Accepts("struct", PostalSchema)
  PROVE  Postal(s) = Whole(PostalSchema, s)
<1>1. PostalSchema.fields
        = FieldsOf(<<"code">>, Text)
  BY PostalDtype DEF FieldsOf
<1>2. Agrees(FieldsOf(<<"code">>, Text), Strings(s, <<"code">>), s)
  <2>1. <<"code">> \in Seq(PlainNames)
    BY KeyOfIs DEF PlainNames, FieldNames
  <2>. QED
    BY <2>1, KindsAgree
<1>3. Agrees(PostalSchema.fields, Strings(s, <<"code">>), s)
  BY <1>1, <1>2
<1>. QED
  BY <1>3, PostalDtype, WholeByEntries DEF Postal

LEMMA SubdivisionWhole ==
  ASSUME NEW s \in Accepts("struct", SubdivisionSchema)
  PROVE  Subdivision(s) = Whole(SubdivisionSchema, s)
<1>1. SubdivisionSchema.fields
        = FieldsOf(<<"geoname_id">>, U32) \o FieldsOf(<<"iso_code">>, Text)
            \o <<Field("names", NamesSchema)>>
  BY SubdivisionDtype DEF FieldsOf
<1>2. /\ Agrees(FieldsOf(<<"geoname_id">>, U32), Uints32(s, <<"geoname_id">>), s)
      /\ Agrees(FieldsOf(<<"iso_code">>, Text), Strings(s, <<"iso_code">>), s)
  <2>1. /\ <<"geoname_id">> \in Seq(PlainNames)
        /\ <<"iso_code">> \in Seq(PlainNames)
    BY KeyOfIs DEF PlainNames, FieldNames
  <2>. QED
    BY <2>1, KindsAgree
<1>3. Agrees(SubdivisionSchema.fields,
             Uints32(s, <<"geoname_id">>) \o Strings(s, <<"iso_code">>) \o NamesEntry(s), s)
  BY <1>1, <1>2, NamesAgrees, JoinAgrees
<1>. QED
  BY <1>3, SubdivisionDtype, WholeByEntries DEF Subdivision

LEMMA SubdivisionsInDtype == DtypesTo[3] \subseteq Dtype
BY Depths, DtypesToInDtype, MaxDepthIsNatural

LEMMA CityRecordWhole ==
  ASSUME NEW s \in Accepts("struct", CityRecordSchema)
  PROVE  CityRecord(s) = Whole(CityRecordSchema, s)
<1>. DEFINE entries ==
              <<Entry("city", City(StructIn(s, "city"))),
                Entry("continent", Continent(StructIn(s, "continent"))),
                Entry("country", Country(StructIn(s, "country"))),
                Entry("location", Location(StructIn(s, "location"))),
                Entry("postal", Postal(StructIn(s, "postal"))),
                Entry("registered_country", Country(StructIn(s, "registered_country"))),
                Entry("represented_country", RepresentedCountry(StructIn(s, "represented_country"))),
                Entry("subdivisions", ListValue([i \in 1 .. Len(ItemsIn(s, "subdivisions")) |->
                                    Subdivision(ItemsIn(s, "subdivisions")[i])])),
                Entry("traits", CountryTraits(StructIn(s, "traits")))>>
            fields == CityRecordSchema.fields
<1>1. {"city", "continent", "country", "location", "postal", "registered_country",
        "represented_country", "subdivisions", "traits"} \subseteq PlainNames
  BY KeyOfIs DEF PlainNames, FieldNames
<1>2. Agrees(<<fields[1]>>, <<entries[1]>>, s)
  BY <1>1, CityRecordDtype, CityDtype, CityWhole, StructAgrees
<1>3. Agrees(<<fields[2]>>, <<entries[2]>>, s)
  BY <1>1, CityRecordDtype, ContinentDtype, ContinentWhole, StructAgrees
<1>4. Agrees(<<fields[3]>>, <<entries[3]>>, s)
  BY <1>1, CityRecordDtype, CountryDtype, CountryWhole, StructAgrees
<1>5. Agrees(<<fields[4]>>, <<entries[4]>>, s)
  BY <1>1, CityRecordDtype, LocationDtype, LocationWhole, StructAgrees
<1>6. Agrees(<<fields[5]>>, <<entries[5]>>, s)
  BY <1>1, CityRecordDtype, PostalDtype, PostalWhole, StructAgrees
<1>7. Agrees(<<fields[6]>>, <<entries[6]>>, s)
  BY <1>1, CityRecordDtype, CountryDtype, CountryWhole, StructAgrees
<1>8. Agrees(<<fields[7]>>, <<entries[7]>>, s)
  BY <1>1, CityRecordDtype, RepresentedCountryDtype, RepresentedCountryWhole, StructAgrees
<1>9. Agrees(<<fields[8]>>, <<entries[8]>>, s)
  <2>1. Agrees(<<Field("subdivisions", ListOf(SubdivisionSchema))>>,
               <<Entry("subdivisions", ListValue([i \in 1 .. Len(ItemsIn(s, "subdivisions")) |->
                                                Subdivision(ItemsIn(s, "subdivisions")[i])]))>>, s)
    BY <1>1, SubdivisionDtype, SubdivisionWhole, SubdivisionsDtype, SubdivisionsInDtype, ListAgrees
  <2>2. fields[8] = Field("subdivisions", ListOf(SubdivisionSchema))
    BY CityRecordDtype
  <2>. QED
    BY <2>1, <2>2
<1>10. Agrees(<<fields[9]>>, <<entries[9]>>, s)
  BY <1>1, CityRecordDtype, CountryTraitsDtype, CountryTraitsWhole, StructAgrees
<1>11. fields = [i \in 1 .. 9 |-> fields[i]]
  BY CityRecordDtype
<1>12. entries = [i \in 1 .. 9 |-> entries[i]]
  OBVIOUS
<1>13. Agrees(fields, entries, s)
  <2>. HIDE DEF fields, entries
  <2>1. \A i \in 1 .. 9 : Agrees(<<fields[i]>>, <<entries[i]>>, s)
    BY <1>2, <1>3, <1>4, <1>5, <1>6, <1>7, <1>8, <1>9, <1>10
  <2>. QED
    BY <1>11, <1>12, <2>1, EachAgrees
<1>. QED
  BY <1>13, CityRecordDtype, WholeByEntries DEF CityRecord

LEMMA EnterpriseCityWhole ==
  ASSUME NEW s \in Accepts("struct", Confident(CitySchema))
  PROVE  EnterpriseCity(s) = Whole(Confident(CitySchema), s)
<1>1. Confident(CitySchema).fields
        = FieldsOf(<<"confidence">>, U8) \o FieldsOf(<<"geoname_id">>, U32)
            \o <<Field("names", NamesSchema)>>
  BY EnterpriseCityDtype DEF FieldsOf
<1>2. /\ Agrees(FieldsOf(<<"confidence">>, U8), Uints8(s, <<"confidence">>), s)
      /\ Agrees(FieldsOf(<<"geoname_id">>, U32), Uints32(s, <<"geoname_id">>), s)
  <2>1. /\ <<"confidence">> \in Seq(PlainNames)
        /\ <<"geoname_id">> \in Seq(PlainNames)
    BY KeyOfIs DEF PlainNames, FieldNames
  <2>. QED
    BY <2>1, KindsAgree
<1>3. Agrees(Confident(CitySchema).fields,
             Uints8(s, <<"confidence">>) \o Uints32(s, <<"geoname_id">>) \o NamesEntry(s), s)
  BY <1>1, <1>2, NamesAgrees, JoinAgrees
<1>. QED
  BY <1>3, EnterpriseCityDtype, WholeByEntries DEF EnterpriseCity

LEMMA EnterpriseCountryWhole ==
  ASSUME NEW s \in Accepts("struct", Confident(CountrySchema))
  PROVE  EnterpriseCountry(s) = Whole(Confident(CountrySchema), s)
<1>1. Confident(CountrySchema).fields
        = FieldsOf(<<"confidence">>, U8) \o FieldsOf(<<"geoname_id">>, U32)
            \o FieldsOf(<<"is_in_european_union">>, Bool) \o FieldsOf(<<"iso_code">>, Text)
            \o <<Field("names", NamesSchema)>>
  BY EnterpriseCountryDtype DEF FieldsOf
<1>2. /\ Agrees(FieldsOf(<<"confidence">>, U8), Uints8(s, <<"confidence">>), s)
      /\ Agrees(FieldsOf(<<"geoname_id">>, U32), Uints32(s, <<"geoname_id">>), s)
      /\ Agrees(FieldsOf(<<"is_in_european_union">>, Bool),
                Booleans(s, <<"is_in_european_union">>), s)
      /\ Agrees(FieldsOf(<<"iso_code">>, Text), Strings(s, <<"iso_code">>), s)
  <2>1. /\ <<"confidence">> \in Seq(PlainNames)
        /\ <<"geoname_id">> \in Seq(PlainNames)
        /\ <<"is_in_european_union">> \in Seq(PlainNames)
        /\ <<"iso_code">> \in Seq(PlainNames)
    BY KeyOfIs DEF PlainNames, FieldNames
  <2>. QED
    BY <2>1, KindsAgree
<1>3. Agrees(Confident(CountrySchema).fields,
             Uints8(s, <<"confidence">>) \o Uints32(s, <<"geoname_id">>)
               \o Booleans(s, <<"is_in_european_union">>) \o Strings(s, <<"iso_code">>)
               \o NamesEntry(s), s)
  BY <1>1, <1>2, NamesAgrees, JoinAgrees
<1>. QED
  BY <1>3, EnterpriseCountryDtype, WholeByEntries DEF EnterpriseCountry

LEMMA EnterpriseLocationWhole ==
  ASSUME NEW s \in Accepts("struct", LocationSchema)
  PROVE  EnterpriseLocation(s) = Whole(LocationSchema, s)
<1>1. LocationSchema.fields
        = FieldsOf(<<"accuracy_radius">>, U16)
            \o FieldsOf(<<"latitude", "longitude">>, F64) \o FieldsOf(<<"metro_code">>, U16)
            \o FieldsOf(<<"time_zone">>, Text)
  BY LocationDtype DEF FieldsOf
<1>2. /\ Agrees(FieldsOf(<<"accuracy_radius">>, U16), Uints16(s, <<"accuracy_radius">>), s)
      /\ Agrees(FieldsOf(<<"latitude", "longitude">>, F64),
                Floats64(s, <<"latitude", "longitude">>), s)
      /\ Agrees(FieldsOf(<<"metro_code">>, U16), Uints16(s, <<"metro_code">>), s)
      /\ Agrees(FieldsOf(<<"time_zone">>, Text), Strings(s, <<"time_zone">>), s)
  <2>1. /\ <<"accuracy_radius">> \in Seq(PlainNames)
        /\ <<"latitude", "longitude">> \in Seq(PlainNames)
        /\ <<"metro_code">> \in Seq(PlainNames)
        /\ <<"time_zone">> \in Seq(PlainNames)
    BY KeyOfIs DEF PlainNames, FieldNames
  <2>. QED
    BY <2>1, KindsAgree
<1>3. Agrees(LocationSchema.fields,
             Uints16(s, <<"accuracy_radius">>) \o Floats64(s, <<"latitude", "longitude">>)
               \o Uints16(s, <<"metro_code">>) \o Strings(s, <<"time_zone">>), s)
  BY <1>1, <1>2, JoinAgrees
<1>. QED
  BY <1>3, LocationDtype, WholeByEntries DEF EnterpriseLocation

LEMMA EnterprisePostalWhole ==
  ASSUME NEW s \in Accepts("struct", EnterprisePostalSchema)
  PROVE  EnterprisePostal(s) = Whole(EnterprisePostalSchema, s)
<1>1. EnterprisePostalSchema.fields
        = FieldsOf(<<"code">>, Text) \o FieldsOf(<<"confidence">>, U8)
  BY EnterprisePostalDtype DEF FieldsOf
<1>2. /\ Agrees(FieldsOf(<<"code">>, Text), Strings(s, <<"code">>), s)
      /\ Agrees(FieldsOf(<<"confidence">>, U8), Uints8(s, <<"confidence">>), s)
  <2>1. /\ <<"code">> \in Seq(PlainNames)
        /\ <<"confidence">> \in Seq(PlainNames)
    BY KeyOfIs DEF PlainNames, FieldNames
  <2>. QED
    BY <2>1, KindsAgree
<1>3. Agrees(EnterprisePostalSchema.fields,
             Strings(s, <<"code">>) \o Uints8(s, <<"confidence">>), s)
  BY <1>1, <1>2, JoinAgrees
<1>. QED
  BY <1>3, EnterprisePostalDtype, WholeByEntries DEF EnterprisePostal

LEMMA EnterpriseSubdivisionWhole ==
  ASSUME NEW s \in Accepts("struct", Confident(SubdivisionSchema))
  PROVE  EnterpriseSubdivision(s) = Whole(Confident(SubdivisionSchema), s)
<1>1. Confident(SubdivisionSchema).fields
        = FieldsOf(<<"confidence">>, U8) \o FieldsOf(<<"geoname_id">>, U32)
            \o FieldsOf(<<"iso_code">>, Text) \o <<Field("names", NamesSchema)>>
  BY EnterpriseSubdivisionDtype DEF FieldsOf
<1>2. /\ Agrees(FieldsOf(<<"confidence">>, U8), Uints8(s, <<"confidence">>), s)
      /\ Agrees(FieldsOf(<<"geoname_id">>, U32), Uints32(s, <<"geoname_id">>), s)
      /\ Agrees(FieldsOf(<<"iso_code">>, Text), Strings(s, <<"iso_code">>), s)
  <2>1. /\ <<"confidence">> \in Seq(PlainNames)
        /\ <<"geoname_id">> \in Seq(PlainNames)
        /\ <<"iso_code">> \in Seq(PlainNames)
    BY KeyOfIs DEF PlainNames, FieldNames
  <2>. QED
    BY <2>1, KindsAgree
<1>3. Agrees(Confident(SubdivisionSchema).fields,
             Uints8(s, <<"confidence">>) \o Uints32(s, <<"geoname_id">>)
               \o Strings(s, <<"iso_code">>) \o NamesEntry(s), s)
  BY <1>1, <1>2, NamesAgrees, JoinAgrees
<1>. QED
  BY <1>3, EnterpriseSubdivisionDtype, WholeByEntries DEF EnterpriseSubdivision

LEMMA EnterpriseTraitsWhole ==
  ASSUME NEW s \in Accepts("struct", EnterpriseTraitsSchema)
  PROVE  EnterpriseTraits(s) = Whole(EnterpriseTraitsSchema, s)
<1>1. EnterpriseTraitsSchema.fields
        = FieldsOf(<<"autonomous_system_number">>, U32)
            \o FieldsOf(<<"autonomous_system_organization">>, Text)
            \o FieldsOf(<<"connection_type", "domain">>, Text)
            \o FieldsOf(<<"is_anonymous", "is_anonymous_vpn", "is_anycast",
                          "is_hosting_provider">>, Bool)
            \o FieldsOf(<<"isp">>, Text)
            \o FieldsOf(<<"is_public_proxy", "is_residential_proxy", "is_tor_exit_node">>, Bool)
            \o FieldsOf(<<"mobile_country_code", "mobile_network_code", "organization",
                          "user_type">>, Text)
  BY EnterpriseTraitsDtype DEF FieldsOf
<1>2. /\ Agrees(FieldsOf(<<"autonomous_system_number">>, U32),
                Uints32(s, <<"autonomous_system_number">>), s)
      /\ Agrees(FieldsOf(<<"autonomous_system_organization">>, Text),
                Strings(s, <<"autonomous_system_organization">>), s)
      /\ Agrees(FieldsOf(<<"connection_type", "domain">>, Text),
                Strings(s, <<"connection_type", "domain">>), s)
      /\ Agrees(FieldsOf(<<"is_anonymous", "is_anonymous_vpn", "is_anycast",
                           "is_hosting_provider">>, Bool),
                Booleans(s, <<"is_anonymous", "is_anonymous_vpn", "is_anycast",
                              "is_hosting_provider">>), s)
      /\ Agrees(FieldsOf(<<"isp">>, Text), Strings(s, <<"isp">>), s)
      /\ Agrees(FieldsOf(<<"is_public_proxy", "is_residential_proxy", "is_tor_exit_node">>, Bool),
                Booleans(s, <<"is_public_proxy", "is_residential_proxy", "is_tor_exit_node">>), s)
      /\ Agrees(FieldsOf(<<"mobile_country_code", "mobile_network_code", "organization",
                           "user_type">>, Text),
                Strings(s, <<"mobile_country_code", "mobile_network_code", "organization",
                             "user_type">>), s)
  <2>1. /\ <<"autonomous_system_number">> \in Seq(PlainNames)
        /\ <<"autonomous_system_organization">> \in Seq(PlainNames)
        /\ <<"connection_type", "domain">> \in Seq(PlainNames)
        /\ <<"is_anonymous", "is_anonymous_vpn", "is_anycast",
             "is_hosting_provider">> \in Seq(PlainNames)
        /\ <<"isp">> \in Seq(PlainNames)
        /\ <<"is_public_proxy", "is_residential_proxy", "is_tor_exit_node">> \in Seq(PlainNames)
        /\ <<"mobile_country_code", "mobile_network_code", "organization",
             "user_type">> \in Seq(PlainNames)
    BY KeyOfIs DEF PlainNames, FieldNames
  <2>. QED
    BY <2>1, KindsAgree
<1>3. Agrees(EnterpriseTraitsSchema.fields,
             Uints32(s, <<"autonomous_system_number">>)
               \o Strings(s, <<"autonomous_system_organization">>)
               \o Strings(s, <<"connection_type", "domain">>)
               \o Booleans(s, <<"is_anonymous", "is_anonymous_vpn", "is_anycast",
                                "is_hosting_provider">>)
               \o Strings(s, <<"isp">>)
               \o Booleans(s, <<"is_public_proxy", "is_residential_proxy", "is_tor_exit_node">>)
               \o Strings(s, <<"mobile_country_code", "mobile_network_code", "organization",
                               "user_type">>), s)
  BY <1>1, <1>2, JoinAgrees
<1>. QED
  BY <1>3, EnterpriseTraitsDtype, WholeByEntries DEF EnterpriseTraits, Asn

LEMMA EnterpriseRecordWhole ==
  ASSUME NEW s \in Accepts("struct", EnterpriseRecordSchema)
  PROVE  EnterpriseRecord(s) = Whole(EnterpriseRecordSchema, s)
<1>. DEFINE entries ==
              <<Entry("city", EnterpriseCity(StructIn(s, "city"))),
                Entry("continent", Continent(StructIn(s, "continent"))),
                Entry("country", EnterpriseCountry(StructIn(s, "country"))),
                Entry("location", EnterpriseLocation(StructIn(s, "location"))),
                Entry("postal", EnterprisePostal(StructIn(s, "postal"))),
                Entry("registered_country", EnterpriseCountry(StructIn(s, "registered_country"))),
                Entry("represented_country", RepresentedCountry(StructIn(s, "represented_country"))),
                Entry("subdivisions", ListValue([i \in 1 .. Len(ItemsIn(s, "subdivisions")) |->
                                    EnterpriseSubdivision(ItemsIn(s, "subdivisions")[i])])),
                Entry("traits", EnterpriseTraits(StructIn(s, "traits")))>>
            fields == EnterpriseRecordSchema.fields
<1>1. {"city", "continent", "country", "location", "postal", "registered_country",
        "represented_country", "subdivisions", "traits"} \subseteq PlainNames
  BY KeyOfIs DEF PlainNames, FieldNames
<1>2. Agrees(<<fields[1]>>, <<entries[1]>>, s)
  BY <1>1, EnterpriseRecordDtype, EnterpriseCityDtype, EnterpriseCityWhole, StructAgrees
<1>3. Agrees(<<fields[2]>>, <<entries[2]>>, s)
  BY <1>1, EnterpriseRecordDtype, ContinentDtype, ContinentWhole, StructAgrees
<1>4. Agrees(<<fields[3]>>, <<entries[3]>>, s)
  BY <1>1, EnterpriseRecordDtype, EnterpriseCountryDtype, EnterpriseCountryWhole, StructAgrees
<1>5. Agrees(<<fields[4]>>, <<entries[4]>>, s)
  BY <1>1, EnterpriseRecordDtype, LocationDtype, EnterpriseLocationWhole, StructAgrees
<1>6. Agrees(<<fields[5]>>, <<entries[5]>>, s)
  BY <1>1, EnterpriseRecordDtype, EnterprisePostalDtype, EnterprisePostalWhole, StructAgrees
<1>7. Agrees(<<fields[6]>>, <<entries[6]>>, s)
  BY <1>1, EnterpriseRecordDtype, EnterpriseCountryDtype, EnterpriseCountryWhole, StructAgrees
<1>8. Agrees(<<fields[7]>>, <<entries[7]>>, s)
  BY <1>1, EnterpriseRecordDtype, RepresentedCountryDtype, RepresentedCountryWhole, StructAgrees
<1>9. Agrees(<<fields[8]>>, <<entries[8]>>, s)
  <2>1. Agrees(<<Field("subdivisions", ListOf(Confident(SubdivisionSchema)))>>,
               <<Entry("subdivisions", ListValue([i \in 1 .. Len(ItemsIn(s, "subdivisions")) |->
                                    EnterpriseSubdivision(ItemsIn(s, "subdivisions")[i])]))>>, s)
    BY <1>1, EnterpriseSubdivisionDtype, EnterpriseSubdivisionWhole,
       EnterpriseSubdivisionsDtype, SubdivisionsInDtype, ListAgrees
  <2>2. fields[8] = Field("subdivisions", ListOf(Confident(SubdivisionSchema)))
    BY EnterpriseRecordDtype
  <2>. QED
    BY <2>1, <2>2
<1>10. Agrees(<<fields[9]>>, <<entries[9]>>, s)
  BY <1>1, EnterpriseRecordDtype, EnterpriseTraitsDtype, EnterpriseTraitsWhole, StructAgrees
<1>11. fields = [i \in 1 .. 9 |-> fields[i]]
  BY EnterpriseRecordDtype
<1>12. entries = [i \in 1 .. 9 |-> entries[i]]
  OBVIOUS
<1>13. Agrees(fields, entries, s)
  <2>. HIDE DEF fields, entries
  <2>1. \A i \in 1 .. 9 : Agrees(<<fields[i]>>, <<entries[i]>>, s)
    BY <1>2, <1>3, <1>4, <1>5, <1>6, <1>7, <1>8, <1>9, <1>10
  <2>. QED
    BY <1>11, <1>12, <2>1, EachAgrees
<1>. QED
  BY <1>13, EnterpriseRecordDtype, WholeByEntries DEF EnterpriseRecord

LEMMA IspWhole ==
  ASSUME NEW s \in Accepts("struct", IspSchema)
  PROVE  IspRecord(s) = Whole(IspSchema, s)
<1>1. IspSchema.fields
        = FieldsOf(<<"autonomous_system_number">>, U32)
            \o FieldsOf(<<"autonomous_system_organization">>, Text)
            \o FieldsOf(<<"isp", "mobile_country_code", "mobile_network_code", "organization">>, Text)
  BY IspDtype DEF FieldsOf
<1>2. /\ Agrees(FieldsOf(<<"autonomous_system_number">>, U32),
                Uints32(s, <<"autonomous_system_number">>), s)
      /\ Agrees(FieldsOf(<<"autonomous_system_organization">>, Text),
                Strings(s, <<"autonomous_system_organization">>), s)
      /\ Agrees(FieldsOf(<<"isp", "mobile_country_code", "mobile_network_code",
                           "organization">>, Text),
                Strings(s, <<"isp", "mobile_country_code", "mobile_network_code",
                             "organization">>), s)
  <2>1. /\ <<"autonomous_system_number">> \in Seq(PlainNames)
        /\ <<"autonomous_system_organization">> \in Seq(PlainNames)
        /\ <<"isp", "mobile_country_code", "mobile_network_code", "organization">> \in Seq(PlainNames)
    BY KeyOfIs DEF PlainNames, FieldNames
  <2>. QED
    BY <2>1, KindsAgree
<1>3. Agrees(IspSchema.fields,
             Uints32(s, <<"autonomous_system_number">>)
               \o Strings(s, <<"autonomous_system_organization">>)
               \o Strings(s, <<"isp", "mobile_country_code", "mobile_network_code",
                               "organization">>), s)
  BY <1>1, <1>2, JoinAgrees
<1>. QED
  BY <1>3, IspDtype, WholeByEntries DEF IspRecord, Asn

LEMMA ConnectionTypeWhole ==
  ASSUME NEW s \in Accepts("struct", ConnectionTypeSchema)
  PROVE  ConnectionTypeRecord(s) = Whole(ConnectionTypeSchema, s)
<1>1. ConnectionTypeSchema.fields
        = FieldsOf(<<"connection_type">>, Text)
  BY ConnectionTypeDtype DEF FieldsOf
<1>2. Agrees(FieldsOf(<<"connection_type">>, Text), Strings(s, <<"connection_type">>), s)
  <2>1. <<"connection_type">> \in Seq(PlainNames)
    BY KeyOfIs DEF PlainNames, FieldNames
  <2>. QED
    BY <2>1, KindsAgree
<1>3. Agrees(ConnectionTypeSchema.fields, Strings(s, <<"connection_type">>), s)
  BY <1>1, <1>2
<1>. QED
  BY <1>3, ConnectionTypeDtype, WholeByEntries DEF ConnectionTypeRecord

LEMMA AnonymousIpWhole ==
  ASSUME NEW s \in Accepts("struct", AnonymousIpSchema)
  PROVE  AnonymousIpRecord(s) = Whole(AnonymousIpSchema, s)
<1>1. AnonymousIpSchema.fields
        = FieldsOf(<<"is_anonymous", "is_anonymous_vpn", "is_hosting_provider",
                     "is_public_proxy", "is_residential_proxy", "is_tor_exit_node">>, Bool)
  BY AnonymousIpDtype DEF FieldsOf
<1>2. Agrees(FieldsOf(<<"is_anonymous", "is_anonymous_vpn", "is_hosting_provider",
                        "is_public_proxy", "is_residential_proxy", "is_tor_exit_node">>, Bool),
             Booleans(s, <<"is_anonymous", "is_anonymous_vpn", "is_hosting_provider",
                           "is_public_proxy", "is_residential_proxy", "is_tor_exit_node">>), s)
  <2>1. <<"is_anonymous", "is_anonymous_vpn", "is_hosting_provider", "is_public_proxy",
          "is_residential_proxy", "is_tor_exit_node">> \in Seq(PlainNames)
    BY KeyOfIs DEF PlainNames, FieldNames
  <2>. QED
    BY <2>1, KindsAgree
<1>3. Agrees(AnonymousIpSchema.fields,
             Booleans(s, <<"is_anonymous", "is_anonymous_vpn", "is_hosting_provider",
                           "is_public_proxy", "is_residential_proxy", "is_tor_exit_node">>), s)
  BY <1>1, <1>2
<1>. QED
  BY <1>3, AnonymousIpDtype, WholeByEntries DEF AnonymousIpRecord

LEMMA DensityIncomeWhole ==
  ASSUME NEW s \in Accepts("struct", DensityIncomeSchema)
  PROVE  DensityIncomeRecord(s) = Whole(DensityIncomeSchema, s)
<1>1. DensityIncomeSchema.fields
        = FieldsOf(<<"average_income", "population_density">>, U32)
  BY DensityIncomeDtype DEF FieldsOf
<1>2. Agrees(FieldsOf(<<"average_income", "population_density">>, U32),
             Uints32(s, <<"average_income", "population_density">>), s)
  <2>1. <<"average_income", "population_density">> \in Seq(PlainNames)
    BY KeyOfIs DEF PlainNames, FieldNames
  <2>. QED
    BY <2>1, KindsAgree
<1>3. Agrees(DensityIncomeSchema.fields, Uints32(s, <<"average_income", "population_density">>), s)
  BY <1>1, <1>2
<1>. QED
  BY <1>3, DensityIncomeDtype, WholeByEntries DEF DensityIncomeRecord

LEMMA DomainWhole ==
  ASSUME NEW s \in Accepts("struct", DomainSchema)
  PROVE  DomainRecord(s) = Whole(DomainSchema, s)
<1>1. DomainSchema.fields
        = FieldsOf(<<"domain">>, Text)
  BY DomainDtype DEF FieldsOf
<1>2. Agrees(FieldsOf(<<"domain">>, Text), Strings(s, <<"domain">>), s)
  <2>1. <<"domain">> \in Seq(PlainNames)
    BY KeyOfIs DEF PlainNames, FieldNames
  <2>. QED
    BY <2>1, KindsAgree
<1>3. Agrees(DomainSchema.fields, Strings(s, <<"domain">>), s)
  BY <1>1, <1>2
<1>. QED
  BY <1>3, DomainDtype, WholeByEntries DEF DomainRecord

LEMMA AsnWhole ==
  ASSUME NEW s \in Accepts("struct", AsnSchema)
  PROVE  AsnRecord(s) = Whole(AsnSchema, s)
<1>1. AsnSchema.fields
        = FieldsOf(<<"autonomous_system_number">>, U32)
            \o FieldsOf(<<"autonomous_system_organization">>, Text)
  BY AsnDtype DEF FieldsOf
<1>2. /\ Agrees(FieldsOf(<<"autonomous_system_number">>, U32),
                Uints32(s, <<"autonomous_system_number">>), s)
      /\ Agrees(FieldsOf(<<"autonomous_system_organization">>, Text),
                Strings(s, <<"autonomous_system_organization">>), s)
  <2>1. /\ <<"autonomous_system_number">> \in Seq(PlainNames)
        /\ <<"autonomous_system_organization">> \in Seq(PlainNames)
    BY KeyOfIs DEF PlainNames, FieldNames
  <2>. QED
    BY <2>1, KindsAgree
<1>3. Agrees(AsnSchema.fields,
             Uints32(s, <<"autonomous_system_number">>)
               \o Strings(s, <<"autonomous_system_organization">>), s)
  BY <1>1, <1>2, JoinAgrees
<1>. QED
  BY <1>3, AsnDtype, WholeByEntries DEF AsnRecord, Asn

(* What maxminddb's struct for a database is converted to is the cell that  *)
(* decoding by the schema leads to, for every record that decodes.         *)
THEOREM StructsAreWhole ==
  ASSUME NEW k \in KnownStructs, NEW s \in Accepts("struct", RecordSchema[k])
  PROVE  DecodeKnown(k, s) = Whole(RecordSchema[k], s)
<1>1. CASE k = "City"
  BY <1>1, RecordSchemas, CityRecordWhole DEF DecodeKnown
<1>2. CASE k = "Country"
  BY <1>2, RecordSchemas, CountryRecordWhole DEF DecodeKnown
<1>3. CASE k = "Enterprise"
  BY <1>3, RecordSchemas, EnterpriseRecordWhole DEF DecodeKnown
<1>4. CASE k = "Isp"
  BY <1>4, RecordSchemas, IspWhole DEF DecodeKnown
<1>5. CASE k = "ConnectionType"
  BY <1>5, RecordSchemas, ConnectionTypeWhole DEF DecodeKnown
<1>6. CASE k = "AnonymousIp"
  BY <1>6, RecordSchemas, AnonymousIpWhole DEF DecodeKnown
<1>7. CASE k = "DensityIncome"
  BY <1>7, RecordSchemas, DensityIncomeWhole DEF DecodeKnown
<1>8. CASE k = "Domain"
  BY <1>8, RecordSchemas, DomainWhole DEF DecodeKnown
<1>9. CASE k = "Asn"
  BY <1>9, RecordSchemas, AsnWhole DEF DecodeKnown
<1>. QED
  BY <1>1, <1>2, <1>3, <1>4, <1>5, <1>6, <1>7, <1>8, <1>9, KnownStructsAre

----------------------------------------------------------------------------
(* From the database type to the cell.                                     *)

KnownRecordsInv ==
  /\ type \in TypesInUse /\ record \in RecordsOf(KnownSchema(type))
  /\ stage \in {"resolve", "decode", "build", "done"}
  /\ stage # "resolve" => dtype = KnownSchema(type) /\ known = FromDatabaseType(type)
  /\ stage \in {"build", "done"} =>
       /\ value \in Builds(dtype) /\ CellOf(dtype, value) = Whole(dtype, record)
       /\ known # NoRecord => value = Whole(dtype, record)
  /\ stage = "done" => cell = CellOf(dtype, value)

LEMMA RecordOfType ==
  ASSUME NEW t \in TypesInUse, NEW s \in RecordsOf(KnownSchema(t))
  PROVE  /\ KnownSchema(t) \in Structs /\ KnownSchema(t) \in Dtype
         /\ s \in KeepingTo(KnownSchema(t)) /\ s \in Accepts("struct", KnownSchema(t))
<1>1. t \in DatabaseTypes
  BY TypesAreKnown
<1>2. KnownSchema(t) \in Structs
  BY <1>1, TablesAreDtypes
<1>. QED
  BY <1>2, RecordsKeepToSchema, StructFacts, KeptIs

(* Decoding by the schema, and the cell of that.                           *)
LEMMA WholeIsFixed ==
  ASSUME NEW d \in Dtype, NEW s \in Accepts("struct", d)
  PROVE  /\ Yields("struct", d, s) \in Builds(d)
         /\ Whole(d, s) \in Builds(d) /\ CellOf(d, Whole(d, s)) = Whole(d, s)
<1>1. Yields("struct", d, s) \in Builds(d)
  BY FullIsBuildable, StructIsWay DEF FullValues
<1>. QED
  BY <1>1, CellsAreFixed DEF Whole

(* Any decoder's value of data that keeps to a dtype has that cell.        *)
LEMMA WholeHoweverDecoded ==
  ASSUME NEW d \in Dtype, NEW s \in KeepingTo(d), NEW way \in Ways
  PROVE  Yields(way, d, s) \in Builds(d) /\ CellOf(d, Yields(way, d, s)) = Whole(d, s)
<1>1. s \in Accepts(way, d) /\ CellOf(d, Yields(way, d, s)) = CellOf(d, Yields("seed", d, s))
  BY WaysAgree
<1>2. CellOf(d, Yields("struct", d, s)) = CellOf(d, Yields("seed", d, s))
  BY StructIsWay, WaysAgree
<1>3. Yields(way, d, s) \in Builds(d)
  BY <1>1, FullIsBuildable, StructIsWay DEF FullValues
<1>. QED
  BY <1>1, <1>2, <1>3 DEF Whole

(* The cell of a record is the same whichever way it is decoded: through   *)
(* maxminddb's struct, as decode_known does for the types that have one,   *)
(* or leaf by leaf of the schema, as for the rest and for any part of it.  *)
THEOREM StructsDecodeAlike ==
  ASSUME NEW k \in KnownStructs, NEW s \in KeepingTo(RecordSchema[k]), NEW way \in Ways
  PROVE  /\ DecodeKnown(k, s) \in Builds(RecordSchema[k])
         /\ CellOf(RecordSchema[k], DecodeKnown(k, s))
              = CellOf(RecordSchema[k], Yields(way, RecordSchema[k], s))
<1>1. RecordSchema[k] \in Dtype
  BY RecordSchemasAreStructs DEF Structs
<1>2. s \in Accepts("struct", RecordSchema[k])
  BY KeptIs
<1>. QED
  BY <1>1, <1>2, StructsAreWhole, WholeIsFixed, WholeHoweverDecoded

(* KnownRecordsInv is inductive: the value of a known record is its cell   *)
(* already, that of any other is what its schema decodes, and either way   *)
(* the cell that is built is the one the schema leads to.                  *)
THEOREM KnownRecordsInvariant == Spec => []KnownRecordsInv
<1>1. ASSUME Init
      PROVE  KnownRecordsInv
  BY <1>1 DEF Init, KnownRecordsInv
<1>2. ASSUME KnownRecordsInv, [Next]_vars
      PROVE  KnownRecordsInv'
  <2>1. CASE Resolve
    BY <1>2, <2>1 DEF Resolve, KnownRecordsInv
  <2>2. CASE DecodeStruct
    <3>1. dtype = KnownSchema(type) /\ known = FromDatabaseType(type) /\ known # NoRecord
      BY <1>2, <2>2 DEF DecodeStruct, KnownRecordsInv
    <3>2. known \in KnownStructs /\ dtype = RecordSchema[known]
      BY <3>1, FromTypeOfStruct
    <3>3. dtype \in Dtype /\ record \in Accepts("struct", dtype)
      BY <1>2, <3>1, RecordOfType DEF KnownRecordsInv
    <3>4. value' = Whole(dtype, record)
      BY <2>2, <3>2, <3>3, StructsAreWhole DEF DecodeStruct
    <3>5. Whole(dtype, record) \in Builds(dtype)
          /\ CellOf(dtype, Whole(dtype, record)) = Whole(dtype, record)
      BY <3>3, WholeIsFixed
    <3>. QED
      BY <1>2, <2>2, <3>4, <3>5 DEF DecodeStruct, KnownRecordsInv
  <2>3. CASE DecodeBySchema
    <3>1. dtype = KnownSchema(type) /\ known = NoRecord
      BY <1>2, <2>3 DEF DecodeBySchema, KnownRecordsInv
    <3>2. dtype \in Dtype /\ record \in KeepingTo(dtype)
      BY <1>2, <3>1, RecordOfType DEF KnownRecordsInv
    <3>3. value' = Yields("leaves", dtype, record)
      BY <2>3 DEF DecodeBySchema, Yields
    <3>4. Yields("leaves", dtype, record) \in Builds(dtype)
          /\ CellOf(dtype, Yields("leaves", dtype, record)) = Whole(dtype, record)
      BY <3>2, WholeHoweverDecoded DEF Ways
    <3>. QED
      BY <1>2, <2>3, <3>1, <3>3, <3>4 DEF DecodeBySchema, KnownRecordsInv
  <2>4. CASE BuildCell
    <3>1. value \in Builds(dtype)
      BY <1>2, <2>4 DEF BuildCell, KnownRecordsInv
    <3>2. stage' = "done" /\ cell' = CellOf(dtype, value)
      BY <2>4, <3>1 DEF BuildCell, Builds, CellOf
    <3>. QED
      BY <1>2, <2>4, <3>2 DEF BuildCell, KnownRecordsInv
  <2>5. CASE Returned \/ UNCHANGED vars
    BY <1>2, <2>5 DEF Returned, vars, KnownRecordsInv
  <2>. QED
    BY <1>2, <2>1, <2>2, <2>3, <2>4, <2>5 DEF Next
<1>. QED
  BY <1>1, <1>2, PTL DEF Spec

(* A known record comes out as decoding it by its schema has it, in every  *)
(* way there is, and that never fails: decode_known() and the tables of    *)
(* src/schema.rs agree on every field of every known database.             *)
THEOREM StructsAgree == Spec => []StructsAgreeWithSchema
<1>1. ASSUME KnownRecordsInv
      PROVE  StructsAgreeWithSchema
  <2>. SUFFICES ASSUME stage \in {"done", "error"}
                PROVE  stage = "done" /\ \A way \in Ways : cell = Cell[dtype][Decoded[dtype][way][record]]
    BY DEF StructsAgreeWithSchema
  <2>1. stage = "done" /\ cell = Whole(dtype, record) /\ dtype = KnownSchema(type)
    BY <1>1 DEF KnownRecordsInv
  <2>2. dtype \in Dtype /\ record \in KeepingTo(dtype)
    BY <1>1, <2>1, RecordOfType DEF KnownRecordsInv
  <2>3. \A way \in Ways : cell = CellOf(dtype, Yields(way, dtype, record))
    BY <2>1, <2>2, WholeHoweverDecoded
  <2>. QED
    BY <2>1, <2>3 DEF CellOf, Yields
<1>. QED
  BY <1>1, KnownRecordsInvariant, PTL

(* decode_known() leaves nothing for values_to_series() to drop, fill in,  *)
(* move or convert.                                                        *)
THEOREM NothingIsDropped == Spec => []NothingDropped
<1>1. ASSUME KnownRecordsInv
      PROVE  NothingDropped
  BY <1>1 DEF KnownRecordsInv, NothingDropped
<1>. QED
  BY <1>1, KnownRecordsInvariant, PTL

----------------------------------------------------------------------------
(* Paths to scalars, part by part from the front.                          *)

LEMMA PathLong ==
  ASSUME NEW part \in PathPart, NEW path \in Seq(PathPart)
  PROVE  /\ <<part>> \o path \in Seq(PathPart) /\ Len(path) \in Nat
         /\ Len(<<part>> \o path) = Len(path) + 1 /\ (<<part>> \o path)[1] = part
         /\ \A i \in 1 .. Len(path) : (<<part>> \o path)[i + 1] = path[i]
OBVIOUS

LEMMA FollowFront ==
  ASSUME NEW v, NEW part \in PathPart, NEW path \in Seq(PathPart)
  PROVE  Navigate(v, ToMmdbPath(<<part>> \o path))
           = Navigate(Descend(v, PathElement(part)), ToMmdbPath(path))
<1>. DEFINE n == Len(path)
            long == <<part>> \o path
            far == ValuesAlong(v, ToMmdbPath(long))
            near == ValuesAlong(Descend(v, PathElement(part)), ToMmdbPath(path))
            S == {i \in 0 .. n : far[i + 1] = near[i]}
<1>1. /\ n \in Nat /\ Len(long) = n + 1
      /\ long[1] = part /\ \A i \in 1 .. n : long[i + 1] = path[i]
  BY PathLong
<1>. HIDE DEF long, n
<1>2. /\ Len(ToMmdbPath(long)) = n + 1
      /\ \A i \in 1 .. n + 1 : ToMmdbPath(long)[i] = PathElement(long[i])
  BY <1>1 DEF ToMmdbPath
<1>3. /\ Len(ToMmdbPath(path)) = n
      /\ \A i \in 1 .. n : ToMmdbPath(path)[i] = PathElement(path[i])
  BY <1>1 DEF ToMmdbPath, n
<1>4. n + 1 \in Nat
  BY <1>1
<1>5. \A i \in 0 .. n + 1 :
        far[i] = IF i = 0 THEN v ELSE Descend(far[i - 1], ToMmdbPath(long)[i])
  BY <1>2, <1>4, ValuesAlongDef
<1>6. \A i \in 0 .. n :
        near[i] = IF i = 0 THEN Descend(v, PathElement(part))
                  ELSE Descend(near[i - 1], ToMmdbPath(path)[i])
  <2>1. \A u : ValuesAlong(u, ToMmdbPath(path))
               = [i \in 0 .. n |-> IF i = 0 THEN u
                                   ELSE Descend(ValuesAlong(u, ToMmdbPath(path))[i - 1],
                                                ToMmdbPath(path)[i])]
    BY <1>1, <1>3, ValuesAlongDef
  <2>. QED
    BY <2>1
<1>. HIDE DEF far, near
<1>7. 0 \in S
  <2>1. 0 \in 0 .. n + 1 /\ 1 \in 0 .. n + 1 /\ 1 \in 1 .. n + 1 /\ 0 \in 0 .. n
    BY <1>1
  <2>2. far[0] = v /\ near[0] = Descend(v, PathElement(part))
    BY <1>5, <1>6, <2>1
  <2>3. far[1] = Descend(far[1 - 1], ToMmdbPath(long)[1])
    BY <1>5, <2>1
  <2>4. ToMmdbPath(long)[1] = PathElement(part)
    BY <1>1, <1>2, <2>1
  <2>. QED
    BY <2>1, <2>2, <2>3, <2>4
<1>8. \A i \in 1 .. n : i - 1 \in S => i \in S
  <2>. SUFFICES ASSUME NEW i \in 1 .. n, far[i] = near[i - 1]
                PROVE  far[i + 1] = near[i]
    BY <1>1
  <2>1. i \in 0 .. n /\ i + 1 \in 0 .. n + 1 /\ i + 1 \in 1 .. n + 1 /\ (i + 1) - 1 = i
    BY <1>1
  <2>2. far[i + 1] = Descend(far[(i + 1) - 1], ToMmdbPath(long)[i + 1])
    BY <1>5, <2>1
  <2>3. near[i] = Descend(near[i - 1], ToMmdbPath(path)[i])
    BY <1>6, <2>1
  <2>4. ToMmdbPath(long)[i + 1] = PathElement(long[i + 1])
    BY <1>2, <2>1
  <2>5. ToMmdbPath(path)[i] = PathElement(path[i]) /\ long[i + 1] = path[i]
    BY <1>1, <1>3
  <2>. QED
    BY <2>1, <2>2, <2>3, <2>4, <2>5
<1>9. n \in S
  <2>. HIDE DEF S
  <2>1. 0 .. n \subseteq S
    BY <1>1, <1>7, <1>8, PlaceInduction
  <2>. QED
    BY <1>1, <2>1
<1>. QED
  BY <1>2, <1>3, <1>9 DEF Navigate, far, near, long

LEMMA DtypeFront ==
  ASSUME NEW d, NEW part \in PathPart, NEW path \in Seq(PathPart)
  PROVE  DtypeAtPath(d, <<part>> \o path) = DtypeAtPath(DtypeAtPart(d, part), path)
<1>. DEFINE n == Len(path)
            long == <<part>> \o path
            far == DtypesAlong(d, long)
            near == DtypesAlong(DtypeAtPart(d, part), path)
            S == {i \in 0 .. n : far[i + 1] = near[i]}
<1>1. /\ n \in Nat /\ Len(long) = n + 1 /\ n + 1 \in Nat
      /\ long[1] = part /\ \A i \in 1 .. n : long[i + 1] = path[i]
  BY PathLong
<1>. HIDE DEF long
<1>2. \A i \in 0 .. n + 1 : far[i] = IF i = 0 THEN d ELSE DtypeAtPart(far[i - 1], long[i])
  BY <1>1, DtypesAlongDef
<1>3. \A i \in 0 .. n :
        near[i] = IF i = 0 THEN DtypeAtPart(d, part) ELSE DtypeAtPart(near[i - 1], path[i])
  BY <1>1, DtypesAlongDef
<1>. HIDE DEF far, near, n
<1>4. 0 \in S
  <2>1. 0 \in 0 .. n + 1 /\ 1 \in 0 .. n + 1 /\ 0 \in 0 .. n
    BY <1>1
  <2>2. far[0] = d /\ far[1] = DtypeAtPart(far[1 - 1], long[1])
    BY <1>2, <2>1
  <2>3. near[0] = DtypeAtPart(d, part)
    BY <1>3, <2>1
  <2>. QED
    BY <1>1, <2>1, <2>2, <2>3
<1>5. \A i \in 1 .. n : i - 1 \in S => i \in S
  <2>. SUFFICES ASSUME NEW i \in 1 .. n, far[i] = near[i - 1]
                PROVE  far[i + 1] = near[i]
    BY <1>1
  <2>1. i \in 0 .. n /\ i + 1 \in 0 .. n + 1 /\ (i + 1) - 1 = i
    BY <1>1
  <2>2. far[i + 1] = DtypeAtPart(far[(i + 1) - 1], long[i + 1])
    BY <1>1, <1>2, <2>1
  <2>3. near[i] = DtypeAtPart(near[i - 1], path[i])
    BY <1>1, <1>3, <2>1
  <2>. QED
    BY <1>1, <2>1, <2>2, <2>3
<1>6. n \in S
  <2>. HIDE DEF S
  <2>1. 0 .. n \subseteq S
    BY <1>1, <1>4, <1>5, PlaceInduction
  <2>. QED
    BY <1>1, <2>1
<1>. QED
  BY <1>1, <1>6 DEF DtypeAtPath, far, near, long, n

LEMMA NoPath ==
  /\ <<>> \in Seq(PathPart)
  /\ \A v : Navigate(v, ToMmdbPath(<<>>)) = v
  /\ \A d : DtypeAtPath(d, <<>>) = d
<1>1. ToMmdbPath(<<>>) = <<>>
  BY DEF ToMmdbPath
<1>2. \A d : DtypeAtPath(d, <<>>) = d
  <2>1. Len(<<>>) = 0 /\ Len(<<>>) \in Nat /\ 0 \in 0 .. Len(<<>>)
    OBVIOUS
  <2>2. \A d : DtypesAlong(d, <<>>)[0] = d
    BY <2>1, DtypesAlongDef
  <2>. QED
    BY <2>1, <2>2 DEF DtypeAtPath
<1>. QED
  BY <1>1, <1>2, NavigateEmpty

LEMMA FollowStuck ==
  ASSUME NEW path \in Seq(PathPart)
  PROVE  Navigate(None, ToMmdbPath(path)) = None
<1>1. Len(ToMmdbPath(path)) \in Nat
  BY DEF ToMmdbPath
<1>. QED
  BY <1>1, NavigateStuck

(* The paths to the scalars of a dtype, from those of its parts.           *)
Indices == {k \in IndexMin .. IndexMax : ConvertsPart(Index(k))}

FieldPaths(paths, field) == {<<Key(field.name)>> \o p : p \in paths[field.dtype]}
StructPaths(paths, d) == UNION {FieldPaths(paths, d.fields[i]) : i \in 1 .. Len(d.fields)}
ListPaths(paths, d) == {<<Index(k)>> \o p : k \in Indices, p \in paths[d.inner]}

LEMMA ScalarPathsDef ==
  ASSUME NEW d0 \in Dtype
  PROVE  ScalarPaths[d0] =
           CASE d0.type = "struct" -> StructPaths(ScalarPaths, d0)
             [] d0.type = "list" -> ListPaths(ScalarPaths, d0)
             [] OTHER -> {<<>>}
<1>. DEFINE Body(f, d) == CASE d.type = "struct" -> StructPaths(f, d)
                            [] d.type = "list" -> ListPaths(f, d)
                            [] OTHER -> {<<>>}
            S == {n \in 0 .. MaxDepth : \E f : f = [d \in DtypesTo[n] |-> Body(f, d)]}
<1>1. ASSUME NEW d \in Dtype, NEW f, NEW g, \A e \in PartsOf(d) : f[e] = g[e]
      PROVE  Body(f, d) = Body(g, d)
  <2>1. CASE d.type = "struct"
    <3>1. \A i \in 1 .. Len(d.fields) : f[d.fields[i].dtype] = g[d.fields[i].dtype]
      BY <1>1, <2>1 DEF PartsOf
    <3>2. \A i \in 1 .. Len(d.fields) : FieldPaths(f, d.fields[i]) = FieldPaths(g, d.fields[i])
      BY <3>1 DEF FieldPaths
    <3>3. StructPaths(f, d) = StructPaths(g, d)
      BY <3>2 DEF StructPaths
    <3>. QED
      BY <2>1, <3>3
  <2>2. CASE d.type = "list"
    <3>1. f[d.inner] = g[d.inner]
      BY <1>1, <2>2 DEF PartsOf
    <3>2. ListPaths(f, d) = ListPaths(g, d)
      BY <3>1 DEF ListPaths
    <3>. QED
      BY <2>2, <3>2
  <2>3. CASE d.type \notin {"struct", "list"}
    BY <2>3
  <2>. QED
    BY <2>1, <2>2, <2>3
<1>2. ScalarPaths = CHOOSE f : f = [d \in Dtype |-> Body(f, d)]
  BY DEF ScalarPaths, StructPaths, FieldPaths, ListPaths, Indices
<1>. HIDE DEF Body
<1>3. 0 \in S
  <2>1. 0 \in 0 .. MaxDepth /\ \A d \in DtypesTo[0] : d \in Dtype /\ PartsOf(d) = {}
    BY MaxDepthIsNatural, DtypeToShape
  <2>. DEFINE f == [d \in DtypesTo[0] |-> Body(<<>>, d)]
  <2>2. \A d \in DtypesTo[0] : Body(<<>>, d) = Body(f, d)
    BY <1>1, <2>1
  <2>3. f = [d \in DtypesTo[0] |-> Body(f, d)]
    BY <2>2
  <2>. HIDE DEF f
  <2>. QED
    BY <2>1, <2>3
<1>4. ASSUME NEW n \in 1 .. MaxDepth, n - 1 \in S
      PROVE  n \in S
  <2>1. PICK f : f = [d \in DtypesTo[n - 1] |-> Body(f, d)]
    BY <1>4
  <2>. DEFINE g == [d \in DtypesTo[n] |-> Body(f, d)]
  <2>2. n \in 0 .. MaxDepth /\ n # 0
    BY MaxDepthIsNatural
  <2>3. \A d \in DtypesTo[n] : /\ d \in Dtype /\ PartsOf(d) \subseteq DtypesTo[n - 1]
                               /\ DtypesTo[n - 1] \subseteq DtypesTo[n]
    BY <2>2, DtypeToShape
  <2>4. \A d \in DtypesTo[n] : \A e \in PartsOf(d) : f[e] = g[e]
    BY <2>1, <2>3
  <2>5. \A d \in DtypesTo[n] : Body(f, d) = Body(g, d)
    <3>. HIDE DEF g
    <3>. QED
      BY <1>1, <2>3, <2>4
  <2>6. g = [d \in DtypesTo[n] |-> Body(g, d)]
    BY <2>5
  <2>. HIDE DEF g
  <2>. QED
    BY <2>2, <2>6
<1>5. MaxDepth \in S
  <2>. HIDE DEF S
  <2>. QED
    BY <1>3, <1>4, MaxDepthIsNatural, PlaceInduction
<1>6. ScalarPaths = [d \in Dtype |-> Body(ScalarPaths, d)]
  BY <1>2, <1>5 DEF Dtype
<1>7. ScalarPaths[d0] = Body(ScalarPaths, d0)
  BY <1>6
<1>. QED
  BY <1>7 DEF Body

PathsTo(d) == ScalarPaths[d]

LEMMA StructPath ==
  ASSUME NEW d \in Structs, NEW p \in PathsTo(d)
  PROVE  \E i \in 1 .. Arity(d) : \E q \in PathsTo(PartAt(d, i)) : p = <<Key(NameAt(d, i))>> \o q
<1>1. d \in Dtype /\ d.type = "struct"
  BY DEF Structs
<1>2. p \in StructPaths(ScalarPaths, d)
  BY <1>1, ScalarPathsDef DEF PathsTo
<1>3. PICK i \in 1 .. Len(d.fields) : p \in FieldPaths(ScalarPaths, d.fields[i])
  BY <1>2 DEF StructPaths
<1>. QED
  BY <1>3 DEF FieldPaths, PathsTo, Arity, PartAt, NameAt

LEMMA ListPath ==
  ASSUME NEW d \in Lists, NEW p \in PathsTo(d)
  PROVE  \E k \in Indices : \E q \in PathsTo(Inner(d)) : p = <<Index(k)>> \o q
<1>1. d \in Dtype /\ d.type = "list"
  BY DEF Lists
<1>2. p \in ListPaths(ScalarPaths, d)
  BY <1>1, ScalarPathsDef DEF PathsTo
<1>. QED
  BY <1>2 DEF ListPaths, PathsTo, Inner

LEMMA ScalarPath ==
  ASSUME NEW d \in Scalars, NEW p \in PathsTo(d)
  PROVE  p = <<>>
BY ScalarFacts, ScalarPathsDef DEF PathsTo

LEMMA PartsOfPaths ==
  /\ \A name \in STRING : Key(name) \in PathPart /\ Key(name).at = "key" /\ Key(name).name = name
                          /\ PathElement(Key(name)) = Key(name)
  /\ \A k \in Indices : /\ Index(k) \in PathPart /\ Index(k).at = "index"
                        /\ PathElement(Index(k)).at # "key"
<1>1. \A name \in STRING : Key(name) \in PathPart /\ Key(name).at = "key" /\ Key(name).name = name
  BY DEF Key, PathPart
<1>2. \A k \in Indices : Index(k) \in PathPart /\ Index(k).at = "index"
  BY DEF Index, PathPart, Indices
<1>. QED
  BY <1>1, <1>2 DEF PathElement, Index, FromEnd

LEMMA KeyOfField ==
  ASSUME NEW d \in Structs, NEW i \in 1 .. Arity(d)
  PROVE  DtypeAtPart(d, Key(NameAt(d, i))) = PartAt(d, i)
<1>1. d.type = "struct" /\ d \in Dtype
  BY DEF Structs
<1>2. Len(d.fields) \in Nat /\ NamesDiffer(d.fields) /\ NameAt(d, i) \in STRING
  BY <1>1, DtypeShape, StructFacts
<1>3. Has(d.fields, NameAt(d, i)) /\ Find(d.fields, NameAt(d, i)) = d.fields[i]
  BY <1>2, FindAt DEF NameAt, Arity
<1>4. Key(NameAt(d, i)).at = "key" /\ Key(NameAt(d, i)).name = NameAt(d, i)
  BY <1>2, PartsOfPaths
<1>. QED
  BY <1>1, <1>3, <1>4 DEF DtypeAtPart, HasField, FieldDtype, PartAt

LEMMA EmptyList ==
  ASSUME NEW d \in Lists
  PROVE  CellOf(d, DefaultOf(d)) \in ListValues /\ Count(CellOf(d, DefaultOf(d))) = 0
<1>. DEFINE c == CellOf(d, DefaultOf(d))
<1>1. d \in Dtype
  BY ListFacts
<1>2. PICK x : DefaultOf(d) = MadeList(0, x)
  BY DefaultList
<1>3. DefaultOf(d) \in Builds(d)
  BY <1>1, FullIsBuildable, StructIsWay DEF FullValues
<1>4. DefaultOf(d).kind = "list" /\ Count(DefaultOf(d)) = 0
  BY <1>2, MadeListFacts
<1>5. DefaultOf(d) # None /\ DefaultOf(d) # Null
  BY <1>4 DEF None, Null
<1>6. PICK w : c = MadeList(0, w)
  BY <1>3, <1>4, <1>5, CellList
<1>7. c.kind = "list" /\ Count(c) = 0
  BY <1>6, MadeListFacts
<1>8. c \in Builds(d) /\ c # None /\ c # Null
  BY <1>1, <1>3, <1>7, CellsAreFixed DEF None, Null
<1>. QED
  BY <1>7, <1>8, BuildsList

(* One part further, in data and in the cell made of it.                   *)
LEMMA WholeEntry ==
  ASSUME NEW d \in Structs, NEW s \in Accepts("struct", d), NEW i \in 1 .. Arity(d)
  PROVE  /\ s \in Maps
         /\ HasEntry(s, NameAt(d, i)) =>
              /\ EntryOf(s, NameAt(d, i)) \in Accepts("struct", PartAt(d, i))
              /\ Descend(s, Key(NameAt(d, i))) = EntryOf(s, NameAt(d, i))
              /\ Descend(Whole(d, s), Key(NameAt(d, i)))
                   = Whole(PartAt(d, i), EntryOf(s, NameAt(d, i)))
         /\ ~HasEntry(s, NameAt(d, i)) =>
              /\ Descend(s, Key(NameAt(d, i))) = None
              /\ Descend(Whole(d, s), Key(NameAt(d, i)))
                   = CellOf(PartAt(d, i), DefaultOf(PartAt(d, i)))
<1>. DEFINE name == NameAt(d, i)
            w == [j \in 1 .. Arity(d) |-> FieldCell(d.fields[j], s)]
<1>1. name \in STRING /\ d \in Dtype
  BY StructFacts
<1>2. Key(name).at = "key" /\ Key(name).name = name
  BY <1>1, PartsOfPaths
<1>3. s \in Maps /\ (HasEntry(s, name) => EntryOf(s, name) \in Accepts("struct", PartAt(d, i)))
  BY AcceptsStruct, StructIsWay
<1>4. Whole(d, s) = Made(d, w)
  BY WholeStruct DEF EntriesOf, Made, Arity
<1>5. At(w, i) = FieldCell(d.fields[i], s)
  BY DEF At
<1>. HIDE DEF w, name
<1>6. Whole(d, s).kind = "map" /\ EntryOr(Whole(d, s), name, None) = At(w, i)
  BY <1>4, MadeFacts DEF name
<1>7. Whole(d, s) \in Maps
  <2>1. Whole(d, s) \in Builds(d) /\ Whole(d, s) # None /\ Whole(d, s) # Null
    BY <1>1, <1>6, WholeIsFixed DEF None, Null
  <2>. QED
    BY <2>1, BuildsStruct
<1>8. Descend(s, Key(name)) = IF HasEntry(s, name) THEN EntryOf(s, name) ELSE None
  BY <1>2, <1>3, DescendMap, MapFacts
<1>9. Descend(Whole(d, s), Key(name)) = FieldCell(d.fields[i], s)
  BY <1>2, <1>5, <1>6, <1>7, DescendMap
<1>. QED
  BY <1>3, <1>8, <1>9 DEF FieldCell, PartAt, NameAt, name

LEMMA EmptyEntry ==
  ASSUME NEW d \in Structs, NEW i \in 1 .. Arity(d)
  PROVE  Descend(CellOf(d, DefaultOf(d)), Key(NameAt(d, i)))
           = CellOf(PartAt(d, i), DefaultOf(PartAt(d, i)))
<1>. DEFINE s == MapValue(<<>>)
<1>1. ~HasEntry(s, NameAt(d, i))
  BY DEF MapValue, HasEntry, Has
<1>. HIDE DEF s
<1>2. s \in Accepts("struct", d) /\ CellOf(d, DefaultOf(d)) = Whole(d, s)
  BY EmptyStruct DEF s
<1>. QED
  BY <1>1, <1>2, WholeEntry

LEMMA WholeItem ==
  ASSUME NEW d \in Lists, NEW v \in Accepts("struct", d), NEW part, part.at # "key"
  PROVE  \/ Descend(v, part) = None /\ Descend(Whole(d, v), part) = None
         \/ \E i \in 1 .. Count(v) :
              /\ ItemAt(v, i) \in Accepts("struct", Inner(d)) /\ Descend(v, part) = ItemAt(v, i)
              /\ Descend(Whole(d, v), part) = Whole(Inner(d), ItemAt(v, i))
<1>. DEFINE c == Whole(d, v)
            n == Count(v)
            PlaceIn(u) == IF part.at = "index" THEN part.index + 1 ELSE Len(u.items) - part.index
<1>1. v \in Value /\ v.kind = "list" /\ n \in Nat /\ Len(v.items) = n
      /\ \A i \in 1 .. n : ItemAt(v, i) \in Accepts("struct", Inner(d))
  BY AcceptsList, ListValueFacts, StructIsWay DEF ListValues, Count
<1>2. c = ListValue([i \in 1 .. n |-> Whole(Inner(d), ItemAt(v, i))])
  BY WholeList DEF Count, Inner, ItemAt
<1>. HIDE DEF c, n
<1>3. /\ c.kind = "list" /\ Len(c.items) = n
      /\ \A i \in 1 .. n : c.items[i] = Whole(Inner(d), ItemAt(v, i))
  BY <1>1, <1>2 DEF ListValue
<1>4. v \notin {None, Mismatch} /\ c \notin {None, Mismatch}
  BY <1>1, <1>3 DEF None, Mismatch
<1>5. Descend(v, part) = IF PlaceIn(v) \in 1 .. n THEN ItemAt(v, PlaceIn(v)) ELSE None
  BY <1>1, <1>4 DEF Descend, ItemAt
<1>6. Descend(c, part) = IF PlaceIn(c) \in 1 .. n THEN c.items[PlaceIn(c)] ELSE None
  BY <1>3, <1>4 DEF Descend
<1>7. PlaceIn(c) = PlaceIn(v)
  BY <1>1, <1>3
<1>. HIDE DEF PlaceIn
<1>. QED
  BY <1>1, <1>3, <1>5, <1>6, <1>7 DEF c, n

(* The cell of what a record lacks has nothing at any scalar.              *)
LEMMA NothingInDefault ==
  ASSUME NEW d0 \in Dtype, NEW p0 \in PathsTo(d0)
  PROVE  /\ p0 \in Seq(PathPart) /\ DtypeAtPath(d0, p0) \in Scalars
         /\ Navigate(CellOf(d0, DefaultOf(d0)), ToMmdbPath(p0)) \in {None, Null}
<1>. DEFINE Holds(d, p) ==
              /\ p \in Seq(PathPart) /\ DtypeAtPath(d, p) \in Scalars
              /\ Navigate(CellOf(d, DefaultOf(d)), ToMmdbPath(p)) \in {None, Null}
            S == {d \in Dtype : \A p \in PathsTo(d) : Holds(d, p)}
<1>1. ASSUME NEW d \in Structs, \A i \in 1 .. Arity(d) : PartAt(d, i) \in S
      PROVE  d \in S
  <2>. SUFFICES ASSUME NEW p \in PathsTo(d) PROVE Holds(d, p)
    BY StructFacts
  <2>1. PICK i \in 1 .. Arity(d) : \E q \in PathsTo(PartAt(d, i)) : p = <<Key(NameAt(d, i))>> \o q
    BY StructPath
  <2>2. PICK q \in PathsTo(PartAt(d, i)) : p = <<Key(NameAt(d, i))>> \o q
    BY <2>1
  <2>3. Holds(PartAt(d, i), q)
    BY <1>1
  <2>4. Key(NameAt(d, i)) \in PathPart /\ PathElement(Key(NameAt(d, i))) = Key(NameAt(d, i))
    BY StructFacts, PartsOfPaths
  <2>5. DtypeAtPart(d, Key(NameAt(d, i))) = PartAt(d, i)
    BY KeyOfField
  <2>6. p \in Seq(PathPart) /\ DtypeAtPath(d, p) = DtypeAtPath(PartAt(d, i), q)
    BY <2>2, <2>3, <2>4, <2>5, PathLong, DtypeFront
  <2>7. Navigate(CellOf(d, DefaultOf(d)), ToMmdbPath(p))
          = Navigate(CellOf(PartAt(d, i), DefaultOf(PartAt(d, i))), ToMmdbPath(q))
    BY <2>2, <2>3, <2>4, FollowFront, EmptyEntry
  <2>. QED
    BY <2>3, <2>6, <2>7
<1>2. ASSUME NEW d \in Lists, Inner(d) \in S
      PROVE  d \in S
  <2>. SUFFICES ASSUME NEW p \in PathsTo(d) PROVE Holds(d, p)
    BY ListFacts
  <2>1. PICK k \in Indices : \E q \in PathsTo(Inner(d)) : p = <<Index(k)>> \o q
    BY ListPath
  <2>2. PICK q \in PathsTo(Inner(d)) : p = <<Index(k)>> \o q
    BY <2>1
  <2>3. Holds(Inner(d), q)
    BY <1>2
  <2>. DEFINE e == PathElement(Index(k))
  <2>4. Index(k) \in PathPart /\ e.at # "key"
    BY PartsOfPaths
  <2>5. DtypeAtPart(d, Index(k)) = Inner(d)
    BY PartsOfPaths DEF DtypeAtPart, Lists, Inner
  <2>6. p \in Seq(PathPart) /\ DtypeAtPath(d, p) = DtypeAtPath(Inner(d), q)
    BY <2>2, <2>3, <2>4, <2>5, PathLong, DtypeFront
  <2>7. Descend(CellOf(d, DefaultOf(d)), e) = None
    <3>. HIDE DEF e
    <3>1. CellOf(d, DefaultOf(d)) \in ListValues /\ Count(CellOf(d, DefaultOf(d))) = 0
      BY EmptyList
    <3>. QED
      BY <2>4, <3>1, DescendList
  <2>8. Navigate(CellOf(d, DefaultOf(d)), ToMmdbPath(p)) = Navigate(None, ToMmdbPath(q))
    BY <2>2, <2>3, <2>4, <2>7, FollowFront
  <2>. QED
    BY <2>3, <2>6, <2>8, FollowStuck
<1>3. ASSUME NEW d \in Scalars
      PROVE  d \in S
  <2>. SUFFICES ASSUME NEW p \in PathsTo(d) PROVE Holds(d, p)
    BY ScalarFacts
  <2>1. p = <<>>
    BY ScalarPath
  <2>2. CellOf(d, DefaultOf(d)) = Null
    BY ScalarFacts, DefaultScalar, CellNull
  <2>. QED
    BY <2>1, <2>2, NoPath
<1>. HIDE DEF S
<1>4. Dtype \subseteq S
  BY <1>1, <1>2, <1>3, InductionOnDtypes
<1>. QED
  BY <1>4 DEF S

(* A scalar at the end of a path is decoded as one in a struct is.         *)
LEMMA ScalarAtPath ==
  ASSUME NEW d \in Scalars, NEW v \in Accepts("struct", d)
  PROVE  CellOf(d, Yields("leaves", d, v)) = Whole(d, v)
<1>1. "leaves" \in Ways
  BY DEF Ways
<1>2. v \in Accepts("leaves", d)
  BY <1>1, AcceptsScalar, StructIsWay DEF AcceptsAsScalar
<1>3. Yields("leaves", d, v) = Yields("struct", d, v)
  BY <1>1, <1>2, YieldsScalar, StructIsWay DEF AsScalar
<1>. QED
  BY <1>3 DEF Whole

(* Where a path to a scalar gets in a record, it gets in the cell of the   *)
(* record too, to the cell of what it got there.                           *)
THEOREM ScalarInCell ==
  ASSUME NEW d0 \in Dtype, NEW s0 \in Accepts("struct", d0), NEW p0 \in PathsTo(d0)
  PROVE  LET at == Navigate(s0, ToMmdbPath(p0))
             inCell == Navigate(Whole(d0, s0), ToMmdbPath(p0))
         IN  /\ DtypeAtPath(d0, p0) \in Scalars
             /\ \/ at = None /\ inCell \in {None, Null}
                \/ /\ at \in Accepts("struct", DtypeAtPath(d0, p0))
                   /\ inCell = Whole(DtypeAtPath(d0, p0), at)
<1>. DEFINE From(v, p) == Navigate(v, ToMmdbPath(p))
            Holds(d, s, p) ==
              /\ p \in Seq(PathPart) /\ DtypeAtPath(d, p) \in Scalars
              /\ \/ From(s, p) = None /\ From(Whole(d, s), p) \in {None, Null}
                 \/ /\ From(s, p) \in Accepts("struct", DtypeAtPath(d, p))
                    /\ From(Whole(d, s), p) = Whole(DtypeAtPath(d, p), From(s, p))
            S == {d \in Dtype : \A s \in Accepts("struct", d) : \A p \in PathsTo(d) : Holds(d, s, p)}
<1>1. ASSUME NEW d \in Structs, \A i \in 1 .. Arity(d) : PartAt(d, i) \in S
      PROVE  d \in S
  <2>. SUFFICES ASSUME NEW s \in Accepts("struct", d), NEW p \in PathsTo(d) PROVE Holds(d, s, p)
    BY StructFacts
  <2>1. PICK i \in 1 .. Arity(d) : \E q \in PathsTo(PartAt(d, i)) : p = <<Key(NameAt(d, i))>> \o q
    BY StructPath
  <2>2. PICK q \in PathsTo(PartAt(d, i)) : p = <<Key(NameAt(d, i))>> \o q
    BY <2>1
  <2>. DEFINE part == PartAt(d, i)
              name == NameAt(d, i)
  <2>3. part \in Dtype /\ \A x \in Accepts("struct", part) : Holds(part, x, q)
    BY <1>1
  <2>4. Key(name) \in PathPart /\ PathElement(Key(name)) = Key(name)
    BY StructFacts, PartsOfPaths
  <2>5. q \in Seq(PathPart) /\ DtypeAtPath(part, q) \in Scalars
    BY <2>3, NothingInDefault
  <2>6. DtypeAtPart(d, Key(name)) = part
    BY KeyOfField
  <2>7. p \in Seq(PathPart) /\ DtypeAtPath(d, p) = DtypeAtPath(part, q)
    BY <2>2, <2>4, <2>5, <2>6, PathLong, DtypeFront
  <2>8. \A v : From(v, p) = From(Descend(v, Key(name)), q)
    BY <2>2, <2>4, <2>5, FollowFront
  <2>9. CASE HasEntry(s, name)
    <3>1. /\ EntryOf(s, name) \in Accepts("struct", part) /\ Descend(s, Key(name)) = EntryOf(s, name)
          /\ Descend(Whole(d, s), Key(name)) = Whole(part, EntryOf(s, name))
      BY <2>9, WholeEntry
    <3>2. Holds(part, EntryOf(s, name), q)
      BY <2>3, <3>1
    <3>3. From(s, p) = From(EntryOf(s, name), q)
      BY <2>8, <3>1
    <3>4. From(Whole(d, s), p) = From(Whole(part, EntryOf(s, name)), q)
      BY <2>8, <3>1
    <3>. HIDE DEF From, part, name
    <3>. QED
      BY <2>7, <3>2, <3>3, <3>4
  <2>10. CASE ~HasEntry(s, name)
    <3>1. /\ Descend(s, Key(name)) = None
          /\ Descend(Whole(d, s), Key(name)) = CellOf(part, DefaultOf(part))
      BY <2>10, WholeEntry
    <3>2. From(s, p) = None
      BY <2>5, <2>8, <3>1, FollowStuck
    <3>3. From(Whole(d, s), p) \in {None, Null}
      BY <2>3, <2>8, <3>1, NothingInDefault
    <3>. HIDE DEF From, part, name
    <3>. QED
      BY <2>5, <2>7, <3>2, <3>3
  <2>. QED
    BY <2>9, <2>10
<1>2. ASSUME NEW d \in Lists, Inner(d) \in S
      PROVE  d \in S
  <2>. SUFFICES ASSUME NEW s \in Accepts("struct", d), NEW p \in PathsTo(d) PROVE Holds(d, s, p)
    BY ListFacts
  <2>1. PICK k \in Indices : \E q \in PathsTo(Inner(d)) : p = <<Index(k)>> \o q
    BY ListPath
  <2>2. PICK q \in PathsTo(Inner(d)) : p = <<Index(k)>> \o q
    BY <2>1
  <2>. DEFINE e == PathElement(Index(k))
              part == Inner(d)
  <2>3. part \in Dtype /\ \A x \in Accepts("struct", part) : Holds(part, x, q)
    BY <1>2
  <2>4. Index(k) \in PathPart /\ e.at # "key"
    BY PartsOfPaths
  <2>5. q \in Seq(PathPart) /\ DtypeAtPath(part, q) \in Scalars
    BY <2>3, NothingInDefault
  <2>6. DtypeAtPart(d, Index(k)) = part
    BY PartsOfPaths DEF DtypeAtPart, Lists, Inner
  <2>7. p \in Seq(PathPart) /\ DtypeAtPath(d, p) = DtypeAtPath(part, q)
    BY <2>2, <2>4, <2>5, <2>6, PathLong, DtypeFront
  <2>8. \A v : From(v, p) = From(Descend(v, e), q)
    BY <2>2, <2>4, <2>5, FollowFront
  <2>9. CASE Descend(s, e) = None /\ Descend(Whole(d, s), e) = None
    <3>1. From(s, p) = None /\ From(Whole(d, s), p) = None
      BY <2>5, <2>8, <2>9, FollowStuck
    <3>. HIDE DEF From, part, e
    <3>. QED
      BY <2>5, <2>7, <3>1
  <2>10. CASE \E i \in 1 .. Count(s) :
                /\ ItemAt(s, i) \in Accepts("struct", part) /\ Descend(s, e) = ItemAt(s, i)
                /\ Descend(Whole(d, s), e) = Whole(part, ItemAt(s, i))
    <3>1. PICK x \in Accepts("struct", part) : Descend(s, e) = x /\ Descend(Whole(d, s), e) = Whole(part, x)
      BY <2>10
    <3>2. Holds(part, x, q)
      BY <2>3
    <3>3. From(s, p) = From(x, q) /\ From(Whole(d, s), p) = From(Whole(part, x), q)
      BY <2>8, <3>1
    <3>. HIDE DEF From, part, e
    <3>. QED
      BY <2>7, <3>2, <3>3
  <2>11. \/ Descend(s, e) = None /\ Descend(Whole(d, s), e) = None
         \/ \E i \in 1 .. Count(s) :
              /\ ItemAt(s, i) \in Accepts("struct", part) /\ Descend(s, e) = ItemAt(s, i)
              /\ Descend(Whole(d, s), e) = Whole(part, ItemAt(s, i))
    <3>. HIDE DEF e
    <3>. QED
      BY <2>4, WholeItem
  <2>. QED
    BY <2>9, <2>10, <2>11
<1>3. ASSUME NEW d \in Scalars
      PROVE  d \in S
  <2>. SUFFICES ASSUME NEW s \in Accepts("struct", d), NEW p \in PathsTo(d) PROVE Holds(d, s, p)
    BY ScalarFacts
  <2>1. p = <<>>
    BY ScalarPath
  <2>. QED
    BY <2>1, NoPath
<1>. HIDE DEF S
<1>4. Dtype \subseteq S
  BY <1>1, <1>2, <1>3, InductionOnDtypes
<1>. QED
  BY <1>4 DEF S

(* lookup_path() of a scalar gets what the whole record has there, for     *)
(* known records converted from maxminddb's structs as well.               *)
THEOREM PathsAgree == Spec => []PathsAgreeWithRecord
<1>1. ASSUME KnownRecordsInv, stage = "done", NEW path \in ScalarPaths[dtype]
      PROVE  LET inCell == Navigate(cell, ToMmdbPath(path))
             IN  PathCell(path) = IF inCell = None THEN Null ELSE inCell
  <2>. DEFINE at == Navigate(record, ToMmdbPath(path))
              inCell == Navigate(Whole(dtype, record), ToMmdbPath(path))
              d == DtypeAtPath(dtype, path)
  <2>1. dtype \in Dtype /\ record \in Accepts("struct", dtype) /\ cell = Whole(dtype, record)
    BY <1>1, RecordOfType DEF KnownRecordsInv
  <2>2. /\ d \in Scalars
        /\ \/ at = None /\ inCell \in {None, Null}
           \/ at \in Accepts("struct", d) /\ inCell = Whole(d, at)
    BY <2>1, ScalarInCell DEF PathsTo
  <2>3. d \in Dtype
    BY <2>2, ScalarFacts
  <2>4. PathCell(path) = CellOf(d, IF at = None THEN None ELSE Yields("leaves", d, at))
    BY DEF PathCell, CellOf, Yields
  <2>. HIDE DEF at, inCell, d
  <2>5. CASE at = None /\ inCell \in {None, Null}
    <3>1. PathCell(path) = Null
      BY <2>3, <2>4, <2>5, CellNull
    <3>. QED
      BY <2>1, <2>5, <3>1 DEF inCell
  <2>6. CASE at \in Accepts("struct", d) /\ inCell = Whole(d, at)
    <3>1. at # None
      BY <2>3, <2>6, AcceptedIsValue, NoValues, StructIsWay
    <3>2. PathCell(path) = inCell
      BY <2>2, <2>4, <2>6, <3>1, ScalarAtPath
    <3>3. inCell # None
      <4>1. inCell.kind = d.type /\ d.type \in ScalarTypes
        BY <2>2, <2>6, ScalarWhole, ScalarFacts DEF Converted, Leaf
      <4>2. "none" \notin ScalarTypes
        BY ScalarTypesAre
      <4>. QED
        BY <4>1, <4>2 DEF None
    <3>. QED
      BY <2>1, <3>2, <3>3 DEF inCell
  <2>. QED
    BY <2>2, <2>5, <2>6
<1>2. ASSUME KnownRecordsInv
      PROVE  PathsAgreeWithRecord
  BY <1>1, <1>2 DEF PathsAgreeWithRecord
<1>. QED
  BY <1>2, KnownRecordsInvariant, PTL

=============================================================================
