------------------------- MODULE NestedLookupProofs -------------------------
(***************************************************************************)
(* Every lookup of NestedLookup, for all requests, schemas and records:    *)
(* the path it follows is the one a caller means, decoding a record leaf   *)
(* by leaf is decoding it whole, and what comes out is what was planned.   *)
(***************************************************************************)
EXTENDS NestedLookup, DecodingProofs

----------------------------------------------------------------------------
(* Paths.                                                                  *)

(* What a record may have at a path.                                       *)
Found == Value \cup {None, Mismatch}

LEMMA DescendFinds ==
  ASSUME NEW v \in Found, NEW part
  PROVE  Descend(v, part) \in Found
<1>1. CASE v \in {None, Mismatch}
  BY <1>1 DEF Descend, Found
<1>2. CASE v \in Value
  <2>1. CASE part.at = "key" /\ v \in Maps
    BY <2>1, DescendMap DEF Found
  <2>2. CASE part.at = "key" /\ v \notin Maps
    BY <1>2, <2>2, DescendNoMap DEF Found
  <2>3. CASE part.at # "key" /\ v \in ListValues
    BY <2>3, DescendList, ListValueFacts DEF Found
  <2>4. CASE part.at # "key" /\ v \notin ListValues
    BY <1>2, <2>4, DescendNoList DEF Found
  <2>. QED
    BY <2>1, <2>2, <2>3, <2>4
<1>. QED
  BY <1>1, <1>2 DEF Found

(* A converted part leads where the part would in Python.                  *)
LEMMA ElementDescends ==
  ASSUME NEW v \in Found, NEW part \in PathPart
  PROVE  Descend(v, PathElement(part)) = PythonDescend(v, part)
<1>1. CASE part.at = "key"
  BY <1>1 DEF PathElement, PythonDescend
<1>2. CASE part.at = "index" /\ v.kind = "list"
  <2>. DEFINE n == Len(v.items)
              i == part.index
              e == PathElement(part)
              place == IF e.at = "index" THEN e.index + 1 ELSE n - e.index
  <2>1. v \in Value /\ v \notin {None, Mismatch}
    BY <1>2, NoValues DEF None, Mismatch, Found
  <2>2. n \in Nat
    BY <1>2, <2>1, ValueShape
  <2>3. i \in Int
    BY <1>2, BoundsAreNatural DEF PathPart, IndexMin
  <2>4. e.at # "key" /\ place = IF i >= 0 THEN i + 1 ELSE n + i + 1
    BY <1>2, <2>2, <2>3 DEF PathElement, Index, FromEnd
  <2>5. Descend(v, e) = IF place \in 1 .. n THEN v.items[place] ELSE None
    BY <1>2, <2>1, <2>4 DEF Descend
  <2>6. PythonDescend(v, part) = PythonElement(v.items, i)
    BY <1>2 DEF PythonDescend
  <2>. HIDE DEF e, place
  <2>7. CASE i >= 0
    <3>1. place \in 1 .. n <=> i \in 0 .. n - 1
      BY <2>2, <2>3, <2>4, <2>7
    <3>2. ~(-i \in 1 .. n) /\ place = i + 1
      BY <2>2, <2>3, <2>4, <2>7
    <3>. QED
      BY <2>5, <2>6, <3>1, <3>2 DEF PythonElement, e
  <2>8. CASE ~(i >= 0)
    <3>1. place \in 1 .. n <=> -i \in 1 .. n
      BY <2>2, <2>3, <2>4, <2>8
    <3>2. ~(i \in 0 .. n - 1) /\ place = n + i + 1
      BY <2>2, <2>3, <2>4, <2>8
    <3>. QED
      BY <2>5, <2>6, <3>1, <3>2 DEF PythonElement, e
  <2>. QED
    BY <2>7, <2>8
<1>3. CASE part.at = "index" /\ v.kind # "list"
  <2>1. PathElement(part).at # "key"
    BY <1>3 DEF PathElement, Index, FromEnd
  <2>2. PythonDescend(v, part) = Descend(v, part)
    BY <1>3 DEF PythonDescend
  <2>. QED
    BY <1>3, <2>1, <2>2 DEF Descend
<1>. QED
  BY <1>1, <1>2, <1>3 DEF PathPart

(* What a caller would have after each part of a path.                     *)
LEMMA PythonAlongDef ==
  ASSUME NEW v, NEW path, Len(path) \in Nat
  PROVE  PythonAlong(v, path) =
           [i \in 0 .. Len(path) |-> IF i = 0 THEN v ELSE PythonDescend(PythonAlong(v, path)[i - 1], path[i])]
<1>. DEFINE n == Len(path)
            Body(f, i) == IF i = 0 THEN v ELSE PythonDescend(f[i - 1], path[i])
            S == {m \in 0 .. n : \E f : f = [i \in 0 .. m |-> Body(f, i)]}
<1>1. n \in Nat
  OBVIOUS
<1>2. PythonAlong(v, path) = CHOOSE f : f = [i \in 0 .. n |-> Body(f, i)]
  BY DEF PythonAlong
<1>3. \A f, g : \A i \in 0 .. n : (i # 0 => f[i - 1] = g[i - 1]) => Body(f, i) = Body(g, i)
  OBVIOUS
<1>. HIDE DEF Body, n
<1>4. 0 \in S
  <2>. DEFINE f == [i \in 0 .. 0 |-> Body(<<>>, i)]
  <2>1. \A i \in 0 .. 0 : Body(<<>>, i) = Body(f, i)
    BY <1>1, <1>3
  <2>2. f = [i \in 0 .. 0 |-> Body(f, i)]
    BY <2>1
  <2>. HIDE DEF f
  <2>. QED
    BY <1>1, <2>2
<1>5. ASSUME NEW m \in 1 .. n, m - 1 \in S
      PROVE  m \in S
  <2>1. PICK f : f = [i \in 0 .. m - 1 |-> Body(f, i)]
    BY <1>5
  <2>. DEFINE g == [i \in 0 .. m |-> Body(f, i)]
  <2>2. \A i \in 0 .. m : i # 0 => i - 1 \in 0 .. m - 1 /\ f[i - 1] = g[i - 1]
    BY <1>1, <2>1
  <2>3. \A i \in 0 .. m : Body(f, i) = Body(g, i)
    <3>. HIDE DEF g
    <3>. QED
      BY <1>1, <1>3, <2>2
  <2>4. g = [i \in 0 .. m |-> Body(g, i)]
    BY <2>3
  <2>. HIDE DEF g
  <2>. QED
    BY <1>1, <2>4
<1>6. n \in S
  <2>. HIDE DEF S
  <2>. QED
    BY <1>1, <1>4, <1>5, PlaceInduction
<1>7. PythonAlong(v, path) = [i \in 0 .. n |-> Body(PythonAlong(v, path), i)]
  BY <1>2, <1>6
<1>. QED
  BY <1>7 DEF Body, n

(* Following the converted path leads where a caller means, whatever its   *)
(* indexes: to_mmdb_path and decode_path agree with Python.                *)
THEOREM PathAsMeant ==
  ASSUME NEW v \in Value, NEW path \in Seq(PathPart)
  PROVE  /\ Navigate(v, ToMmdbPath(path)) = PythonAlong(v, path)[Len(path)]
         /\ Navigate(v, ToMmdbPath(path)) \in Found
<1>. DEFINE n == Len(path)
            elements == ToMmdbPath(path)
            far == ValuesAlong(v, elements)
            meant == PythonAlong(v, path)
            S == {i \in 0 .. n : far[i] = meant[i] /\ far[i] \in Found}
<1>1. n \in Nat /\ Len(elements) = n
  BY DEF ToMmdbPath
<1>2. \A i \in 1 .. n : path[i] \in PathPart /\ elements[i] = PathElement(path[i])
  BY ElementOf DEF ToMmdbPath
<1>3. \A i \in 0 .. n : meant[i] = IF i = 0 THEN v ELSE PythonDescend(meant[i - 1], path[i])
  BY <1>1, PythonAlongDef
<1>. HIDE DEF elements, meant
<1>4. \A i \in 0 .. n : far[i] = IF i = 0 THEN v ELSE Descend(far[i - 1], elements[i])
  BY <1>1, ValuesAlongDef
<1>. HIDE DEF far, n
<1>5. 0 \in S
  BY <1>1, <1>3, <1>4 DEF Found
<1>6. \A i \in 1 .. n : i - 1 \in S => i \in S
  <2>. SUFFICES ASSUME NEW i \in 1 .. n, far[i - 1] = meant[i - 1], far[i - 1] \in Found
                PROVE  far[i] = meant[i] /\ far[i] \in Found
    BY <1>1
  <2>1. far[i] = Descend(far[i - 1], PathElement(path[i])) /\ path[i] \in PathPart
    BY <1>1, <1>2, <1>4
  <2>2. meant[i] = PythonDescend(meant[i - 1], path[i])
    BY <1>1, <1>3
  <2>. QED
    BY <2>1, <2>2, ElementDescends, DescendFinds
<1>7. 0 .. n \subseteq S
  <2>. HIDE DEF S
  <2>. QED
    BY <1>1, <1>5, <1>6, PlaceInduction
<1>. QED
  BY <1>1, <1>7 DEF Navigate, far, meant, elements, n

----------------------------------------------------------------------------
(* Leaves.                                                                 *)

(* The leaves of the fields up to each of them.                            *)
LEMMA GatherDef ==
  ASSUME NEW leaves, NEW fields, Len(fields) \in Nat
  PROVE  \A i \in 0 .. Len(fields) : Gather(leaves, fields)[i] =
           IF i = 0 THEN <<>> ELSE Gather(leaves, fields)[i - 1] \o Within(fields[i].name, leaves[fields[i].dtype])
<1>. DEFINE n == Len(fields)
            Body(f, i) == IF i = 0 THEN <<>> ELSE f[i - 1] \o Within(fields[i].name, leaves[fields[i].dtype])
            S == {m \in 0 .. n : \E f : f = [i \in 0 .. m |-> Body(f, i)]}
<1>1. n \in Nat
  OBVIOUS
<1>2. Gather(leaves, fields) = CHOOSE f : f = [i \in 0 .. n |-> Body(f, i)]
  BY DEF Gather
<1>3. \A f, g : \A i \in 0 .. n : (i # 0 => f[i - 1] = g[i - 1]) => Body(f, i) = Body(g, i)
  OBVIOUS
<1>. HIDE DEF Body, n
<1>4. 0 \in S
  <2>. DEFINE f == [i \in 0 .. 0 |-> Body(<<>>, i)]
  <2>1. \A i \in 0 .. 0 : Body(<<>>, i) = Body(f, i)
    BY <1>1, <1>3
  <2>2. f = [i \in 0 .. 0 |-> Body(f, i)]
    BY <2>1
  <2>. HIDE DEF f
  <2>. QED
    BY <1>1, <2>2
<1>5. ASSUME NEW m \in 1 .. n, m - 1 \in S
      PROVE  m \in S
  <2>1. PICK f : f = [i \in 0 .. m - 1 |-> Body(f, i)]
    BY <1>5
  <2>. DEFINE g == [i \in 0 .. m |-> Body(f, i)]
  <2>2. \A i \in 0 .. m : i # 0 => i - 1 \in 0 .. m - 1 /\ f[i - 1] = g[i - 1]
    BY <1>1, <2>1
  <2>3. \A i \in 0 .. m : Body(f, i) = Body(g, i)
    <3>. HIDE DEF g
    <3>. QED
      BY <1>1, <1>3, <2>2
  <2>4. g = [i \in 0 .. m |-> Body(g, i)]
    BY <2>3
  <2>. HIDE DEF g
  <2>. QED
    BY <1>1, <2>4
<1>6. n \in S
  <2>. HIDE DEF S
  <2>. QED
    BY <1>1, <1>4, <1>5, PlaceInduction
<1>7. Gather(leaves, fields) = [i \in 0 .. n |-> Body(Gather(leaves, fields), i)]
  BY <1>2, <1>6
<1>8. \A i \in 0 .. n : Gather(leaves, fields)[i] = Body(Gather(leaves, fields), i)
  BY <1>7
<1>. QED
  BY <1>8 DEF Body, n

(* a is what one gets by appending the first n of x one by one.            *)
Appends(n, a, x) == \A i \in 0 .. n : a[i] = IF i = 0 THEN <<>> ELSE a[i - 1] \o x[i]

LEMMA AppendsAgree ==
  ASSUME NEW n \in Nat, NEW x, NEW a, Appends(n, a, x), NEW b, Appends(n, b, x)
  PROVE  a[n] = b[n]
<1>. USE DEF Appends
<1>. DEFINE S == {i \in 0 .. n : a[i] = b[i]}
<1>1. 0 \in S
  OBVIOUS
<1>2. \A i \in 1 .. n : i - 1 \in S => i \in S
  OBVIOUS
<1>3. 0 .. n \subseteq S
  <2>. HIDE DEF S
  <2>. QED
    BY <1>1, <1>2, PlaceInduction
<1>. QED
  BY <1>3

(* Only the leaves of the fields' dtypes matter.                           *)
LEMMA GatherAgrees ==
  ASSUME NEW f, NEW g, NEW fields, Len(fields) \in Nat,
         \A i \in 1 .. Len(fields) : f[fields[i].dtype] = g[fields[i].dtype]
  PROVE  Gather(f, fields)[Len(fields)] = Gather(g, fields)[Len(fields)]
<1>. DEFINE n == Len(fields)
            a == Gather(f, fields)
            b == Gather(g, fields)
            X(i) == Within(fields[i].name, f[fields[i].dtype])
            Y(i) == Within(fields[i].name, g[fields[i].dtype])
            x == [i \in 1 .. n |-> X(i)]
<1>1. \A i \in 0 .. n : a[i] = IF i = 0 THEN <<>> ELSE a[i - 1] \o X(i)
  BY GatherDef
<1>2. \A i \in 0 .. n : b[i] = IF i = 0 THEN <<>> ELSE b[i - 1] \o Y(i)
  BY GatherDef
<1>3. \A i \in 1 .. n : X(i) = Y(i)
  OBVIOUS
<1>. HIDE DEF a, b, X, Y
<1>4. \A i \in 0 .. n : i # 0 => i \in 1 .. n /\ x[i] = X(i) /\ x[i] = Y(i)
  BY <1>3
<1>. HIDE DEF x
<1>5. Appends(n, a, x) /\ Appends(n, b, x)
  BY <1>1, <1>2, <1>4, Zenon DEF Appends
<1>6. a[n] = b[n]
  BY <1>5, AppendsAgree
<1>. QED
  BY <1>6 DEF a, b

(* flatten_projection of a dtype, from that of its parts.                  *)
LEMMA LeavesDef ==
  ASSUME NEW d0 \in Dtype
  PROVE  Leaves[d0] =
           IF d0.type # "struct" THEN <<[path |-> <<>>, dtype |-> d0]>>
           ELSE Gather(Leaves, d0.fields)[Len(d0.fields)]
<1>. DEFINE Body(f, d) ==
              IF d.type # "struct" THEN <<[path |-> <<>>, dtype |-> d]>>
              ELSE Gather(f, d.fields)[Len(d.fields)]
            S == {n \in 0 .. MaxDepth : \E f : f = [d \in DtypesTo[n] |-> Body(f, d)]}
<1>1. ASSUME NEW d \in Dtype, NEW f, NEW g, \A e \in PartsOf(d) : f[e] = g[e]
      PROVE  Body(f, d) = Body(g, d)
  <2>1. CASE d.type = "struct"
    <3>1. Len(d.fields) \in Nat /\ \A i \in 1 .. Len(d.fields) : f[d.fields[i].dtype] = g[d.fields[i].dtype]
      BY <1>1, <2>1, DtypeShape DEF PartsOf
    <3>2. Gather(f, d.fields)[Len(d.fields)] = Gather(g, d.fields)[Len(d.fields)]
      BY <3>1, GatherAgrees
    <3>. QED
      BY <2>1, <3>2
  <2>. QED
    BY <2>1
<1>2. Leaves = CHOOSE f : f = [d \in Dtype |-> Body(f, d)]
  BY DEF Leaves
<1>. HIDE DEF Body
<1>3. 0 \in S
  <2>1. 0 \in 0 .. MaxDepth /\ \A d \in DtypesTo[0] : d \in Dtype /\ PartsOf(d) = {}
    BY MaxDepthIsNatural, DtypeToShape
  <2>. DEFINE f == [d \in DtypesTo[0] |-> Body(<<>>, d)]
  <2>2. \A d \in DtypesTo[0] : Body(<<>>, d) = Body(f, d)
    BY <1>1, <2>1
  <2>3. f = [d \in DtypesTo[0] |-> Body(f, d)]
    BY <2>2
  <2>. HIDE DEF f
  <2>. QED
    BY <2>1, <2>3
<1>4. ASSUME NEW n \in 1 .. MaxDepth, n - 1 \in S
      PROVE  n \in S
  <2>1. PICK f : f = [d \in DtypesTo[n - 1] |-> Body(f, d)]
    BY <1>4
  <2>. DEFINE g == [d \in DtypesTo[n] |-> Body(f, d)]
  <2>2. n \in 0 .. MaxDepth /\ n # 0
    BY MaxDepthIsNatural
  <2>3. \A d \in DtypesTo[n] : /\ d \in Dtype /\ PartsOf(d) \subseteq DtypesTo[n - 1]
                               /\ DtypesTo[n - 1] \subseteq DtypesTo[n]
    BY <2>2, DtypeToShape
  <2>4. \A d \in DtypesTo[n] : \A e \in PartsOf(d) : f[e] = g[e]
    BY <2>1, <2>3
  <2>5. \A d \in DtypesTo[n] : Body(f, d) = Body(g, d)
    <3>. HIDE DEF g
    <3>. QED
      BY <1>1, <2>3, <2>4
  <2>6. g = [d \in DtypesTo[n] |-> Body(g, d)]
    BY <2>5
  <2>. HIDE DEF g
  <2>. QED
    BY <2>2, <2>6
<1>5. MaxDepth \in S
  <2>. HIDE DEF S
  <2>. QED
    BY <1>3, <1>4, MaxDepthIsNatural, PlaceInduction
<1>6. Leaves = [d \in Dtype |-> Body(Leaves, d)]
  BY <1>2, <1>5 DEF Dtype
<1>7. Leaves[d0] = Body(Leaves, d0)
  BY <1>6
<1>. QED
  BY <1>7 DEF Body

(* Every leaf has a path of names and a dtype.                             *)
LeafEntries == [path : Seq(STRING), dtype : Dtype]

LeafCount(d) == Len(Leaves[d])
LeafPath(d, k) == Leaves[d][k].path
LeafDtype(d, k) == Leaves[d][k].dtype

(* The leaves of the first i fields of a Struct.                           *)
UpTo(d, i) == Gather(Leaves, d.fields)[i]
Before(d, i) == Len(UpTo(d, i - 1))

LEMMA WithinFacts ==
  ASSUME NEW name \in STRING, NEW leaves \in Seq(LeafEntries)
  PROVE  /\ Within(name, leaves) \in Seq(LeafEntries)
         /\ Len(Within(name, leaves)) = Len(leaves)
         /\ \A k \in 1 .. Len(leaves) : /\ Within(name, leaves)[k].path = <<name>> \o leaves[k].path
                                        /\ Within(name, leaves)[k].dtype = leaves[k].dtype
<1>. DEFINE w == Within(name, leaves)
            Under(leaf) == [path |-> <<name>> \o leaf.path, dtype |-> leaf.dtype]
<1>1. Len(leaves) \in Nat /\ \A k \in 1 .. Len(leaves) : leaves[k] \in LeafEntries
  BY ElementOf
<1>2. \A leaf \in LeafEntries : /\ Under(leaf) \in LeafEntries
                                /\ Under(leaf).path = <<name>> \o leaf.path
                                /\ Under(leaf).dtype = leaf.dtype
  BY DEF LeafEntries
<1>3. w = [k \in 1 .. Len(leaves) |-> Under(leaves[k])]
  BY DEF Within
<1>. HIDE DEF w, Under
<1>4. /\ w = [k \in 1 .. Len(leaves) |-> w[k]]
      /\ \A k \in 1 .. Len(leaves) : w[k] = Under(leaves[k]) /\ w[k] \in LeafEntries
  BY <1>1, <1>2, <1>3
<1>5. w \in Seq(LeafEntries) /\ Len(w) = Len(leaves)
  <2>. HIDE DEF LeafEntries
  <2>. QED
    BY <1>1, <1>4, SequenceOf
<1>. QED
  BY <1>1, <1>2, <1>4, <1>5 DEF w

(* The leaves of the fields follow each other.                             *)
LEMMA UpToField ==
  ASSUME NEW d \in Structs, \A i \in 1 .. Arity(d) : Leaves[PartAt(d, i)] \in Seq(LeafEntries)
  PROVE  /\ UpTo(d, 0) = <<>>
         /\ \A i \in 1 .. Arity(d) :
              UpTo(d, i) = UpTo(d, i - 1) \o Within(NameAt(d, i), Leaves[PartAt(d, i)])
         /\ \A i \in 0 .. Arity(d) : UpTo(d, i) \in Seq(LeafEntries)
<1>. DEFINE S == {i \in 0 .. Arity(d) : UpTo(d, i) \in Seq(LeafEntries)}
<1>1. Arity(d) \in Nat /\ \A i \in 1 .. Arity(d) : NameAt(d, i) \in STRING
  BY StructFacts
<1>2. \A i \in 0 .. Arity(d) :
        UpTo(d, i) = IF i = 0 THEN <<>>
                     ELSE UpTo(d, i - 1) \o Within(NameAt(d, i), Leaves[PartAt(d, i)])
  <2>. DEFINE fields == d.fields
              X(i) == Within(fields[i].name, Leaves[fields[i].dtype])
              u == Gather(Leaves, fields)
  <2>1. Len(fields) \in Nat
    BY <1>1 DEF Arity
  <2>2. \A i \in 0 .. Len(fields) : u[i] = IF i = 0 THEN <<>> ELSE u[i - 1] \o X(i)
    <3>. HIDE DEF fields
    <3>. QED
      BY <2>1, GatherDef
  <2>3. \A i : u[i] = UpTo(d, i) /\ X(i) = Within(NameAt(d, i), Leaves[PartAt(d, i)])
    BY DEF UpTo, NameAt, PartAt
  <2>4. Len(fields) = Arity(d)
    BY DEF Arity
  <2>. HIDE DEF u, X, fields
  <2>. QED
    BY <2>2, <2>3, <2>4
<1>3. /\ UpTo(d, 0) = <<>>
      /\ \A i \in 1 .. Arity(d) :
           UpTo(d, i) = UpTo(d, i - 1) \o Within(NameAt(d, i), Leaves[PartAt(d, i)])
  BY <1>1, <1>2
<1>4. 0 \in S
  <2>1. <<>> \in Seq(LeafEntries)
    OBVIOUS
  <2>2. UpTo(d, 0) \in Seq(LeafEntries)
    BY <1>3, <2>1, Zenon
  <2>3. 0 \in 0 .. Arity(d)
    BY <1>1
  <2>. QED
    BY <2>2, <2>3
<1>5. \A i \in 1 .. Arity(d) : i - 1 \in S => i \in S
  <2>. SUFFICES ASSUME NEW i \in 1 .. Arity(d), UpTo(d, i - 1) \in Seq(LeafEntries)
                PROVE  UpTo(d, i) \in Seq(LeafEntries)
    BY <1>1
  <2>1. Within(NameAt(d, i), Leaves[PartAt(d, i)]) \in Seq(LeafEntries)
    BY <1>1, WithinFacts
  <2>2. UpTo(d, i) = UpTo(d, i - 1) \o Within(NameAt(d, i), Leaves[PartAt(d, i)])
    BY <1>3
  <2>. QED
    BY <2>1, <2>2
<1>6. 0 .. Arity(d) \subseteq S
  <2>. HIDE DEF S
  <2>. QED
    BY <1>1, <1>4, <1>5, PlaceInduction
<1>. QED
  BY <1>3, <1>6

LEMMA LeavesStruct ==
  ASSUME NEW d \in Structs
  PROVE  Leaves[d] = UpTo(d, Arity(d))
BY LeavesDef DEF Structs, UpTo, Arity

LEMMA LeavesOther ==
  ASSUME NEW d \in Dtype, d \notin Structs
  PROVE  Leaves[d] = <<[path |-> <<>>, dtype |-> d]>>
BY LeavesDef DEF Structs

LEMMA LeavesAreEntries ==
  ASSUME NEW d0 \in Dtype
  PROVE  Leaves[d0] \in Seq(LeafEntries)
<1>. DEFINE S == {d \in Dtype : Leaves[d] \in Seq(LeafEntries)}
<1>1. ASSUME NEW d \in Structs, \A i \in 1 .. Arity(d) : PartAt(d, i) \in S
      PROVE  d \in S
  BY <1>1, StructFacts, UpToField, LeavesStruct
<1>2. ASSUME NEW d \in Dtype, d \notin Structs
      PROVE  d \in S
  <2>1. [path |-> <<>>, dtype |-> d] \in LeafEntries
    BY DEF LeafEntries
  <2>. HIDE DEF LeafEntries
  <2>2. <<[path |-> <<>>, dtype |-> d]>> \in Seq(LeafEntries)
    BY <2>1
  <2>. QED
    BY <1>2, <2>2, LeavesOther
<1>3. Dtype \subseteq S
  <2>1. /\ \A d \in Structs : (\A i \in 1 .. Arity(d) : PartAt(d, i) \in S) => d \in S
        /\ \A d \in Lists : Inner(d) \in S => d \in S
        /\ \A d \in Scalars : d \in S
    BY <1>1, <1>2, DtypeKinds, ListFacts, ScalarFacts
  <2>. HIDE DEF S
  <2>. QED
    BY <2>1, InductionOnDtypes
<1>. QED
  BY <1>3

LEMMA LeafFacts ==
  ASSUME NEW d \in Dtype
  PROVE  /\ LeafCount(d) \in Nat
         /\ \A k \in 1 .. LeafCount(d) : LeafPath(d, k) \in Seq(STRING) /\ LeafDtype(d, k) \in Dtype
<1>1. Leaves[d] \in Seq(LeafEntries)
  BY LeavesAreEntries
<1>2. LeafCount(d) \in Nat /\ \A k \in 1 .. LeafCount(d) : Leaves[d][k] \in LeafEntries
  BY <1>1, ElementOf DEF LeafCount
<1>. QED
  BY <1>2 DEF LeafEntries, LeafPath, LeafDtype

LEMMA OneLeaf ==
  ASSUME NEW d \in Dtype, d \notin Structs
  PROVE  LeafCount(d) = 1 /\ LeafPath(d, 1) = <<>> /\ LeafDtype(d, 1) = d
<1>. DEFINE leaf == [path |-> <<>>, dtype |-> d]
<1>1. leaf.path = <<>> /\ leaf.dtype = d
  OBVIOUS
<1>2. Leaves[d] = <<leaf>>
  BY LeavesOther
<1>. HIDE DEF leaf
<1>3. Len(<<leaf>>) = 1 /\ <<leaf>>[1] = leaf
  OBVIOUS
<1>. QED
  BY <1>1, <1>2, <1>3 DEF LeafCount, LeafPath, LeafDtype

(* Each leaf of a Struct is one of one field, and each field's are there.  *)
LEMMA LeavesOfFields ==
  ASSUME NEW d \in Structs
  PROVE  /\ \A i \in 1 .. Arity(d) :
              /\ Before(d, i) \in Nat
              /\ Before(d, i) + LeafCount(PartAt(d, i)) <= LeafCount(d)
              /\ \A j \in 1 .. LeafCount(PartAt(d, i)) :
                   /\ Before(d, i) + j \in 1 .. LeafCount(d)
                   /\ LeafPath(d, Before(d, i) + j) = <<NameAt(d, i)>> \o LeafPath(PartAt(d, i), j)
                   /\ LeafDtype(d, Before(d, i) + j) = LeafDtype(PartAt(d, i), j)
         /\ \A k \in 1 .. LeafCount(d) :
              \E i \in 1 .. Arity(d) : \E j \in 1 .. LeafCount(PartAt(d, i)) : k = Before(d, i) + j
<1>. DEFINE n == Arity(d)
            u(i) == UpTo(d, i)
            w(i) == Within(NameAt(d, i), Leaves[PartAt(d, i)])
            Size(i) == LeafCount(PartAt(d, i))
            Holds(m) == /\ \A i \in 1 .. m :
                             /\ Len(u(i)) <= Len(u(m))
                             /\ \A j \in 1 .. Size(i) : u(m)[Before(d, i) + j] = w(i)[j]
                        /\ \A k \in 1 .. Len(u(m)) :
                             \E i \in 1 .. m : \E j \in 1 .. Size(i) : k = Before(d, i) + j
            S == {m \in 0 .. n : Holds(m)}
<1>1. n \in Nat /\ \A i \in 1 .. n : PartAt(d, i) \in Dtype /\ NameAt(d, i) \in STRING
  BY StructFacts
<1>2. \A i \in 1 .. n : Leaves[PartAt(d, i)] \in Seq(LeafEntries)
  BY <1>1, LeavesAreEntries
<1>3. \A i \in 1 .. n : w(i) \in Seq(LeafEntries) /\ Len(w(i)) = Size(i) /\ Size(i) \in Nat
  BY <1>1, <1>2, WithinFacts, LeafFacts DEF LeafCount
<1>4. /\ u(0) = <<>> /\ \A i \in 1 .. n : u(i) = u(i - 1) \o w(i)
      /\ \A i \in 0 .. n : u(i) \in Seq(LeafEntries)
  BY <1>2, UpToField
<1>5. Leaves[d] = u(n)
  BY LeavesStruct
<1>6. \A i \in 1 .. n : \A j \in 1 .. Size(i) :
        w(i)[j].path = <<NameAt(d, i)>> \o LeafPath(PartAt(d, i), j) /\ w(i)[j].dtype = LeafDtype(PartAt(d, i), j)
  BY <1>1, <1>2, WithinFacts DEF LeafCount, LeafPath, LeafDtype
<1>7. \A i \in 1 .. n : Before(d, i) = Len(u(i - 1))
  BY DEF Before
<1>. HIDE DEF n, u, w, Size
<1>8. \A i \in 0 .. n : Len(u(i)) \in Nat
  BY <1>4
<1>9. \A i \in 1 .. n : /\ Len(u(i)) = Before(d, i) + Size(i) /\ Before(d, i) \in Nat
                        /\ \A j \in 1 .. Size(i) : u(i)[Before(d, i) + j] = w(i)[j]
                        /\ \A k \in 1 .. Before(d, i) : u(i)[k] = u(i - 1)[k]
  <2>. SUFFICES ASSUME NEW i \in 1 .. n
                PROVE  /\ Len(u(i)) = Before(d, i) + Size(i) /\ Before(d, i) \in Nat
                       /\ \A j \in 1 .. Size(i) : u(i)[Before(d, i) + j] = w(i)[j]
                       /\ \A k \in 1 .. Before(d, i) : u(i)[k] = u(i - 1)[k]
    OBVIOUS
  <2>1. i - 1 \in 0 .. n /\ u(i - 1) \in Seq(LeafEntries) /\ w(i) \in Seq(LeafEntries)
    BY <1>1, <1>3, <1>4
  <2>. HIDE DEF LeafEntries
  <2>. QED
    BY <2>1, <1>3, <1>4, <1>7
<1>10. \A m \in 1 .. n : /\ m - 1 \in 0 .. n /\ m \in 0 .. n
                         /\ Before(d, m) = Len(u(m - 1)) /\ Size(m) \in Nat
  BY <1>1, <1>3, <1>7
<1>11. Holds(0)
  BY <1>4
<1>12. ASSUME NEW m \in 1 .. n, Holds(m - 1)
       PROVE  Holds(m)
  <2>0. m - 1 \in 0 .. n /\ m \in 0 .. n /\ Before(d, m) = Len(u(m - 1)) /\ Size(m) \in Nat
    BY <1>10
  <2>1. ASSUME NEW i \in 1 .. m
        PROVE  Len(u(i)) <= Len(u(m)) /\ \A j \in 1 .. Size(i) : u(m)[Before(d, i) + j] = w(i)[j]
    <3>1. CASE i = m
      BY <1>8, <1>9, <2>0, <3>1
    <3>2. CASE i # m
      <4>1. i \in 1 .. m - 1 /\ i \in 1 .. n
        BY <1>1, <3>2
      <4>2. Len(u(i)) <= Before(d, m) /\ \A j \in 1 .. Size(i) : u(m - 1)[Before(d, i) + j] = w(i)[j]
        BY <1>12, <2>0, <4>1
      <4>3. \A j \in 1 .. Size(i) : Before(d, i) + j \in 1 .. Before(d, m)
        <5>1. /\ Before(d, i) \in Nat /\ Size(i) \in Nat /\ Before(d, m) \in Nat
              /\ Len(u(i)) = Before(d, i) + Size(i) /\ Len(u(i)) <= Before(d, m)
          BY <1>9, <1>10, <4>1, <4>2
        <5>. QED
          BY <5>1
      <4>4. \A j \in 1 .. Size(i) : u(m)[Before(d, i) + j] = u(m - 1)[Before(d, i) + j]
        BY <1>9, <4>3
      <4>. QED
        BY <1>8, <1>9, <2>0, <4>1, <4>2, <4>4
    <3>. QED
      BY <3>1, <3>2
  <2>2. ASSUME NEW k \in 1 .. Len(u(m))
        PROVE  \E i \in 1 .. m : \E j \in 1 .. Size(i) : k = Before(d, i) + j
    <3>1. CASE k <= Before(d, m)
      <4>1. k \in 1 .. Len(u(m - 1))
        BY <1>8, <1>9, <2>0, <3>1
      <4>2. PICK i \in 1 .. m - 1 : \E j \in 1 .. Size(i) : k = Before(d, i) + j
        BY <1>12, <4>1
      <4>. QED
        BY <4>2
    <3>2. CASE ~(k <= Before(d, m))
      <4>1. k - Before(d, m) \in 1 .. Size(m) /\ k = Before(d, m) + (k - Before(d, m))
        BY <1>8, <1>9, <2>0, <3>2
      <4>. QED
        BY <4>1
    <3>. QED
      BY <3>1, <3>2
  <2>. QED
    BY <2>1, <2>2
<1>13. Holds(n)
  <2>. HIDE DEF Holds
  <2>1. 0 \in S /\ \A m \in 1 .. n : m - 1 \in S => m \in S
    BY <1>1, <1>11, <1>12
  <2>2. 0 .. n \subseteq S
    <3>. HIDE DEF S
    <3>. QED
      BY <1>1, <2>1, PlaceInduction
  <2>. QED
    BY <1>1, <2>2
<1>14. LeafCount(d) = Len(u(n))
  BY <1>5 DEF LeafCount
<1>15. ASSUME NEW i \in 1 .. n
       PROVE  /\ Before(d, i) \in Nat /\ Before(d, i) + Size(i) <= LeafCount(d)
              /\ \A j \in 1 .. Size(i) :
                   /\ Before(d, i) + j \in 1 .. LeafCount(d)
                   /\ LeafPath(d, Before(d, i) + j) = <<NameAt(d, i)>> \o LeafPath(PartAt(d, i), j)
                   /\ LeafDtype(d, Before(d, i) + j) = LeafDtype(PartAt(d, i), j)
  <2>1. Before(d, i) \in Nat /\ Size(i) \in Nat /\ Before(d, i) + Size(i) <= LeafCount(d) /\ LeafCount(d) \in Nat
    BY <1>1, <1>3, <1>8, <1>9, <1>13, <1>14
  <2>2. \A j \in 1 .. Size(i) : Before(d, i) + j \in 1 .. LeafCount(d)
    BY <2>1
  <2>3. \A j \in 1 .. Size(i) : Leaves[d][Before(d, i) + j] = w(i)[j]
    BY <1>5, <1>13
  <2>4. \A j \in 1 .. Size(i) : /\ LeafPath(d, Before(d, i) + j) = <<NameAt(d, i)>> \o LeafPath(PartAt(d, i), j)
                                /\ LeafDtype(d, Before(d, i) + j) = LeafDtype(PartAt(d, i), j)
    <3>. SUFFICES ASSUME NEW j \in 1 .. Size(i)
                  PROVE  /\ Leaves[d][Before(d, i) + j].path = <<NameAt(d, i)>> \o LeafPath(PartAt(d, i), j)
                         /\ Leaves[d][Before(d, i) + j].dtype = LeafDtype(PartAt(d, i), j)
      BY DEF LeafPath, LeafDtype
    <3>. QED
      BY <1>6, <2>3
  <2>. QED
    BY <2>1, <2>2, <2>4
<1>. QED
  BY <1>13, <1>14, <1>15 DEF n, Size

----------------------------------------------------------------------------
(* Decoding leaf by leaf.                                                  *)

Follow(v, names) == Navigate(v, Keys(names))
Into(v, name) == Descend(v, Key(name))

(* Does a leaf decode, and what is the column given for it?                *)
LeafDecodes(way, v, names, d) ==
  Follow(v, names) # Mismatch /\ (Follow(v, names) = None \/ Follow(v, names) \in Accepts(way, d))
OrDefault(way, v, d) == IF v = None THEN DefaultOf(d) ELSE Yields(way, d, v)

LEMMA FollowNothing == \A v : Follow(v, <<>>) = v
<1>1. Keys(<<>>) = <<>>
  BY DEF Keys
<1>. QED
  BY <1>1, NavigateEmpty DEF Follow

LEMMA FollowFirst ==
  ASSUME NEW v, NEW name \in STRING, NEW names \in Seq(STRING)
  PROVE  Follow(v, <<name>> \o names) = Follow(Into(v, name), names)
<1>. DEFINE T == {Key(n) : n \in STRING}
            long == <<name>> \o names
            rest == Keys(names)
<1>1. Len(names) \in Nat /\ \A i \in 1 .. Len(names) : names[i] \in STRING
  BY ElementOf
<1>2. /\ Len(long) = Len(names) + 1 /\ long[1] = name
      /\ \A i \in 1 .. Len(names) : long[i + 1] = names[i]
  OBVIOUS
<1>. HIDE DEF long
<1>3. rest \in Seq(T) /\ Len(rest) = Len(names) /\ \A i \in 1 .. Len(names) : rest[i] = Key(names[i])
  BY <1>1 DEF Keys
<1>4. Key(name) \in T
  OBVIOUS
<1>. HIDE DEF rest, T
<1>. DEFINE first == Key(name)
            keys == <<first>> \o rest
<1>5. /\ Len(keys) = Len(rest) + 1 /\ keys[1] = first
      /\ \A i \in 1 .. Len(rest) : keys[i + 1] = rest[i]
      /\ keys = [i \in 1 .. Len(rest) + 1 |-> keys[i]]
  <2>. HIDE DEF first
  <2>. QED
    BY <1>3, <1>4
<1>. HIDE DEF keys
<1>6. \A i \in 1 .. Len(long) : keys[i] = Key(long[i])
  <2>. SUFFICES ASSUME NEW i \in 1 .. Len(long) PROVE keys[i] = Key(long[i])
    OBVIOUS
  <2>1. CASE i = 1
    BY <1>2, <1>5, <2>1
  <2>2. CASE i # 1
    <3>. DEFINE j == i - 1
    <3>1. j \in 1 .. Len(names) /\ j + 1 = i
      BY <1>1, <1>2, <2>2
    <3>. HIDE DEF j
    <3>2. long[j + 1] = names[j] /\ keys[j + 1] = rest[j] /\ rest[j] = Key(names[j])
      BY <1>2, <1>3, <1>5, <3>1
    <3>. QED
      BY <3>1, <3>2
  <2>. QED
    BY <2>1, <2>2
<1>7. Keys(long) = keys
  <2>1. Len(long) = Len(rest) + 1
    BY <1>2, <1>3
  <2>. QED
    BY <1>5, <1>6, <2>1 DEF Keys
<1>8. Navigate(v, keys) = Navigate(Descend(v, first), rest)
  <2>1. first \in T /\ rest \in Seq(T)
    BY <1>3, <1>4
  <2>. HIDE DEF first
  <2>2. Navigate(v, <<first>> \o rest) = Navigate(Descend(v, first), rest)
    BY <2>1, NavigateFront
  <2>. QED
    BY <2>2 DEF keys
<1>. QED
  BY <1>7, <1>8 DEF Follow, Into, long, rest

LEMMA FollowStuck ==
  ASSUME NEW v \in {None, Mismatch}, NEW names \in Seq(STRING)
  PROVE  Follow(v, names) = v
<1>1. Len(Keys(names)) \in Nat
  BY DEF Keys
<1>. QED
  BY <1>1, NavigateStuck DEF Follow

LEMMA IntoFacts ==
  ASSUME NEW name
  PROVE  /\ Into(None, name) = None
         /\ \A v \in Maps : Into(v, name) = IF HasEntry(v, name) THEN EntryOf(v, name) ELSE None
         /\ \A v \in Value : v \notin Maps => Into(v, name) = Mismatch
<1>1. Key(name).at = "key" /\ Key(name).name = name
  BY DEF Key
<1>2. Into(None, name) = None
  BY DEF Into, Descend
<1>3. \A v \in Maps : Into(v, name) = IF HasEntry(v, name) THEN EntryOf(v, name) ELSE None
  BY <1>1, DescendMap, MapFacts DEF Into
<1>4. \A v \in Value : v \notin Maps => Into(v, name) = Mismatch
  BY <1>1, DescendNoMap DEF Into
<1>. QED
  BY <1>2, <1>3, <1>4

(* Under a field's name there is what the field takes, and after decoding  *)
(* what that is decoded to.                                                *)
LEMMA FieldDecodes ==
  ASSUME NEW way \in Ways, NEW d \in Structs, NEW v \in Accepts(way, d) \cup {None}, NEW i \in 1 .. Arity(d)
  PROVE  /\ Into(v, NameAt(d, i)) \in Accepts(way, PartAt(d, i)) \cup {None}
         /\ Into(OrDefault(way, v, d), NameAt(d, i)) = OrDefault(way, Into(v, NameAt(d, i)), PartAt(d, i))
<1>1. d \in Dtype /\ PartAt(d, i) \in Dtype
  BY StructFacts
<1>2. ASSUME NEW w, OrDefault(way, v, d) = Made(d, w)
      PROVE  Into(OrDefault(way, v, d), NameAt(d, i)) = At(w, i)
  <2>1. OrDefault(way, v, d) \in FullValues(way, d)
    BY DEF OrDefault, FullValues
  <2>2. Made(d, w) \in Maps
    BY <1>1, <1>2, <2>1, FullIsBuildable, MadeFacts DEF Maps
  <2>. QED
    BY <1>2, <2>2, IntoFacts, MadeFacts
<1>3. CASE v = None
  <2>1. PICK w : DefaultOf(d) = Made(d, w) /\ \A j \in 1 .. Arity(d) : At(w, j) = DefaultOf(PartAt(d, j))
    BY DefaultStruct
  <2>2. OrDefault(way, v, d) = Made(d, w) /\ Into(v, NameAt(d, i)) = None
    BY <1>3, <2>1, IntoFacts DEF OrDefault
  <2>3. Into(OrDefault(way, v, d), NameAt(d, i)) = At(w, i)
    BY <1>2, <2>2
  <2>. QED
    BY <2>1, <2>2, <2>3 DEF OrDefault
<1>4. CASE v # None
  <2>1. v \in Accepts(way, d)
    BY <1>4
  <2>2. PICK w : Yields(way, d, v) = Made(d, w) /\ \A j \in 1 .. Arity(d) : At(w, j) = YieldsAt(way, d, v, j)
    BY <2>1, YieldsStruct
  <2>3. OrDefault(way, v, d) = Made(d, w)
    BY <1>4, <2>2 DEF OrDefault
  <2>4. Into(OrDefault(way, v, d), NameAt(d, i)) = YieldsAt(way, d, v, i)
    BY <1>2, <2>2, <2>3
  <2>5. v \in Maps /\ (HasEntry(v, NameAt(d, i)) => EntryOf(v, NameAt(d, i)) \in Accepts(way, PartAt(d, i)))
    BY <2>1, AcceptsStruct
  <2>6. Into(v, NameAt(d, i)) = IF HasEntry(v, NameAt(d, i)) THEN EntryOf(v, NameAt(d, i)) ELSE None
    BY <2>5, IntoFacts
  <2>7. CASE HasEntry(v, NameAt(d, i))
    <3>1. EntryOf(v, NameAt(d, i)) # None
      BY <1>1, <2>5, <2>7, AcceptedIsValue, NoValues
    <3>. QED
      BY <2>4, <2>5, <2>6, <2>7, <3>1 DEF OrDefault, YieldsAt
  <2>8. CASE ~HasEntry(v, NameAt(d, i))
    BY <2>4, <2>6, <2>8 DEF OrDefault, YieldsAt
  <2>. QED
    BY <2>7, <2>8
<1>. QED
  BY <1>3, <1>4

(* A record that decodes whole decodes leaf by leaf, and each leaf decodes *)
(* to what the whole has there.                                            *)
THEOREM LeavesOfWhole ==
  ASSUME NEW way \in Ways, NEW d0 \in Dtype, NEW v0 \in Accepts(way, d0) \cup {None}, NEW k0 \in 1 .. LeafCount(d0)
  PROVE  /\ LeafDecodes(way, v0, LeafPath(d0, k0), LeafDtype(d0, k0))
         /\ Follow(OrDefault(way, v0, d0), LeafPath(d0, k0))
              = OrDefault(way, Follow(v0, LeafPath(d0, k0)), LeafDtype(d0, k0))
<1>. DEFINE Good(d, v, k) ==
              /\ LeafDecodes(way, v, LeafPath(d, k), LeafDtype(d, k))
              /\ Follow(OrDefault(way, v, d), LeafPath(d, k))
                   = OrDefault(way, Follow(v, LeafPath(d, k)), LeafDtype(d, k))
            S == {d \in Dtype : \A v \in Accepts(way, d) \cup {None}, k \in 1 .. LeafCount(d) : Good(d, v, k)}
<1>1. ASSUME NEW d \in Structs, \A i \in 1 .. Arity(d) : PartAt(d, i) \in S,
             NEW v \in Accepts(way, d) \cup {None}, NEW k \in 1 .. LeafCount(d)
      PROVE  Good(d, v, k)
  <2>1. PICK i \in 1 .. Arity(d) : \E j \in 1 .. LeafCount(PartAt(d, i)) : k = Before(d, i) + j
    BY LeavesOfFields
  <2>2. PICK j \in 1 .. LeafCount(PartAt(d, i)) : k = Before(d, i) + j
    BY <2>1
  <2>. DEFINE p == LeafPath(PartAt(d, i), j)
              e == LeafDtype(PartAt(d, i), j)
              name == NameAt(d, i)
  <2>3. LeafPath(d, k) = <<name>> \o p /\ LeafDtype(d, k) = e
    BY <2>1, <2>2, LeavesOfFields
  <2>4. PartAt(d, i) \in Dtype /\ name \in STRING
    BY <2>1, StructFacts
  <2>5. p \in Seq(STRING)
    BY <2>2, <2>4, LeafFacts
  <2>6. /\ Into(v, name) \in Accepts(way, PartAt(d, i)) \cup {None}
        /\ Into(OrDefault(way, v, d), name) = OrDefault(way, Into(v, name), PartAt(d, i))
    BY <2>1, FieldDecodes
  <2>7. Good(PartAt(d, i), Into(v, name), j)
    <3>. HIDE DEF Good
    <3>. QED
      BY <1>1, <2>1, <2>2, <2>6
  <2>. HIDE DEF p, e, name
  <2>8. \A x : Follow(x, LeafPath(d, k)) = Follow(Into(x, name), p)
    BY <2>3, <2>4, <2>5, FollowFirst
  <2>. QED
    BY <2>3, <2>6, <2>7, <2>8 DEF LeafDecodes, p, e
<1>2. ASSUME NEW d \in Dtype, d \notin Structs,
             NEW v \in Accepts(way, d) \cup {None}, NEW k \in 1 .. LeafCount(d)
      PROVE  Good(d, v, k)
  <2>1. k = 1 /\ LeafPath(d, k) = <<>> /\ LeafDtype(d, k) = d
    BY <1>2, OneLeaf
  <2>2. v # Mismatch
    BY NoValues, AcceptedIsValue
  <2>. QED
    BY <2>1, <2>2, FollowNothing DEF LeafDecodes
<1>. HIDE DEF Good
<1>3. Dtype \subseteq S
  <2>1. /\ \A d \in Structs : (\A i \in 1 .. Arity(d) : PartAt(d, i) \in S) => d \in S
        /\ \A d \in Lists : Inner(d) \in S => d \in S
        /\ \A d \in Scalars : d \in S
    BY <1>1, <1>2, DtypeKinds, StructFacts, ListFacts, ScalarFacts
  <2>. HIDE DEF S
  <2>. QED
    BY <2>1, InductionOnDtypes
<1>. QED
  BY <1>3 DEF Good

(* Whether there is a leaf throughout a dtype, from its parts.              *)
LEMMA HasLeavesDef ==
  ASSUME NEW d0 \in Dtype
  PROVE  HasLeavesThroughout[d0] =
           (d0.type = "struct" =>
              /\ d0.fields # <<>>
              /\ \A i \in 1 .. Len(d0.fields) : HasLeavesThroughout[d0.fields[i].dtype])
<1>. DEFINE Body(f, d) ==
              (d.type = "struct" =>
                 /\ d.fields # <<>>
                 /\ \A i \in 1 .. Len(d.fields) : f[d.fields[i].dtype])
            S == {n \in 0 .. MaxDepth : \E f : f = [d \in DtypesTo[n] |-> Body(f, d)]}
<1>1. ASSUME NEW d \in Dtype, NEW f, NEW g, \A e \in PartsOf(d) : f[e] = g[e]
      PROVE  Body(f, d) = Body(g, d)
  <2>1. CASE d.type = "struct"
    <3>1. \A i \in 1 .. Len(d.fields) : f[d.fields[i].dtype] = g[d.fields[i].dtype]
      BY <1>1, <2>1 DEF PartsOf
    <3>. QED
      BY <2>1, <3>1
  <2>2. CASE d.type # "struct"
    BY <2>2
  <2>. QED
    BY <2>1, <2>2
<1>2. HasLeavesThroughout = CHOOSE f : f = [d \in Dtype |-> Body(f, d)]
  BY DEF HasLeavesThroughout
<1>. HIDE DEF Body
<1>3. 0 \in S
  <2>1. 0 \in 0 .. MaxDepth /\ \A d \in DtypesTo[0] : d \in Dtype /\ PartsOf(d) = {}
    BY MaxDepthIsNatural, DtypeToShape
  <2>. DEFINE f == [d \in DtypesTo[0] |-> Body(<<>>, d)]
  <2>2. \A d \in DtypesTo[0] : Body(<<>>, d) = Body(f, d)
    BY <1>1, <2>1
  <2>3. f = [d \in DtypesTo[0] |-> Body(f, d)]
    BY <2>2
  <2>. HIDE DEF f
  <2>. QED
    BY <2>1, <2>3
<1>4. ASSUME NEW n \in 1 .. MaxDepth, n - 1 \in S
      PROVE  n \in S
  <2>1. PICK f : f = [d \in DtypesTo[n - 1] |-> Body(f, d)]
    BY <1>4
  <2>. DEFINE g == [d \in DtypesTo[n] |-> Body(f, d)]
  <2>2. n \in 0 .. MaxDepth /\ n # 0
    BY MaxDepthIsNatural
  <2>3. \A d \in DtypesTo[n] : /\ d \in Dtype /\ PartsOf(d) \subseteq DtypesTo[n - 1]
                               /\ DtypesTo[n - 1] \subseteq DtypesTo[n]
    BY <2>2, DtypeToShape
  <2>4. \A d \in DtypesTo[n] : \A e \in PartsOf(d) : f[e] = g[e]
    BY <2>1, <2>3
  <2>5. \A d \in DtypesTo[n] : Body(f, d) = Body(g, d)
    <3>. HIDE DEF g
    <3>. QED
      BY <1>1, <2>3, <2>4
  <2>6. g = [d \in DtypesTo[n] |-> Body(g, d)]
    BY <2>5
  <2>. HIDE DEF g
  <2>. QED
    BY <2>2, <2>6
<1>5. MaxDepth \in S
  <2>. HIDE DEF S
  <2>. QED
    BY <1>3, <1>4, MaxDepthIsNatural, PlaceInduction
<1>6. HasLeavesThroughout = [d \in Dtype |-> Body(HasLeavesThroughout, d)]
  BY <1>2, <1>5 DEF Dtype
<1>7. HasLeavesThroughout[d0] = Body(HasLeavesThroughout, d0)
  BY <1>6
<1>. QED
  BY <1>7 DEF Body

HasLeaves(d) == HasLeavesThroughout[d]

LEMMA HasLeavesStruct ==
  ASSUME NEW d \in Structs, HasLeaves(d)
  PROVE  1 \in 1 .. Arity(d) /\ \A i \in 1 .. Arity(d) : HasLeaves(PartAt(d, i))
<1>1. d \in Dtype /\ d.type = "struct"
  BY DEF Structs
<1>2. d.fields # <<>> /\ \A i \in 1 .. Len(d.fields) : HasLeavesThroughout[d.fields[i].dtype]
  BY <1>1, HasLeavesDef DEF HasLeaves
<1>3. d.fields \in Seq([name : STRING, dtype : Dtype]) /\ Len(d.fields) \in Nat
  BY <1>1, DtypeShape
<1>4. Len(d.fields) # 0
  BY <1>2, <1>3
<1>. QED
  BY <1>2, <1>3, <1>4 DEF HasLeaves, PartAt, Arity

(* There is a leaf then.                                                   *)
LEMMA SomeLeaf ==
  ASSUME NEW d0 \in Dtype, HasLeaves(d0)
  PROVE  1 \in 1 .. LeafCount(d0)
<1>. DEFINE S == {d \in Dtype : HasLeaves(d) => 1 \in 1 .. LeafCount(d)}
<1>1. ASSUME NEW d \in Structs, \A i \in 1 .. Arity(d) : PartAt(d, i) \in S, HasLeaves(d)
      PROVE  1 \in 1 .. LeafCount(d)
  <2>1. 1 \in 1 .. Arity(d) /\ HasLeaves(PartAt(d, 1))
    BY <1>1, HasLeavesStruct
  <2>2. 1 \in 1 .. LeafCount(PartAt(d, 1)) /\ d \in Dtype
    BY <1>1, <2>1, StructFacts
  <2>3. Before(d, 1) \in Nat /\ Before(d, 1) + 1 \in 1 .. LeafCount(d) /\ LeafCount(d) \in Nat
    BY <2>1, <2>2, LeavesOfFields, LeafFacts
  <2>. QED
    BY <2>3
<1>2. Dtype \subseteq S
  <2>1. /\ \A d \in Structs : (\A i \in 1 .. Arity(d) : PartAt(d, i) \in S) => d \in S
        /\ \A d \in Lists : Inner(d) \in S => d \in S
        /\ \A d \in Scalars : d \in S
    BY <1>1, OneLeaf, DtypeKinds, StructFacts, ListFacts, ScalarFacts
  <2>. HIDE DEF S
  <2>. QED
    BY <2>1, InductionOnDtypes
<1>. QED
  BY <1>2

(* A record whose leaves decode decodes whole, unless the dtype has a      *)
(* Struct that asks for nothing.                                           *)
THEOREM WholeOfLeaves ==
  ASSUME NEW way \in Ways, NEW d0 \in Dtype, HasLeaves(d0), NEW v0 \in Value \cup {None},
         \A k \in 1 .. LeafCount(d0) : LeafDecodes(way, v0, LeafPath(d0, k), LeafDtype(d0, k))
  PROVE  v0 \in Accepts(way, d0) \cup {None}
<1>. DEFINE Leafwise(d, v) == \A k \in 1 .. LeafCount(d) : LeafDecodes(way, v, LeafPath(d, k), LeafDtype(d, k))
            S == {d \in Dtype : \A v \in Value \cup {None} :
                    HasLeaves(d) /\ Leafwise(d, v) => v \in Accepts(way, d) \cup {None}}
<1>1. ASSUME NEW d \in Structs, \A i \in 1 .. Arity(d) : PartAt(d, i) \in S,
             HasLeaves(d), NEW v \in Value, v # None, Leafwise(d, v)
      PROVE  v \in Accepts(way, d)
  <2>1. d \in Dtype /\ \A i \in 1 .. Arity(d) : PartAt(d, i) \in Dtype /\ NameAt(d, i) \in STRING
    BY StructFacts
  <2>2. \A i \in 1 .. Arity(d) : HasLeaves(PartAt(d, i)) /\ 1 \in 1 .. LeafCount(PartAt(d, i))
    BY <1>1, <2>1, HasLeavesStruct, SomeLeaf
  <2>3. ASSUME NEW i \in 1 .. Arity(d), NEW j \in 1 .. LeafCount(PartAt(d, i))
        PROVE  LeafDecodes(way, Into(v, NameAt(d, i)), LeafPath(PartAt(d, i), j), LeafDtype(PartAt(d, i), j))
    <3>1. /\ Before(d, i) + j \in 1 .. LeafCount(d)
          /\ LeafPath(d, Before(d, i) + j) = <<NameAt(d, i)>> \o LeafPath(PartAt(d, i), j)
          /\ LeafDtype(d, Before(d, i) + j) = LeafDtype(PartAt(d, i), j)
      BY LeavesOfFields
    <3>2. LeafDecodes(way, v, <<NameAt(d, i)>> \o LeafPath(PartAt(d, i), j), LeafDtype(PartAt(d, i), j))
      BY <1>1, <3>1
    <3>3. LeafPath(PartAt(d, i), j) \in Seq(STRING)
      BY <2>1, LeafFacts
    <3>. QED
      BY <2>1, <3>2, <3>3, FollowFirst DEF LeafDecodes
  <2>4. \A i \in 1 .. Arity(d) : Into(v, NameAt(d, i)) # Mismatch
    <3>. SUFFICES ASSUME NEW i \in 1 .. Arity(d), Into(v, NameAt(d, i)) = Mismatch PROVE FALSE
      OBVIOUS
    <3>1. LeafPath(PartAt(d, i), 1) \in Seq(STRING)
      BY <2>1, <2>2, LeafFacts
    <3>2. Follow(Into(v, NameAt(d, i)), LeafPath(PartAt(d, i), 1)) = Mismatch
      BY <3>1, FollowStuck
    <3>. QED
      BY <2>2, <2>3, <3>2 DEF LeafDecodes
  <2>5. v \in Maps
    <3>1. 1 \in 1 .. Arity(d)
      BY <1>1, HasLeavesStruct
    <3>. QED
      BY <1>1, <2>4, <3>1, IntoFacts
  <2>6. ASSUME NEW i \in 1 .. Arity(d), HasEntry(v, NameAt(d, i))
        PROVE  EntryOf(v, NameAt(d, i)) \in Accepts(way, PartAt(d, i))
    <3>1. Into(v, NameAt(d, i)) = EntryOf(v, NameAt(d, i)) /\ EntryOf(v, NameAt(d, i)) \in Value
      BY <2>5, <2>6, IntoFacts, MapFacts
    <3>2. EntryOf(v, NameAt(d, i)) # None
      BY <3>1, NoValues
    <3>3. Leafwise(PartAt(d, i), EntryOf(v, NameAt(d, i)))
      BY <2>3, <3>1
    <3>. HIDE DEF Leafwise
    <3>4. EntryOf(v, NameAt(d, i)) \in Accepts(way, PartAt(d, i)) \cup {None}
      BY <1>1, <2>2, <3>1, <3>3
    <3>. QED
      BY <3>2, <3>4
  <2>. QED
    BY <2>5, <2>6, AcceptsStruct
<1>2. ASSUME NEW d \in Dtype, d \notin Structs, NEW v \in Value \cup {None}, Leafwise(d, v)
      PROVE  v \in Accepts(way, d) \cup {None}
  <2>1. 1 \in 1 .. LeafCount(d) /\ LeafPath(d, 1) = <<>> /\ LeafDtype(d, 1) = d
    BY <1>2, OneLeaf
  <2>2. LeafDecodes(way, v, <<>>, d)
    BY <1>2, <2>1
  <2>. QED
    BY <2>2, FollowNothing DEF LeafDecodes
<1>. HIDE DEF Leafwise
<1>3. Dtype \subseteq S
  <2>1. /\ \A d \in Structs : (\A i \in 1 .. Arity(d) : PartAt(d, i) \in S) => d \in S
        /\ \A d \in Lists : Inner(d) \in S => d \in S
        /\ \A d \in Scalars : d \in S
    BY <1>1, <1>2, DtypeKinds, StructFacts, ListFacts, ScalarFacts
  <2>. HIDE DEF S
  <2>. QED
    BY <2>1, InductionOnDtypes
<1>. QED
  BY <1>3 DEF Leafwise

----------------------------------------------------------------------------
(* Cells.                                                                  *)

(* The cells of a dtype, from those of its parts.                          *)
LEMMA CellsOfDef ==
  ASSUME NEW d0 \in Dtype
  PROVE  CellsOf[d0] =
           {Null} \cup
           {cell \in Value :
              CASE d0.type = "struct" ->
                     /\ cell.kind = "map" /\ Len(cell.entries) = Len(d0.fields)
                     /\ \A i \in 1 .. Len(d0.fields) :
                          /\ cell.entries[i].name = d0.fields[i].name
                          /\ cell.entries[i].value \in CellsOf[d0.fields[i].dtype]
                [] d0.type = "list" ->
                     /\ cell.kind = "list"
                     /\ \A i \in 1 .. Len(cell.items) : cell.items[i] \in CellsOf[d0.inner]
                [] OTHER -> cell.kind = d0.type /\ ValidScalar(cell, d0.type)}
<1>. DEFINE Body(f, d) ==
              {Null} \cup
              {cell \in Value :
                 CASE d.type = "struct" ->
                        /\ cell.kind = "map" /\ Len(cell.entries) = Len(d.fields)
                        /\ \A i \in 1 .. Len(d.fields) :
                             /\ cell.entries[i].name = d.fields[i].name
                             /\ cell.entries[i].value \in f[d.fields[i].dtype]
                   [] d.type = "list" ->
                        /\ cell.kind = "list"
                        /\ \A i \in 1 .. Len(cell.items) : cell.items[i] \in f[d.inner]
                   [] OTHER -> cell.kind = d.type /\ ValidScalar(cell, d.type)}
            S == {n \in 0 .. MaxDepth : \E f : f = [d \in DtypesTo[n] |-> Body(f, d)]}
<1>1. ASSUME NEW d \in Dtype, NEW f, NEW g, \A e \in PartsOf(d) : f[e] = g[e]
      PROVE  Body(f, d) = Body(g, d)
  <2>1. CASE d.type = "struct"
    <3>1. \A i \in 1 .. Len(d.fields) : f[d.fields[i].dtype] = g[d.fields[i].dtype]
      BY <1>1, <2>1 DEF PartsOf
    <3>. QED
      BY <2>1, <3>1
  <2>2. CASE d.type = "list"
    <3>1. f[d.inner] = g[d.inner]
      BY <1>1, <2>2 DEF PartsOf
    <3>. QED
      BY <2>2, <3>1
  <2>3. CASE d.type \notin {"struct", "list"}
    BY <2>3
  <2>. QED
    BY <2>1, <2>2, <2>3
<1>2. CellsOf = CHOOSE f : f = [d \in Dtype |-> Body(f, d)]
  BY DEF CellsOf
<1>. HIDE DEF Body
<1>3. 0 \in S
  <2>1. 0 \in 0 .. MaxDepth /\ \A d \in DtypesTo[0] : d \in Dtype /\ PartsOf(d) = {}
    BY MaxDepthIsNatural, DtypeToShape
  <2>. DEFINE f == [d \in DtypesTo[0] |-> Body(<<>>, d)]
  <2>2. \A d \in DtypesTo[0] : Body(<<>>, d) = Body(f, d)
    BY <1>1, <2>1
  <2>3. f = [d \in DtypesTo[0] |-> Body(f, d)]
    BY <2>2
  <2>. HIDE DEF f
  <2>. QED
    BY <2>1, <2>3
<1>4. ASSUME NEW n \in 1 .. MaxDepth, n - 1 \in S
      PROVE  n \in S
  <2>1. PICK f : f = [d \in DtypesTo[n - 1] |-> Body(f, d)]
    BY <1>4
  <2>. DEFINE g == [d \in DtypesTo[n] |-> Body(f, d)]
  <2>2. n \in 0 .. MaxDepth /\ n # 0
    BY MaxDepthIsNatural
  <2>3. \A d \in DtypesTo[n] : /\ d \in Dtype /\ PartsOf(d) \subseteq DtypesTo[n - 1]
                               /\ DtypesTo[n - 1] \subseteq DtypesTo[n]
    BY <2>2, DtypeToShape
  <2>4. \A d \in DtypesTo[n] : \A e \in PartsOf(d) : f[e] = g[e]
    BY <2>1, <2>3
  <2>5. \A d \in DtypesTo[n] : Body(f, d) = Body(g, d)
    <3>. HIDE DEF g
    <3>. QED
      BY <1>1, <2>3, <2>4
  <2>6. g = [d \in DtypesTo[n] |-> Body(g, d)]
    BY <2>5
  <2>. HIDE DEF g
  <2>. QED
    BY <2>2, <2>6
<1>5. MaxDepth \in S
  <2>. HIDE DEF S
  <2>. QED
    BY <1>3, <1>4, MaxDepthIsNatural, PlaceInduction
<1>6. CellsOf = [d \in Dtype |-> Body(CellsOf, d)]
  BY <1>2, <1>5 DEF Dtype
<1>7. CellsOf[d0] = Body(CellsOf, d0)
  BY <1>6
<1>. QED
  BY <1>7 DEF Body

(* A cell of a dtype, that nests no deeper than it.                        *)
GoodCell(c, d) == c \in CellsOf[d] /\ Fits(c, d)

LEMMA NullIsGood ==
  ASSUME NEW d \in Dtype
  PROVE  GoodCell(Null, d)
<1>1. Null \in CellsOf[d]
  BY CellsOfDef
<1>. QED
  BY <1>1, FitsScalar DEF GoodCell

LEMMA MadeIsGood ==
  ASSUME NEW d \in Structs, NEW w, \A i \in 1 .. Arity(d) : GoodCell(At(w, i), PartAt(d, i))
  PROVE  GoodCell(Made(d, w), d)
<1>. DEFINE n == Len(d.fields)
            entries == [i \in 1 .. n |-> Entry(d.fields[i].name, w[i])]
            c == Made(d, w)
<1>1. d \in Dtype /\ d.type = "struct" /\ n \in Nat
  BY StructFacts DEF Structs, Arity
<1>2. Fits(c, d) /\ c \in Value
  BY <1>1, FitsMap, FitsValue DEF GoodCell
<1>3. c.kind = "map" /\ c.entries = entries
  BY DEF Made, MapValue
<1>4. Len(entries) = n
  BY <1>1
<1>5. \A a, b : Entry(a, b).name = a /\ Entry(a, b).value = b
  BY DEF Entry
<1>6. \A i \in 1 .. n : entries[i].name = d.fields[i].name /\ entries[i].value = w[i]
  BY <1>5
<1>7. \A i \in 1 .. n : w[i] \in CellsOf[d.fields[i].dtype]
  BY DEF GoodCell, Arity, At, PartAt
<1>. HIDE DEF entries, c, n
<1>8. \A i \in 1 .. n : c.entries[i].name = d.fields[i].name /\ c.entries[i].value \in CellsOf[d.fields[i].dtype]
  BY <1>3, <1>6, <1>7
<1>9. c \in CellsOf[d]
  BY <1>1, <1>2, <1>3, <1>4, <1>8, CellsOfDef DEF n
<1>. QED
  BY <1>2, <1>9 DEF GoodCell, c

LEMMA MadeListIsGood ==
  ASSUME NEW d \in Lists, NEW m \in Nat, NEW w, \A i \in 1 .. m : GoodCell(At(w, i), Inner(d))
  PROVE  GoodCell(MadeList(m, w), d)
<1>. DEFINE c == MadeList(m, w)
<1>1. d \in Dtype /\ d.type = "list"
  BY DEF Lists
<1>2. Fits(c, d) /\ c \in Value
  BY <1>1, FitsList, FitsValue DEF GoodCell
<1>3. c.kind = "list" /\ Count(c) = m /\ \A i \in 1 .. m : ItemAt(c, i) \in CellsOf[d.inner]
  BY MadeListFacts DEF GoodCell, Inner
<1>. HIDE DEF c
<1>4. c \in CellsOf[d]
  BY <1>1, <1>2, <1>3, CellsOfDef DEF Count, ItemAt
<1>. QED
  BY <1>2, <1>4 DEF GoodCell, c

LEMMA ScalarIsGood ==
  ASSUME NEW d \in Scalars, NEW v \in Value, ValidScalar(v, d.type)
  PROVE  GoodCell(Leaf(d.type, v.bits), d)
<1>. DEFINE c == Leaf(d.type, v.bits)
<1>1. v.bits \in Int /\ d.type \in ScalarTypes /\ d \in Dtype /\ d.type \notin {"struct", "list"}
  BY ScalarFacts, ValidScalarIsScalar
<1>2. c \in ScalarValues /\ c.kind = d.type /\ c.bits = v.bits
  BY <1>1 DEF Leaf, ScalarValues
<1>3. c \in Value /\ Fits(c, d)
  BY <1>2, FitsScalar, NullIsAValue
<1>4. ValidScalar(c, d.type)
  BY <1>2 DEF ValidScalar
<1>. HIDE DEF c
<1>5. c \in CellsOf[d]
  BY <1>1, <1>2, <1>3, <1>4, CellsOfDef
<1>. QED
  BY <1>3, <1>5 DEF GoodCell, c

(* values_to_series makes cells of the column's dtype.                     *)
THEOREM CellsAreTyped ==
  ASSUME NEW d0 \in Dtype, NEW v0 \in Builds(d0)
  PROVE  GoodCell(CellOf(d0, v0), d0)
<1>. DEFINE S == {d \in Dtype : \A v \in Builds(d) : GoodCell(CellOf(d, v), d)}
<1>1. ASSUME NEW d \in Structs, \A i \in 1 .. Arity(d) : PartAt(d, i) \in S,
             NEW v \in Builds(d), v # None, v # Null
      PROVE  GoodCell(CellOf(d, v), d)
  <2>1. PICK w : /\ CellOf(d, v) = Made(d, w)
                 /\ \A i \in 1 .. Arity(d) :
                      At(w, i) = CellOf(PartAt(d, i), EntryOr(v, NameAt(d, i), DefaultOf(PartAt(d, i))))
    BY <1>1, CellStruct
  <2>2. \A i \in 1 .. Arity(d) : EntryOr(v, NameAt(d, i), DefaultOf(PartAt(d, i))) \in Builds(PartAt(d, i))
    BY <1>1, BuildsStruct
  <2>3. \A i \in 1 .. Arity(d) : GoodCell(At(w, i), PartAt(d, i))
    BY <1>1, <2>1, <2>2
  <2>. HIDE DEF S
  <2>. QED
    BY <2>1, <2>3, MadeIsGood
<1>2. ASSUME NEW d \in Lists, Inner(d) \in S, NEW v \in Builds(d), v # None, v # Null
      PROVE  GoodCell(CellOf(d, v), d)
  <2>1. PICK w : /\ CellOf(d, v) = MadeList(Count(v), w)
                 /\ \A i \in 1 .. Count(v) : At(w, i) = CellOf(Inner(d), ItemAt(v, i))
    BY <1>2, CellList
  <2>2. v \in ListValues /\ \A i \in 1 .. Count(v) : ItemAt(v, i) \in Builds(Inner(d))
    BY <1>2, BuildsList
  <2>3. \A i \in 1 .. Count(v) : GoodCell(At(w, i), Inner(d))
    BY <1>2, <2>1, <2>2
  <2>4. Count(v) \in Nat
    BY <2>2, ListValueFacts
  <2>. HIDE DEF S
  <2>. QED
    BY <2>1, <2>3, <2>4, MadeListIsGood
<1>3. ASSUME NEW d \in Scalars, NEW v \in Builds(d), v # None, v # Null
      PROVE  GoodCell(CellOf(d, v), d)
  BY <1>3, CellScalar, BuildsScalar, ScalarIsGood
<1>4. ASSUME NEW d \in Dtype
      PROVE  GoodCell(CellOf(d, None), d) /\ GoodCell(CellOf(d, Null), d)
  BY CellNull, NullIsGood
<1>5. Dtype \subseteq S
  <2>1. /\ \A d \in Structs : (\A i \in 1 .. Arity(d) : PartAt(d, i) \in S) => d \in S
        /\ \A d \in Lists : Inner(d) \in S => d \in S
        /\ \A d \in Scalars : d \in S
    BY <1>1, <1>2, <1>3, <1>4, StructFacts, ListFacts, ScalarFacts
  <2>. HIDE DEF S
  <2>. QED
    BY <2>1, InductionOnDtypes
<1>. QED
  BY <1>5

----------------------------------------------------------------------------
(* Assembling the columns of the leaves.                                   *)

(* One turn of assemble_projection_series.                                 *)
AssembledColumn(cols, validity, d, first) ==
  IF d.type # "struct" THEN cols[first]
  ELSE [r \in 1 .. Len(validity) |->
          IF validity[r]
          THEN MapValue([i \in 1 .. Len(d.fields) |->
                 Entry(d.fields[i].name,
                       Assemble(cols, validity)[d.fields[i].dtype][first + LeavesBefore(d.fields, i)][r])])
          ELSE Null]

(* The column assembled for a dtype, from those of its parts.               *)
LEMMA AssembleDef ==
  ASSUME NEW cols, NEW validity, NEW d0 \in Dtype, NEW first \in Nat
  PROVE  Assemble(cols, validity)[d0][first] = AssembledColumn(cols, validity, d0, first)
<1>. DEFINE Column(f, d, k) ==
              IF d.type # "struct" THEN cols[k]
              ELSE [r \in 1 .. Len(validity) |->
                      IF validity[r]
                      THEN MapValue([i \in 1 .. Len(d.fields) |->
                             Entry(d.fields[i].name,
                                   f[d.fields[i].dtype][k + LeavesBefore(d.fields, i)][r])])
                      ELSE Null]
            Body(f, d) == [k \in Nat |-> Column(f, d, k)]
            S == {n \in 0 .. MaxDepth : \E f : f = [d \in DtypesTo[n] |-> Body(f, d)]}
<1>1. ASSUME NEW d \in Dtype, NEW f, NEW g, \A e \in PartsOf(d) : f[e] = g[e]
      PROVE  Body(f, d) = Body(g, d)
  <2>1. CASE d.type = "struct"
    <3>. DEFINE P(h, k, r, i) == h[d.fields[i].dtype][k + LeavesBefore(d.fields, i)][r]
    <3>1. \A i \in 1 .. Len(d.fields) : f[d.fields[i].dtype] = g[d.fields[i].dtype]
      BY <1>1, <2>1 DEF PartsOf
    <3>2. \A k, r : \A i \in 1 .. Len(d.fields) : P(f, k, r, i) = P(g, k, r, i)
      BY <3>1
    <3>. HIDE DEF P
    <3>3. \A k, r : [i \in 1 .. Len(d.fields) |-> Entry(d.fields[i].name, P(f, k, r, i))]
                   = [i \in 1 .. Len(d.fields) |-> Entry(d.fields[i].name, P(g, k, r, i))]
      BY <3>2
    <3>. DEFINE Q(h, k, r) ==
                  MapValue([i \in 1 .. Len(d.fields) |-> Entry(d.fields[i].name, P(h, k, r, i))])
    <3>4. \A k, r : Q(f, k, r) = Q(g, k, r)
      BY <3>3
    <3>5. \A h, k : Column(h, d, k) = [r \in 1 .. Len(validity) |-> IF validity[r] THEN Q(h, k, r) ELSE Null]
      BY <2>1 DEF P
    <3>. HIDE DEF Q, Column
    <3>. QED
      BY <3>4, <3>5
  <2>2. CASE d.type # "struct"
    BY <2>2
  <2>. QED
    BY <2>1, <2>2
<1>2. Assemble(cols, validity) = CHOOSE f : f = [d \in Dtype |-> Body(f, d)]
  BY DEF Assemble
<1>. HIDE DEF Body, Column
<1>3. 0 \in S
  <2>1. 0 \in 0 .. MaxDepth /\ \A d \in DtypesTo[0] : d \in Dtype /\ PartsOf(d) = {}
    BY MaxDepthIsNatural, DtypeToShape
  <2>. DEFINE f == [d \in DtypesTo[0] |-> Body(<<>>, d)]
  <2>2. \A d \in DtypesTo[0] : Body(<<>>, d) = Body(f, d)
    BY <1>1, <2>1
  <2>3. f = [d \in DtypesTo[0] |-> Body(f, d)]
    BY <2>2
  <2>. HIDE DEF f
  <2>. QED
    BY <2>1, <2>3
<1>4. ASSUME NEW n \in 1 .. MaxDepth, n - 1 \in S
      PROVE  n \in S
  <2>1. PICK f : f = [d \in DtypesTo[n - 1] |-> Body(f, d)]
    BY <1>4
  <2>. DEFINE g == [d \in DtypesTo[n] |-> Body(f, d)]
  <2>2. n \in 0 .. MaxDepth /\ n # 0
    BY MaxDepthIsNatural
  <2>3. \A d \in DtypesTo[n] : /\ d \in Dtype /\ PartsOf(d) \subseteq DtypesTo[n - 1]
                               /\ DtypesTo[n - 1] \subseteq DtypesTo[n]
    BY <2>2, DtypeToShape
  <2>4. \A d \in DtypesTo[n] : \A e \in PartsOf(d) : f[e] = g[e]
    BY <2>1, <2>3
  <2>5. \A d \in DtypesTo[n] : Body(f, d) = Body(g, d)
    <3>. HIDE DEF g
    <3>. QED
      BY <1>1, <2>3, <2>4
  <2>6. g = [d \in DtypesTo[n] |-> Body(g, d)]
    BY <2>5
  <2>. HIDE DEF g
  <2>. QED
    BY <2>2, <2>6
<1>5. MaxDepth \in S
  <2>. HIDE DEF S
  <2>. QED
    BY <1>3, <1>4, MaxDepthIsNatural, PlaceInduction
<1>6. Assemble(cols, validity) = [d \in Dtype |-> Body(Assemble(cols, validity), d)]
  BY <1>2, <1>5 DEF Dtype
<1>7. Assemble(cols, validity)[d0] = Body(Assemble(cols, validity), d0)
  BY <1>6
<1>8. Assemble(cols, validity)[d0][first] = Column(Assemble(cols, validity), d0, first)
  BY <1>7 DEF Body
<1>. QED
  BY <1>8 DEF Column, AssembledColumn

CellAt(cols, k, r) == cols[k][r]
AssembledAt(cols, validity, d, first, r) == Assemble(cols, validity)[d][first][r]
Assembled(cols, validity, d) == Assemble(cols, validity)[d][1]

LEMMA LeafColumn ==
  ASSUME NEW cols, NEW validity, NEW d \in Dtype, d \notin Structs, NEW first \in Nat
  PROVE  Assemble(cols, validity)[d][first] = cols[first]
<1>1. Assemble(cols, validity)[d][first] = AssembledColumn(cols, validity, d, first)
  BY AssembleDef
<1>2. AssembledColumn(cols, validity, d, first) = cols[first]
  BY DEF AssembledColumn, Structs
<1>. QED
  BY <1>1, <1>2

LEMMA AssembledOther ==
  ASSUME NEW cols, NEW validity, NEW d \in Dtype, d \notin Structs, NEW first \in Nat, NEW r
  PROVE  AssembledAt(cols, validity, d, first, r) = CellAt(cols, first, r)
BY LeafColumn DEF AssembledAt, CellAt

(* A row of an assembled Struct.                                           *)
LEMMA AssembledStruct ==
  ASSUME NEW cols, NEW validity, Len(validity) \in Nat, NEW d \in Structs, NEW first \in Nat
  PROVE  /\ Len(Assemble(cols, validity)[d][first]) = Len(validity)
         /\ \A r \in 1 .. Len(validity) :
              /\ ~validity[r] => AssembledAt(cols, validity, d, first, r) = Null
              /\ validity[r] =>
                   \E w : /\ AssembledAt(cols, validity, d, first, r) = Made(d, w)
                          /\ \A i \in 1 .. Arity(d) :
                               At(w, i) = AssembledAt(cols, validity, PartAt(d, i), first + Before(d, i), r)
<1>. DEFINE P(r, i) == Assemble(cols, validity)[d.fields[i].dtype][first + LeavesBefore(d.fields, i)][r]
            Q(r) == MapValue([i \in 1 .. Len(d.fields) |-> Entry(d.fields[i].name, P(r, i))])
            n == Len(validity)
            column == Assemble(cols, validity)[d][first]
<1>1. d \in Dtype /\ d.type = "struct"
  BY DEF Structs
<1>2. column = [r \in 1 .. n |-> IF validity[r] THEN Q(r) ELSE Null]
  <2>1. column = AssembledColumn(cols, validity, d, first)
    BY <1>1, AssembleDef
  <2>2. AssembledColumn(cols, validity, d, first) = [r \in 1 .. n |-> IF validity[r] THEN Q(r) ELSE Null]
    BY <1>1 DEF AssembledColumn
  <2>. HIDE DEF Q, column
  <2>. QED
    BY <2>1, <2>2
<1>3. \A r : \A i \in 1 .. Arity(d) :
        P(r, i) = AssembledAt(cols, validity, PartAt(d, i), first + Before(d, i), r)
  BY DEF AssembledAt, PartAt, LeavesBefore, Before, UpTo
<1>. HIDE DEF P
<1>4. ASSUME NEW r
      PROVE  \E w : Q(r) = Made(d, w) /\ \A i \in 1 .. Arity(d) : At(w, i) = P(r, i)
  <2>. DEFINE w == [i \in 1 .. Len(d.fields) |-> P(r, i)]
  <2>1. [i \in 1 .. Len(d.fields) |-> Entry(d.fields[i].name, P(r, i))]
          = [i \in 1 .. Len(d.fields) |-> Entry(d.fields[i].name, w[i])]
    OBVIOUS
  <2>2. Q(r) = Made(d, w)
    BY <2>1 DEF Made
  <2>3. \A i \in 1 .. Arity(d) : At(w, i) = P(r, i)
    BY DEF Arity, At
  <2>. HIDE DEF w, Q
  <2>. QED
    BY <2>2, <2>3
<1>. HIDE DEF Q, column
<1>5. \A r : column[r] = AssembledAt(cols, validity, d, first, r)
  BY DEF column, AssembledAt
<1>6. Len(column) = n /\ \A r \in 1 .. n : column[r] = IF validity[r] THEN Q(r) ELSE Null
  BY <1>2
<1>7. \A r \in 1 .. n : AssembledAt(cols, validity, d, first, r) = IF validity[r] THEN Q(r) ELSE Null
  BY <1>5, <1>6
<1>8. ASSUME NEW r \in 1 .. n, validity[r]
      PROVE  \E w : /\ AssembledAt(cols, validity, d, first, r) = Made(d, w)
                    /\ \A i \in 1 .. Arity(d) :
                         At(w, i) = AssembledAt(cols, validity, PartAt(d, i), first + Before(d, i), r)
  <2>1. PICK w : Q(r) = Made(d, w) /\ \A i \in 1 .. Arity(d) : At(w, i) = P(r, i)
    BY <1>4
  <2>2. AssembledAt(cols, validity, d, first, r) = Made(d, w)
    BY <1>7, <1>8, <2>1
  <2>. QED
    BY <1>3, <2>1, <2>2
<1>. QED
  BY <1>6, <1>7, <1>8 DEF column

LEMMA AssembledLength ==
  ASSUME NEW cols, NEW validity, Len(validity) \in Nat, NEW d \in Structs
  PROVE  Len(Assembled(cols, validity, d)) = Len(validity)
<1>1. \A first \in Nat : Len(Assemble(cols, validity)[d][first]) = Len(validity)
  BY AssembledStruct
<1>2. Len(Assemble(cols, validity)[d][1]) = Len(validity)
  BY <1>1, Zenon
<1>. QED
  BY <1>2 DEF Assembled

LEMMA AssembledNull ==
  ASSUME NEW cols, NEW validity, Len(validity) \in Nat, NEW d \in Structs, NEW first \in Nat,
         NEW r \in 1 .. Len(validity), ~validity[r]
  PROVE  AssembledAt(cols, validity, d, first, r) = Null
BY AssembledStruct

(* Columns of the leaves' dtypes make one of the dtype.                    *)
LEMMA AssembledIsGood ==
  ASSUME NEW cols, NEW validity, Len(validity) \in Nat, NEW r \in 1 .. Len(validity),
         NEW d0 \in Dtype, NEW first0 \in Nat,
         \A k \in 1 .. LeafCount(d0) : GoodCell(CellAt(cols, first0 + k - 1, r), LeafDtype(d0, k))
  PROVE  GoodCell(AssembledAt(cols, validity, d0, first0, r), d0)
<1>. DEFINE Given(d, first) ==
              \A k \in 1 .. LeafCount(d) : GoodCell(CellAt(cols, first + k - 1, r), LeafDtype(d, k))
            S == {d \in Dtype : \A first \in Nat :
                    Given(d, first) => GoodCell(AssembledAt(cols, validity, d, first, r), d)}
<1>1. ASSUME NEW d \in Structs, \A i \in 1 .. Arity(d) : PartAt(d, i) \in S,
             NEW first \in Nat, Given(d, first)
      PROVE  GoodCell(AssembledAt(cols, validity, d, first, r), d)
  <2>0. \A i \in 1 .. Arity(d) : Before(d, i) \in Nat
    BY LeavesOfFields
  <2>1. \A i \in 1 .. Arity(d) : Before(d, i) \in Nat /\ first + Before(d, i) \in Nat
    BY <2>0
  <2>2. ASSUME NEW i \in 1 .. Arity(d), NEW j \in 1 .. LeafCount(PartAt(d, i))
        PROVE  GoodCell(CellAt(cols, first + Before(d, i) + j - 1, r), LeafDtype(PartAt(d, i), j))
    <3>1. Before(d, i) + j \in 1 .. LeafCount(d) /\ LeafDtype(d, Before(d, i) + j) = LeafDtype(PartAt(d, i), j)
      BY LeavesOfFields
    <3>2. GoodCell(CellAt(cols, first + (Before(d, i) + j) - 1, r), LeafDtype(PartAt(d, i), j))
      BY <1>1, <3>1
    <3>3. first + (Before(d, i) + j) - 1 = first + Before(d, i) + j - 1
      BY <2>1
    <3>. QED
      BY <3>2, <3>3
  <2>3. \A i \in 1 .. Arity(d) : Given(PartAt(d, i), first + Before(d, i))
    BY <2>2
  <2>. HIDE DEF Given
  <2>4. \A i \in 1 .. Arity(d) :
          GoodCell(AssembledAt(cols, validity, PartAt(d, i), first + Before(d, i), r), PartAt(d, i))
    BY <1>1, <2>1, <2>3
  <2>. HIDE DEF S
  <2>5. CASE validity[r]
    <3>1. PICK w : /\ AssembledAt(cols, validity, d, first, r) = Made(d, w)
                   /\ \A i \in 1 .. Arity(d) :
                        At(w, i) = AssembledAt(cols, validity, PartAt(d, i), first + Before(d, i), r)
      BY <2>5, AssembledStruct
    <3>. QED
      BY <2>4, <3>1, MadeIsGood
  <2>6. CASE ~validity[r]
    <3>1. AssembledAt(cols, validity, d, first, r) = Null
      BY <2>6, AssembledStruct
    <3>2. d \in Dtype
      BY StructFacts
    <3>. QED
      BY <3>1, <3>2, NullIsGood
  <2>. QED
    BY <2>5, <2>6
<1>2. ASSUME NEW d \in Dtype, d \notin Structs, NEW first \in Nat, Given(d, first)
      PROVE  GoodCell(AssembledAt(cols, validity, d, first, r), d)
  <2>1. 1 \in 1 .. LeafCount(d) /\ LeafDtype(d, 1) = d
    BY <1>2, OneLeaf
  <2>2. first + 1 - 1 = first
    OBVIOUS
  <2>3. GoodCell(CellAt(cols, first, r), d)
    BY <1>2, <2>1, <2>2
  <2>. HIDE DEF Given, S
  <2>4. AssembledAt(cols, validity, d, first, r) = CellAt(cols, first, r)
    BY <1>2, AssembledOther
  <2>. QED
    BY <2>3, <2>4
<1>. HIDE DEF Given
<1>3. Dtype \subseteq S
  <2>1. /\ \A d \in Structs : (\A i \in 1 .. Arity(d) : PartAt(d, i) \in S) => d \in S
        /\ \A d \in Lists : Inner(d) \in S => d \in S
        /\ \A d \in Scalars : d \in S
    BY <1>1, <1>2, DtypeKinds, StructFacts, ListFacts, ScalarFacts
  <2>. HIDE DEF S
  <2>. QED
    BY <2>1, InductionOnDtypes
<1>. QED
  BY <1>3 DEF Given

(* Splitting a decoded value into leaves and assembling their cells again  *)
(* is building its cell whole.                                             *)
THEOREM AssembledAsWhole ==
  ASSUME NEW way \in Ways, NEW cols, NEW validity, Len(validity) \in Nat, NEW r \in 1 .. Len(validity), validity[r],
         NEW d0 \in Dtype, NEW full0 \in FullValues(way, d0), NEW first0 \in Nat,
         \A k \in 1 .. LeafCount(d0) :
           CellAt(cols, first0 + k - 1, r) = CellOf(LeafDtype(d0, k), Follow(full0, LeafPath(d0, k)))
  PROVE  AssembledAt(cols, validity, d0, first0, r) = CellOf(d0, full0)
<1>. DEFINE Given(d, full, first) ==
              \A k \in 1 .. LeafCount(d) :
                CellAt(cols, first + k - 1, r) = CellOf(LeafDtype(d, k), Follow(full, LeafPath(d, k)))
            S == {d \in Dtype : \A full \in FullValues(way, d), first \in Nat :
                    Given(d, full, first) => AssembledAt(cols, validity, d, first, r) = CellOf(d, full)}
<1>1. ASSUME NEW d \in Structs, \A i \in 1 .. Arity(d) : PartAt(d, i) \in S,
             NEW full \in FullValues(way, d), NEW first \in Nat, Given(d, full, first)
      PROVE  AssembledAt(cols, validity, d, first, r) = CellOf(d, full)
  <2>1. d \in Dtype /\ \A i \in 1 .. Arity(d) : PartAt(d, i) \in Dtype /\ NameAt(d, i) \in STRING
    BY StructFacts
  <2>0. \A i \in 1 .. Arity(d) : Before(d, i) \in Nat
    BY LeavesOfFields
  <2>2. \A i \in 1 .. Arity(d) : Before(d, i) \in Nat /\ first + Before(d, i) \in Nat
    BY <2>0
  <2>3. PICK w : full = Made(d, w) /\ \A i \in 1 .. Arity(d) : At(w, i) \in FullValues(way, PartAt(d, i))
    BY FullStruct
  <2>4. full \in Maps /\ full \in Builds(d) /\ full # None /\ full # Null
    <3>1. full \in Builds(d) /\ full \in Value /\ full.kind = "map"
      BY <2>1, <2>3, FullIsBuildable, MadeFacts
    <3>. QED
      BY <3>1, NoValues DEF Maps, Null
  <2>5. \A i \in 1 .. Arity(d) : Into(full, NameAt(d, i)) = At(w, i)
    BY <2>3, <2>4, IntoFacts, MadeFacts
  <2>6. ASSUME NEW i \in 1 .. Arity(d), NEW j \in 1 .. LeafCount(PartAt(d, i))
        PROVE  CellAt(cols, first + Before(d, i) + j - 1, r)
                 = CellOf(LeafDtype(PartAt(d, i), j), Follow(At(w, i), LeafPath(PartAt(d, i), j)))
    <3>1. /\ Before(d, i) + j \in 1 .. LeafCount(d)
          /\ LeafPath(d, Before(d, i) + j) = <<NameAt(d, i)>> \o LeafPath(PartAt(d, i), j)
          /\ LeafDtype(d, Before(d, i) + j) = LeafDtype(PartAt(d, i), j)
      BY LeavesOfFields
    <3>2. CellAt(cols, first + (Before(d, i) + j) - 1, r)
            = CellOf(LeafDtype(PartAt(d, i), j), Follow(full, <<NameAt(d, i)>> \o LeafPath(PartAt(d, i), j)))
      BY <1>1, <3>1
    <3>3. LeafPath(PartAt(d, i), j) \in Seq(STRING)
      BY <2>1, LeafFacts
    <3>4. Follow(full, <<NameAt(d, i)>> \o LeafPath(PartAt(d, i), j)) = Follow(At(w, i), LeafPath(PartAt(d, i), j))
      BY <2>1, <2>5, <3>3, FollowFirst
    <3>5. first + (Before(d, i) + j) - 1 = first + Before(d, i) + j - 1
      BY <2>2
    <3>. QED
      BY <3>2, <3>4, <3>5
  <2>7. \A i \in 1 .. Arity(d) : Given(PartAt(d, i), At(w, i), first + Before(d, i))
    BY <2>6
  <2>. HIDE DEF Given
  <2>8. \A i \in 1 .. Arity(d) :
          AssembledAt(cols, validity, PartAt(d, i), first + Before(d, i), r) = CellOf(PartAt(d, i), At(w, i))
    BY <1>1, <2>2, <2>3, <2>7
  <2>. HIDE DEF S
  <2>9. PICK x : /\ AssembledAt(cols, validity, d, first, r) = Made(d, x)
                 /\ \A i \in 1 .. Arity(d) :
                      At(x, i) = AssembledAt(cols, validity, PartAt(d, i), first + Before(d, i), r)
    BY AssembledStruct
  <2>10. PICK y : /\ CellOf(d, full) = Made(d, y)
                  /\ \A i \in 1 .. Arity(d) :
                       At(y, i) = CellOf(PartAt(d, i), EntryOr(full, NameAt(d, i), DefaultOf(PartAt(d, i))))
    BY <2>4, CellStruct
  <2>11. \A i \in 1 .. Arity(d) : At(y, i) = CellOf(PartAt(d, i), At(w, i))
    BY <2>3, <2>10, MadeFacts
  <2>12. Made(d, x) = Made(d, y)
    BY <2>8, <2>9, <2>11, MadeEqual
  <2>. QED
    BY <2>9, <2>10, <2>12
<1>2. ASSUME NEW d \in Dtype, d \notin Structs, NEW full, NEW first \in Nat, Given(d, full, first)
      PROVE  AssembledAt(cols, validity, d, first, r) = CellOf(d, full)
  <2>1. 1 \in 1 .. LeafCount(d) /\ LeafPath(d, 1) = <<>> /\ LeafDtype(d, 1) = d
    BY <1>2, OneLeaf
  <2>2. first + 1 - 1 = first
    OBVIOUS
  <2>3. CellAt(cols, first, r) = CellOf(d, Follow(full, <<>>))
    BY <1>2, <2>1, <2>2
  <2>. HIDE DEF Given, S
  <2>4. AssembledAt(cols, validity, d, first, r) = CellAt(cols, first, r)
    BY <1>2, AssembledOther
  <2>. QED
    BY <2>3, <2>4, FollowNothing
<1>. HIDE DEF Given
<1>3. Dtype \subseteq S
  <2>1. /\ \A d \in Structs : (\A i \in 1 .. Arity(d) : PartAt(d, i) \in S) => d \in S
        /\ \A d \in Lists : Inner(d) \in S => d \in S
        /\ \A d \in Scalars : d \in S
    BY <1>1, <1>2, DtypeKinds, StructFacts, ListFacts, ScalarFacts
  <2>. HIDE DEF S
  <2>. QED
    BY <2>1, InductionOnDtypes
<1>. QED
  BY <1>3 DEF Given

----------------------------------------------------------------------------
(* The invariant.                                                          *)

(* How a call decodes.                                                     *)
CallWay(q, kn, d) ==
  IF q.entry = "record" THEN IF kn \in TypedDtypes /\ d = kn THEN "struct" ELSE "leaves"
  ELSE IF IsNested(d) THEN "seed" ELSE "leaves"

LEMMA CallWayIsWay == \A q, kn, d : CallWay(q, kn, d) \in Ways
BY DEF CallWay, Ways

(* The value a record has for a call.                                      *)
Source(q, rs, u) ==
  IF q.entry = "record" THEN rs[u] ELSE Navigate(rs[u], ToMmdbPath(q.path))

(* What a row comes out as, if the values are of the dtype.                *)
RowResult(way, q, rs, ws, d, r) ==
  IF ws[r] = 0 \/ Source(q, rs, ws[r]) = None THEN Null
  ELSE CellOf(d, Yields(way, d, Source(q, rs, ws[r])))

LeafCell(way, q, rs, d, k, u) ==
  CellOf(LeafDtype(d, k), OrDefault(way, Follow(Source(q, rs, u), LeafPath(d, k)), LeafDtype(d, k)))

Inputs(q, kn, rs, ws) ==
  /\ q \in Requests /\ kn \in KnownDtypes /\ rs \in Seq(Value)
  /\ Len(ws) \in Nat /\ \A r \in 1 .. Len(ws) : ws[r] \in 0 .. Len(rs)

(* A call was resolved to a dtype.                                         *)
Planned(q, kn, d) ==
  /\ d \in Dtype
  /\ q.entry = "record" => ResolvesRecord(kn, q.explicit) /\ d = RecordDtype(kn, q.explicit)
  /\ q.entry # "record" =>
       ResolvesPath(kn, q.path, q.explicit) /\ d = PathDtype(kn, q.path, q.explicit)

(* Values decoded whole.                                                   *)
Whole(way, q, rs, d, vs) ==
  /\ q.entry = "record" \/ IsNested(d)
  /\ \A u \in 1 .. Len(rs) :
       /\ Source(q, rs, u) \in Accepts(way, d) \cup {None}
       /\ vs[u] = IF Source(q, rs, u) = None THEN None ELSE Yields(way, d, Source(q, rs, u))

(* A column of a leaf, and those gathered so far.                          *)
OfLeaf(way, c, q, rs, ws, d, k) ==
  /\ Len(c) = Len(ws)
  /\ \A r \in 1 .. Len(ws) : At(c, r) = IF ws[r] = 0 THEN Null ELSE LeafCell(way, q, rs, d, k, ws[r])
  /\ \A u \in 1 .. Len(rs) : LeafDecodes(way, Source(q, rs, u), LeafPath(d, k), LeafDtype(d, k))

OfLeaves(way, cols, q, rs, ws, d) ==
  /\ cols \in Seq(Seq(Value)) /\ Len(cols) <= LeafCount(d)
  /\ \A k \in 1 .. Len(cols) : OfLeaf(way, cols[k], q, rs, ws, d, k)

(* A column of a whole call.                                               *)
OfCall(way, c, q, rs, ws, d) ==
  /\ d \in Dtype /\ Len(c) = Len(ws)
  /\ \A r \in 1 .. Len(ws) : At(c, r) \in CellsOf[d]
  /\ (q.entry = "record" => HasLeaves(d)) =>
       /\ \A u \in 1 .. Len(rs) : Source(q, rs, u) \in Accepts(way, d) \cup {None}
       /\ \A r \in 1 .. Len(ws) :
            \/ At(c, r) = RowResult(way, q, rs, ws, d, r)
            \/ q.entry # "record" /\ d.type = "list" /\ RowResult(way, q, rs, ws, d, r) = Null

GoodOutcome(way, o, q, kn, rs, ws, d) ==
  /\ o.status = "ok" => OfCall(way, o.column, q, rs, ws, d)
  /\ o.status = "decode" =>
       Planned(q, kn, d) /\ \E u \in 1 .. Len(rs) : Source(q, rs, u) \notin Accepts(way, d) \cup {None}
  /\ o.status # "build"

Stages == {"plan", "execute", "scalars", "values", "typed", "split", "leaves", "done"}

Inv ==
  /\ Inputs(request, known, records, rows)
  /\ stage \in Stages
  /\ stage # "done" => result = Pending
  /\ stage \notin {"plan", "done"} => Planned(request, known, dtype)
  /\ stage \in {"scalars", "values"} => request.entry # "record"
  /\ stage \in {"typed", "leaves"} => request.entry = "record"
  /\ stage = "values" => IsNested(dtype)
  /\ stage \in {"scalars", "leaves"} => CallWay(request, known, dtype) = "leaves"
  /\ stage = "values" => CallWay(request, known, dtype) = "seed"
  /\ stage = "typed" => CallWay(request, known, dtype) = "struct"
  /\ stage \notin {"split", "leaves", "done"} => columns = <<>>
  /\ stage = "split" => Whole(CallWay(request, known, dtype), request, records, dtype, values)
  /\ stage \in {"split", "leaves"} => OfLeaves(CallWay(request, known, dtype), columns, request, records, rows, dtype)
  /\ GoodOutcome(CallWay(request, known, dtype), result, request, known, records, rows, dtype)

----------------------------------------------------------------------------
(* Calls and their values.                                                 *)

LEMMA SourceFacts ==
  ASSUME NEW q \in Requests, NEW rs \in Seq(Value), NEW u \in 1 .. Len(rs)
  PROVE  /\ rs[u] \in Value /\ Source(q, rs, u) \in Found
         /\ q.entry = "record" => Source(q, rs, u) \in Value
         /\ q.entry # "record" => Source(q, rs, u) = PythonAlong(rs[u], q.path)[Len(q.path)]
<1>1. rs[u] \in Value
  BY ElementOf
<1>2. q.path \in Seq(PathPart)
  BY RequestsAreCalls
<1>3. CASE q.entry = "record"
  BY <1>1, <1>3 DEF Source, Found
<1>4. CASE q.entry # "record"
  <2>1. Source(q, rs, u) = Navigate(rs[u], ToMmdbPath(q.path))
    BY <1>4 DEF Source
  <2>2. /\ Navigate(rs[u], ToMmdbPath(q.path)) = PythonAlong(rs[u], q.path)[Len(q.path)]
        /\ Navigate(rs[u], ToMmdbPath(q.path)) \in Found
    BY <1>1, <1>2, PathAsMeant
  <2>. QED
    BY <1>1, <1>4, <2>1, <2>2
<1>. QED
  BY <1>3, <1>4

LEMMA RecordIsSource ==
  ASSUME NEW q, q.entry = "record", NEW rs, NEW u
  PROVE  Source(q, rs, u) = rs[u]
BY DEF Source

LEMMA NotNothing ==
  ASSUME NEW way \in Ways, NEW d \in Dtype
  PROVE  /\ \A v \in Accepts(way, d) : v # None /\ v # Mismatch /\ Yields(way, d, v) # None
         /\ \A v \in Accepts(way, d) \cup {None} : OrDefault(way, v, d) \in FullValues(way, d)
         /\ \A full \in FullValues(way, d) : full \in Builds(d) /\ full # None /\ full # Mismatch
<1>1. \A full \in FullValues(way, d) : full \in Builds(d) /\ full \in Value
  BY FullIsBuildable
<1>2. \A v \in Accepts(way, d) : v \in Value /\ Yields(way, d, v) \in FullValues(way, d)
  BY AcceptedIsValue DEF FullValues
<1>3. DefaultOf(d) \in FullValues(way, d)
  BY DEF FullValues
<1>4. \A v \in Accepts(way, d) \cup {None} : OrDefault(way, v, d) \in FullValues(way, d)
  BY <1>2, <1>3 DEF OrDefault
<1>. QED
  BY <1>1, <1>2, <1>4, NoValues

(* A call is resolved to a dtype.                                          *)
LEMMA ResolvedDtype ==
  ASSUME NEW q \in Requests, NEW kn \in KnownDtypes, NEW d,
         q.entry = "record" => ResolvesRecord(kn, q.explicit) /\ d = RecordDtype(kn, q.explicit),
         q.entry # "record" =>
           ResolvesPath(kn, q.path, q.explicit) /\ d = PathDtype(kn, q.path, q.explicit)
  PROVE  Planned(q, kn, d)
<1>1. /\ q.explicit \in Dtype \cup {NoDtype} /\ kn \in Dtype \cup {NoDtype} /\ q.path \in Seq(PathPart)
  BY RequestsAreCalls, KnownDtypesAreDtypes
<1>2. CASE q.entry = "record"
  BY <1>1, <1>2 DEF ResolvesRecord, RecordDtype, Planned
<1>3. CASE q.entry # "record"
  <2>1. ResolvesPath(kn, q.path, q.explicit) /\ d = PathDtype(kn, q.path, q.explicit)
    BY <1>3
  <2>2. CASE q.explicit # NoDtype
    BY <1>1, <1>3, <2>1, <2>2 DEF PathDtype, Planned
  <2>3. CASE q.explicit = NoDtype
    <3>1. kn # NoDtype /\ DtypeAtPath(kn, q.path) # NoDtype /\ d = DtypeAtPath(kn, q.path)
      BY <2>1, <2>3 DEF ResolvesPath, PathDtype
    <3>2. d \in Dtype
      BY <1>1, <3>1, DtypeAtPathIsDtype
    <3>. QED
      BY <1>3, <2>1, <3>2 DEF Planned
  <2>. QED
    BY <2>2, <2>3
<1>. QED
  BY <1>2, <1>3

(* Data that keeps to the known schema keeps to the dtype of every call.   *)
THEOREM KnownDataIsPlanned ==
  ASSUME NEW q \in Requests, NEW kn \in KnownDtypes, kn # NoDtype, NEW d, Planned(q, kn, d),
         NEW rs \in Seq(Value), NEW u \in 1 .. Len(rs), rs[u] \in KeepingTo(kn)
  PROVE  Source(q, rs, u) \in KeepingTo(d) \cup {None}
<1>1. /\ q.explicit \in Dtype \cup {NoDtype} /\ kn \in Dtype /\ q.path \in Seq(PathPart)
  BY RequestsAreCalls, KnownDtypesAreDtypes
<1>2. CASE q.entry = "record"
  <2>1. Source(q, rs, u) = rs[u] /\ ResolvesRecord(kn, q.explicit) /\ d = RecordDtype(kn, q.explicit)
    BY <1>2, RecordIsSource DEF Planned
  <2>2. CASE q.explicit = NoDtype
    BY <2>1, <2>2 DEF RecordDtype
  <2>3. CASE q.explicit # NoDtype
    <3>1. d \in PartialsOf(kn)
      BY <2>1, <2>3 DEF ResolvesRecord, RecordDtype, IsPartialSchema, PartialsOf
    <3>2. \A way \in Ways : Accepts(way, kn) \subseteq Accepts(way, d)
      BY <1>1, <3>1, PartialAccepts
    <3>3. KeepingTo(kn) \subseteq KeepingTo(d)
      BY <3>2, KeptIs DEF Ways
    <3>. QED
      BY <2>1, <3>3
  <2>. QED
    BY <2>2, <2>3
<1>3. CASE q.entry # "record"
  <2>1. /\ Source(q, rs, u) = Navigate(rs[u], ToMmdbPath(q.path))
        /\ ResolvesPath(kn, q.path, q.explicit) /\ d = PathDtype(kn, q.path, q.explicit)
    BY <1>3 DEF Planned, Source
  <2>2. DtypeAtPath(kn, q.path) # NoDtype /\ d = DtypeAtPath(kn, q.path)
    BY <2>1 DEF ResolvesPath, PathDtype
  <2>3. ASSUME NEW way \in {"seed", "struct"}
        PROVE  Source(q, rs, u) = None \/ Source(q, rs, u) \in Accepts(way, d)
    <3>1. rs[u] \in Accepts(way, kn)
      BY KeptIs
    <3>. QED
      BY <1>1, <2>1, <2>2, <3>1, KnownPath
  <2>. QED
    BY <2>3, KeptIs
<1>. QED
  BY <1>2, <1>3

----------------------------------------------------------------------------
(* Columns.                                                                *)

(* values_to_series and take.                                              *)
LEMMA TakenColumn ==
  ASSUME NEW n \in Nat, NEW found, Len(found) = n, NEW d,
         NEW ws, Len(ws) \in Nat, \A r \in 1 .. Len(ws) : ws[r] \in 0 .. n
  PROVE  /\ Len(Take(ValuesToSeries(found, d), ws)) = Len(ws)
         /\ Take(ValuesToSeries(found, d), ws) = [r \in 1 .. Len(ws) |-> At(Take(ValuesToSeries(found, d), ws), r)]
         /\ \A r \in 1 .. Len(ws) :
              At(Take(ValuesToSeries(found, d), ws), r)
                = IF ws[r] = 0 THEN Null ELSE CellOf(d, At(found, ws[r]))
<1>. DEFINE series == ValuesToSeries(found, d)
<1>1. \A u \in 1 .. n : series[u] = CellOf(d, At(found, u))
  BY DEF ValuesToSeries, CellOf, At
<1>. HIDE DEF series
<1>2. Take(series, ws) = [r \in 1 .. Len(ws) |-> IF ws[r] = 0 THEN Null ELSE series[ws[r]]]
  BY DEF Take
<1>3. \A r \in 1 .. Len(ws) : ws[r] # 0 => ws[r] \in 1 .. n
  OBVIOUS
<1>4. \A r \in 1 .. Len(ws) : At(Take(series, ws), r) = IF ws[r] = 0 THEN Null ELSE CellOf(d, At(found, ws[r]))
  BY <1>1, <1>2, <1>3 DEF At
<1>5. Len(Take(series, ws)) = Len(ws)
  BY <1>2
<1>6. Take(series, ws) = [r \in 1 .. Len(ws) |-> At(Take(series, ws), r)]
  BY <1>2 DEF At
<1>. QED
  BY <1>4, <1>5, <1>6 DEF series

(* What is decoded where every record's value is of the dtype.              *)
DecodedWhole(way, found, q, rs, d) ==
  /\ Len(found) = Len(rs)
  /\ \A u \in 1 .. Len(rs) :
       /\ Source(q, rs, u) \in Accepts(way, d) \cup {None}
       /\ At(found, u) = IF Source(q, rs, u) = None THEN None ELSE Yields(way, d, Source(q, rs, u))

(* Columns of a scalar, from the values found at a path.                   *)
LEMMA ScalarColumn ==
  ASSUME NEW way \in Ways, NEW q \in Requests, NEW rs \in Seq(Value), NEW ws, Len(ws) \in Nat,
         \A r \in 1 .. Len(ws) : ws[r] \in 0 .. Len(rs), NEW d \in Dtype,
         NEW found, DecodedWhole(way, found, q, rs, d)
  PROVE  OfCall(way, Take(ValuesToSeries(found, d), ws), q, rs, ws, d)
<1>. DEFINE c == Take(ValuesToSeries(found, d), ws)
<1>1. Len(rs) \in Nat /\ Len(found) = Len(rs)
  BY DEF DecodedWhole
<1>2. /\ Len(c) = Len(ws)
      /\ \A r \in 1 .. Len(ws) : At(c, r) = IF ws[r] = 0 THEN Null ELSE CellOf(d, At(found, ws[r]))
  BY <1>1, TakenColumn
<1>. HIDE DEF c
<1>3. \A r \in 1 .. Len(ws) : ws[r] # 0 => ws[r] \in 1 .. Len(rs)
  BY <1>1
<1>4. CellOf(d, None) = Null
  BY CellNull
<1>5. \A r \in 1 .. Len(ws) : At(c, r) = RowResult(way, q, rs, ws, d, r)
  BY <1>2, <1>3, <1>4 DEF RowResult, DecodedWhole
<1>6. \A u \in 1 .. Len(rs) : At(found, u) \in Builds(d)
  <2>1. \A v \in Accepts(way, d) : Yields(way, d, v) \in Builds(d)
    BY FullIsBuildable DEF FullValues
  <2>. QED
    BY <2>1, CellNull DEF DecodedWhole
<1>7. \A r \in 1 .. Len(ws) : At(c, r) \in CellsOf[d]
  <2>1. \A v \in Builds(d) : CellOf(d, v) \in CellsOf[d]
    BY CellsAreTyped DEF GoodCell
  <2>2. Null \in CellsOf[d]
    BY NullIsGood DEF GoodCell
  <2>. QED
    BY <1>2, <1>3, <1>6, <2>1, <2>2
<1>. QED
  BY <1>2, <1>5, <1>7 DEF OfCall, DecodedWhole, c

(* The column of a leaf.                                                   *)
LEMMA LeafTaken ==
  ASSUME NEW way \in Ways, NEW q \in Requests, NEW rs \in Seq(Value), NEW ws, Len(ws) \in Nat,
         \A r \in 1 .. Len(ws) : ws[r] \in 0 .. Len(rs), NEW d \in Dtype, NEW k \in 1 .. LeafCount(d),
         \A u \in 1 .. Len(rs) : LeafDecodes(way, Source(q, rs, u), LeafPath(d, k), LeafDtype(d, k)),
         NEW found, Len(found) = Len(rs),
         \A u \in 1 .. Len(rs) :
           At(found, u) = OrDefault(way, Follow(Source(q, rs, u), LeafPath(d, k)), LeafDtype(d, k))
  PROVE  /\ \A u \in 1 .. Len(rs) : At(found, u) \in Builds(LeafDtype(d, k))
         /\ OfLeaf(way, Take(ValuesToSeries(found, LeafDtype(d, k)), ws), q, rs, ws, d, k)
         /\ Take(ValuesToSeries(found, LeafDtype(d, k)), ws) \in Seq(Value)
<1>. DEFINE e == LeafDtype(d, k)
            c == Take(ValuesToSeries(found, e), ws)
<1>1. Len(rs) \in Nat
  OBVIOUS
<1>2. /\ Len(c) = Len(ws) /\ c = [r \in 1 .. Len(ws) |-> At(c, r)]
      /\ \A r \in 1 .. Len(ws) : At(c, r) = IF ws[r] = 0 THEN Null ELSE CellOf(e, At(found, ws[r]))
  BY <1>1, TakenColumn
<1>3. e \in Dtype
  BY LeafFacts
<1>. HIDE DEF c
<1>4. \A r \in 1 .. Len(ws) : ws[r] # 0 => ws[r] \in 1 .. Len(rs)
  BY <1>1
<1>5. \A u \in 1 .. Len(rs) : Follow(Source(q, rs, u), LeafPath(d, k)) \in Accepts(way, e) \cup {None}
  BY DEF LeafDecodes
<1>6. \A u \in 1 .. Len(rs) : At(found, u) \in Builds(e)
  <2>. HIDE DEF e
  <2>1. \A v \in Accepts(way, e) \cup {None} : OrDefault(way, v, e) \in Builds(e)
    BY <1>3, NotNothing
  <2>. QED
    BY <1>5, <2>1 DEF e
<1>7. \A r \in 1 .. Len(ws) : At(c, r) = IF ws[r] = 0 THEN Null ELSE LeafCell(way, q, rs, d, k, ws[r])
  BY <1>2, <1>4 DEF LeafCell
<1>8. \A r \in 1 .. Len(ws) : At(c, r) \in Value
  <2>. HIDE DEF e
  <2>1. \A v \in Builds(e) : CellOf(e, v) \in Value
    BY <1>3, CellFits
  <2>. QED
    BY <1>2, <1>4, <1>6, <2>1, NullIsAValue
<1>9. c \in Seq(Value)
  <2>1. c = [r \in 1 .. Len(ws) |-> c[r]] /\ \A r \in 1 .. Len(ws) : c[r] \in Value
    BY <1>2, <1>8 DEF At
  <2>. QED
    BY <2>1, SequenceOf
<1>. QED
  BY <1>2, <1>6, <1>7, <1>9 DEF OfLeaf, c, e

(* One more column.                                                        *)
LEMMA OneMoreColumn ==
  ASSUME NEW way \in Ways, NEW cols, NEW q, NEW rs, NEW ws, NEW d \in Dtype, OfLeaves(way, cols, q, rs, ws, d),
         Len(cols) < LeafCount(d),
         NEW c \in Seq(Value), OfLeaf(way, c, q, rs, ws, d, Len(cols) + 1)
  PROVE  OfLeaves(way, Append(cols, c), q, rs, ws, d)
<1>1. cols \in Seq(Seq(Value)) /\ Len(cols) \in Nat /\ LeafCount(d) \in Nat
  BY LeafFacts DEF OfLeaves
<1>. DEFINE T == Seq(Value)
            more == Append(cols, c)
<1>2. /\ more \in Seq(T) /\ Len(more) = Len(cols) + 1 /\ more[Len(cols) + 1] = c
      /\ \A k \in 1 .. Len(cols) : more[k] = cols[k]
  <2>. HIDE DEF T
  <2>1. cols \in Seq(T) /\ c \in T
    BY <1>1 DEF T
  <2>. QED
    BY <2>1
<1>. HIDE DEF more
<1>3. \A k \in 1 .. Len(more) : OfLeaf(way, more[k], q, rs, ws, d, k)
  <2>. SUFFICES ASSUME NEW k \in 1 .. Len(more) PROVE OfLeaf(way, more[k], q, rs, ws, d, k)
    OBVIOUS
  <2>1. CASE k = Len(cols) + 1
    BY <1>2, <2>1
  <2>2. CASE k # Len(cols) + 1
    <3>1. k \in 1 .. Len(cols)
      BY <1>1, <1>2, <2>2
    <3>2. OfLeaf(way, cols[k], q, rs, ws, d, k)
      BY <3>1 DEF OfLeaves
    <3>. QED
      BY <1>2, <3>1, <3>2
  <2>. QED
    BY <2>1, <2>2
<1>4. Len(more) <= LeafCount(d)
  BY <1>1, <1>2
<1>. QED
  BY <1>2, <1>3, <1>4 DEF OfLeaves, more

(* All of them assembled.                                                  *)
LEMMA AssembledCall ==
  ASSUME NEW way \in Ways, NEW q \in Requests, NEW rs \in Seq(Value), NEW ws, Len(ws) \in Nat,
         \A r \in 1 .. Len(ws) : ws[r] \in 0 .. Len(rs), NEW d \in Dtype,
         NEW cols, OfLeaves(way, cols, q, rs, ws, d), Len(cols) = LeafCount(d),
         NEW validity, Len(validity) = Len(ws),
         \A r \in 1 .. Len(ws) :
           validity[r] <=> ws[r] # 0 /\ Source(q, rs, ws[r]) # None,
         q.entry = "record" \/ d \in Structs \/ d \in Lists,
         \/ q.entry = "record"
         \/ \A u \in 1 .. Len(rs) : Source(q, rs, u) \in Accepts(way, d) \cup {None}
  PROVE  OfCall(way, Assemble(cols, validity)[d][1], q, rs, ws, d)
<1>. DEFINE c == Assemble(cols, validity)[d][1]
<1>1. 1 \in Nat /\ Len(validity) \in Nat /\ Len(rs) \in Nat /\ LeafCount(d) \in Nat
  BY LeafFacts
<1>2. \A k \in 1 .. LeafCount(d) : LeafDtype(d, k) \in Dtype /\ LeafPath(d, k) \in Seq(STRING)
  BY LeafFacts
<1>3. \A k \in 1 .. LeafCount(d) : OfLeaf(way, cols[k], q, rs, ws, d, k)
  BY DEF OfLeaves
<1>4. \A r \in 1 .. Len(ws) : ws[r] # 0 => ws[r] \in 1 .. Len(rs)
  BY <1>1
<1>5. /\ \A r \in 1 .. Len(ws) : At(c, r) = AssembledAt(cols, validity, d, 1, r)
      /\ \A k, r : At(cols[k], r) = CellAt(cols, k, r)
  BY DEF At, AssembledAt, CellAt
<1>6. \A k \in 1 .. LeafCount(d), r \in 1 .. Len(ws) :
        CellAt(cols, k, r) = IF ws[r] = 0 THEN Null ELSE LeafCell(way, q, rs, d, k, ws[r])
  BY <1>3, <1>5 DEF OfLeaf
<1>7. \A k \in 1 .. LeafCount(d), u \in 1 .. Len(rs) :
        Follow(Source(q, rs, u), LeafPath(d, k)) \in Accepts(way, LeafDtype(d, k)) \cup {None}
  BY <1>3 DEF OfLeaf, LeafDecodes
<1>. HIDE DEF c
<1>8. Len(c) = Len(ws)
  <2>1. CASE d \in Structs
    <3>1. Len(c) = Len(validity)
      <4>1. c = Assembled(cols, validity, d)
        BY DEF c, Assembled
      <4>. QED
        BY <1>1, <2>1, <4>1, AssembledLength
    <3>. QED
      BY <3>1
  <2>2. CASE d \notin Structs
    <3>1. c = cols[1]
      BY <1>1, <2>2, LeafColumn DEF c
    <3>2. OfLeaf(way, cols[1], q, rs, ws, d, 1)
      BY <1>3, <2>2, OneLeaf
    <3>. QED
      BY <3>1, <3>2 DEF OfLeaf
  <2>. QED
    BY <2>1, <2>2
<1>9. ASSUME NEW r \in 1 .. Len(ws)
      PROVE  At(c, r) \in CellsOf[d]
  <2>1. ASSUME NEW k \in 1 .. LeafCount(d)
        PROVE  GoodCell(CellAt(cols, k, r), LeafDtype(d, k))
    <3>. DEFINE e == LeafDtype(d, k)
    <3>1. e \in Dtype
      BY <1>2
    <3>2. CASE ws[r] = 0
      BY <1>6, <1>9, <3>1, <3>2, NullIsGood
    <3>3. CASE ws[r] # 0
      <4>1. ws[r] \in 1 .. Len(rs)
        BY <1>4, <3>3
      <4>2. CellAt(cols, k, r) = LeafCell(way, q, rs, d, k, ws[r])
        BY <1>6, <3>3
      <4>3. Follow(Source(q, rs, ws[r]), LeafPath(d, k)) \in Accepts(way, e) \cup {None}
        BY <1>7, <4>1
      <4>4. OrDefault(way, Follow(Source(q, rs, ws[r]), LeafPath(d, k)), e) \in Builds(e)
        BY <3>1, <4>3, NotNothing
      <4>5. GoodCell(CellOf(e, OrDefault(way, Follow(Source(q, rs, ws[r]), LeafPath(d, k)), e)), e)
        BY <3>1, <4>4, CellsAreTyped
      <4>. QED
        BY <4>2, <4>5 DEF LeafCell
    <3>. QED
      BY <3>2, <3>3
  <2>2. \A k \in 1 .. LeafCount(d) : GoodCell(CellAt(cols, 1 + k - 1, r), LeafDtype(d, k))
    <3>1. \A k \in 1 .. LeafCount(d) : 1 + k - 1 = k
      OBVIOUS
    <3>. QED
      BY <2>1, <3>1
  <2>3. GoodCell(AssembledAt(cols, validity, d, 1, r), d)
    BY <1>1, <2>2, AssembledIsGood
  <2>. QED
    BY <1>5, <2>3 DEF GoodCell
<1>10. ASSUME q.entry = "record" => HasLeaves(d), NEW u \in 1 .. Len(rs)
       PROVE  Source(q, rs, u) \in Accepts(way, d) \cup {None}
  <2>1. CASE q.entry # "record"
    BY <2>1
  <2>2. CASE q.entry = "record"
    <3>1. Source(q, rs, u) \in Value \cup {None} /\ HasLeaves(d)
      BY <1>10, <2>2, SourceFacts
    <3>2. \A k \in 1 .. LeafCount(d) : LeafDecodes(way, Source(q, rs, u), LeafPath(d, k), LeafDtype(d, k))
      BY <1>3 DEF OfLeaf
    <3>. QED
      BY <3>1, <3>2, WholeOfLeaves
  <2>. QED
    BY <2>1, <2>2
<1>11. ASSUME q.entry = "record" => HasLeaves(d), NEW r \in 1 .. Len(ws)
       PROVE  \/ At(c, r) = RowResult(way, q, rs, ws, d, r)
              \/ q.entry # "record" /\ d.type = "list" /\ RowResult(way, q, rs, ws, d, r) = Null
  <2>1. CASE validity[r]
    <3>. DEFINE v == Source(q, rs, ws[r])
                full == OrDefault(way, v, d)
    <3>1. ws[r] # 0 /\ v # None /\ ws[r] \in 1 .. Len(rs)
      BY <1>4, <2>1
    <3>2. v \in Accepts(way, d)
      BY <1>10, <1>11, <3>1
    <3>3. full = Yields(way, d, v) /\ full \in FullValues(way, d)
      BY <3>1, <3>2, NotNothing DEF OrDefault
    <3>4. RowResult(way, q, rs, ws, d, r) = CellOf(d, full)
      BY <3>1, <3>3 DEF RowResult
    <3>. HIDE DEF full, v
    <3>5. ASSUME NEW k \in 1 .. LeafCount(d)
          PROVE  CellAt(cols, k, r) = CellOf(LeafDtype(d, k), Follow(full, LeafPath(d, k)))
      <4>1. CellAt(cols, k, r) = CellOf(LeafDtype(d, k), OrDefault(way, Follow(v, LeafPath(d, k)), LeafDtype(d, k)))
        BY <1>6, <3>1 DEF LeafCell, v
      <4>2. Follow(OrDefault(way, v, d), LeafPath(d, k)) = OrDefault(way, Follow(v, LeafPath(d, k)), LeafDtype(d, k))
        BY <3>2, LeavesOfWhole
      <4>. QED
        BY <4>1, <4>2 DEF full
    <3>6. \A k \in 1 .. LeafCount(d) :
            CellAt(cols, 1 + k - 1, r) = CellOf(LeafDtype(d, k), Follow(full, LeafPath(d, k)))
      <4>1. \A k \in 1 .. LeafCount(d) : 1 + k - 1 = k
        OBVIOUS
      <4>. QED
        BY <3>5, <4>1
    <3>7. AssembledAt(cols, validity, d, 1, r) = CellOf(d, full)
      BY <1>1, <2>1, <3>3, <3>6, AssembledAsWhole
    <3>. QED
      BY <1>5, <3>4, <3>7
  <2>2. CASE ~validity[r] /\ d \in Structs
    <3>1. AssembledAt(cols, validity, d, 1, r) = Null
      BY <1>1, <2>2, AssembledNull
    <3>2. RowResult(way, q, rs, ws, d, r) = Null
      BY <2>2 DEF RowResult
    <3>. QED
      BY <1>5, <3>1, <3>2
  <2>3. CASE ~validity[r] /\ d \notin Structs
    <3>1. RowResult(way, q, rs, ws, d, r) = Null
      BY <2>3 DEF RowResult
    <3>2. CASE q.entry # "record"
      <4>1. d.type = "list"
        BY <2>3, <3>2 DEF Lists
      <4>. QED
        BY <3>1, <3>2, <4>1
    <3>3. CASE q.entry = "record"
      <4>1. ws[r] = 0
        BY <1>4, <2>3, <3>3, SourceFacts, NoValues
      <4>2. 1 \in 1 .. LeafCount(d)
        BY <2>3, OneLeaf
      <4>3. CellAt(cols, 1, r) = Null
        BY <1>6, <4>1, <4>2
      <4>4. AssembledAt(cols, validity, d, 1, r) = CellAt(cols, 1, r)
        BY <1>1, <2>3, AssembledOther
      <4>. QED
        BY <1>5, <3>1, <4>3, <4>4
    <3>. QED
      BY <3>2, <3>3
  <2>. QED
    BY <2>1, <2>2, <2>3
<1>. QED
  BY <1>8, <1>9, <1>10, <1>11 DEF OfCall, c

----------------------------------------------------------------------------
(* Steps.                                                                  *)

(* decode_path, as a call uses it and as a leaf does.                      *)
LEMMA CallDecodes ==
  ASSUME NEW way \in Ways, NEW q \in Requests, NEW rs \in Seq(Value), NEW d \in Dtype, NEW u \in 1 .. Len(rs),
         NEW path, Navigate(rs[u], path) = Source(q, rs, u)
  PROVE  /\ DecodesAt(way, rs[u], path, d) <=> Source(q, rs, u) \in Accepts(way, d) \cup {None}
         /\ DecodedAt(way, rs[u], path, d) = IF Source(q, rs, u) = None THEN None ELSE Yields(way, d, Source(q, rs, u))
<1>1. Mismatch \notin Accepts(way, d) /\ Mismatch # None
  BY NotNothing, NoValues
<1>. QED
  BY <1>1 DEF DecodesAt, DecodedAt, Accepts, Yields

LEMMA LeafDecodesAt ==
  ASSUME NEW way \in Ways, NEW record, NEW names, NEW d \in Dtype
  PROVE  /\ DecodesAt(way, record, Keys(names), d) <=> LeafDecodes(way, record, names, d)
         /\ LeafDecodes(way, record, names, d) /\ DecodedAt(way, record, Keys(names), d) = None
              => OrDefault(way, Follow(record, names), d) = DefaultOf(d)
         /\ LeafDecodes(way, record, names, d) /\ DecodedAt(way, record, Keys(names), d) # None
              => OrDefault(way, Follow(record, names), d) = DecodedAt(way, record, Keys(names), d)
<1>1. \A v \in Accepts(way, d) : Yields(way, d, v) # None
  BY NotNothing
<1>2. DecodesAt(way, record, Keys(names), d) <=> LeafDecodes(way, record, names, d)
  BY DEF DecodesAt, LeafDecodes, Follow, Accepts
<1>3. DecodedAt(way, record, Keys(names), d)
        = IF Follow(record, names) = None THEN None ELSE Yields(way, d, Follow(record, names))
  BY DEF DecodedAt, Follow, Yields
<1>. QED
  BY <1>1, <1>2, <1>3 DEF LeafDecodes, OrDefault

(* value_at_path.                                                          *)
LEMMA LeafOfValue ==
  ASSUME NEW way \in Ways, NEW d \in Dtype, NEW v \in Accepts(way, d) \cup {None}, NEW k \in 1 .. LeafCount(d)
  PROVE  LET e == LeafDtype(d, k)
             found == IF v = None THEN None ELSE ValueAtPath(Yields(way, d, v), LeafPath(d, k))
         IN  /\ LeafDecodes(way, v, LeafPath(d, k), e)
             /\ OrDefault(way, Follow(v, LeafPath(d, k)), e) = IF found = None THEN DefaultOf(e) ELSE found
<1>. DEFINE e == LeafDtype(d, k)
            names == LeafPath(d, k)
<1>1. e \in Dtype /\ names \in Seq(STRING)
  BY LeafFacts
<1>2. LeafDecodes(way, v, names, e) /\ Follow(OrDefault(way, v, d), names) = OrDefault(way, Follow(v, names), e)
  BY LeavesOfWhole
<1>. HIDE DEF e, names
<1>3. OrDefault(way, Follow(v, names), e) # None /\ OrDefault(way, Follow(v, names), e) # Mismatch
  <2>1. Follow(v, names) \in Accepts(way, e) \cup {None}
    BY <1>2 DEF LeafDecodes
  <2>. QED
    BY <1>1, <2>1, NotNothing
<1>4. CASE v = None
  <2>1. Follow(v, names) = None
    BY <1>1, <1>4, FollowStuck
  <2>2. OrDefault(way, Follow(v, names), e) = DefaultOf(e)
    BY <2>1 DEF OrDefault
  <2>. QED
    BY <1>2, <1>4, <2>2 DEF e, names
<1>5. CASE v # None
  <2>1. OrDefault(way, v, d) = Yields(way, d, v)
    BY <1>5 DEF OrDefault
  <2>2. ValueAtPath(Yields(way, d, v), names) = Follow(Yields(way, d, v), names)
    BY <1>2, <1>3, <2>1 DEF ValueAtPath, Follow
  <2>3. ValueAtPath(Yields(way, d, v), names) = OrDefault(way, Follow(v, names), e)
    BY <1>2, <2>1, <2>2
  <2>. QED
    BY <1>2, <1>3, <1>5, <2>3 DEF e, names
<1>. QED
  BY <1>4, <1>5

(* Columns are built of what was found, without an error.                  *)
LEMMA AddedColumn ==
  ASSUME NEW way \in Ways, Inputs(request, known, records, rows), dtype \in Dtype,
         OfLeaves(way, columns, request, records, rows, dtype), LeavesLeft,
         NEW found, Len(found) = Len(records), AddColumn(found, NextLeaf.dtype),
         \A u \in 1 .. Len(records) :
           LeafDecodes(way, Source(request, records, u), NextLeaf.path, NextLeaf.dtype),
         \A u \in 1 .. Len(records) :
           OrDefault(way, Follow(Source(request, records, u), NextLeaf.path), NextLeaf.dtype)
             = IF found[u] = None THEN DefaultOf(NextLeaf.dtype) ELSE found[u]
  PROVE  OfLeaves(way, columns', request, records, rows, dtype) /\ stage' = stage /\ result' = result
<1>. DEFINE k == Len(columns) + 1
            e == LeafDtype(dtype, k)
            column == Defaulted(found, e)
            c == Take(ValuesToSeries(column, e), rows)
<1>1. k \in 1 .. LeafCount(dtype) /\ Len(columns) < LeafCount(dtype)
  <2>1. Len(columns) \in Nat /\ LeafCount(dtype) \in Nat
    BY LeafFacts DEF OfLeaves
  <2>2. Len(columns) < LeafCount(dtype)
    BY DEF LeavesLeft, LeafCount
  <2>. QED
    BY <2>1, <2>2
<1>2. NextLeaf.dtype = e /\ NextLeaf.path = LeafPath(dtype, k)
  BY DEF NextLeaf, LeafDtype, LeafPath
<1>3. Len(column) = Len(records)
  BY DEF Defaulted
<1>4. \A u \in 1 .. Len(records) :
        At(column, u) = OrDefault(way, Follow(Source(request, records, u), LeafPath(dtype, k)), e)
  BY <1>2 DEF Defaulted, At, DefaultOf
<1>5. \A u \in 1 .. Len(records) : LeafDecodes(way, Source(request, records, u), LeafPath(dtype, k), e)
  BY <1>2
<1>6. /\ request \in Requests /\ records \in Seq(Value)
      /\ Len(rows) \in Nat /\ \A r \in 1 .. Len(rows) : rows[r] \in 0 .. Len(records)
  BY DEF Inputs
<1>7. AddColumn(found, e)
  BY <1>2
<1>. HIDE DEF k, column
<1>8. /\ \A u \in 1 .. Len(records) : At(column, u) \in Builds(e)
      /\ OfLeaf(way, c, request, records, rows, dtype, k) /\ c \in Seq(Value)
  BY <1>1, <1>3, <1>4, <1>5, <1>6, LeafTaken
<1>9. \A u \in 1 .. Len(column) : column[u] \in Buildable[e]
  BY <1>3, <1>8 DEF At, Builds
<1>. HIDE DEF e
<1>10. columns' = Append(columns, c) /\ stage' = stage /\ result' = result
  BY <1>7, <1>9 DEF AddColumn, column
<1>. HIDE DEF c
<1>11. OfLeaves(way, Append(columns, c), request, records, rows, dtype)
  BY <1>1, <1>8, OneMoreColumn DEF k
<1>. QED
  BY <1>10, <1>11

(* Outcomes.                                                               *)
LEMMA Outcomes ==
  ASSUME NEW way \in Ways, NEW q, NEW kn, NEW rs, NEW ws, NEW d
  PROVE  /\ GoodOutcome(way, Pending, q, kn, rs, ws, d) /\ GoodOutcome(way, Error("schema"), q, kn, rs, ws, d)
         /\ GoodOutcome(way, Error("index"), q, kn, rs, ws, d)
         /\ \A c : OfCall(way, c, q, rs, ws, d) => GoodOutcome(way, Ok(c), q, kn, rs, ws, d)
         /\ (\E u \in 1 .. Len(rs) : Source(q, rs, u) \notin Accepts(way, d) \cup {None})
              /\ Planned(q, kn, d) => GoodOutcome(way, Error("decode"), q, kn, rs, ws, d)
BY DEF GoodOutcome, Pending, Error, Ok

LEMMA PlanKeeps == Inv /\ Plan => Inv'
<1>. SUFFICES ASSUME Inv, Plan PROVE Inv'
  OBVIOUS
<1>1. /\ stage = "plan" /\ UNCHANGED <<request, known, records, rows, columns>>
      /\ Inputs(request, known, records, rows) /\ result = Pending /\ columns = <<>>
  BY DEF Inv, Plan, inputVars
<1>2. GoodOutcome(CallWay(request, known, dtype'), Pending, request, known, records, rows, dtype')
  BY CallWayIsWay, Outcomes
<1>3. CASE ~Resolves
  <2>1. stage' = "done" /\ result' = Error("schema")
    BY <1>3 DEF Plan, Return
  <2>2. GoodOutcome(CallWay(request, known, dtype'), Error("schema"), request, known, records, rows, dtype')
    BY CallWayIsWay, Outcomes
  <2>. QED
    BY <1>1, <2>1, <2>2 DEF Inv, Stages
<1>4. CASE Resolves
  <2>1. /\ stage' = "execute" /\ result' = result
        /\ dtype' = IF IsRecordLookup THEN RecordDtype(known, request.explicit)
                    ELSE PathDtype(known, request.path, request.explicit)
    BY <1>4 DEF Plan
  <2>2. /\ request.entry = "record" =>
             ResolvesRecord(known, request.explicit) /\ dtype' = RecordDtype(known, request.explicit)
        /\ request.entry # "record" =>
             /\ ResolvesPath(known, request.path, request.explicit)
             /\ dtype' = PathDtype(known, request.path, request.explicit)
    BY <1>4, <2>1 DEF Resolves, IsRecordLookup
  <2>3. Planned(request, known, dtype')
    BY <1>1, <2>2, ResolvedDtype DEF Inputs
  <2>. QED
    BY <1>1, <1>2, <2>1, <2>3 DEF Inv, Stages
<1>. QED
  BY <1>3, <1>4

LEMMA ExecuteKeeps == Inv /\ Execute => Inv'
<1>. SUFFICES ASSUME Inv, Execute PROVE Inv'
  OBVIOUS
<1>. DEFINE way == CallWay(request, known, dtype)
<1>0. way \in Ways
  BY CallWayIsWay
<1>1. /\ stage = "execute" /\ UNCHANGED <<request, known, records, rows, dtype, values, columns>>
      /\ Inputs(request, known, records, rows) /\ result = Pending /\ columns = <<>>
      /\ Planned(request, known, dtype)
  BY DEF Inv, Execute, inputVars
<1>2. OfLeaves(way, <<>>, request, records, rows, dtype)
  <2>1. LeafCount(dtype) \in Nat
    BY <1>1, LeafFacts DEF Planned
  <2>2. <<>> \in Seq(Seq(Value)) /\ Len(<<>>) = 0
    OBVIOUS
  <2>. QED
    BY <2>1, <2>2 DEF OfLeaves
<1>3. GoodOutcome(way, Pending, request, known, records, rows, dtype)
  BY <1>0, Outcomes
<1>4. CASE IsRecordLookup
  <2>1. result' = result /\ stage' = IF IsDirectRecord THEN "typed" ELSE "leaves"
    BY <1>4 DEF Execute
  <2>2. way = IF IsDirectRecord THEN "struct" ELSE "leaves"
    BY <1>4 DEF CallWay, IsDirectRecord, IsRecordLookup
  <2>3. \/ stage' = "typed" /\ way = "struct"
        \/ stage' = "leaves" /\ way = "leaves"
    BY <2>1, <2>2
  <2>. QED
    BY <1>1, <1>2, <1>3, <1>4, <2>1, <2>3 DEF Inv, Stages, IsRecordLookup
<1>5. CASE ~IsRecordLookup /\ ~ConvertsPath(request.path)
  <2>1. stage' = "done" /\ result' = Error("index")
    BY <1>5 DEF Execute, Return
  <2>2. GoodOutcome(way, Error("index"), request, known, records, rows, dtype)
    BY <1>0, Outcomes
  <2>. QED
    BY <1>1, <2>1, <2>2 DEF Inv, Stages
<1>6. CASE ~IsRecordLookup /\ ConvertsPath(request.path)
  <2>1. result' = result /\ stage' = IF IsNested(dtype) THEN "values" ELSE "scalars"
    BY <1>6 DEF Execute
  <2>2. way = IF IsNested(dtype) THEN "seed" ELSE "leaves"
    BY <1>6 DEF CallWay, IsRecordLookup
  <2>3. \/ stage' = "values" /\ way = "seed" /\ IsNested(dtype)
        \/ stage' = "scalars" /\ way = "leaves"
    BY <2>1, <2>2
  <2>. QED
    BY <1>1, <1>3, <1>6, <2>1, <2>3 DEF Inv, Stages, IsRecordLookup
<1>. QED
  BY <1>4, <1>5, <1>6

(* What a call decodes of each record.                                     *)
LEMMA PathDecodes ==
  ASSUME NEW way \in Ways, NEW q \in Requests, NEW rs \in Seq(Value), NEW d \in Dtype, NEW path,
         IF q.entry = "record" THEN path = <<>> ELSE path = ToMmdbPath(q.path)
  PROVE  \A u \in 1 .. Len(rs) :
           /\ DecodesAt(way, rs[u], path, d) <=> Source(q, rs, u) \in Accepts(way, d) \cup {None}
           /\ DecodedAt(way, rs[u], path, d)
                = IF Source(q, rs, u) = None THEN None ELSE Yields(way, d, Source(q, rs, u))
<1>1. \A u \in 1 .. Len(rs) : Navigate(rs[u], path) = Source(q, rs, u)
  BY NavigateEmpty DEF Source
<1>. QED
  BY <1>1, CallDecodes

LEMMA DecodeScalarsKeeps == Inv /\ DecodeScalars => Inv'
<1>. SUFFICES ASSUME Inv, DecodeScalars PROVE Inv'
  OBVIOUS
<1>. DEFINE way == CallWay(request, known, dtype)
<1>0. way \in Ways
  BY CallWayIsWay
<1>1. /\ stage = "scalars" /\ UNCHANGED <<request, known, records, rows, dtype, values, columns>>
      /\ Inputs(request, known, records, rows) /\ Planned(request, known, dtype)
      /\ request.entry # "record" /\ stage' = "done" /\ way = "leaves"
  BY DEF Inv, DecodeScalars, Return, inputVars
<1>2. request \in Requests /\ records \in Seq(Value) /\ dtype \in Dtype /\ Path = ToMmdbPath(request.path)
  BY <1>1 DEF Inputs, Planned, Path
<1>3. \A u \in 1 .. Len(records) :
        /\ DecodesAt(way, records[u], Path, dtype) <=> Source(request, records, u) \in Accepts(way, dtype) \cup {None}
        /\ DecodedAt(way, records[u], Path, dtype)
             = IF Source(request, records, u) = None THEN None ELSE Yields(way, dtype, Source(request, records, u))
  BY <1>0, <1>1, <1>2, PathDecodes
<1>4. GoodOutcome(way, result', request, known, records, rows, dtype)
  <2>1. CASE \E u \in 1 .. Len(records) : ~DecodesAt(way, records[u], Path, dtype)
    <3>1. result' = Error("decode")
      BY <1>1, <2>1 DEF DecodeScalars, Return
    <3>2. \E u \in 1 .. Len(records) : Source(request, records, u) \notin Accepts(way, dtype) \cup {None}
      BY <1>3, <2>1
    <3>. QED
      BY <1>0, <1>1, <3>1, <3>2, Outcomes
  <2>2. CASE \A u \in 1 .. Len(records) : DecodesAt(way, records[u], Path, dtype)
    <3>. DEFINE found == [u \in 1 .. Len(records) |-> DecodedAt(way, records[u], Path, dtype)]
                column == Take(ValuesToSeries(found, dtype), rows)
    <3>1. result' = Ok(column)
      BY <1>1, <2>2 DEF DecodeScalars, Return
    <3>2. Len(found) = Len(records) /\ \A u \in 1 .. Len(records) : At(found, u) = DecodedAt(way, records[u], Path, dtype)
      BY <1>2 DEF At
    <3>. HIDE DEF found
    <3>3. DecodedWhole(way, found, request, records, dtype)
      BY <1>3, <2>2, <3>2 DEF DecodedWhole
    <3>4. OfCall(way, column, request, records, rows, dtype)
      BY <1>0, <1>1, <1>2, <3>3, ScalarColumn DEF Inputs
    <3>. HIDE DEF column
    <3>. QED
      BY <1>0, <3>1, <3>4, Outcomes
  <2>. QED
    BY <2>1, <2>2
<1>. QED
  BY <1>1, <1>4 DEF Inv, Stages

(* Whole values, at a path or of whole records.                            *)
LEMMA DecodeValuesKeeps ==
  ASSUME Inv, NEW way \in Ways, way = CallWay(request, known, dtype), NEW path, DecodeValues(way, path), stage \in {"values", "typed"},
         IF request.entry = "record" THEN path = <<>> ELSE path = ToMmdbPath(request.path)
  PROVE  Inv'
<1>1. /\ UNCHANGED <<request, known, records, rows, dtype, columns>> /\ columns = <<>>
      /\ Inputs(request, known, records, rows) /\ Planned(request, known, dtype)
      /\ request.entry = "record" \/ IsNested(dtype)
      /\ result = Pending
  BY DEF Inv, DecodeValues, inputVars
<1>2. request \in Requests /\ records \in Seq(Value) /\ dtype \in Dtype
  BY <1>1 DEF Inputs, Planned
<1>3. \A u \in 1 .. Len(records) :
        /\ DecodesAt(way, records[u], path, dtype) <=> Source(request, records, u) \in Accepts(way, dtype) \cup {None}
        /\ DecodedAt(way, records[u], path, dtype)
             = IF Source(request, records, u) = None THEN None ELSE Yields(way, dtype, Source(request, records, u))
  BY <1>2, PathDecodes
<1>4. CASE \E u \in 1 .. Len(records) : ~DecodesAt(way, records[u], path, dtype)
  <2>1. result' = Error("decode") /\ stage' = "done"
    BY <1>4 DEF DecodeValues, Return
  <2>2. \E u \in 1 .. Len(records) : Source(request, records, u) \notin Accepts(way, dtype) \cup {None}
    BY <1>3, <1>4
  <2>3. GoodOutcome(way, Error("decode"), request, known, records, rows, dtype)
    BY <1>1, <2>2, Outcomes
  <2>. QED
    BY <1>1, <2>1, <2>3 DEF Inv, Stages
<1>5. CASE \A u \in 1 .. Len(records) : DecodesAt(way, records[u], path, dtype)
  <2>1. /\ values' = [u \in 1 .. Len(records) |-> DecodedAt(way, records[u], path, dtype)]
        /\ stage' = "split" /\ result' = result
    BY <1>5 DEF DecodeValues
  <2>2. \A u \in 1 .. Len(records) : values'[u] = DecodedAt(way, records[u], path, dtype)
    BY <2>1
  <2>3. Whole(way, request, records, dtype, values')
    BY <1>1, <1>3, <1>5, <2>2 DEF Whole
  <2>4. OfLeaves(way, <<>>, request, records, rows, dtype)
    <3>1. LeafCount(dtype) \in Nat
      BY <1>2, LeafFacts
    <3>2. <<>> \in Seq(Seq(Value)) /\ Len(<<>>) = 0
      OBVIOUS
    <3>. QED
      BY <3>1, <3>2 DEF OfLeaves
  <2>5. GoodOutcome(way, Pending, request, known, records, rows, dtype)
    BY Outcomes
  <2>. QED
    BY <1>1, <2>1, <2>3, <2>4, <2>5 DEF Inv, Stages
<1>. QED
  BY <1>4, <1>5

LEMMA DecodeNestedValuesKeeps == Inv /\ DecodeNestedValues => Inv'
<1>. SUFFICES ASSUME Inv, DecodeNestedValues PROVE Inv'
  OBVIOUS
<1>1. /\ stage = "values" /\ DecodeValues("seed", Path) /\ request.entry # "record" /\ Path = ToMmdbPath(request.path)
      /\ CallWay(request, known, dtype) = "seed" /\ "seed" \in Ways
  BY DEF Inv, DecodeNestedValues, Path, Ways
<1>. QED
  BY <1>1, DecodeValuesKeeps

LEMMA DecodeKnownKeeps == Inv /\ DecodeKnown => Inv'
<1>. SUFFICES ASSUME Inv, DecodeKnown PROVE Inv'
  OBVIOUS
<1>1. /\ stage = "typed" /\ DecodeValues("struct", <<>>) /\ request.entry = "record"
      /\ CallWay(request, known, dtype) = "struct" /\ "struct" \in Ways
  BY DEF Inv, DecodeKnown, Ways
<1>. QED
  BY <1>1, DecodeValuesKeeps

LEMMA SplitLeafKeeps == Inv /\ SplitLeaf => Inv'
<1>. SUFFICES ASSUME Inv, SplitLeaf PROVE Inv'
  OBVIOUS
<1>. DEFINE way == CallWay(request, known, dtype)
            k == Len(columns) + 1
            found == [u \in 1 .. Len(records) |->
                        IF values[u] = None THEN None ELSE ValueAtPath(values[u], NextLeaf.path)]
<1>0. way \in Ways
  BY CallWayIsWay
<1>1. /\ stage = "split" /\ LeavesLeft /\ UNCHANGED <<request, known, records, rows, dtype, values>>
      /\ Inputs(request, known, records, rows) /\ Planned(request, known, dtype)
      /\ Whole(way, request, records, dtype, values) /\ OfLeaves(way, columns, request, records, rows, dtype)
      /\ AddColumn(found, NextLeaf.dtype) /\ result = Pending
  BY DEF Inv, SplitLeaf, inputVars
<1>2. dtype \in Dtype /\ k \in 1 .. LeafCount(dtype)
  <2>1. dtype \in Dtype
    BY <1>1 DEF Planned
  <2>2. Len(columns) \in Nat /\ LeafCount(dtype) \in Nat
    BY <1>1, <2>1, LeafFacts DEF OfLeaves
  <2>3. Len(columns) < LeafCount(dtype)
    BY <1>1 DEF LeavesLeft, LeafCount
  <2>. QED
    BY <2>1, <2>2, <2>3
<1>3. NextLeaf.dtype = LeafDtype(dtype, k) /\ NextLeaf.path = LeafPath(dtype, k)
  BY DEF NextLeaf, LeafDtype, LeafPath
<1>4. Len(found) = Len(records)
  <2>1. Len(records) \in Nat
    BY <1>1 DEF Inputs
  <2>. QED
    BY <2>1
<1>5. ASSUME NEW u \in 1 .. Len(records)
      PROVE  /\ LeafDecodes(way, Source(request, records, u), NextLeaf.path, NextLeaf.dtype)
             /\ OrDefault(way, Follow(Source(request, records, u), NextLeaf.path), NextLeaf.dtype)
                  = IF found[u] = None THEN DefaultOf(NextLeaf.dtype) ELSE found[u]
  <2>. DEFINE v == Source(request, records, u)
              e == LeafDtype(dtype, k)
              there == IF v = None THEN None ELSE ValueAtPath(Yields(way, dtype, v), LeafPath(dtype, k))
  <2>1. v \in Accepts(way, dtype) \cup {None} /\ values[u] = IF v = None THEN None ELSE Yields(way, dtype, v)
    BY <1>1 DEF Whole
  <2>2. v # None => Yields(way, dtype, v) # None
    BY <1>0, <1>2, <2>1, NotNothing
  <2>3. found[u] = IF values[u] = None THEN None ELSE ValueAtPath(values[u], NextLeaf.path)
    OBVIOUS
  <2>. HIDE DEF found, v, k, e
  <2>4. found[u] = there
    BY <1>3, <2>1, <2>2, <2>3
  <2>5. /\ LeafDecodes(way, v, LeafPath(dtype, k), e)
        /\ OrDefault(way, Follow(v, LeafPath(dtype, k)), e) = IF there = None THEN DefaultOf(e) ELSE there
    BY <1>0, <1>2, <2>1, LeafOfValue DEF e
  <2>. HIDE DEF there
  <2>. QED
    BY <1>3, <2>4, <2>5 DEF v, e
<1>. HIDE DEF found
<1>6. OfLeaves(way, columns', request, records, rows, dtype) /\ stage' = stage /\ result' = result
  BY <1>0, <1>1, <1>2, <1>4, <1>5, AddedColumn
<1>7. GoodOutcome(way, Pending, request, known, records, rows, dtype)
  BY <1>0, Outcomes
<1>. QED
  BY <1>1, <1>6, <1>7 DEF Inv, Stages

LEMMA DecodeLeafKeeps == Inv /\ DecodeLeaf => Inv'
<1>. SUFFICES ASSUME Inv, DecodeLeaf PROVE Inv'
  OBVIOUS
<1>. DEFINE way == CallWay(request, known, dtype)
            k == Len(columns) + 1
            path == Keys(NextLeaf.path)
            found == [u \in 1 .. Len(records) |-> DecodedAt(way, records[u], path, NextLeaf.dtype)]
<1>0. way \in Ways
  BY CallWayIsWay
<1>1. /\ stage = "leaves" /\ LeavesLeft /\ UNCHANGED <<request, known, records, rows, dtype, values>>
      /\ Inputs(request, known, records, rows) /\ Planned(request, known, dtype)
      /\ request.entry = "record" /\ OfLeaves(way, columns, request, records, rows, dtype)
      /\ result = Pending /\ way = "leaves"
  BY DEF Inv, DecodeLeaf, inputVars
<1>2. /\ dtype \in Dtype /\ k \in 1 .. LeafCount(dtype)
      /\ request \in Requests /\ records \in Seq(Value) /\ Len(records) \in Nat
  <2>1. dtype \in Dtype /\ request \in Requests /\ records \in Seq(Value) /\ Len(records) \in Nat
    BY <1>1 DEF Planned, Inputs
  <2>2. Len(columns) \in Nat /\ LeafCount(dtype) \in Nat
    BY <1>1, <2>1, LeafFacts DEF OfLeaves
  <2>3. Len(columns) < LeafCount(dtype)
    BY <1>1 DEF LeavesLeft, LeafCount
  <2>. QED
    BY <2>1, <2>2, <2>3
<1>3. NextLeaf.dtype = LeafDtype(dtype, k) /\ NextLeaf.path = LeafPath(dtype, k)
  BY DEF NextLeaf, LeafDtype, LeafPath
<1>4. NextLeaf.dtype \in Dtype
  BY <1>2, <1>3, LeafFacts
<1>5. \A u \in 1 .. Len(records) : Source(request, records, u) = records[u] /\ records[u] \in Value
  BY <1>1, <1>2, RecordIsSource, SourceFacts
<1>6. CASE \E u \in 1 .. Len(records) : ~DecodesAt(way, records[u], path, NextLeaf.dtype)
  <2>1. stage' = "done" /\ result' = Error("decode") /\ columns' = columns
    BY <1>1, <1>6 DEF DecodeLeaf, Return
  <2>2. PICK u \in 1 .. Len(records) : ~DecodesAt(way, records[u], path, NextLeaf.dtype)
    BY <1>6
  <2>3. ~LeafDecodes(way, Source(request, records, u), LeafPath(dtype, k), LeafDtype(dtype, k))
    BY <1>0, <1>3, <1>4, <1>5, <2>2, LeafDecodesAt
  <2>. HIDE DEF k
  <2>4. Source(request, records, u) \notin Accepts(way, dtype) \cup {None}
    BY <1>0, <1>2, <2>3, LeavesOfWhole
  <2>5. GoodOutcome(way, Error("decode"), request, known, records, rows, dtype)
    BY <1>0, <1>1, <2>4, Outcomes
  <2>. QED
    BY <1>1, <2>1, <2>5 DEF Inv, Stages
<1>7. CASE \A u \in 1 .. Len(records) : DecodesAt(way, records[u], path, NextLeaf.dtype)
  <2>1. AddColumn(found, NextLeaf.dtype)
    BY <1>1, <1>7 DEF DecodeLeaf
  <2>2. Len(found) = Len(records) /\ \A u \in 1 .. Len(records) : found[u] = DecodedAt(way, records[u], path, NextLeaf.dtype)
    BY <1>2
  <2>. HIDE DEF found, k
  <2>3. \A u \in 1 .. Len(records) : LeafDecodes(way, Source(request, records, u), NextLeaf.path, NextLeaf.dtype)
    BY <1>0, <1>4, <1>5, <1>7, LeafDecodesAt
  <2>4. \A u \in 1 .. Len(records) :
          OrDefault(way, Follow(Source(request, records, u), NextLeaf.path), NextLeaf.dtype)
            = IF found[u] = None THEN DefaultOf(NextLeaf.dtype) ELSE found[u]
    BY <1>0, <1>4, <1>5, <2>2, <2>3, LeafDecodesAt
  <2>5. OfLeaves(way, columns', request, records, rows, dtype) /\ stage' = stage /\ result' = result
    BY <1>0, <1>1, <1>2, <2>1, <2>2, <2>3, <2>4, AddedColumn
  <2>6. GoodOutcome(way, Pending, request, known, records, rows, dtype)
    BY <1>0, Outcomes
  <2>. QED
    BY <1>1, <2>5, <2>6 DEF Inv, Stages
<1>. QED
  BY <1>6, <1>7

LEMMA AssembleColumnsKeeps == Inv /\ AssembleColumns => Inv'
<1>. SUFFICES ASSUME Inv, AssembleColumns PROVE Inv'
  OBVIOUS
<1>. DEFINE way == CallWay(request, known, dtype)
<1>0. way \in Ways
  BY CallWayIsWay
<1>1. /\ stage \in {"split", "leaves"} /\ ~LeavesLeft /\ stage' = "done"
      /\ UNCHANGED <<request, known, records, rows, dtype, values, columns>>
      /\ Inputs(request, known, records, rows) /\ Planned(request, known, dtype)
      /\ OfLeaves(way, columns, request, records, rows, dtype)
      /\ stage = "split" => Whole(way, request, records, dtype, values)
      /\ stage = "leaves" => request.entry = "record"
      /\ result' = Ok(Assemble(columns, Validity)[dtype][1])
  BY DEF Inv, AssembleColumns, Return, inputVars
<1>2. /\ dtype \in Dtype /\ request \in Requests /\ records \in Seq(Value)
      /\ Len(rows) \in Nat /\ Len(records) \in Nat
      /\ \A r \in 1 .. Len(rows) : rows[r] \in 0 .. Len(records)
  BY <1>1 DEF Planned, Inputs
<1>3. Len(columns) = LeafCount(dtype)
  <2>1. Len(columns) \in Nat /\ LeafCount(dtype) \in Nat /\ Len(columns) <= LeafCount(dtype)
    BY <1>1, <1>2, LeafFacts DEF OfLeaves
  <2>. QED
    BY <1>1, <2>1 DEF LeavesLeft, LeafCount
<1>4. Len(Validity) = Len(rows)
  BY <1>2 DEF Validity
<1>5. ASSUME NEW u \in 1 .. Len(records)
      PROVE  (stage = "leaves" \/ values[u] # None) <=> Source(request, records, u) # None
  <2>1. CASE stage = "leaves"
    BY <1>1, <1>2, <2>1, SourceFacts, NoValues
  <2>2. CASE stage = "split"
    <3>1. /\ Source(request, records, u) \in Accepts(way, dtype) \cup {None}
          /\ values[u] = IF Source(request, records, u) = None THEN None
                         ELSE Yields(way, dtype, Source(request, records, u))
      BY <1>1, <2>2 DEF Whole
    <3>. QED
      BY <1>0, <1>2, <2>2, <3>1, NotNothing
  <2>. QED
    BY <1>1, <2>1, <2>2
<1>6. \A r \in 1 .. Len(rows) :
        Validity[r] <=> rows[r] # 0 /\ Source(request, records, rows[r]) # None
  <2>1. \A r \in 1 .. Len(rows) : Validity[r] <=> rows[r] # 0 /\ (stage = "leaves" \/ values[rows[r]] # None)
    BY DEF Validity
  <2>2. \A r \in 1 .. Len(rows) : rows[r] # 0 => rows[r] \in 1 .. Len(records)
    BY <1>2
  <2>. QED
    BY <1>5, <2>1, <2>2
<1>7. request.entry = "record" \/ dtype \in Structs \/ dtype \in Lists
  BY <1>1, <1>2 DEF Whole, IsNested, Structs, Lists
<1>8. \/ request.entry = "record"
      \/ \A u \in 1 .. Len(records) : Source(request, records, u) \in Accepts(way, dtype) \cup {None}
  BY <1>1 DEF Whole
<1>9. OfCall(way, Assemble(columns, Validity)[dtype][1], request, records, rows, dtype)
  BY <1>0, <1>1, <1>2, <1>3, <1>4, <1>6, <1>7, <1>8, AssembledCall
<1>10. GoodOutcome(way, result', request, known, records, rows, dtype)
  BY <1>0, <1>1, <1>9, Outcomes
<1>. QED
  BY <1>1, <1>10 DEF Inv, Stages

----------------------------------------------------------------------------
(* What holds of every behaviour.                                          *)

LEMMA Initially == Init => Inv
<1>. SUFFICES ASSUME Init PROVE Inv
  OBVIOUS
<1>. DEFINE way == CallWay(request, known, dtype)
<1>0. way \in Ways
  BY CallWayIsWay
<1>1. /\ request \in Requests /\ known \in KnownDtypes /\ records \in RecordLists
      /\ rows \in RowsOf(records)
      /\ stage = "plan" /\ columns = <<>> /\ result = Pending
  BY DEF Init
<1>2. PICK n \in 0 .. MaxRows : rows \in [1 .. n -> 0 .. Len(records)]
  BY <1>1 DEF RowsOf
<1>3. Len(rows) \in Nat /\ \A r \in 1 .. Len(rows) : rows[r] \in 0 .. Len(records)
  BY <1>2, MaxRowsIsNatural
<1>4. Inputs(request, known, records, rows)
  BY <1>1, <1>3, RecordsAreValues DEF Inputs
<1>5. GoodOutcome(way, Pending, request, known, records, rows, dtype)
  BY <1>0, Outcomes
<1>. QED
  BY <1>1, <1>4, <1>5 DEF Inv, Stages

LEMMA StutterKeeps == Inv /\ UNCHANGED vars => Inv'
<1>. SUFFICES ASSUME Inv, UNCHANGED vars PROVE Inv'
  OBVIOUS
<1>1. UNCHANGED <<request, known, records, rows, stage, dtype, values, columns, result>>
  BY DEF vars, inputVars
<1>. QED
  BY <1>1 DEF Inv

(* The invariant holds of every call: what has been planned is a dtype of  *)
(* the schema, what has been decoded are the records' own values under it, *)
(* and every column is that of its leaf.                                   *)
THEOREM Invariant == Spec => []Inv
<1>1. Inv /\ [Next]_vars => Inv'
  <2>. SUFFICES ASSUME Inv, [Next]_vars PROVE Inv'
    OBVIOUS
  <2>1. CASE Plan
    BY <2>1, PlanKeeps
  <2>2. CASE Execute
    BY <2>2, ExecuteKeeps
  <2>3. CASE DecodeScalars
    BY <2>3, DecodeScalarsKeeps
  <2>4. CASE DecodeNestedValues
    BY <2>4, DecodeNestedValuesKeeps
  <2>5. CASE DecodeKnown
    BY <2>5, DecodeKnownKeeps
  <2>6. CASE SplitLeaf
    BY <2>6, SplitLeafKeeps
  <2>7. CASE DecodeLeaf
    BY <2>7, DecodeLeafKeeps
  <2>8. CASE AssembleColumns
    BY <2>8, AssembleColumnsKeeps
  <2>9. CASE Returned \/ UNCHANGED vars
    BY <2>9, StutterKeeps DEF Returned
  <2>. QED
    BY <2>1, <2>2, <2>3, <2>4, <2>5, <2>6, <2>7, <2>8, <2>9 DEF Next
<1>. QED
  BY Initially, <1>1, PTL DEF Spec

(* What a call looks for in a record is what its caller means.             *)
LEMMA WantedIsSource ==
  ASSUME Inputs(request, known, records, rows), NEW u \in 1 .. Len(records)
  PROVE  Wanted(records[u]) = Source(request, records, u)
<1>1. request \in Requests /\ records \in Seq(Value)
  BY DEF Inputs
<1>2. CASE request.entry = "record"
  BY <1>2, RecordIsSource DEF Wanted, IsRecordLookup
<1>3. CASE request.entry # "record"
  BY <1>1, <1>3, SourceFacts DEF Wanted, IsRecordLookup
<1>. QED
  BY <1>2, <1>3

LEMMA WayIsOfCall == WayOfCall = CallWay(request, known, dtype) /\ WayOfCall \in Ways
<1>1. WayOfCall = CallWay(request, known, dtype)
  BY DEF WayOfCall, CallWay, IsRecordLookup, IsDirectRecord
<1>. QED
  BY <1>1, CallWayIsWay

(* A column that is returned has a cell of the planned dtype for every row *)
(* asked for, whatever the dtype and the records.                          *)
THEOREM OutputIsAsPlanned == Spec => []OutputAsPlanned
<1>1. Inv => OutputAsPlanned
  <2>. SUFFICES ASSUME Inv, result.status = "ok"
                PROVE  /\ Len(result.column) = Len(rows)
                       /\ \A r \in 1 .. Len(rows) : result.column[r] \in CellsOf[dtype]
    BY DEF OutputAsPlanned
  <2>1. OfCall(CallWay(request, known, dtype), result.column, request, records, rows, dtype)
    BY DEF Inv, GoodOutcome
  <2>. QED
    BY <2>1 DEF OfCall, At
<1>. QED
  BY <1>1, Invariant, PTL

(* The cell of every row is that of its own record's value, decoded whole  *)
(* by the decoder that the call came to, though records are shared between *)
(* rows and were decoded leaf by leaf; and where the value keeps to the    *)
(* dtype it is the cell that any of the decoders would have made of it.    *)
THEOREM ColumnsAreOfRows == Spec => []ColumnsMatchRows
<1>1. Inv => ColumnsMatchRows
  <2>. SUFFICES ASSUME Inv, result.status = "ok", AsksOfRecords, NEW r \in 1 .. Len(rows), NEW way \in Ways,
                       way = WayOfCall \/ (rows[r] # 0 /\ Wanted(records[rows[r]]) \in KeepingTo(dtype))
                PROVE  \/ result.column[r] = RowCell(way, r)
                       \/ ~IsRecordLookup /\ dtype.type = "list" /\ RowCell(way, r) = Null
    BY DEF ColumnsMatchRows
  <2>. DEFINE own == WayOfCall
  <2>0. own = CallWay(request, known, dtype) /\ own \in Ways
    BY WayIsOfCall
  <2>. HIDE DEF own
  <2>1. Inputs(request, known, records, rows) /\ OfCall(own, result.column, request, records, rows, dtype)
    BY <2>0 DEF Inv, GoodOutcome
  <2>2. request.entry = "record" => HasLeaves(dtype)
    BY DEF AsksOfRecords, IsRecordLookup, HasLeaves
  <2>3. /\ \A u \in 1 .. Len(records) : Source(request, records, u) \in Accepts(own, dtype) \cup {None}
        /\ \/ At(result.column, r) = RowResult(own, request, records, rows, dtype, r)
           \/ /\ request.entry # "record" /\ dtype.type = "list"
              /\ RowResult(own, request, records, rows, dtype, r) = Null
        /\ dtype \in Dtype
    BY <2>1, <2>2 DEF OfCall
  <2>4. CASE rows[r] = 0
    BY <2>3, <2>4 DEF RowCell, RowResult, At, IsRecordLookup
  <2>5. CASE rows[r] # 0
    <3>. DEFINE value == Source(request, records, rows[r])
    <3>1. rows[r] \in 1 .. Len(records)
      BY <2>1, <2>5 DEF Inputs
    <3>2. Wanted(records[rows[r]]) = value /\ value \in Accepts(own, dtype) \cup {None}
      BY <2>1, <2>3, <3>1, WantedIsSource
    <3>. HIDE DEF value
    <3>3. value # None => /\ value \in Accepts(way, dtype)
                          /\ CellOf(dtype, Yields(way, dtype, value)) = CellOf(dtype, Yields(own, dtype, value))
      <4>1. CASE way = WayOfCall
        BY <3>2, <4>1 DEF own
      <4>2. CASE value \in KeepingTo(dtype)
        BY <2>0, <2>3, <4>2, WaysAgree
      <4>. QED
        BY <3>2, <4>1, <4>2
    <3>4. RowCell(way, r) = IF value = None THEN Null ELSE CellOf(dtype, Yields(way, dtype, value))
      BY <2>5, <3>2, <3>3 DEF RowCell, Accepts, Yields, CellOf
    <3>5. RowResult(own, request, records, rows, dtype, r)
            = IF value = None THEN Null ELSE CellOf(dtype, Yields(own, dtype, value))
      BY <2>5 DEF RowResult, value
    <3>6. RowCell(way, r) = RowResult(own, request, records, rows, dtype, r)
      BY <3>3, <3>4, <3>5
    <3>. QED
      BY <2>3, <3>6 DEF At, IsRecordLookup
  <2>. QED
    BY <2>4, <2>5
<1>. QED
  BY <1>1, Invariant, PTL

(* A call fails over data if and only if its decoder refuses a record's    *)
(* value, which then does not keep to the dtype either, and never once     *)
(* everything was decoded.                                                 *)
THEOREM FailuresAreJustified == Spec => []DecodeFailuresJustified
<1>1. Inv => DecodeFailuresJustified
  <2>. SUFFICES ASSUME Inv PROVE DecodeFailuresJustified
    OBVIOUS
  <2>. DEFINE own == WayOfCall
  <2>0. own = CallWay(request, known, dtype) /\ own \in Ways
    BY WayIsOfCall
  <2>. HIDE DEF own
  <2>1. /\ Inputs(request, known, records, rows)
        /\ GoodOutcome(own, result, request, known, records, rows, dtype)
    BY <2>0 DEF Inv
  <2>2. \A u \in 1 .. Len(records) : Wanted(records[u]) = Source(request, records, u)
    BY <2>1, WantedIsSource
  <2>3. ASSUME result.status = "decode"
        PROVE  \E u \in 1 .. Len(records) :
                 LET value == Wanted(records[u])
                 IN  value # None /\ value \notin Decodable[dtype][own] \cup KeepingTo(dtype)
    <3>1. PICK u \in 1 .. Len(records) : Source(request, records, u) \notin Accepts(own, dtype) \cup {None}
      BY <2>1, <2>3 DEF GoodOutcome
    <3>2. dtype \in Dtype
      BY <2>1, <2>3 DEF GoodOutcome, Planned
    <3>3. KeepingTo(dtype) \subseteq Accepts(own, dtype)
      BY <2>0, <3>2, WaysAgree
    <3>. QED
      BY <2>2, <3>1, <3>3 DEF Accepts
  <2>4. ASSUME result.status = "ok", AsksOfRecords, NEW u \in 1 .. Len(records)
        PROVE  LET value == Wanted(records[u])
               IN  value = None \/ value \in Decodable[dtype][own]
    <3>1. OfCall(own, result.column, request, records, rows, dtype)
      BY <2>1, <2>4 DEF GoodOutcome
    <3>2. request.entry = "record" => HasLeaves(dtype)
      BY <2>4 DEF AsksOfRecords, IsRecordLookup, HasLeaves
    <3>3. Source(request, records, u) \in Accepts(own, dtype) \cup {None}
      BY <2>4, <3>1, <3>2 DEF OfCall
    <3>. QED
      BY <2>2, <2>4, <3>3 DEF Accepts
  <2>5. result.status # "build"
    BY <2>1 DEF GoodOutcome
  <2>. QED
    BY <2>3, <2>4, <2>5 DEF DecodeFailuresJustified, own
<1>. QED
  BY <1>1, Invariant, PTL

(* Where records keep to the known schema no call that was planned fails   *)
(* over them: neither a part of the schema nor a path into it can.         *)
THEOREM KnownDataIsDecoded == Spec => []KnownDataDecodes
<1>1. Inv => KnownDataDecodes
  <2>. SUFFICES ASSUME Inv, known # NoDtype, \A u \in 1 .. Len(records) : records[u] \in KeepingTo(known)
                PROVE  result.status \notin {"decode", "build"}
    BY DEF KnownDataDecodes
  <2>. DEFINE own == CallWay(request, known, dtype)
  <2>0. own \in Ways
    BY CallWayIsWay
  <2>1. /\ request \in Requests /\ known \in KnownDtypes /\ records \in Seq(Value)
        /\ GoodOutcome(own, result, request, known, records, rows, dtype)
    BY DEF Inv, Inputs
  <2>2. ASSUME result.status = "decode" PROVE FALSE
    <3>1. PICK u \in 1 .. Len(records) : Source(request, records, u) \notin Accepts(own, dtype) \cup {None}
      BY <2>1, <2>2 DEF GoodOutcome
    <3>2. Planned(request, known, dtype) /\ dtype \in Dtype /\ records[u] \in KeepingTo(known)
      BY <2>1, <2>2 DEF GoodOutcome, Planned
    <3>3. Source(request, records, u) \in KeepingTo(dtype) \cup {None}
      BY <2>1, <3>2, KnownDataIsPlanned
    <3>. HIDE DEF own
    <3>. QED
      BY <2>0, <3>1, <3>2, <3>3, WaysAgree
  <2>. QED
    BY <2>1, <2>2 DEF GoodOutcome
<1>. QED
  BY <1>1, Invariant, PTL

=============================================================================
