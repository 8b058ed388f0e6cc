--------------------------- MODULE DecodingProofs ---------------------------
(***************************************************************************)
(* Lemmas about the operators of ValueDecoding and SchemaResolution, for   *)
(* every dtype and every value: what the recursive functions are equal to, *)
(* by induction over how deep dtypes nest, and how decoding, building and  *)
(* following a path fit together.                                          *)
(***************************************************************************)
EXTENDS SchemaResolution, WellFoundedInduction, TLAPS

----------------------------------------------------------------------------
(* Induction over places, and the least of a set.                          *)

LEMMA PlaceInduction ==
  ASSUME NEW n \in Nat, NEW S, 0 \in S, \A i \in 1 .. n : i - 1 \in S => i \in S
  PROVE  0 .. n \subseteq S
<1>. SUFFICES ASSUME ~(0 .. n \subseteq S) PROVE FALSE
  OBVIOUS
<1>. DEFINE bad == (0 .. n) \ S
<1>1. bad \subseteq Nat /\ bad # {}
  OBVIOUS
<1>2. PICK i \in bad : \A j \in bad : ~(<<j, i>> \in OpToRel(<, Nat))
  <2>. HIDE DEF bad
  <2>. QED
    BY <1>1, NatLessThanWellFounded, WFMin, Zenon
<1>3. \A j \in bad : ~(j < i)
  BY <1>1, <1>2 DEF OpToRel
<1>4. i \in 1 .. n /\ i \notin S /\ i - 1 \in 0 .. n
  <2>1. i \in 0 .. n /\ i \notin S /\ i # 0
    OBVIOUS
  <2>. QED
    BY <2>1
<1>5. i - 1 \in S
  BY <1>3, <1>4
<1>. QED
  BY <1>4, <1>5

LEMMA LeastPlace ==
  ASSUME NEW I \in SUBSET Nat, I # {}
  PROVE  Min(I) \in I /\ \A j \in I : Min(I) <= j
<1>1. PICK i \in I : \A j \in I : ~(<<j, i>> \in OpToRel(<, Nat))
  BY NatLessThanWellFounded, WFMin, Zenon
<1>2. \A j \in I : ~(j < i)
  BY <1>1 DEF OpToRel
<1>3. \A j \in I : i <= j
  BY <1>2
<1>. QED
  BY <1>3 DEF Min

LEMMA ElementOf ==
  ASSUME NEW T, NEW s \in Seq(T), NEW i \in 1 .. Len(s)
  PROVE  s[i] \in T
OBVIOUS

LEMMA SequenceOf ==
  ASSUME NEW T, NEW m \in Nat, NEW s, s = [i \in 1 .. m |-> s[i]],
         \A i \in 1 .. m : s[i] \in T
  PROVE  s \in Seq(T) /\ Len(s) = m
OBVIOUS

LEMMA SequencesGrow ==
  ASSUME NEW A, NEW B, A \subseteq B
  PROVE  Seq(A) \subseteq Seq(B)
<1>. SUFFICES ASSUME NEW s \in Seq(A) PROVE s \in Seq(B)
  OBVIOUS
<1>1. Len(s) \in Nat /\ s = [i \in 1 .. Len(s) |-> s[i]] /\ \A i \in 1 .. Len(s) : s[i] \in B
  OBVIOUS
<1>. QED
  BY <1>1

----------------------------------------------------------------------------
(* Finding by name.                                                        *)

(* What is found is an entry of that name ...                              *)
LEMMA FindPlace ==
  ASSUME NEW entries, Len(entries) \in Nat, NEW name, Has(entries, name)
  PROVE  \E i \in 1 .. Len(entries) :
           entries[i].name = name /\ Find(entries, name) = entries[i]
<1>. DEFINE I == {i \in 1 .. Len(entries) : entries[i].name = name}
<1>1. I \in SUBSET Nat /\ I # {}
  BY DEF Has
<1>2. Min(I) \in I
  <2>. HIDE DEF I
  <2>. QED
    BY <1>1, LeastPlace
<1>3. Find(entries, name) = entries[Min(I)]
  BY <1>1 DEF Find, SelectInSeq
<1>. QED
  BY <1>2, <1>3

(* ... and the only one, where names differ.                               *)
LEMMA FindAt ==
  ASSUME NEW entries, Len(entries) \in Nat, NamesDiffer(entries),
         NEW i \in 1 .. Len(entries)
  PROVE  Has(entries, entries[i].name) /\ Find(entries, entries[i].name) = entries[i]
<1>1. Has(entries, entries[i].name)
  BY DEF Has
<1>. QED
  BY <1>1, FindPlace DEF NamesDiffer

----------------------------------------------------------------------------
(* Dtypes.                                                                 *)

LEMMA ScalarTypesAre ==
  ScalarTypes = {"uint8", "uint16", "uint32", "uint64", "uint128",
                 "int8", "int16", "int32", "int64", "int128",
                 "boolean", "float32", "float64", "string", "binary"}
BY DEF ScalarTypes, UnsignedBits, SignedBits

StructDtypes(parts) ==
  {d \in [type : {"struct"}, fields : Seq([name : STRING, dtype : parts])] :
     NamesDiffer(d.fields)}

DtypesOver(parts) ==
  [type : ScalarTypes] \cup [type : {"list"}, inner : parts] \cup StructDtypes(parts)

LEMMA DtypesToDef ==
  ASSUME NEW n \in 0 .. MaxDepth
  PROVE  DtypesTo[n] = IF n = 0 THEN [type : ScalarTypes] ELSE DtypesOver(DtypesTo[n - 1])
<1>. DEFINE Body(f, i) == IF i = 0 THEN [type : ScalarTypes] ELSE DtypesOver(f[i - 1])
            S == {m \in 0 .. MaxDepth : \E f : f = [i \in 0 .. m |-> Body(f, i)]}
<1>1. MaxDepth \in Nat
  BY MaxDepthIsNatural
<1>2. 0 \in S
  <2>. DEFINE f == [i \in 0 .. 0 |-> [type : ScalarTypes]]
  <2>1. f = [i \in 0 .. 0 |-> Body(f, i)]
    OBVIOUS
  <2>. QED
    <3>. HIDE DEF f, Body
    <3>. QED
      BY <1>1, <2>1
<1>3. ASSUME NEW m \in 1 .. MaxDepth, m - 1 \in S
      PROVE  m \in S
  <2>1. PICK f : f = [i \in 0 .. m - 1 |-> Body(f, i)]
    BY <1>3
  <2>. DEFINE g == [i \in 0 .. m |-> Body(f, i)]
  <2>2. \A i \in 0 .. m - 1 : g[i] = f[i]
    <3>. HIDE DEF Body
    <3>. QED
      BY <2>1
  <2>3. \A i \in 0 .. m : Body(g, i) = Body(f, i)
    <3>. HIDE DEF g
    <3>. QED
      BY <2>2
  <2>4. g = [i \in 0 .. m |-> Body(g, i)]
    <3>. HIDE DEF Body
    <3>. QED
      BY <2>3
  <2>. QED
    <3>. HIDE DEF g, Body
    <3>. QED
      BY <1>1, <2>4
<1>4. 0 .. MaxDepth \subseteq S
  <2>. HIDE DEF S
  <2>. QED
    BY <1>1, <1>2, <1>3, PlaceInduction
<1>5. \E f : f = [i \in 0 .. MaxDepth |-> Body(f, i)]
  <2>. HIDE DEF Body
  <2>. QED
    BY <1>1, <1>4
<1>6. DtypesTo = CHOOSE f : f = [i \in 0 .. MaxDepth |-> Body(f, i)]
  BY DEF DtypesTo, DtypesOver, StructDtypes
<1>. QED
  <2>1. DtypesTo = [i \in 0 .. MaxDepth |-> Body(DtypesTo, i)]
    <3>. HIDE DEF Body
    <3>. QED
      BY <1>5, <1>6
  <2>. QED
    BY <2>1

LEMMA DtypesToZero == DtypesTo[0] = [type : ScalarTypes]
<1>1. 0 \in 0 .. MaxDepth
  BY MaxDepthIsNatural
<1>. QED
  BY <1>1, DtypesToDef

LEMMA DtypesToNext ==
  ASSUME NEW n \in 1 .. MaxDepth
  PROVE  DtypesTo[n] = DtypesOver(DtypesTo[n - 1])
<1>1. n \in 0 .. MaxDepth /\ n # 0
  BY MaxDepthIsNatural
<1>. QED
  BY <1>1, DtypesToDef

(* The dtypes right inside a dtype.                                        *)
PartsOf(d) ==
  IF d.type = "list" THEN {d.inner}
  ELSE IF d.type = "struct" THEN {d.fields[i].dtype : i \in 1 .. Len(d.fields)}
  ELSE {}

LEMMA StructDtypesGrow ==
  ASSUME NEW A, NEW B, A \subseteq B
  PROVE  DtypesOver(A) \subseteq DtypesOver(B)
<1>1. [name : STRING, dtype : A] \subseteq [name : STRING, dtype : B]
  OBVIOUS
<1>2. Seq([name : STRING, dtype : A]) \subseteq Seq([name : STRING, dtype : B])
  BY <1>1, SequencesGrow
<1>3. StructDtypes(A) \subseteq StructDtypes(B)
  BY <1>2 DEF StructDtypes
<1>4. [type : {"list"}, inner : A] \subseteq [type : {"list"}, inner : B]
  OBVIOUS
<1>. QED
  BY <1>3, <1>4 DEF DtypesOver

(* What a dtype over others looks like.                                    *)
LEMMA DtypesOverParts ==
  ASSUME NEW parts, NEW d \in DtypesOver(parts)
  PROVE  /\ d.type \in ScalarTypes \cup {"list", "struct"}
         /\ d.type \in ScalarTypes => d \in [type : ScalarTypes]
         /\ d.type = "list" => d.inner \in parts
         /\ d.type = "struct" => /\ d.fields \in Seq([name : STRING, dtype : parts])
                                /\ Len(d.fields) \in Nat
                                /\ NamesDiffer(d.fields)
         /\ PartsOf(d) \subseteq parts
<1>1. CASE d \in [type : ScalarTypes]
  <2>1. d.type \in ScalarTypes
    BY <1>1
  <2>2. d.type \notin {"list", "struct"}
    BY <2>1, ScalarTypesAre
  <2>. QED
    BY <1>1, <2>1, <2>2 DEF PartsOf
<1>2. CASE d \in [type : {"list"}, inner : parts]
  <2>1. d.type = "list" /\ d.inner \in parts
    BY <1>2
  <2>2. d.type \notin ScalarTypes
    BY <2>1, ScalarTypesAre
  <2>. QED
    BY <2>1, <2>2 DEF PartsOf
<1>3. CASE d \in StructDtypes(parts)
  <2>1. d.type = "struct" /\ d.fields \in Seq([name : STRING, dtype : parts]) /\ NamesDiffer(d.fields)
    BY <1>3 DEF StructDtypes
  <2>2. d.type \notin ScalarTypes
    BY <2>1, ScalarTypesAre
  <2>3. Len(d.fields) \in Nat
    BY <2>1
  <2>4. \A i \in 1 .. Len(d.fields) : d.fields[i].dtype \in parts
    <3>1. \A i \in 1 .. Len(d.fields) : d.fields[i] \in [name : STRING, dtype : parts]
      BY <2>1, ElementOf
    <3>. QED
      BY <3>1
  <2>. QED
    BY <2>1, <2>2, <2>3, <2>4 DEF PartsOf
<1>. QED
  BY <1>1, <1>2, <1>3 DEF DtypesOver

(* A dtype of some depth is one of every greater depth.                    *)
LEMMA DtypesGrow ==
  ASSUME NEW n \in 1 .. MaxDepth
  PROVE  DtypesTo[n - 1] \subseteq DtypesTo[n]
<1>. DEFINE S == {m \in 0 .. MaxDepth - 1 : DtypesTo[m] \subseteq DtypesTo[m + 1]}
<1>1. MaxDepth \in Nat /\ MaxDepth - 1 \in Nat
  BY MaxDepthIsNatural
<1>2. 0 \in 0 .. MaxDepth - 1 => DtypesTo[0] \subseteq DtypesTo[1]
  <2>. SUFFICES ASSUME 1 \in 0 .. MaxDepth PROVE DtypesTo[0] \subseteq DtypesTo[1]
    BY <1>1
  <2>1. DtypesTo[0] = [type : ScalarTypes] /\ DtypesTo[1] = DtypesOver(DtypesTo[0])
    <3>1. 1 \in 1 .. MaxDepth /\ 1 - 1 = 0
      BY <1>1
    <3>. QED
      BY <3>1, DtypesToZero, DtypesToNext
  <2>. QED
    BY <2>1 DEF DtypesOver
<1>3. ASSUME NEW m \in 1 .. MaxDepth - 1, m - 1 \in S
      PROVE  m \in S
  <2>1. DtypesTo[m] = DtypesOver(DtypesTo[m - 1]) /\ DtypesTo[m + 1] = DtypesOver(DtypesTo[m])
    BY <1>1, DtypesToDef
  <2>2. DtypesTo[m - 1] \subseteq DtypesTo[m]
    BY <1>1, <1>3
  <2>3. DtypesTo[m] \subseteq DtypesTo[m + 1]
    BY <2>1, <2>2, StructDtypesGrow
  <2>. QED
    BY <1>1, <2>3
<1>4. 0 .. MaxDepth - 1 \subseteq S
  <2>1. 0 \in S
    BY <1>1, <1>2
  <2>. HIDE DEF S
  <2>. QED
    BY <1>1, <2>1, <1>3, PlaceInduction
<1>5. n - 1 \in S /\ (n - 1) + 1 = n
  BY <1>1, <1>4
<1>. QED
  BY <1>5

LEMMA DtypesToInDtype ==
  ASSUME NEW n \in 0 .. MaxDepth
  PROVE  DtypesTo[n] \subseteq Dtype
<1>. DEFINE S == {m \in 0 .. MaxDepth : DtypesTo[MaxDepth - m] \subseteq Dtype}
<1>1. MaxDepth \in Nat
  BY MaxDepthIsNatural
<1>2. 0 \in S
  BY <1>1 DEF Dtype
<1>3. ASSUME NEW m \in 1 .. MaxDepth, m - 1 \in S
      PROVE  m \in S
  <2>1. MaxDepth - (m - 1) \in 1 .. MaxDepth /\ (MaxDepth - (m - 1)) - 1 = MaxDepth - m
    BY <1>1
  <2>2. DtypesTo[MaxDepth - m] \subseteq DtypesTo[MaxDepth - (m - 1)]
    BY <2>1, DtypesGrow
  <2>. QED
    BY <1>3, <2>2
<1>4. 0 .. MaxDepth \subseteq S
  <2>. HIDE DEF S
  <2>. QED
    BY <1>1, <1>2, <1>3, PlaceInduction
<1>5. MaxDepth - n \in 0 .. MaxDepth /\ MaxDepth - (MaxDepth - n) = n
  BY <1>1
<1>. QED
  BY <1>4, <1>5

(* The shape of a dtype, and of one of a given depth.                      *)
LEMMA DtypeToShape ==
  ASSUME NEW n \in 0 .. MaxDepth, NEW d \in DtypesTo[n]
  PROVE  /\ d \in Dtype
         /\ n = 0 => PartsOf(d) = {}
         /\ n # 0 => PartsOf(d) \subseteq DtypesTo[n - 1] /\ n - 1 \in 0 .. MaxDepth
         /\ n # 0 => DtypesTo[n - 1] \subseteq DtypesTo[n]
<1>1. MaxDepth \in Nat /\ d \in Dtype
  BY MaxDepthIsNatural, DtypesToInDtype
<1>2. CASE n = 0
  <2>1. d \in [type : ScalarTypes]
    BY <1>2, DtypesToDef
  <2>2. d.type \in ScalarTypes
    BY <2>1
  <2>. QED
    BY <1>1, <1>2, <2>2, ScalarTypesAre DEF PartsOf
<1>3. CASE n # 0
  <2>1. n \in 1 .. MaxDepth /\ n - 1 \in 0 .. MaxDepth
    BY <1>1, <1>3
  <2>2. d \in DtypesOver(DtypesTo[n - 1])
    BY <1>3, DtypesToDef
  <2>. QED
    BY <1>1, <1>3, <2>1, <2>2, DtypesOverParts, DtypesGrow
<1>. QED
  BY <1>2, <1>3

LEMMA DtypeShape ==
  ASSUME NEW d \in Dtype
  PROVE  /\ d.type \in ScalarTypes \cup {"list", "struct"}
         /\ d.type \in ScalarTypes => d \in [type : ScalarTypes]
         /\ d.type = "list" => d.inner \in Dtype
         /\ d.type = "struct" => /\ d.fields \in Seq([name : STRING, dtype : Dtype])
                                /\ Len(d.fields) \in Nat
                                /\ NamesDiffer(d.fields)
                                /\ \A i \in 1 .. Len(d.fields) : /\ d.fields[i].name \in STRING
                                                                 /\ d.fields[i].dtype \in Dtype
         /\ PartsOf(d) \subseteq Dtype
<1>1. MaxDepth \in Nat /\ d \in DtypesTo[MaxDepth]
  BY MaxDepthIsNatural DEF Dtype
<1>2. d \in DtypesOver(Dtype)
  <2>1. CASE MaxDepth = 0
    <3>1. d \in [type : ScalarTypes]
      BY <1>1, <2>1, DtypesToZero
    <3>. QED
      BY <3>1 DEF DtypesOver
  <2>2. CASE MaxDepth # 0
    <3>1. MaxDepth - 1 \in 0 .. MaxDepth /\ d \in DtypesOver(DtypesTo[MaxDepth - 1])
      BY <1>1, <2>2, DtypesToDef
    <3>2. DtypesOver(DtypesTo[MaxDepth - 1]) \subseteq DtypesOver(Dtype)
      BY <3>1, DtypesToInDtype, StructDtypesGrow
    <3>. QED
      BY <3>1, <3>2
  <2>. QED
    BY <2>1, <2>2
<1>3. d.type = "struct" => \A i \in 1 .. Len(d.fields) : d.fields[i].name \in STRING
      /\ d.fields[i].dtype \in Dtype
  <2>. SUFFICES ASSUME d.type = "struct", NEW i \in 1 .. Len(d.fields)
                PROVE  d.fields[i].name \in STRING /\ d.fields[i].dtype \in Dtype
    OBVIOUS
  <2>1. d.fields \in Seq([name : STRING, dtype : Dtype])
    BY <1>2, DtypesOverParts
  <2>2. d.fields[i] \in [name : STRING, dtype : Dtype]
    BY <2>1, ElementOf
  <2>. QED
    BY <2>2
<1>. QED
  BY <1>2, <1>3, DtypesOverParts

(* What holds of a dtype once it holds of its parts holds of every dtype.  *)
LEMMA DtypeInduction ==
  ASSUME NEW S, \A d \in Dtype : PartsOf(d) \subseteq S => d \in S
  PROVE  Dtype \subseteq S
<1>. DEFINE T == {n \in 0 .. MaxDepth : DtypesTo[n] \subseteq S}
<1>1. MaxDepth \in Nat
  BY MaxDepthIsNatural
<1>2. 0 \in T
  BY <1>1, DtypeToShape
<1>3. ASSUME NEW n \in 1 .. MaxDepth, n - 1 \in T
      PROVE  n \in T
  <2>1. n \in 0 .. MaxDepth /\ n # 0
    BY <1>1
  <2>. QED
    BY <1>3, <2>1, DtypeToShape
<1>4. 0 .. MaxDepth \subseteq T
  <2>. HIDE DEF T
  <2>. QED
    BY <1>1, <1>2, <1>3, PlaceInduction
<1>. QED
  BY <1>1, <1>4 DEF Dtype

----------------------------------------------------------------------------
(* default_value of a dtype, from those of its parts.                      *)
LEMMA DefaultValueDef ==
  ASSUME NEW dtype \in Dtype
  PROVE  DefaultValue[dtype] =
           CASE dtype.type = "struct" ->
                  MapValue([i \in 1 .. Len(dtype.fields) |->
                              Entry(dtype.fields[i].name, DefaultValue[dtype.fields[i].dtype])])
             [] dtype.type = "list" -> ListValue(<<>>)
             [] OTHER -> Null
<1>. DEFINE Body(f, d) ==
              CASE d.type = "struct" ->
                     MapValue([i \in 1 .. Len(d.fields) |->
                                 Entry(d.fields[i].name, f[d.fields[i].dtype])])
                [] d.type = "list" -> ListValue(<<>>)
                [] OTHER -> Null
            S == {n \in 0 .. MaxDepth : \E f : f = [d \in DtypesTo[n] |-> Body(f, d)]}
<1>1. ASSUME NEW d \in Dtype, NEW f, NEW g, \A e \in PartsOf(d) : f[e] = g[e]
      PROVE  Body(f, d) = Body(g, d)
  <2>1. CASE d.type = "struct"
    <3>1. \A i \in 1 .. Len(d.fields) : f[d.fields[i].dtype] = g[d.fields[i].dtype]
      BY <1>1, <2>1 DEF PartsOf
    <3>. QED
      BY <2>1, <3>1
  <2>. QED
    BY <2>1
<1>2. DefaultValue = CHOOSE f : f = [d \in Dtype |-> Body(f, d)]
  BY DEF DefaultValue
<1>. HIDE DEF Body
<1>3. 0 \in S
  <2>1. 0 \in 0 .. MaxDepth /\ \A d \in DtypesTo[0] : d \in Dtype /\ PartsOf(d) = {}
    BY MaxDepthIsNatural, DtypeToShape
  <2>. DEFINE f == [d \in DtypesTo[0] |-> Body(<<>>, d)]
  <2>2. \A d \in DtypesTo[0] : Body(<<>>, d) = Body(f, d)
    BY <1>1, <2>1
  <2>3. f = [d \in DtypesTo[0] |-> Body(f, d)]
    BY <2>2
  <2>. HIDE DEF f
  <2>. QED
    BY <2>1, <2>3
<1>4. ASSUME NEW n \in 1 .. MaxDepth, n - 1 \in S
      PROVE  n \in S
  <2>1. PICK f : f = [d \in DtypesTo[n - 1] |-> Body(f, d)]
    BY <1>4
  <2>. DEFINE g == [d \in DtypesTo[n] |-> Body(f, d)]
  <2>2. n \in 0 .. MaxDepth /\ n # 0
    BY MaxDepthIsNatural
  <2>3. \A d \in DtypesTo[n] : /\ d \in Dtype /\ PartsOf(d) \subseteq DtypesTo[n - 1]
                               /\ DtypesTo[n - 1] \subseteq DtypesTo[n]
    BY <2>2, DtypeToShape
  <2>4. \A d \in DtypesTo[n] : \A e \in PartsOf(d) : f[e] = g[e]
    BY <2>1, <2>3
  <2>5. \A d \in DtypesTo[n] : Body(f, d) = Body(g, d)
    <3>. HIDE DEF g
    <3>. QED
      BY <1>1, <2>3, <2>4
  <2>6. g = [d \in DtypesTo[n] |-> Body(g, d)]
    BY <2>5
  <2>. HIDE DEF g
  <2>. QED
    BY <2>2, <2>6
<1>5. MaxDepth \in S
  <2>. HIDE DEF S
  <2>. QED
    BY <1>3, <1>4, MaxDepthIsNatural, PlaceInduction
<1>6. DefaultValue = [d \in Dtype |-> Body(DefaultValue, d)]
  BY <1>2, <1>5 DEF Dtype
<1>7. DefaultValue[dtype] = Body(DefaultValue, dtype)
  BY <1>6
<1>. QED
  BY <1>7 DEF Body
(* How a scalar is accepted, and what it yields, each way.                 *)
AcceptsAsScalar(way, value, type) ==
  IF way = "seed" THEN ValidScalar(value, type) ELSE Reads(value, type)
AsScalar(way, value, type) ==
  IF way = "seed" THEN value ELSE Converted(value, type)

(* The values a dtype accepts, from those its parts accept.                *)
LEMMA DecodableDef ==
  ASSUME NEW dtype \in Dtype, NEW way \in Ways
  PROVE  Decodable[dtype][way] =
           {value \in Value :
              CASE dtype.type = "struct" ->
                     /\ value.kind = "map"
                     /\ \A i \in 1 .. Len(dtype.fields) :
                          LET field == dtype.fields[i]
                          IN  Has(value.entries, field.name) =>
                                Find(value.entries, field.name).value \in Decodable[field.dtype][way]
                [] dtype.type = "list" ->
                     /\ value.kind = "list"
                     /\ \A i \in 1 .. Len(value.items) :
                          value.items[i] \in Decodable[dtype.inner][InList(way)]
                [] OTHER -> AcceptsAsScalar(way, value, dtype.type)}
<1>. DEFINE Part(f, d, u) ==
              {value \in Value :
                 CASE d.type = "struct" ->
                        /\ value.kind = "map"
                        /\ \A i \in 1 .. Len(d.fields) :
                             LET field == d.fields[i]
                             IN  Has(value.entries, field.name) =>
                                   Find(value.entries, field.name).value \in f[field.dtype][u]
                   [] d.type = "list" ->
                        /\ value.kind = "list"
                        /\ \A i \in 1 .. Len(value.items) : value.items[i] \in f[d.inner][InList(u)]
                   [] OTHER -> AcceptsAsScalar(u, value, d.type)}
            Body(f, d) == [u \in Ways |-> Part(f, d, u)]
            S == {n \in 0 .. MaxDepth : \E f : f = [d \in DtypesTo[n] |-> Body(f, d)]}
<1>1. ASSUME NEW d \in Dtype, NEW f, NEW g, \A e \in PartsOf(d) : f[e] = g[e]
      PROVE  Body(f, d) = Body(g, d)
  <2>1. CASE d.type = "struct"
    <3>1. \A i \in 1 .. Len(d.fields) : f[d.fields[i].dtype] = g[d.fields[i].dtype]
      BY <1>1, <2>1 DEF PartsOf
    <3>. QED
      BY <2>1, <3>1
  <2>2. CASE d.type = "list"
    <3>1. f[d.inner] = g[d.inner]
      BY <1>1, <2>2 DEF PartsOf
    <3>. QED
      BY <2>2, <3>1
  <2>3. CASE d.type \notin {"struct", "list"}
    BY <2>3
  <2>. QED
    BY <2>1, <2>2, <2>3
<1>2. Decodable = CHOOSE f : f = [d \in Dtype |-> Body(f, d)]
  BY DEF Decodable, AcceptsAsScalar
<1>. HIDE DEF Body
<1>3. 0 \in S
  <2>1. 0 \in 0 .. MaxDepth /\ \A d \in DtypesTo[0] : d \in Dtype /\ PartsOf(d) = {}
    BY MaxDepthIsNatural, DtypeToShape
  <2>. DEFINE f == [d \in DtypesTo[0] |-> Body(<<>>, d)]
  <2>2. \A d \in DtypesTo[0] : Body(<<>>, d) = Body(f, d)
    BY <1>1, <2>1
  <2>3. f = [d \in DtypesTo[0] |-> Body(f, d)]
    BY <2>2
  <2>. HIDE DEF f
  <2>. QED
    BY <2>1, <2>3
<1>4. ASSUME NEW n \in 1 .. MaxDepth, n - 1 \in S
      PROVE  n \in S
  <2>1. PICK f : f = [d \in DtypesTo[n - 1] |-> Body(f, d)]
    BY <1>4
  <2>. DEFINE g == [d \in DtypesTo[n] |-> Body(f, d)]
  <2>2. n \in 0 .. MaxDepth /\ n # 0
    BY MaxDepthIsNatural
  <2>3. \A d \in DtypesTo[n] : /\ d \in Dtype /\ PartsOf(d) \subseteq DtypesTo[n - 1]
                               /\ DtypesTo[n - 1] \subseteq DtypesTo[n]
    BY <2>2, DtypeToShape
  <2>4. \A d \in DtypesTo[n] : \A e \in PartsOf(d) : f[e] = g[e]
    BY <2>1, <2>3
  <2>5. \A d \in DtypesTo[n] : Body(f, d) = Body(g, d)
    <3>. HIDE DEF g
    <3>. QED
      BY <1>1, <2>3, <2>4
  <2>6. g = [d \in DtypesTo[n] |-> Body(g, d)]
    BY <2>5
  <2>. HIDE DEF g
  <2>. QED
    BY <2>2, <2>6
<1>5. MaxDepth \in S
  <2>. HIDE DEF S
  <2>. QED
    BY <1>3, <1>4, MaxDepthIsNatural, PlaceInduction
<1>6. Decodable = [d \in Dtype |-> Body(Decodable, d)]
  BY <1>2, <1>5 DEF Dtype
<1>7. Decodable[dtype] = Body(Decodable, dtype)
  BY <1>6
<1>. HIDE DEF Part
<1>8. Decodable[dtype][way] = Part(Decodable, dtype, way)
  BY <1>7 DEF Body
<1>. QED
  BY <1>8 DEF Part

(* What it makes of each of them.                                          *)
LEMMA DecodedDef ==
  ASSUME NEW dtype \in Dtype, NEW way \in Ways
  PROVE  Decoded[dtype][way] =
           [value \in Decodable[dtype][way] |->
              CASE dtype.type = "struct" ->
                     MapValue([i \in 1 .. Len(dtype.fields) |->
                       LET field == dtype.fields[i]
                       IN  Entry(field.name,
                                 IF Has(value.entries, field.name)
                                 THEN Decoded[field.dtype][way][Find(value.entries, field.name).value]
                                 ELSE DefaultValue[field.dtype])])
                [] dtype.type = "list" ->
                     ListValue([i \in 1 .. Len(value.items) |->
                                  Decoded[dtype.inner][InList(way)][value.items[i]]])
                [] OTHER -> AsScalar(way, value, dtype.type)]
<1>. DEFINE Part(f, d, u) ==
              [value \in Decodable[d][u] |->
                 CASE d.type = "struct" ->
                        MapValue([i \in 1 .. Len(d.fields) |->
                          LET field == d.fields[i]
                          IN  Entry(field.name,
                                    IF Has(value.entries, field.name)
                                    THEN f[field.dtype][u][Find(value.entries, field.name).value]
                                    ELSE DefaultValue[field.dtype])])
                   [] d.type = "list" ->
                        ListValue([i \in 1 .. Len(value.items) |-> f[d.inner][InList(u)][value.items[i]]])
                   [] OTHER -> AsScalar(u, value, d.type)]
            Body(f, d) == [u \in Ways |-> Part(f, d, u)]
            S == {n \in 0 .. MaxDepth : \E f : f = [d \in DtypesTo[n] |-> Body(f, d)]}
<1>1. ASSUME NEW d \in Dtype, NEW f, NEW g, \A e \in PartsOf(d) : f[e] = g[e]
      PROVE  Body(f, d) = Body(g, d)
  <2>1. CASE d.type = "struct"
    <3>1. \A i \in 1 .. Len(d.fields) : f[d.fields[i].dtype] = g[d.fields[i].dtype]
      BY <1>1, <2>1 DEF PartsOf
    <3>. QED
      BY <2>1, <3>1
  <2>2. CASE d.type = "list"
    <3>1. f[d.inner] = g[d.inner]
      BY <1>1, <2>2 DEF PartsOf
    <3>. QED
      BY <2>2, <3>1
  <2>3. CASE d.type \notin {"struct", "list"}
    BY <2>3
  <2>. QED
    BY <2>1, <2>2, <2>3
<1>2. Decoded = CHOOSE f : f = [d \in Dtype |-> Body(f, d)]
  BY DEF Decoded, AsScalar
<1>. HIDE DEF Body
<1>3. 0 \in S
  <2>1. 0 \in 0 .. MaxDepth /\ \A d \in DtypesTo[0] : d \in Dtype /\ PartsOf(d) = {}
    BY MaxDepthIsNatural, DtypeToShape
  <2>. DEFINE f == [d \in DtypesTo[0] |-> Body(<<>>, d)]
  <2>2. \A d \in DtypesTo[0] : Body(<<>>, d) = Body(f, d)
    BY <1>1, <2>1
  <2>3. f = [d \in DtypesTo[0] |-> Body(f, d)]
    BY <2>2
  <2>. HIDE DEF f
  <2>. QED
    BY <2>1, <2>3
<1>4. ASSUME NEW n \in 1 .. MaxDepth, n - 1 \in S
      PROVE  n \in S
  <2>1. PICK f : f = [d \in DtypesTo[n - 1] |-> Body(f, d)]
    BY <1>4
  <2>. DEFINE g == [d \in DtypesTo[n] |-> Body(f, d)]
  <2>2. n \in 0 .. MaxDepth /\ n # 0
    BY MaxDepthIsNatural
  <2>3. \A d \in DtypesTo[n] : /\ d \in Dtype /\ PartsOf(d) \subseteq DtypesTo[n - 1]
                               /\ DtypesTo[n - 1] \subseteq DtypesTo[n]
    BY <2>2, DtypeToShape
  <2>4. \A d \in DtypesTo[n] : \A e \in PartsOf(d) : f[e] = g[e]
    BY <2>1, <2>3
  <2>5. \A d \in DtypesTo[n] : Body(f, d) = Body(g, d)
    <3>. HIDE DEF g
    <3>. QED
      BY <1>1, <2>3, <2>4
  <2>6. g = [d \in DtypesTo[n] |-> Body(g, d)]
    BY <2>5
  <2>. HIDE DEF g
  <2>. QED
    BY <2>2, <2>6
<1>5. MaxDepth \in S
  <2>. HIDE DEF S
  <2>. QED
    BY <1>3, <1>4, MaxDepthIsNatural, PlaceInduction
<1>6. Decoded = [d \in Dtype |-> Body(Decoded, d)]
  BY <1>2, <1>5 DEF Dtype
<1>7. Decoded[dtype] = Body(Decoded, dtype)
  BY <1>6
<1>. HIDE DEF Part
<1>8. Decoded[dtype][way] = Part(Decoded, dtype, way)
  BY <1>7 DEF Body
<1>. QED
  BY <1>8 DEF Part

(* The values a column of a dtype is built of.                             *)
LEMMA BuildableDef ==
  ASSUME NEW dtype \in Dtype
  PROVE  Buildable[dtype] =
           {None, Null} \cup
           {value \in Value :
              CASE dtype.type = "struct" ->
                     /\ value.kind = "map"
                     /\ \A i \in 1 .. Len(dtype.fields) :
                          LET field == dtype.fields[i]
                          IN  FindOr(value.entries, field.name, DefaultValue[field.dtype])
                                \in Buildable[field.dtype]
                [] dtype.type = "list" ->
                     /\ value.kind = "list"
                     /\ \A i \in 1 .. Len(value.items) : value.items[i] \in Buildable[dtype.inner]
                [] OTHER -> ValidScalar(value, dtype.type)}
<1>. DEFINE Body(f, d) ==
              {None, Null} \cup
              {value \in Value :
                 CASE d.type = "struct" ->
                        /\ value.kind = "map"
                        /\ \A i \in 1 .. Len(d.fields) :
                             LET field == d.fields[i]
                             IN  FindOr(value.entries, field.name, DefaultValue[field.dtype])
                                   \in f[field.dtype]
                   [] d.type = "list" ->
                        /\ value.kind = "list"
                        /\ \A i \in 1 .. Len(value.items) : value.items[i] \in f[d.inner]
                   [] OTHER -> ValidScalar(value, d.type)}
            S == {n \in 0 .. MaxDepth : \E f : f = [d \in DtypesTo[n] |-> Body(f, d)]}
<1>1. ASSUME NEW d \in Dtype, NEW f, NEW g, \A e \in PartsOf(d) : f[e] = g[e]
      PROVE  Body(f, d) = Body(g, d)
  <2>1. CASE d.type = "struct"
    <3>1. \A i \in 1 .. Len(d.fields) : f[d.fields[i].dtype] = g[d.fields[i].dtype]
      BY <1>1, <2>1 DEF PartsOf
    <3>. QED
      BY <2>1, <3>1
  <2>2. CASE d.type = "list"
    <3>1. f[d.inner] = g[d.inner]
      BY <1>1, <2>2 DEF PartsOf
    <3>. QED
      BY <2>2, <3>1
  <2>3. CASE d.type \notin {"struct", "list"}
    BY <2>3
  <2>. QED
    BY <2>1, <2>2, <2>3
<1>2. Buildable = CHOOSE f : f = [d \in Dtype |-> Body(f, d)]
  BY DEF Buildable
<1>. HIDE DEF Body
<1>3. 0 \in S
  <2>1. 0 \in 0 .. MaxDepth /\ \A d \in DtypesTo[0] : d \in Dtype /\ PartsOf(d) = {}
    BY MaxDepthIsNatural, DtypeToShape
  <2>. DEFINE f == [d \in DtypesTo[0] |-> Body(<<>>, d)]
  <2>2. \A d \in DtypesTo[0] : Body(<<>>, d) = Body(f, d)
    BY <1>1, <2>1
  <2>3. f = [d \in DtypesTo[0] |-> Body(f, d)]
    BY <2>2
  <2>. HIDE DEF f
  <2>. QED
    BY <2>1, <2>3
<1>4. ASSUME NEW n \in 1 .. MaxDepth, n - 1 \in S
      PROVE  n \in S
  <2>1. PICK f : f = [d \in DtypesTo[n - 1] |-> Body(f, d)]
    BY <1>4
  <2>. DEFINE g == [d \in DtypesTo[n] |-> Body(f, d)]
  <2>2. n \in 0 .. MaxDepth /\ n # 0
    BY MaxDepthIsNatural
  <2>3. \A d \in DtypesTo[n] : /\ d \in Dtype /\ PartsOf(d) \subseteq DtypesTo[n - 1]
                               /\ DtypesTo[n - 1] \subseteq DtypesTo[n]
    BY <2>2, DtypeToShape
  <2>4. \A d \in DtypesTo[n] : \A e \in PartsOf(d) : f[e] = g[e]
    BY <2>1, <2>3
  <2>5. \A d \in DtypesTo[n] : Body(f, d) = Body(g, d)
    <3>. HIDE DEF g
    <3>. QED
      BY <1>1, <2>3, <2>4
  <2>6. g = [d \in DtypesTo[n] |-> Body(g, d)]
    BY <2>5
  <2>. HIDE DEF g
  <2>. QED
    BY <2>2, <2>6
<1>5. MaxDepth \in S
  <2>. HIDE DEF S
  <2>. QED
    BY <1>3, <1>4, MaxDepthIsNatural, PlaceInduction
<1>6. Buildable = [d \in Dtype |-> Body(Buildable, d)]
  BY <1>2, <1>5 DEF Dtype
<1>7. Buildable[dtype] = Body(Buildable, dtype)
  BY <1>6
<1>. QED
  BY <1>7 DEF Body

(* The cells they become.                                                  *)
LEMMA CellDef ==
  ASSUME NEW dtype \in Dtype
  PROVE  Cell[dtype] =
           [value \in Buildable[dtype] |->
              IF value \in {None, Null} THEN Null
              ELSE CASE dtype.type = "struct" ->
                          MapValue([i \in 1 .. Len(dtype.fields) |->
                            LET field == dtype.fields[i]
                            IN  Entry(field.name,
                                      Cell[field.dtype][FindOr(value.entries, field.name,
                                                               DefaultValue[field.dtype])])])
                     [] dtype.type = "list" ->
                          ListValue([i \in 1 .. Len(value.items) |-> Cell[dtype.inner][value.items[i]]])
                     [] OTHER -> Leaf(dtype.type, value.bits)]
<1>. DEFINE Body(f, d) ==
              [value \in Buildable[d] |->
                 IF value \in {None, Null} THEN Null
                 ELSE CASE d.type = "struct" ->
                             MapValue([i \in 1 .. Len(d.fields) |->
                               LET field == d.fields[i]
                               IN  Entry(field.name,
                                         f[field.dtype][FindOr(value.entries, field.name,
                                                                  DefaultValue[field.dtype])])])
                        [] d.type = "list" ->
                             ListValue([i \in 1 .. Len(value.items) |-> f[d.inner][value.items[i]]])
                        [] OTHER -> Leaf(d.type, value.bits)]
            S == {n \in 0 .. MaxDepth : \E f : f = [d \in DtypesTo[n] |-> Body(f, d)]}
<1>1. ASSUME NEW d \in Dtype, NEW f, NEW g, \A e \in PartsOf(d) : f[e] = g[e]
      PROVE  Body(f, d) = Body(g, d)
  <2>1. CASE d.type = "struct"
    <3>1. \A i \in 1 .. Len(d.fields) : f[d.fields[i].dtype] = g[d.fields[i].dtype]
      BY <1>1, <2>1 DEF PartsOf
    <3>. QED
      BY <2>1, <3>1
  <2>2. CASE d.type = "list"
    <3>1. f[d.inner] = g[d.inner]
      BY <1>1, <2>2 DEF PartsOf
    <3>. QED
      BY <2>2, <3>1
  <2>3. CASE d.type \notin {"struct", "list"}
    BY <2>3
  <2>. QED
    BY <2>1, <2>2, <2>3
<1>2. Cell = CHOOSE f : f = [d \in Dtype |-> Body(f, d)]
  BY DEF Cell
<1>. HIDE DEF Body
<1>3. 0 \in S
  <2>1. 0 \in 0 .. MaxDepth /\ \A d \in DtypesTo[0] : d \in Dtype /\ PartsOf(d) = {}
    BY MaxDepthIsNatural, DtypeToShape
  <2>. DEFINE f == [d \in DtypesTo[0] |-> Body(<<>>, d)]
  <2>2. \A d \in DtypesTo[0] : Body(<<>>, d) = Body(f, d)
    BY <1>1, <2>1
  <2>3. f = [d \in DtypesTo[0] |-> Body(f, d)]
    BY <2>2
  <2>. HIDE DEF f
  <2>. QED
    BY <2>1, <2>3
<1>4. ASSUME NEW n \in 1 .. MaxDepth, n - 1 \in S
      PROVE  n \in S
  <2>1. PICK f : f = [d \in DtypesTo[n - 1] |-> Body(f, d)]
    BY <1>4
  <2>. DEFINE g == [d \in DtypesTo[n] |-> Body(f, d)]
  <2>2. n \in 0 .. MaxDepth /\ n # 0
    BY MaxDepthIsNatural
  <2>3. \A d \in DtypesTo[n] : /\ d \in Dtype /\ PartsOf(d) \subseteq DtypesTo[n - 1]
                               /\ DtypesTo[n - 1] \subseteq DtypesTo[n]
    BY <2>2, DtypeToShape
  <2>4. \A d \in DtypesTo[n] : \A e \in PartsOf(d) : f[e] = g[e]
    BY <2>1, <2>3
  <2>5. \A d \in DtypesTo[n] : Body(f, d) = Body(g, d)
    <3>. HIDE DEF g
    <3>. QED
      BY <1>1, <2>3, <2>4
  <2>6. g = [d \in DtypesTo[n] |-> Body(g, d)]
    BY <2>5
  <2>. HIDE DEF g
  <2>. QED
    BY <2>2, <2>6
<1>5. MaxDepth \in S
  <2>. HIDE DEF S
  <2>. QED
    BY <1>3, <1>4, MaxDepthIsNatural, PlaceInduction
<1>6. Cell = [d \in Dtype |-> Body(Cell, d)]
  BY <1>2, <1>5 DEF Dtype
<1>7. Cell[dtype] = Body(Cell, dtype)
  BY <1>6
<1>. QED
  BY <1>7 DEF Body

----------------------------------------------------------------------------
(* Values.                                                                 *)

ScalarValues == [kind : ScalarTypes, bits : Int]

MapsOver(parts) ==
  {v \in [kind : {"map"}, entries : Seq([name : STRING, value : parts])] :
     NamesDiffer(v.entries)}

ValuesOver(parts) ==
  {Null} \cup ScalarValues \cup [kind : {"list"}, items : Seq(parts)] \cup MapsOver(parts)

LEMMA ValuesToDef ==
  ASSUME NEW n \in 0 .. MaxDepth
  PROVE  ValuesTo[n] = IF n = 0 THEN {Null} \cup ScalarValues ELSE ValuesOver(ValuesTo[n - 1])
<1>. DEFINE Body(f, i) == IF i = 0 THEN {Null} \cup ScalarValues ELSE ValuesOver(f[i - 1])
            S == {m \in 0 .. MaxDepth : \E f : f = [i \in 0 .. m |-> Body(f, i)]}
<1>1. MaxDepth \in Nat
  BY MaxDepthIsNatural
<1>2. 0 \in S
  <2>. DEFINE f == [i \in 0 .. 0 |-> {Null} \cup ScalarValues]
  <2>1. f = [i \in 0 .. 0 |-> Body(f, i)]
    OBVIOUS
  <2>. QED
    <3>. HIDE DEF f, Body
    <3>. QED
      BY <1>1, <2>1
<1>3. ASSUME NEW m \in 1 .. MaxDepth, m - 1 \in S
      PROVE  m \in S
  <2>1. PICK f : f = [i \in 0 .. m - 1 |-> Body(f, i)]
    BY <1>3
  <2>. DEFINE g == [i \in 0 .. m |-> Body(f, i)]
  <2>2. \A i \in 0 .. m - 1 : g[i] = f[i]
    <3>. HIDE DEF Body
    <3>. QED
      BY <2>1
  <2>3. \A i \in 0 .. m : Body(g, i) = Body(f, i)
    <3>. HIDE DEF g
    <3>. QED
      BY <2>2
  <2>4. g = [i \in 0 .. m |-> Body(g, i)]
    <3>. HIDE DEF Body
    <3>. QED
      BY <2>3
  <2>. QED
    <3>. HIDE DEF g, Body
    <3>. QED
      BY <1>1, <2>4
<1>4. 0 .. MaxDepth \subseteq S
  <2>. HIDE DEF S
  <2>. QED
    BY <1>1, <1>2, <1>3, PlaceInduction
<1>5. \E f : f = [i \in 0 .. MaxDepth |-> Body(f, i)]
  <2>. HIDE DEF Body
  <2>. QED
    BY <1>1, <1>4
<1>6. ValuesTo = CHOOSE f : f = [i \in 0 .. MaxDepth |-> Body(f, i)]
  BY DEF ValuesTo, ValuesOver, MapsOver, ScalarValues
<1>. QED
  <2>1. ValuesTo = [i \in 0 .. MaxDepth |-> Body(ValuesTo, i)]
    <3>. HIDE DEF Body
    <3>. QED
      BY <1>5, <1>6
  <2>. QED
    BY <2>1

LEMMA ValuesToZero == ValuesTo[0] = {Null} \cup ScalarValues
<1>1. 0 \in 0 .. MaxDepth
  BY MaxDepthIsNatural
<1>. QED
  BY <1>1, ValuesToDef

LEMMA ValuesToNext ==
  ASSUME NEW n \in 1 .. MaxDepth
  PROVE  ValuesTo[n] = ValuesOver(ValuesTo[n - 1])
<1>1. n \in 0 .. MaxDepth /\ n # 0
  BY MaxDepthIsNatural
<1>. QED
  BY <1>1, ValuesToDef

LEMMA ValuesOverGrow ==
  ASSUME NEW A, NEW B, A \subseteq B
  PROVE  ValuesOver(A) \subseteq ValuesOver(B)
<1>1. [name : STRING, value : A] \subseteq [name : STRING, value : B]
  OBVIOUS
<1>2. /\ Seq([name : STRING, value : A]) \subseteq Seq([name : STRING, value : B])
      /\ Seq(A) \subseteq Seq(B)
  BY <1>1, SequencesGrow
<1>3. MapsOver(A) \subseteq MapsOver(B)
  BY <1>2 DEF MapsOver
<1>4. [kind : {"list"}, items : Seq(A)] \subseteq [kind : {"list"}, items : Seq(B)]
  BY <1>2
<1>. QED
  BY <1>3, <1>4 DEF ValuesOver

LEMMA ValuesGrow ==
  ASSUME NEW n \in 1 .. MaxDepth
  PROVE  ValuesTo[n - 1] \subseteq ValuesTo[n]
<1>. DEFINE S == {m \in 0 .. MaxDepth - 1 : ValuesTo[m] \subseteq ValuesTo[m + 1]}
<1>1. MaxDepth \in Nat /\ MaxDepth - 1 \in Nat
  BY MaxDepthIsNatural
<1>2. ValuesTo[0] \subseteq ValuesTo[1]
  <2>1. ValuesTo[0] = {Null} \cup ScalarValues /\ ValuesTo[1] = ValuesOver(ValuesTo[0])
    <3>1. 1 \in 1 .. MaxDepth /\ 1 - 1 = 0
      BY <1>1
    <3>. QED
      BY <3>1, ValuesToZero, ValuesToNext
  <2>. QED
    BY <2>1 DEF ValuesOver
<1>3. ASSUME NEW m \in 1 .. MaxDepth - 1, m - 1 \in S
      PROVE  m \in S
  <2>1. ValuesTo[m] = ValuesOver(ValuesTo[m - 1]) /\ ValuesTo[m + 1] = ValuesOver(ValuesTo[m])
    BY <1>1, ValuesToDef
  <2>2. ValuesTo[m - 1] \subseteq ValuesTo[m]
    BY <1>1, <1>3
  <2>3. ValuesTo[m] \subseteq ValuesTo[m + 1]
    BY <2>1, <2>2, ValuesOverGrow
  <2>. QED
    BY <1>1, <2>3
<1>4. 0 .. MaxDepth - 1 \subseteq S
  <2>1. 0 \in S
    BY <1>1, <1>2
  <2>. HIDE DEF S
  <2>. QED
    BY <1>1, <2>1, <1>3, PlaceInduction
<1>5. n - 1 \in S /\ (n - 1) + 1 = n
  BY <1>1, <1>4
<1>. QED
  BY <1>5

LEMMA ValuesToInValue ==
  ASSUME NEW n \in 0 .. MaxDepth
  PROVE  ValuesTo[n] \subseteq Value
<1>. DEFINE S == {m \in 0 .. MaxDepth : ValuesTo[MaxDepth - m] \subseteq Value}
<1>1. MaxDepth \in Nat
  BY MaxDepthIsNatural
<1>2. 0 \in S
  BY <1>1 DEF Value
<1>3. ASSUME NEW m \in 1 .. MaxDepth, m - 1 \in S
      PROVE  m \in S
  <2>1. MaxDepth - (m - 1) \in 1 .. MaxDepth /\ (MaxDepth - (m - 1)) - 1 = MaxDepth - m
    BY <1>1
  <2>2. ValuesTo[MaxDepth - m] \subseteq ValuesTo[MaxDepth - (m - 1)]
    BY <2>1, ValuesGrow
  <2>. QED
    BY <1>3, <2>2
<1>4. 0 .. MaxDepth \subseteq S
  <2>. HIDE DEF S
  <2>. QED
    BY <1>1, <1>2, <1>3, PlaceInduction
<1>5. MaxDepth - n \in 0 .. MaxDepth /\ MaxDepth - (MaxDepth - n) = n
  BY <1>1
<1>. QED
  BY <1>4, <1>5

(* The shape of a value.                                                   *)
LEMMA ValueShape ==
  ASSUME NEW v \in Value
  PROVE  /\ v.kind \in ScalarTypes \cup {"null", "list", "map"}
         /\ v.kind = "null" => v = Null
         /\ v.kind \in ScalarTypes => v \in ScalarValues
         /\ v.kind = "list" => /\ v.items \in Seq(Value)
                               /\ Len(v.items) \in Nat
                               /\ \A i \in 1 .. Len(v.items) : v.items[i] \in Value
                               /\ v = ListValue(v.items)
         /\ v.kind = "map" => /\ v.entries \in Seq([name : STRING, value : Value])
                              /\ Len(v.entries) \in Nat
                              /\ NamesDiffer(v.entries)
                              /\ \A i \in 1 .. Len(v.entries) : v.entries[i].value \in Value
<1>1. MaxDepth \in Nat /\ v \in ValuesTo[MaxDepth]
  BY MaxDepthIsNatural DEF Value
<1>2. v \in ValuesOver(Value)
  <2>1. CASE MaxDepth = 0
    BY <1>1, <2>1, ValuesToZero DEF ValuesOver
  <2>2. CASE MaxDepth # 0
    <3>1. MaxDepth \in 1 .. MaxDepth /\ MaxDepth - 1 \in 0 .. MaxDepth
      BY <1>1, <2>2
    <3>2. ValuesOver(ValuesTo[MaxDepth - 1]) \subseteq ValuesOver(Value)
      BY <3>1, ValuesToInValue, ValuesOverGrow
    <3>. QED
      BY <1>1, <3>1, <3>2, ValuesToNext
  <2>. QED
    BY <2>1, <2>2
<1>3. CASE v = Null
  BY <1>3, ScalarTypesAre DEF Null
<1>4. CASE v \in ScalarValues
  <2>1. v.kind \in ScalarTypes
    BY <1>4 DEF ScalarValues
  <2>. QED
    BY <1>4, <2>1, ScalarTypesAre
<1>5. CASE v \in [kind : {"list"}, items : Seq(Value)]
  <2>1. v.kind = "list" /\ v.items \in Seq(Value) /\ v = ListValue(v.items)
    BY <1>5 DEF ListValue
  <2>2. Len(v.items) \in Nat /\ \A i \in 1 .. Len(v.items) : v.items[i] \in Value
    BY <2>1, ElementOf
  <2>. QED
    BY <2>1, <2>2, ScalarTypesAre
<1>6. CASE v \in MapsOver(Value)
  <2>1. v.kind = "map" /\ v.entries \in Seq([name : STRING, value : Value]) /\ NamesDiffer(v.entries)
    BY <1>6 DEF MapsOver
  <2>2. Len(v.entries) \in Nat
    BY <2>1
  <2>3. \A i \in 1 .. Len(v.entries) : v.entries[i] \in [name : STRING, value : Value]
    BY <2>1, ElementOf
  <2>4. \A i \in 1 .. Len(v.entries) : v.entries[i].value \in Value
    BY <2>3
  <2>. QED
    BY <2>1, <2>2, <2>4, ScalarTypesAre
<1>. QED
  BY <1>2, <1>3, <1>4, <1>5, <1>6 DEF ValuesOver

LEMMA NullIsAValue == Null \in Value /\ ScalarValues \subseteq Value
<1>1. 0 \in 0 .. MaxDepth
  BY MaxDepthIsNatural
<1>. QED
  BY <1>1, ValuesToInValue, ValuesToZero

LEMMA NoValues == None \notin Value /\ Mismatch \notin Value /\ None # Mismatch /\ None # Null
<1>1. None.kind = "none" /\ Mismatch.kind = "mismatch" /\ Null.kind = "null"
  BY DEF None, Mismatch, Null
<1>2. {"none", "mismatch"} \cap (ScalarTypes \cup {"null", "list", "map"}) = {}
  BY ScalarTypesAre
<1>3. \A v \in Value : v.kind \in ScalarTypes \cup {"null", "list", "map"}
  BY ValueShape
<1>4. None \notin Value
  BY <1>1, <1>2, <1>3
<1>5. Mismatch \notin Value
  BY <1>1, <1>2, <1>3
<1>. QED
  BY <1>1, <1>4, <1>5

----------------------------------------------------------------------------
(* A vocabulary for the proofs, whose definitions are expanded only in the *)
(* lemmas right below.                                                     *)

Structs == {d \in Dtype : d.type = "struct"}
Lists == {d \in Dtype : d.type = "list"}
Scalars == {d \in Dtype : d.type \in ScalarTypes}

Arity(d) == Len(d.fields)
NameAt(d, i) == d.fields[i].name
PartAt(d, i) == d.fields[i].dtype
Inner(d) == d.inner

Maps == {v \in Value : v.kind = "map"}
ListValues == {v \in Value : v.kind = "list"}
HasEntry(v, name) == Has(v.entries, name)
EntryOf(v, name) == Find(v.entries, name).value
EntryOr(v, name, default) == FindOr(v.entries, name, default)
Count(v) == Len(v.items)
ItemAt(v, i) == v.items[i]

At(w, i) == w[i]
Made(d, w) == MapValue([i \in 1 .. Len(d.fields) |-> Entry(d.fields[i].name, w[i])])
MadeList(n, w) == ListValue([i \in 1 .. n |-> w[i]])

Accepts(way, d) == Decodable[d][way]
Yields(way, d, v) == Decoded[d][way][v]
DefaultOf(d) == DefaultValue[d]
Builds(d) == Buildable[d]
CellOf(d, v) == Cell[d][v]

LEMMA DtypeKinds ==
  ASSUME NEW d \in Dtype
  PROVE  /\ d \in Structs \/ d \in Lists \/ d \in Scalars
         /\ ~(d \in Structs /\ d \in Lists)
         /\ ~(d \in Structs /\ d \in Scalars)
         /\ ~(d \in Lists /\ d \in Scalars)
<1>1. d.type \in ScalarTypes \cup {"list", "struct"}
  BY DtypeShape
<1>2. "list" \notin ScalarTypes /\ "struct" \notin ScalarTypes
  BY ScalarTypesAre
<1>. QED
  BY <1>1, <1>2 DEF Structs, Lists, Scalars

LEMMA StructFacts ==
  ASSUME NEW d \in Structs
  PROVE  /\ d \in Dtype /\ Arity(d) \in Nat
         /\ \A i \in 1 .. Arity(d) : /\ PartAt(d, i) \in Dtype
                                     /\ NameAt(d, i) \in STRING
                                     /\ PartAt(d, i) \in PartsOf(d)
         /\ \A i, j \in 1 .. Arity(d) : NameAt(d, i) = NameAt(d, j) => i = j
<1>1. d \in Dtype /\ d.type = "struct"
  BY DEF Structs
<1>2. /\ Len(d.fields) \in Nat /\ NamesDiffer(d.fields)
      /\ \A i \in 1 .. Len(d.fields) : d.fields[i].name \in STRING /\ d.fields[i].dtype \in Dtype
  BY <1>1, DtypeShape
<1>3. \A i \in 1 .. Len(d.fields) : d.fields[i].dtype \in PartsOf(d)
  BY <1>1 DEF PartsOf
<1>. QED
  BY <1>1, <1>2, <1>3 DEF Arity, PartAt, NameAt, NamesDiffer

LEMMA ListFacts ==
  ASSUME NEW d \in Lists
  PROVE  d \in Dtype /\ Inner(d) \in Dtype /\ Inner(d) \in PartsOf(d)
<1>1. d \in Dtype /\ d.type = "list"
  BY DEF Lists
<1>. QED
  BY <1>1, DtypeShape DEF Inner, PartsOf

LEMMA ScalarFacts ==
  ASSUME NEW d \in Scalars
  PROVE  d \in Dtype /\ d.type \in ScalarTypes /\ d.type # "struct" /\ d.type # "list"
BY ScalarTypesAre DEF Scalars

(* What holds of a dtype once it holds of its parts holds of every dtype.  *)
LEMMA InductionOnDtypes ==
  ASSUME NEW S,
         \A d \in Structs : (\A i \in 1 .. Arity(d) : PartAt(d, i) \in S) => d \in S,
         \A d \in Lists : Inner(d) \in S => d \in S,
         \A d \in Scalars : d \in S
  PROVE  Dtype \subseteq S
<1>1. ASSUME NEW d \in Dtype, PartsOf(d) \subseteq S
      PROVE  d \in S
  <2>1. CASE d \in Structs
    BY <1>1, <2>1, StructFacts
  <2>2. CASE d \in Lists
    BY <1>1, <2>2, ListFacts
  <2>3. CASE d \in Scalars
    BY <2>3
  <2>. QED
    BY <2>1, <2>2, <2>3, DtypeKinds
<1>. QED
  BY <1>1, DtypeInduction

LEMMA MapFacts ==
  ASSUME NEW v \in Maps
  PROVE  /\ v \in Value
         /\ \A name : HasEntry(v, name) => EntryOf(v, name) \in Value
         /\ \A name, x : EntryOr(v, name, x) = IF HasEntry(v, name) THEN EntryOf(v, name) ELSE x
<1>1. v \in Value /\ v.kind = "map"
  BY DEF Maps
<1>2. Len(v.entries) \in Nat /\ \A i \in 1 .. Len(v.entries) : v.entries[i].value \in Value
  BY <1>1, ValueShape
<1>3. ASSUME NEW name, HasEntry(v, name)
      PROVE  EntryOf(v, name) \in Value
  <2>1. PICK i \in 1 .. Len(v.entries) : Find(v.entries, name) = v.entries[i]
    BY <1>2, <1>3, FindPlace DEF HasEntry
  <2>. QED
    BY <1>2, <2>1 DEF EntryOf
<1>4. \A name, x : EntryOr(v, name, x) = IF HasEntry(v, name) THEN EntryOf(v, name) ELSE x
  BY DEF EntryOr, FindOr, HasEntry, EntryOf
<1>. QED
  BY <1>1, <1>3, <1>4

LEMMA ListValueFacts ==
  ASSUME NEW v \in ListValues
  PROVE  v \in Value /\ Count(v) \in Nat /\ \A i \in 1 .. Count(v) : ItemAt(v, i) \in Value
<1>1. v \in Value /\ v.kind = "list"
  BY DEF ListValues
<1>. QED
  BY <1>1, ValueShape DEF Count, ItemAt

(* A map made for a Struct dtype has an entry for each field, found by its *)
(* name.                                                                   *)
LEMMA MadeFacts ==
  ASSUME NEW d \in Structs, NEW w
  PROVE  /\ Made(d, w).kind = "map"
         /\ \A i \in 1 .. Arity(d) : /\ HasEntry(Made(d, w), NameAt(d, i))
                                     /\ EntryOf(Made(d, w), NameAt(d, i)) = At(w, i)
                                     /\ \A x : EntryOr(Made(d, w), NameAt(d, i), x) = At(w, i)
<1>. DEFINE n == Len(d.fields)
            entries == [i \in 1 .. n |-> Entry(d.fields[i].name, w[i])]
<1>0. n \in Nat /\ \A i, j \in 1 .. n : d.fields[i].name = d.fields[j].name => i = j
  BY StructFacts DEF Arity, NameAt
<1>1. Made(d, w).kind = "map" /\ Made(d, w).entries = entries
  BY DEF Made, MapValue
<1>2. Len(entries) = n
  BY <1>0
<1>3. \A a, b : Entry(a, b).name = a /\ Entry(a, b).value = b
  BY DEF Entry
<1>4. \A i \in 1 .. n : entries[i].name = d.fields[i].name /\ entries[i].value = w[i]
  BY <1>3
<1>. HIDE DEF entries
<1>5. NamesDiffer(entries)
  BY <1>0, <1>2, <1>4 DEF NamesDiffer
<1>6. ASSUME NEW i \in 1 .. n
      PROVE  /\ Has(entries, d.fields[i].name)
             /\ Find(entries, d.fields[i].name).value = w[i]
             /\ \A x : FindOr(entries, d.fields[i].name, x) = w[i]
  <2>1. Has(entries, entries[i].name) /\ Find(entries, entries[i].name) = entries[i]
    BY <1>0, <1>2, <1>5, FindAt
  <2>2. Has(entries, d.fields[i].name) /\ Find(entries, d.fields[i].name).value = w[i]
    BY <1>4, <2>1
  <2>. QED
    BY <2>2 DEF FindOr
<1>. QED
  BY <1>1, <1>6 DEF Arity, NameAt, HasEntry, EntryOf, EntryOr, At

LEMMA MadeListFacts ==
  ASSUME NEW n \in Nat, NEW w
  PROVE  /\ MadeList(n, w).kind = "list" /\ Count(MadeList(n, w)) = n
         /\ \A i \in 1 .. n : ItemAt(MadeList(n, w), i) = At(w, i)
<1>1. MadeList(n, w).kind = "list" /\ MadeList(n, w).items = [i \in 1 .. n |-> w[i]]
  BY DEF MadeList, ListValue
<1>2. Len([i \in 1 .. n |-> w[i]]) = n
  OBVIOUS
<1>. QED
  BY <1>1, <1>2 DEF Count, ItemAt, At

LEMMA MadeEqual ==
  ASSUME NEW d \in Structs, NEW w, NEW x, \A i \in 1 .. Arity(d) : At(w, i) = At(x, i)
  PROVE  Made(d, w) = Made(d, x)
<1>1. \A i \in 1 .. Len(d.fields) : w[i] = x[i]
  BY DEF Arity, At
<1>2. [i \in 1 .. Len(d.fields) |-> Entry(d.fields[i].name, w[i])]
        = [i \in 1 .. Len(d.fields) |-> Entry(d.fields[i].name, x[i])]
  BY <1>1
<1>. QED
  BY <1>2 DEF Made

LEMMA MadeListEqual ==
  ASSUME NEW m \in Nat, NEW w, NEW x, \A i \in 1 .. m : At(w, i) = At(x, i)
  PROVE  MadeList(m, w) = MadeList(m, x)
<1>1. [i \in 1 .. m |-> w[i]] = [i \in 1 .. m |-> x[i]]
  BY DEF At
<1>. QED
  BY <1>1 DEF MadeList

----------------------------------------------------------------------------
(* A value fits a dtype if it nests no deeper.                             *)

Fits(v, d) == \A n \in 0 .. MaxDepth : d \in DtypesTo[n] => v \in ValuesTo[n]

LEMMA FitsValue ==
  ASSUME NEW d \in Dtype, NEW v, Fits(v, d)
  PROVE  v \in Value
BY MaxDepthIsNatural DEF Fits, Dtype, Value

LEMMA FitsScalar ==
  ASSUME NEW d, NEW v \in {Null} \cup ScalarValues
  PROVE  Fits(v, d)
<1>. SUFFICES ASSUME NEW n \in 0 .. MaxDepth PROVE v \in ValuesTo[n]
  BY DEF Fits
<1>1. CASE n = 0
  BY <1>1, ValuesToZero
<1>2. CASE n # 0
  <2>1. n \in 1 .. MaxDepth
    BY <1>2
  <2>. QED
    BY <2>1, ValuesToNext DEF ValuesOver
<1>. QED
  BY <1>1, <1>2

LEMMA FitsList ==
  ASSUME NEW d \in Lists, NEW m \in Nat, NEW w,
         \A i \in 1 .. m : Fits(At(w, i), Inner(d))
  PROVE  Fits(MadeList(m, w), d)
<1>. SUFFICES ASSUME NEW n \in 0 .. MaxDepth, d \in DtypesTo[n]
              PROVE  MadeList(m, w) \in ValuesTo[n]
  BY DEF Fits
<1>1. d \in Dtype /\ Inner(d) \in PartsOf(d)
  BY ListFacts
<1>2. n # 0 /\ n \in 1 .. MaxDepth /\ n - 1 \in 0 .. MaxDepth /\ Inner(d) \in DtypesTo[n - 1]
  BY <1>1, DtypeToShape, MaxDepthIsNatural
<1>3. \A i \in 1 .. m : w[i] \in ValuesTo[n - 1]
  BY <1>2 DEF Fits, At
<1>4. [i \in 1 .. m |-> w[i]] \in Seq(ValuesTo[n - 1])
  <2>. DEFINE T == ValuesTo[n - 1]
              items == [i \in 1 .. m |-> w[i]]
  <2>1. items = [i \in 1 .. m |-> items[i]] /\ \A i \in 1 .. m : items[i] \in T
    BY <1>3
  <2>. HIDE DEF T, items
  <2>2. items \in Seq(T)
    BY <2>1, SequenceOf
  <2>. QED
    BY <2>2 DEF T, items
<1>5. MadeList(m, w) \in [kind : {"list"}, items : Seq(ValuesTo[n - 1])]
  BY <1>4 DEF MadeList, ListValue
<1>. QED
  BY <1>2, <1>5, ValuesToNext DEF ValuesOver

LEMMA FitsMap ==
  ASSUME NEW d \in Structs, NEW w,
         \A i \in 1 .. Arity(d) : Fits(At(w, i), PartAt(d, i))
  PROVE  Fits(Made(d, w), d)
<1>. DEFINE entries == [i \in 1 .. Len(d.fields) |-> Entry(d.fields[i].name, w[i])]
<1>. SUFFICES ASSUME NEW n \in 0 .. MaxDepth, d \in DtypesTo[n]
              PROVE  MapValue(entries) \in ValuesTo[n]
  BY DEF Fits, Made
<1>0. /\ d \in Dtype /\ d.type = "struct"
      /\ Len(d.fields) \in Nat /\ NamesDiffer(d.fields)
      /\ \A i \in 1 .. Len(d.fields) : d.fields[i].name \in STRING
  BY DtypeShape DEF Structs
<1>1. CASE n = 0
  <2>1. d \in [type : ScalarTypes]
    BY <1>1, DtypesToZero
  <2>. QED
    BY <1>0, <2>1, ScalarTypesAre
<1>2. CASE n # 0
  <2>1. n \in 1 .. MaxDepth /\ n - 1 \in 0 .. MaxDepth /\ PartsOf(d) \subseteq DtypesTo[n - 1]
    BY <1>2, DtypeToShape, MaxDepthIsNatural
  <2>2. \A i \in 1 .. Len(d.fields) : w[i] \in ValuesTo[n - 1]
    <3>1. \A i \in 1 .. Arity(d) : At(w, i) \in ValuesTo[n - 1]
      BY <2>1, StructFacts DEF Fits
    <3>. QED
      BY <3>1 DEF Arity, At
  <2>3. \A i \in 1 .. Len(d.fields) : entries[i] \in [name : STRING, value : ValuesTo[n - 1]]
    BY <1>0, <2>2 DEF Entry
  <2>4. Len(entries) = Len(d.fields) /\ entries = [i \in 1 .. Len(d.fields) |-> entries[i]]
    BY <1>0
  <2>5. \A i \in 1 .. Len(d.fields) : entries[i].name = d.fields[i].name
    BY DEF Entry
  <2>. HIDE DEF entries
  <2>6. entries \in Seq([name : STRING, value : ValuesTo[n - 1]])
    <3>. DEFINE T == [name : STRING, value : ValuesTo[n - 1]]
    <3>. HIDE DEF T
    <3>1. \A i \in 1 .. Len(d.fields) : entries[i] \in T
      BY <2>3 DEF T
    <3>2. entries \in Seq(T)
      BY <1>0, <2>4, <3>1, SequenceOf
    <3>. QED
      BY <3>2 DEF T
  <2>7. NamesDiffer(entries)
    BY <1>0, <2>4, <2>5 DEF NamesDiffer
  <2>8. MapValue(entries) \in MapsOver(ValuesTo[n - 1])
    BY <2>6, <2>7 DEF MapValue, MapsOver
  <2>. QED
    BY <2>1, <2>8, ValuesToNext DEF ValuesOver
<1>. QED
  BY <1>1, <1>2

----------------------------------------------------------------------------
(* The recursive functions in that vocabulary.                             *)

LEMMA AcceptsStruct ==
  ASSUME NEW way \in Ways, NEW d \in Structs, NEW v
  PROVE  v \in Accepts(way, d) <=>
           /\ v \in Maps
           /\ \A i \in 1 .. Arity(d) :
                HasEntry(v, NameAt(d, i)) => EntryOf(v, NameAt(d, i)) \in Accepts(way, PartAt(d, i))
<1>1. d \in Dtype /\ d.type = "struct"
  BY DEF Structs
<1>. QED
  BY <1>1, DecodableDef DEF Accepts, Maps, Arity, HasEntry, EntryOf, NameAt, PartAt

LEMMA AcceptsList ==
  ASSUME NEW way \in Ways, NEW d \in Lists, NEW v
  PROVE  v \in Accepts(way, d) <=>
           v \in ListValues
           /\ \A i \in 1 .. Count(v) : ItemAt(v, i) \in Accepts(InList(way), Inner(d))
<1>1. d \in Dtype /\ d.type = "list"
  BY DEF Lists
<1>. QED
  BY <1>1, DecodableDef DEF Accepts, ListValues, Count, ItemAt, Inner

LEMMA AcceptsScalar ==
  ASSUME NEW way \in Ways, NEW d \in Scalars, NEW v
  PROVE  v \in Accepts(way, d) <=> v \in Value /\ AcceptsAsScalar(way, v, d.type)
BY ScalarFacts, DecodableDef DEF Accepts

LEMMA AcceptedIsValue ==
  ASSUME NEW way \in Ways, NEW d \in Dtype, NEW v \in Accepts(way, d)
  PROVE  v \in Value
BY DecodableDef DEF Accepts

LEMMA ValidScalarIsScalar ==
  ASSUME NEW v \in Value, NEW type \in ScalarTypes, ValidScalar(v, type)
  PROVE  v \in ScalarValues /\ v.bits \in Int
<1>1. v.kind \in ScalarTypes
  BY DEF ValidScalar, ScalarTypes
<1>2. v \in ScalarValues
  BY <1>1, ValueShape
<1>. QED
  BY <1>2 DEF ScalarValues

LEMMA InListIsWay == \A way \in Ways : InList(way) \in Ways /\ (way # "leaves" => InList(way) = way)
BY DEF Ways, InList

(* What a scalar is decoded to is of the dtype, whoever decodes it.        *)
LEMMA ScalarsAreValid ==
  ASSUME NEW way \in Ways, NEW v \in Value, NEW type \in ScalarTypes, AcceptsAsScalar(way, v, type)
  PROVE  /\ v \in ScalarValues
         /\ AsScalar(way, v, type) \in ScalarValues /\ AsScalar(way, v, type) \in Value
         /\ ValidScalar(AsScalar(way, v, type), type)
<1>1. CASE way = "seed"
  BY <1>1, ValidScalarIsScalar DEF AcceptsAsScalar, AsScalar
<1>2. CASE way # "seed"
  <2>. DEFINE c == Converted(v, type)
  <2>1. v.kind \in KindsReadAs(type)
    BY <1>2 DEF AcceptsAsScalar, Reads
  <2>2. v.kind \in ScalarTypes
    BY <2>1 DEF KindsReadAs, IntegerTypes, Types128, FloatTypes, ScalarTypes
  <2>3. v \in ScalarValues /\ v.bits \in Int
    <3>1. v \in ScalarValues
      BY <2>2, ValueShape
    <3>. QED
      BY <3>1 DEF ScalarValues
  <2>4. c.kind = type /\ c.bits \in Int /\ c \in ScalarValues
    BY <2>3 DEF Converted, Leaf, Rounded, Significand, FloatTypes, ScalarValues
  <2>5. type \in IntegerTypes => c.bits = v.bits
    BY DEF Converted, Leaf, FloatTypes, IntegerTypes, UnsignedBits, SignedBits
  <2>6. type \in IntegerTypes => FitsInteger(v.bits, type)
    BY <1>2 DEF AcceptsAsScalar, Reads
  <2>. HIDE DEF c
  <2>7. ValidScalar(c, type)
    BY <2>4, <2>5, <2>6 DEF ValidScalar, IntegerTypes
  <2>8. AsScalar(way, v, type) = c
    BY <1>2 DEF AsScalar, c
  <2>. QED
    BY <2>3, <2>4, <2>7, <2>8, NullIsAValue
<1>. QED
  BY <1>1, <1>2

(* What each field of a Struct gets.                                       *)
YieldsAt(way, d, v, i) ==
  IF HasEntry(v, NameAt(d, i)) THEN Yields(way, PartAt(d, i), EntryOf(v, NameAt(d, i)))
  ELSE DefaultOf(PartAt(d, i))

LEMMA YieldsStruct ==
  ASSUME NEW way \in Ways, NEW d \in Structs, NEW v \in Accepts(way, d)
  PROVE  \E w : /\ Yields(way, d, v) = Made(d, w)
                /\ \A i \in 1 .. Arity(d) : At(w, i) = YieldsAt(way, d, v, i)
<1>. DEFINE Part(u, i) ==
              IF Has(u.entries, d.fields[i].name)
              THEN Decoded[d.fields[i].dtype][way][Find(u.entries, d.fields[i].name).value]
              ELSE DefaultValue[d.fields[i].dtype]
            w == [i \in 1 .. Len(d.fields) |-> Part(v, i)]
<1>1. d \in Dtype /\ d.type = "struct" /\ v \in Decodable[d][way]
  BY DEF Structs, Accepts
<1>2. Decoded[d][way] = [u \in Decodable[d][way] |->
                      MapValue([i \in 1 .. Len(d.fields) |-> Entry(d.fields[i].name, Part(u, i))])]
  BY <1>1, DecodedDef
<1>3. \A i \in 1 .. Len(d.fields) : Part(v, i) = YieldsAt(way, d, v, i)
  BY DEF YieldsAt, HasEntry, EntryOf, NameAt, PartAt, Yields, DefaultOf
<1>. HIDE DEF Part
<1>4. Decoded[d][way][v] = MapValue([i \in 1 .. Len(d.fields) |-> Entry(d.fields[i].name,
                                                                        Part(v, i))])
  BY <1>1, <1>2
<1>5. [i \in 1 .. Len(d.fields) |-> Entry(d.fields[i].name, Part(v, i))]
        = [i \in 1 .. Len(d.fields) |-> Entry(d.fields[i].name, w[i])]
  OBVIOUS
<1>6. Yields(way, d, v) = Made(d, w)
  BY <1>4, <1>5 DEF Yields, Made
<1>7. \A i \in 1 .. Arity(d) : At(w, i) = YieldsAt(way, d, v, i)
  BY <1>3 DEF At, Arity
<1>. HIDE DEF w
<1>. QED
  BY <1>6, <1>7

LEMMA YieldsList ==
  ASSUME NEW way \in Ways, NEW d \in Lists, NEW v \in Accepts(way, d)
  PROVE  \E w : /\ Yields(way, d, v) = MadeList(Count(v), w)
                /\ \A i \in 1 .. Count(v) : At(w, i) = Yields(InList(way), Inner(d), ItemAt(v, i))
<1>. DEFINE List(u) == ListValue([i \in 1 .. Len(u.items) |-> Decoded[d.inner][InList(way)][u.items[i]]])
            w == [i \in 1 .. Len(v.items) |-> Decoded[d.inner][InList(way)][v.items[i]]]
<1>1. d \in Dtype /\ d.type = "list" /\ v \in Decodable[d][way]
  BY DEF Lists, Accepts
<1>2. Decoded[d][way] = [u \in Decodable[d][way] |-> List(u)]
  BY <1>1, DecodedDef
<1>3. Decoded[d][way][v] = List(v)
  <2>. HIDE DEF List
  <2>. QED
    BY <1>1, <1>2
<1>4. w = [i \in 1 .. Len(v.items) |-> w[i]]
  OBVIOUS
<1>5. Yields(way, d, v) = MadeList(Count(v), w)
  BY <1>3, <1>4 DEF Yields, MadeList, Count
<1>6. \A i \in 1 .. Count(v) : At(w, i) = Yields(InList(way), Inner(d), ItemAt(v, i))
  BY DEF Count, At, Yields, Inner, ItemAt
<1>. HIDE DEF w
<1>. QED
  BY <1>5, <1>6

LEMMA YieldsScalar ==
  ASSUME NEW way \in Ways, NEW d \in Scalars, NEW v \in Accepts(way, d)
  PROVE  Yields(way, d, v) = AsScalar(way, v, d.type)
<1>. DEFINE Map(u) == MapValue([i \in 1 .. Len(d.fields) |->
                        LET field == d.fields[i]
                        IN  Entry(field.name,
                                  IF Has(u.entries, field.name)
                                  THEN Decoded[field.dtype][way][Find(u.entries, field.name).value]
                                  ELSE DefaultValue[field.dtype])])
            List(u) == ListValue([i \in 1 .. Len(u.items) |-> Decoded[d.inner][InList(way)][u.items[i]]])
<1>1. Decoded[d][way] = [u \in Decodable[d][way] |->
                      CASE d.type = "struct" -> Map(u) [] d.type = "list" -> List(u)
                      [] OTHER -> AsScalar(way, u, d.type)]
  BY ScalarFacts, DecodedDef
<1>. HIDE DEF Map, List
<1>2. Decoded[d][way] = [u \in Decodable[d][way] |-> AsScalar(way, u, d.type)]
  BY <1>1, ScalarFacts
<1>. QED
  BY <1>2 DEF Accepts, Yields

LEMMA DefaultStruct ==
  ASSUME NEW d \in Structs
  PROVE  \E w : /\ DefaultOf(d) = Made(d, w)
                /\ \A i \in 1 .. Arity(d) : At(w, i) = DefaultOf(PartAt(d, i))
<1>. DEFINE w == [i \in 1 .. Len(d.fields) |-> DefaultValue[d.fields[i].dtype]]
<1>1. d \in Dtype /\ d.type = "struct"
  BY DEF Structs
<1>2. DefaultValue[d] = MapValue([i \in 1 .. Len(d.fields) |->
                                    Entry(d.fields[i].name, DefaultValue[d.fields[i].dtype])])
  BY <1>1, DefaultValueDef
<1>3. [i \in 1 .. Len(d.fields) |-> Entry(d.fields[i].name, DefaultValue[d.fields[i].dtype])]
        = [i \in 1 .. Len(d.fields) |-> Entry(d.fields[i].name, w[i])]
  OBVIOUS
<1>4. DefaultOf(d) = Made(d, w)
  BY <1>2, <1>3 DEF DefaultOf, Made
<1>5. \A i \in 1 .. Arity(d) : At(w, i) = DefaultOf(PartAt(d, i))
  BY DEF Arity, At, DefaultOf, PartAt
<1>. HIDE DEF w
<1>. QED
  BY <1>4, <1>5

LEMMA DefaultList ==
  ASSUME NEW d \in Lists
  PROVE  \E w : DefaultOf(d) = MadeList(0, w)
<1>1. d \in Dtype /\ d.type = "list"
  BY DEF Lists
<1>2. DefaultValue[d] = ListValue(<<>>)
  BY <1>1, DefaultValueDef
<1>3. <<>> = [i \in 1 .. 0 |-> <<>>[i]]
  OBVIOUS
<1>4. DefaultOf(d) = MadeList(0, <<>>)
  BY <1>2, <1>3 DEF DefaultOf, MadeList
<1>. QED
  BY <1>4

LEMMA DefaultScalar ==
  ASSUME NEW d \in Scalars
  PROVE  DefaultOf(d) = Null
BY ScalarFacts, DefaultValueDef DEF DefaultOf

LEMMA BuildsStruct ==
  ASSUME NEW d \in Structs, NEW v
  PROVE  v \in Builds(d) <=>
           \/ v = None \/ v = Null
           \/ /\ v \in Maps
              /\ \A i \in 1 .. Arity(d) :
                   EntryOr(v, NameAt(d, i), DefaultOf(PartAt(d, i))) \in Builds(PartAt(d, i))
<1>1. d \in Dtype /\ d.type = "struct"
  BY DEF Structs
<1>. QED
  BY <1>1, BuildableDef DEF Builds, Maps, Arity, EntryOr, NameAt, PartAt, DefaultOf

LEMMA BuildsList ==
  ASSUME NEW d \in Lists, NEW v
  PROVE  v \in Builds(d) <=>
           \/ v = None \/ v = Null
           \/ v \in ListValues /\ \A i \in 1 .. Count(v) : ItemAt(v, i) \in Builds(Inner(d))
<1>1. d \in Dtype /\ d.type = "list"
  BY DEF Lists
<1>. QED
  BY <1>1, BuildableDef DEF Builds, ListValues, Count, ItemAt, Inner

LEMMA BuildsScalar ==
  ASSUME NEW d \in Scalars, NEW v
  PROVE  v \in Builds(d) <=> v = None \/ v = Null \/ (v \in Value /\ ValidScalar(v, d.type))
BY ScalarFacts, BuildableDef DEF Builds

LEMMA CellNull ==
  ASSUME NEW d \in Dtype
  PROVE  /\ None \in Builds(d) /\ Null \in Builds(d)
         /\ CellOf(d, Null) = Null /\ CellOf(d, None) = Null
<1>1. None \in Buildable[d] /\ Null \in Buildable[d]
  BY BuildableDef
<1>. QED
  BY <1>1, CellDef DEF Builds, CellOf

LEMMA CellStruct ==
  ASSUME NEW d \in Structs, NEW v \in Builds(d), v # None, v # Null
  PROVE  \E w : /\ CellOf(d, v) = Made(d, w)
                /\ \A i \in 1 .. Arity(d) :
                     At(w, i) = CellOf(PartAt(d, i),
                                       EntryOr(v, NameAt(d, i), DefaultOf(PartAt(d, i))))
<1>. DEFINE Part(u, i) == Cell[d.fields[i].dtype]
                            [FindOr(u.entries, d.fields[i].name, DefaultValue[d.fields[i].dtype])]
            Map(u) == MapValue([i \in 1 .. Len(d.fields) |-> Entry(d.fields[i].name, Part(u, i))])
            w == [i \in 1 .. Len(d.fields) |-> Part(v, i)]
<1>1. d \in Dtype /\ d.type = "struct" /\ v \in Buildable[d]
  BY DEF Structs, Builds
<1>2. Cell[d] = [u \in Buildable[d] |-> IF u \in {None, Null} THEN Null ELSE Map(u)]
  BY <1>1, CellDef
<1>3. \A i \in 1 .. Len(d.fields) :
        Part(v, i) = CellOf(PartAt(d, i), EntryOr(v, NameAt(d, i), DefaultOf(PartAt(d, i))))
  BY DEF CellOf, PartAt, EntryOr, NameAt, DefaultOf
<1>. HIDE DEF Part
<1>4. Cell[d][v] = Map(v)
  <2>. HIDE DEF Map
  <2>. QED
    BY <1>1, <1>2
<1>5. [i \in 1 .. Len(d.fields) |-> Entry(d.fields[i].name, Part(v, i))]
        = [i \in 1 .. Len(d.fields) |-> Entry(d.fields[i].name, w[i])]
  OBVIOUS
<1>6. CellOf(d, v) = Made(d, w)
  BY <1>4, <1>5 DEF CellOf, Made
<1>7. \A i \in 1 .. Arity(d) :
        At(w, i) = CellOf(PartAt(d, i), EntryOr(v, NameAt(d, i), DefaultOf(PartAt(d, i))))
  BY <1>3 DEF At, Arity
<1>. HIDE DEF w
<1>. QED
  BY <1>6, <1>7

LEMMA CellList ==
  ASSUME NEW d \in Lists, NEW v \in Builds(d), v # None, v # Null
  PROVE  \E w : /\ CellOf(d, v) = MadeList(Count(v), w)
                /\ \A i \in 1 .. Count(v) : At(w, i) = CellOf(Inner(d), ItemAt(v, i))
<1>. DEFINE List(u) == ListValue([i \in 1 .. Len(u.items) |-> Cell[d.inner][u.items[i]]])
            w == [i \in 1 .. Len(v.items) |-> Cell[d.inner][v.items[i]]]
<1>1. d \in Dtype /\ d.type = "list" /\ v \in Buildable[d]
  BY DEF Lists, Builds
<1>2. Cell[d] = [u \in Buildable[d] |-> IF u \in {None, Null} THEN Null ELSE List(u)]
  BY <1>1, CellDef
<1>3. Cell[d][v] = List(v)
  <2>. HIDE DEF List
  <2>. QED
    BY <1>1, <1>2
<1>4. w = [i \in 1 .. Len(v.items) |-> w[i]]
  OBVIOUS
<1>5. CellOf(d, v) = MadeList(Count(v), w)
  BY <1>3, <1>4 DEF CellOf, MadeList, Count
<1>6. \A i \in 1 .. Count(v) : At(w, i) = CellOf(Inner(d), ItemAt(v, i))
  BY DEF Count, At, CellOf, Inner, ItemAt
<1>. HIDE DEF w
<1>. QED
  BY <1>5, <1>6

LEMMA CellScalar ==
  ASSUME NEW d \in Scalars, NEW v \in Builds(d), v # None, v # Null
  PROVE  CellOf(d, v) = Leaf(d.type, v.bits)
<1>. DEFINE Map(u) == MapValue([i \in 1 .. Len(d.fields) |->
                        LET field == d.fields[i]
                        IN  Entry(field.name,
                                  Cell[field.dtype][FindOr(u.entries, field.name,
                                                           DefaultValue[field.dtype])])])
            List(u) == ListValue([i \in 1 .. Len(u.items) |-> Cell[d.inner][u.items[i]]])
            Scal(u) == Leaf(d.type, u.bits)
<1>1. Cell[d] = [u \in Buildable[d] |->
                   IF u \in {None, Null} THEN Null
                   ELSE CASE d.type = "struct" -> Map(u) [] d.type = "list" -> List(u) [] OTHER -> Scal(u)]
  BY ScalarFacts, CellDef
<1>2. CellOf(d, v) = Scal(v)
  <2>. HIDE DEF Map, List, Scal
  <2>. QED
    BY <1>1, ScalarFacts DEF Builds, CellOf
<1>. QED
  BY <1>2

----------------------------------------------------------------------------
(* Decoded values and the cells they become.                               *)

(* The values that stand where the data may be of a dtype: those decoded,  *)
(* and the default.                                                        *)
FullValues(way, d) == {DefaultOf(d)} \cup {Yields(way, d, v) : v \in Accepts(way, d)}

LEMMA FullStruct ==
  ASSUME NEW way \in Ways, NEW d \in Structs, NEW full \in FullValues(way, d)
  PROVE  \E w : /\ full = Made(d, w)
                /\ \A i \in 1 .. Arity(d) : At(w, i) \in FullValues(way, PartAt(d, i))
<1>1. CASE full = DefaultOf(d)
  <2>1. PICK w : /\ DefaultOf(d) = Made(d, w)
                 /\ \A i \in 1 .. Arity(d) : At(w, i) = DefaultOf(PartAt(d, i))
    BY DefaultStruct
  <2>. QED
    BY <1>1, <2>1 DEF FullValues
<1>2. ASSUME NEW v \in Accepts(way, d), full = Yields(way, d, v)
      PROVE  \E w : /\ full = Made(d, w)
                    /\ \A i \in 1 .. Arity(d) : At(w, i) \in FullValues(way, PartAt(d, i))
  <2>1. PICK w : /\ Yields(way, d, v) = Made(d, w)
                 /\ \A i \in 1 .. Arity(d) : At(w, i) = YieldsAt(way, d, v, i)
    BY YieldsStruct
  <2>2. \A i \in 1 .. Arity(d) : YieldsAt(way, d, v, i) \in FullValues(way, PartAt(d, i))
    BY AcceptsStruct DEF YieldsAt, FullValues
  <2>. QED
    BY <1>2, <2>1, <2>2
<1>. QED
  BY <1>1, <1>2 DEF FullValues

LEMMA FullList ==
  ASSUME NEW way \in Ways, NEW d \in Lists, NEW full \in FullValues(way, d)
  PROVE  \E m, w : /\ m \in Nat /\ full = MadeList(m, w)
                   /\ \A i \in 1 .. m : At(w, i) \in FullValues(InList(way), Inner(d))
<1>1. CASE full = DefaultOf(d)
  <2>1. PICK w : full = MadeList(0, w)
    BY <1>1, DefaultList
  <2>2. \A i \in 1 .. 0 : At(w, i) \in FullValues(InList(way), Inner(d))
    OBVIOUS
  <2>. QED
    BY <2>1, <2>2
<1>2. ASSUME NEW v \in Accepts(way, d), full = Yields(way, d, v)
      PROVE  \E m, w : /\ m \in Nat /\ full = MadeList(m, w)
                       /\ \A i \in 1 .. m : At(w, i) \in FullValues(InList(way), Inner(d))
  <2>1. PICK w : /\ Yields(way, d, v) = MadeList(Count(v), w)
                 /\ \A i \in 1 .. Count(v) : At(w, i) = Yields(InList(way), Inner(d), ItemAt(v, i))
    BY YieldsList
  <2>2. v \in ListValues /\ \A i \in 1 .. Count(v) : ItemAt(v, i) \in Accepts(InList(way), Inner(d))
    BY AcceptsList
  <2>3. Count(v) \in Nat
    BY <2>2, ListValueFacts
  <2>4. \A i \in 1 .. Count(v) : At(w, i) \in FullValues(InList(way), Inner(d))
    BY <2>1, <2>2 DEF FullValues
  <2>. QED
    BY <1>2, <2>1, <2>3, <2>4
<1>. QED
  BY <1>1, <1>2 DEF FullValues

LEMMA FullScalar ==
  ASSUME NEW way \in Ways, NEW d \in Scalars, NEW full \in FullValues(way, d)
  PROVE  full = Null \/ (full \in ScalarValues /\ full \in Value /\ ValidScalar(full, d.type))
<1>1. ASSUME NEW v \in Accepts(way, d)
      PROVE  Yields(way, d, v) \in ScalarValues /\ Yields(way, d, v) \in Value
      /\ ValidScalar(Yields(way, d, v), d.type)
  <2>1. Yields(way, d, v) = AsScalar(way, v, d.type) /\ v \in Value /\ AcceptsAsScalar(way, v, d.type)
    BY YieldsScalar, AcceptsScalar
  <2>. QED
    BY <2>1, ScalarFacts, ScalarsAreValid
<1>. QED
  BY <1>1, DefaultScalar DEF FullValues

(* A value that was decoded, or is a default, can be built into a column.  *)
THEOREM FullIsBuildable ==
  ASSUME NEW way \in Ways, NEW dtype \in Dtype, NEW value \in FullValues(way, dtype)
  PROVE  value \in Builds(dtype) /\ Fits(value, dtype) /\ value \in Value
<1>. DEFINE S == {d \in Dtype : \A x \in Ways : \A full \in FullValues(x,
                                                                       d) : full \in Builds(d)
                  /\ Fits(full, d)}
<1>1. ASSUME NEW x \in Ways, NEW d \in Structs, \A i \in 1 .. Arity(d) : PartAt(d, i) \in S,
             NEW full \in FullValues(x, d)
      PROVE  full \in Builds(d) /\ Fits(full, d)
  <2>1. PICK w : /\ full = Made(d, w)
                 /\ \A i \in 1 .. Arity(d) : At(w, i) \in FullValues(x, PartAt(d, i))
    BY FullStruct
  <2>2. \A i \in 1 .. Arity(d) : At(w, i) \in Builds(PartAt(d, i)) /\ Fits(At(w, i), PartAt(d, i))
    BY <1>1, <2>1
  <2>. HIDE DEF S
  <2>3. Fits(full, d)
    BY <2>1, <2>2, FitsMap
  <2>4. full \in Maps
    BY <2>1, <2>3, FitsValue, StructFacts, MadeFacts DEF Maps
  <2>5. \A i \in 1 .. Arity(d) : \A y : EntryOr(full, NameAt(d, i), y) = At(w, i)
    BY <2>1, MadeFacts
  <2>. QED
    BY <2>2, <2>3, <2>4, <2>5, BuildsStruct
<1>2. ASSUME NEW x \in Ways, NEW d \in Lists, Inner(d) \in S, NEW full \in FullValues(x, d)
      PROVE  full \in Builds(d) /\ Fits(full, d)
  <2>1. PICK m, w : /\ m \in Nat /\ full = MadeList(m, w)
                    /\ \A i \in 1 .. m : At(w, i) \in FullValues(InList(x), Inner(d))
    BY FullList
  <2>2. \A i \in 1 .. m : At(w, i) \in Builds(Inner(d)) /\ Fits(At(w, i), Inner(d))
    BY <1>2, <2>1, InListIsWay
  <2>. HIDE DEF S
  <2>3. Fits(full, d)
    BY <2>1, <2>2, FitsList
  <2>4. full \in ListValues
    BY <2>1, <2>3, FitsValue, ListFacts, MadeListFacts DEF ListValues
  <2>5. Count(full) = m /\ \A i \in 1 .. m : ItemAt(full, i) = At(w, i)
    BY <2>1, MadeListFacts
  <2>. QED
    BY <2>2, <2>3, <2>4, <2>5, BuildsList
<1>3. ASSUME NEW x \in Ways, NEW d \in Scalars, NEW full \in FullValues(x, d)
      PROVE  full \in Builds(d) /\ Fits(full, d)
  <2>1. full = Null \/ (full \in ScalarValues /\ full \in Value /\ ValidScalar(full, d.type))
    BY FullScalar
  <2>. QED
    BY <2>1, FitsScalar, BuildsScalar
<1>4. Dtype \subseteq S
  <2>1. /\ \A d \in Structs : (\A i \in 1 .. Arity(d) : PartAt(d, i) \in S) => d \in S
        /\ \A d \in Lists : Inner(d) \in S => d \in S
        /\ \A d \in Scalars : d \in S
    BY <1>1, <1>2, <1>3, StructFacts, ListFacts, ScalarFacts
  <2>. HIDE DEF S
  <2>. QED
    BY <2>1, InductionOnDtypes
<1>. QED
  BY <1>4, FitsValue

(* Data that keeps to a dtype is accepted by every decoder, and becomes    *)
(* the same cell.                                                          *)
LEMMA KeptIs == \A d : KeepingTo(d) = Accepts("seed", d) \cap Accepts("struct", d)
BY DEF KeepingTo, Accepts

LEMMA ScalarsAgree ==
  ASSUME NEW d \in Scalars, NEW way \in Ways, NEW v \in KeepingTo(d)
  PROVE  v \in Accepts(way, d) /\ CellOf(d, Yields(way, d, v)) = Leaf(d.type, v.bits)
<1>. DEFINE y == Yields(way, d, v)
<1>1. d \in Dtype /\ d.type \in ScalarTypes
  BY ScalarFacts
<1>2. v \in Value /\ AcceptsAsScalar("seed", v, d.type) /\ AcceptsAsScalar("struct", v, d.type)
  BY KeptIs, AcceptsScalar DEF Ways
<1>3. ValidScalar(v, d.type) /\ Reads(v, d.type)
  BY <1>2 DEF AcceptsAsScalar
<1>4. v \in Accepts(way, d)
  BY <1>2, <1>3, AcceptsScalar DEF AcceptsAsScalar
<1>5. y = AsScalar(way, v, d.type)
  BY <1>4, YieldsScalar
<1>6. AcceptsAsScalar(way, v, d.type)
  BY <1>3 DEF AcceptsAsScalar
<1>7. y.bits = v.bits
  <2>1. d.type \in FloatTypes => v.kind \in {d.type, "float32"}
    BY <1>3 DEF ValidScalar, FloatTypes, UnsignedBits, SignedBits
  <2>2. Converted(v, d.type).bits = v.bits
    BY <2>1 DEF Converted, Leaf
  <2>. QED
    BY <1>5, <2>2 DEF AsScalar
<1>8. y \in Builds(d)
  BY <1>1, <1>4, FullIsBuildable DEF FullValues
<1>9. y # None /\ y # Null
  <2>1. y \in ScalarValues
    BY <1>1, <1>2, <1>5, <1>6, ScalarsAreValid
  <2>2. y.kind \in ScalarTypes /\ "null" \notin ScalarTypes /\ "none" \notin ScalarTypes
    BY <2>1, ScalarTypesAre DEF ScalarValues
  <2>. QED
    BY <2>2 DEF None, Null
<1>10. CellOf(d, y) = Leaf(d.type, y.bits)
  <2>. HIDE DEF y
  <2>. QED
    BY <1>8, <1>9, CellScalar
<1>. QED
  BY <1>4, <1>7, <1>10

(* The cell of what a struct or a list yields is made of those of what its *)
(* parts yield.                                                            *)
LEMMA CellOfStruct ==
  ASSUME NEW way \in Ways, NEW d \in Structs, NEW v \in Accepts(way, d)
  PROVE  \E w : /\ CellOf(d, Yields(way, d, v)) = Made(d, w)
                /\ \A i \in 1 .. Arity(d) : At(w, i) = CellOf(PartAt(d, i), YieldsAt(way, d, v, i))
<1>1. PICK x : /\ Yields(way, d, v) = Made(d, x)
               /\ \A i \in 1 .. Arity(d) : At(x, i) = YieldsAt(way, d, v, i)
  BY YieldsStruct
<1>. DEFINE y == Yields(way, d, v)
<1>2. d \in Dtype /\ y \in Builds(d) /\ y \in Value
  BY StructFacts, FullIsBuildable DEF FullValues
<1>. HIDE DEF y
<1>3. y \in Maps /\ \A i \in 1 .. Arity(d) : \A z : EntryOr(y, NameAt(d, i), z) = At(x, i)
  BY <1>1, <1>2, MadeFacts DEF Maps, y
<1>4. y # None /\ y # Null
  BY <1>3, NoValues DEF Maps, Null
<1>5. PICK w : /\ CellOf(d, y) = Made(d, w)
               /\ \A i \in 1 .. Arity(d) :
                    At(w, i) = CellOf(PartAt(d, i), EntryOr(y, NameAt(d, i), DefaultOf(PartAt(d, i))))
  BY <1>2, <1>4, CellStruct
<1>6. \A i \in 1 .. Arity(d) : At(w, i) = CellOf(PartAt(d, i), YieldsAt(way, d, v, i))
  BY <1>1, <1>3, <1>5
<1>. QED
  BY <1>5, <1>6 DEF y

LEMMA CellOfList ==
  ASSUME NEW way \in Ways, NEW d \in Lists, NEW v \in Accepts(way, d)
  PROVE  \E w : /\ CellOf(d, Yields(way, d, v)) = MadeList(Count(v), w)
                /\ \A i \in 1 .. Count(v) :
                     At(w, i) = CellOf(Inner(d), Yields(InList(way), Inner(d), ItemAt(v, i)))
<1>1. PICK x : /\ Yields(way, d, v) = MadeList(Count(v), x)
               /\ \A i \in 1 .. Count(v) : At(x, i) = Yields(InList(way), Inner(d), ItemAt(v, i))
  BY YieldsList
<1>. DEFINE y == Yields(way, d, v)
<1>2. d \in Dtype /\ y \in Builds(d) /\ y \in Value
  BY ListFacts, FullIsBuildable DEF FullValues
<1>3. v \in ListValues /\ Count(v) \in Nat
  BY AcceptsList, ListValueFacts
<1>. HIDE DEF y
<1>4. /\ y \in ListValues /\ Count(y) = Count(v)
      /\ \A i \in 1 .. Count(v) : ItemAt(y, i) = At(x, i)
  BY <1>1, <1>2, <1>3, MadeListFacts DEF ListValues, y
<1>5. y # None /\ y # Null
  BY <1>4, NoValues DEF ListValues, Null
<1>6. PICK w : /\ CellOf(d, y) = MadeList(Count(y), w)
               /\ \A i \in 1 .. Count(y) : At(w, i) = CellOf(Inner(d), ItemAt(y, i))
  BY <1>2, <1>5, CellList
<1>7. \A i \in 1 .. Count(v) : At(w, i) = CellOf(Inner(d),
                                                 Yields(InList(way), Inner(d), ItemAt(v, i)))
  BY <1>1, <1>4, <1>6
<1>. QED
  BY <1>4, <1>6, <1>7 DEF y

(* Data that keeps to a dtype decodes in every way there is, and comes out *)
(* as the same cell: SchemaSeed and serde's own types differ only over the *)
(* data that one of them refuses.                                          *)
THEOREM WaysAgree ==
  ASSUME NEW way \in Ways, NEW dtype \in Dtype, NEW value \in KeepingTo(dtype)
  PROVE  /\ value \in Accepts(way, dtype)
         /\ CellOf(dtype, Yields(way, dtype, value)) = CellOf(dtype, Yields("seed", dtype, value))
<1>. DEFINE Alike(d, x, v) == /\ v \in Accepts(x, d)
                              /\ CellOf(d, Yields(x, d, v)) = CellOf(d, Yields("seed", d, v))
            S == {d \in Dtype : \A x \in Ways, v \in KeepingTo(d) : Alike(d, x, v)}
<1>0. "seed" \in Ways /\ "struct" \in Ways
  BY DEF Ways
<1>1. ASSUME NEW d \in Structs, \A i \in 1 .. Arity(d) : PartAt(d, i) \in S,
             NEW x \in Ways, NEW v \in KeepingTo(d)
      PROVE  Alike(d, x, v)
  <2>1. v \in Maps /\ v \in Accepts("seed", d)
    BY <1>0, KeptIs, AcceptsStruct
  <2>2. ASSUME NEW i \in 1 .. Arity(d), HasEntry(v, NameAt(d, i))
        PROVE  Alike(PartAt(d, i), x, EntryOf(v, NameAt(d, i)))
    <3>1. EntryOf(v, NameAt(d, i)) \in KeepingTo(PartAt(d, i))
      BY <1>0, <2>2, KeptIs, AcceptsStruct
    <3>. QED
      BY <1>1, <3>1
  <2>3. v \in Accepts(x, d)
    BY <2>1, <2>2, AcceptsStruct
  <2>4. \A i \in 1 .. Arity(d) : CellOf(PartAt(d, i), YieldsAt(x, d, v, i))
                                   = CellOf(PartAt(d, i), YieldsAt("seed", d, v, i))
    BY <2>2 DEF YieldsAt
  <2>5. PICK w : /\ CellOf(d, Yields(x, d, v)) = Made(d, w)
                 /\ \A i \in 1 .. Arity(d) : At(w, i) = CellOf(PartAt(d, i), YieldsAt(x, d, v, i))
    BY <2>3, CellOfStruct
  <2>6. PICK y : /\ CellOf(d, Yields("seed", d, v)) = Made(d, y)
                 /\ \A i \in 1 .. Arity(d) : At(y, i) = CellOf(PartAt(d, i),
                                                               YieldsAt("seed", d, v, i))
    BY <1>0, <2>1, CellOfStruct
  <2>7. \A i \in 1 .. Arity(d) : At(w, i) = At(y, i)
    BY <2>4, <2>5, <2>6
  <2>8. Made(d, w) = Made(d, y)
    BY <2>7, MadeEqual
  <2>. QED
    BY <2>3, <2>5, <2>6, <2>8
<1>2. ASSUME NEW d \in Lists, Inner(d) \in S, NEW x \in Ways, NEW v \in KeepingTo(d)
      PROVE  Alike(d, x, v)
  <2>1. /\ v \in ListValues /\ v \in Accepts("seed", d) /\ Count(v) \in Nat
        /\ InList("seed") = "seed" /\ InList("struct") = "struct" /\ InList(x) \in Ways
    BY <1>0, KeptIs, AcceptsList, InListIsWay, ListValueFacts
  <2>2. ASSUME NEW i \in 1 .. Count(v)
        PROVE  Alike(Inner(d), InList(x), ItemAt(v, i))
    <3>1. ItemAt(v, i) \in KeepingTo(Inner(d))
      BY <1>0, <2>1, KeptIs, AcceptsList
    <3>. QED
      BY <1>2, <2>1, <3>1
  <2>3. v \in Accepts(x, d)
    BY <2>1, <2>2, AcceptsList
  <2>4. PICK w : /\ CellOf(d, Yields(x, d, v)) = MadeList(Count(v), w)
                 /\ \A i \in 1 .. Count(v) :
                      At(w, i) = CellOf(Inner(d), Yields(InList(x), Inner(d), ItemAt(v, i)))
    BY <2>3, CellOfList
  <2>5. PICK y : /\ CellOf(d, Yields("seed", d, v)) = MadeList(Count(v), y)
                 /\ \A i \in 1 .. Count(v) :
                      At(y, i) = CellOf(Inner(d), Yields("seed", Inner(d), ItemAt(v, i)))
    BY <1>0, <2>1, CellOfList
  <2>6. \A i \in 1 .. Count(v) : At(w, i) = At(y, i)
    BY <2>2, <2>4, <2>5
  <2>7. MadeList(Count(v), w) = MadeList(Count(v), y)
    BY <2>1, <2>6, MadeListEqual
  <2>. QED
    BY <2>3, <2>4, <2>5, <2>7
<1>3. ASSUME NEW d \in Scalars, NEW x \in Ways, NEW v \in KeepingTo(d)
      PROVE  Alike(d, x, v)
  BY <1>0, ScalarsAgree
<1>4. Dtype \subseteq S
  <2>1. /\ \A d \in Structs : (\A i \in 1 .. Arity(d) : PartAt(d, i) \in S) => d \in S
        /\ \A d \in Lists : Inner(d) \in S => d \in S
        /\ \A d \in Scalars : d \in S
    <3>. HIDE DEF Alike
    <3>. QED
      BY <1>1, <1>2, <1>3, StructFacts, ListFacts, ScalarFacts
  <2>. HIDE DEF S
  <2>. QED
    BY <2>1, InductionOnDtypes
<1>. QED
  BY <1>4

(* A cell fits its column's dtype.                                         *)
LEMMA CellFits ==
  ASSUME NEW dtype \in Dtype, NEW value \in Builds(dtype)
  PROVE  Fits(CellOf(dtype, value), dtype) /\ CellOf(dtype, value) \in Value
<1>. DEFINE S == {d \in Dtype : \A v \in Builds(d) : Fits(CellOf(d, v), d)}
<1>1. ASSUME NEW d \in Structs, \A i \in 1 .. Arity(d) : PartAt(d, i) \in S,
             NEW v \in Builds(d), v # None, v # Null
      PROVE  Fits(CellOf(d, v), d)
  <2>1. PICK w : /\ CellOf(d, v) = Made(d, w)
                 /\ \A i \in 1 .. Arity(d) :
                      At(w, i) = CellOf(PartAt(d, i),
                                        EntryOr(v, NameAt(d, i), DefaultOf(PartAt(d, i))))
    BY <1>1, CellStruct
  <2>2. \A i \in 1 .. Arity(d) : EntryOr(v, NameAt(d, i),
                                         DefaultOf(PartAt(d, i))) \in Builds(PartAt(d, i))
    BY <1>1, BuildsStruct
  <2>3. \A i \in 1 .. Arity(d) : Fits(At(w, i), PartAt(d, i))
    BY <1>1, <2>1, <2>2
  <2>. HIDE DEF S
  <2>. QED
    BY <2>1, <2>3, FitsMap
<1>2. ASSUME NEW d \in Lists, Inner(d) \in S, NEW v \in Builds(d), v # None, v # Null
      PROVE  Fits(CellOf(d, v), d)
  <2>1. PICK w : /\ CellOf(d, v) = MadeList(Count(v), w)
                 /\ \A i \in 1 .. Count(v) : At(w, i) = CellOf(Inner(d), ItemAt(v, i))
    BY <1>2, CellList
  <2>2. v \in ListValues /\ \A i \in 1 .. Count(v) : ItemAt(v, i) \in Builds(Inner(d))
    BY <1>2, BuildsList
  <2>3. \A i \in 1 .. Count(v) : Fits(At(w, i), Inner(d))
    BY <1>2, <2>1, <2>2
  <2>4. Count(v) \in Nat
    BY <2>2, ListValueFacts
  <2>. HIDE DEF S
  <2>. QED
    BY <2>1, <2>3, <2>4, FitsList
<1>3. ASSUME NEW d \in Scalars, NEW v \in Builds(d), v # None, v # Null
      PROVE  Fits(CellOf(d, v), d)
  <2>1. CellOf(d, v) = Leaf(d.type, v.bits)
    BY <1>3, CellScalar
  <2>2. d.type \in ScalarTypes /\ v.bits \in Int
    BY <1>3, BuildsScalar, ScalarFacts, ValidScalarIsScalar
  <2>3. Leaf(d.type, v.bits) \in ScalarValues
    BY <2>2 DEF Leaf, ScalarValues
  <2>. QED
    BY <2>1, <2>3, FitsScalar
<1>4. ASSUME NEW d \in Dtype
      PROVE  Fits(CellOf(d, None), d) /\ Fits(CellOf(d, Null), d)
  BY CellNull, FitsScalar
<1>5. Dtype \subseteq S
  <2>1. /\ \A d \in Structs : (\A i \in 1 .. Arity(d) : PartAt(d, i) \in S) => d \in S
        /\ \A d \in Lists : Inner(d) \in S => d \in S
        /\ \A d \in Scalars : d \in S
    BY <1>1, <1>2, <1>3, <1>4, StructFacts, ListFacts, ScalarFacts
  <2>. HIDE DEF S
  <2>. QED
    BY <2>1, InductionOnDtypes
<1>. QED
  BY <1>5, FitsValue

(* Building a column of cells again changes nothing: values_to_series of   *)
(* what is of the column's dtype already is that.                          *)
THEOREM CellsAreFixed ==
  ASSUME NEW dtype \in Dtype, NEW value \in Builds(dtype)
  PROVE  /\ CellOf(dtype, value) \in Builds(dtype)
         /\ CellOf(dtype, CellOf(dtype, value)) = CellOf(dtype, value)
<1>. DEFINE Fixed(d, c) == c \in Builds(d) /\ CellOf(d, c) = c
            S == {d \in Dtype : \A v \in Builds(d) : Fixed(d, CellOf(d, v))}
<1>1. ASSUME NEW d \in Structs, \A i \in 1 .. Arity(d) : PartAt(d, i) \in S,
             NEW v \in Builds(d), v # None, v # Null
      PROVE  Fixed(d, CellOf(d, v))
  <2>. DEFINE c == CellOf(d, v)
              Part(i) == EntryOr(v, NameAt(d, i), DefaultOf(PartAt(d, i)))
  <2>1. PICK w : /\ c = Made(d, w)
                 /\ \A i \in 1 .. Arity(d) : At(w, i) = CellOf(PartAt(d, i), Part(i))
    BY <1>1, CellStruct
  <2>2. \A i \in 1 .. Arity(d) : Part(i) \in Builds(PartAt(d, i))
    BY <1>1, BuildsStruct
  <2>3. \A i \in 1 .. Arity(d) : Fixed(PartAt(d, i), At(w, i))
    BY <1>1, <2>1, <2>2
  <2>4. c \in Value
    BY StructFacts, CellFits
  <2>. HIDE DEF c, S, Part
  <2>5. c \in Maps /\ \A i \in 1 .. Arity(d) : \A x : EntryOr(c, NameAt(d, i), x) = At(w, i)
    BY <2>1, <2>4, MadeFacts DEF Maps
  <2>6. c \in Builds(d)
    BY <2>3, <2>5, BuildsStruct
  <2>7. c # None /\ c # Null
    BY <2>5, NoValues DEF Maps, Null
  <2>8. PICK x : /\ CellOf(d, c) = Made(d, x)
                 /\ \A i \in 1 .. Arity(d) :
                      At(x, i) = CellOf(PartAt(d, i),
                                        EntryOr(c, NameAt(d, i), DefaultOf(PartAt(d, i))))
    BY <2>6, <2>7, CellStruct
  <2>9. \A i \in 1 .. Arity(d) : At(x, i) = At(w, i)
    BY <2>3, <2>5, <2>8
  <2>. QED
    BY <2>1, <2>6, <2>8, <2>9, MadeEqual DEF c
<1>2. ASSUME NEW d \in Lists, Inner(d) \in S, NEW v \in Builds(d), v # None, v # Null
      PROVE  Fixed(d, CellOf(d, v))
  <2>. DEFINE c == CellOf(d, v)
              m == Count(v)
  <2>1. PICK w : /\ c = MadeList(m, w)
                 /\ \A i \in 1 .. m : At(w, i) = CellOf(Inner(d), ItemAt(v, i))
    BY <1>2, CellList
  <2>2. v \in ListValues /\ \A i \in 1 .. m : ItemAt(v, i) \in Builds(Inner(d))
    BY <1>2, BuildsList
  <2>3. m \in Nat /\ \A i \in 1 .. m : Fixed(Inner(d), At(w, i))
    BY <1>2, <2>1, <2>2, ListValueFacts
  <2>4. c \in Value
    BY ListFacts, CellFits
  <2>. HIDE DEF c, S, m
  <2>5. /\ c \in ListValues /\ Count(c) = m
        /\ \A i \in 1 .. m : ItemAt(c, i) = At(w, i)
    BY <2>1, <2>3, <2>4, MadeListFacts DEF ListValues
  <2>6. c \in Builds(d)
    BY <2>3, <2>5, BuildsList
  <2>7. c # None /\ c # Null
    BY <2>5, NoValues DEF ListValues, Null
  <2>8. PICK x : /\ CellOf(d, c) = MadeList(m, x)
                 /\ \A i \in 1 .. m : At(x, i) = CellOf(Inner(d), ItemAt(c, i))
    BY <2>5, <2>6, <2>7, CellList
  <2>9. \A i \in 1 .. m : At(x, i) = At(w, i)
    BY <2>3, <2>5, <2>8
  <2>. QED
    BY <2>1, <2>3, <2>6, <2>8, <2>9, MadeListEqual DEF c
<1>3. ASSUME NEW d \in Scalars, NEW v \in Builds(d), v # None, v # Null
      PROVE  Fixed(d, CellOf(d, v))
  <2>. DEFINE c == CellOf(d, v)
  <2>1. c = Leaf(d.type, v.bits)
    BY <1>3, CellScalar
  <2>2. v \in Value /\ ValidScalar(v, d.type) /\ v.bits \in Int
    BY <1>3, BuildsScalar, ScalarFacts, ValidScalarIsScalar
  <2>3. c.kind = d.type /\ c.bits = v.bits
    BY <2>1 DEF Leaf
  <2>4. ValidScalar(c, d.type)
    BY <2>2, <2>3, ScalarFacts DEF ValidScalar
  <2>5. c \in Value
    BY ScalarFacts, CellFits
  <2>. HIDE DEF c
  <2>6. c \in Builds(d) /\ c # None /\ c # Null
    <3>1. "null" \notin ScalarTypes
      BY ScalarTypesAre
    <3>. QED
      BY <2>3, <2>4, <2>5, <3>1, NoValues, BuildsScalar, ScalarFacts DEF Null
  <2>7. CellOf(d, c) = Leaf(d.type, c.bits)
    BY <2>6, CellScalar
  <2>. QED
    BY <2>1, <2>3, <2>6, <2>7 DEF c
<1>4. ASSUME NEW d \in Dtype
      PROVE  Fixed(d, CellOf(d, None)) /\ Fixed(d, CellOf(d, Null))
  BY CellNull
<1>5. Dtype \subseteq S
  <2>1. /\ \A d \in Structs : (\A i \in 1 .. Arity(d) : PartAt(d, i) \in S) => d \in S
        /\ \A d \in Lists : Inner(d) \in S => d \in S
        /\ \A d \in Scalars : d \in S
    <3>. HIDE DEF Fixed
    <3>. QED
      BY <1>1, <1>2, <1>3, <1>4, StructFacts, ListFacts, ScalarFacts
  <2>. HIDE DEF S
  <2>. QED
    BY <2>1, InductionOnDtypes
<1>. QED
  BY <1>5

----------------------------------------------------------------------------
(* Parts of a schema.                                                      *)

(* The partial schemas of a dtype, from those of its parts.                *)
LEMMA PartialSchemasDef ==
  ASSUME NEW dtype \in Dtype
  PROVE  PartialSchemas[dtype] =
           {requested \in Dtype :
              CASE requested.type = "struct" /\ dtype.type = "struct" ->
                     \A i \in 1 .. Len(requested.fields) :
                       LET field == requested.fields[i]
                       IN  /\ HasField(dtype, field.name)
                           /\ field.dtype \in PartialSchemas[FieldDtype(dtype, field.name)]
                [] requested.type = "list" /\ dtype.type = "list" ->
                     requested.inner \in PartialSchemas[dtype.inner]
                [] OTHER -> requested = dtype}
<1>. DEFINE Body(f, d) ==
              {requested \in Dtype :
                 CASE requested.type = "struct" /\ d.type = "struct" ->
                        \A i \in 1 .. Len(requested.fields) :
                          LET field == requested.fields[i]
                          IN  /\ HasField(d, field.name)
                              /\ field.dtype \in f[FieldDtype(d, field.name)]
                   [] requested.type = "list" /\ d.type = "list" ->
                        requested.inner \in f[d.inner]
                   [] OTHER -> requested = d}
            S == {n \in 0 .. MaxDepth : \E f : f = [d \in DtypesTo[n] |-> Body(f, d)]}
<1>1. ASSUME NEW d \in Dtype, NEW f, NEW g, \A e \in PartsOf(d) : f[e] = g[e]
      PROVE  Body(f, d) = Body(g, d)
  <2>1. CASE d.type = "struct"
    <3>1. \A name : HasField(d, name) => FieldDtype(d, name) \in PartsOf(d)
      <4>. SUFFICES ASSUME NEW name,
           Has(d.fields, name) PROVE Find(d.fields, name).dtype \in PartsOf(d)
        BY DEF HasField, FieldDtype
      <4>1. PICK i \in 1 .. Len(d.fields) : Find(d.fields, name) = d.fields[i]
        BY <2>1, DtypeShape, FindPlace
      <4>. QED
        BY <2>1, <4>1 DEF PartsOf
    <3>2. \A name : HasField(d, name) => f[FieldDtype(d, name)] = g[FieldDtype(d, name)]
      BY <1>1, <3>1
    <3>. QED
      BY <2>1, <3>2
  <2>2. CASE d.type = "list"
    <3>1. f[d.inner] = g[d.inner]
      BY <1>1, <2>2 DEF PartsOf
    <3>. QED
      BY <2>2, <3>1
  <2>3. CASE d.type \notin {"struct", "list"}
    BY <2>3
  <2>. QED
    BY <2>1, <2>2, <2>3
<1>2. PartialSchemas = CHOOSE f : f = [d \in Dtype |-> Body(f, d)]
  BY DEF PartialSchemas
<1>. HIDE DEF Body
<1>3. 0 \in S
  <2>1. 0 \in 0 .. MaxDepth /\ \A d \in DtypesTo[0] : d \in Dtype /\ PartsOf(d) = {}
    BY MaxDepthIsNatural, DtypeToShape
  <2>. DEFINE f == [d \in DtypesTo[0] |-> Body(<<>>, d)]
  <2>2. \A d \in DtypesTo[0] : Body(<<>>, d) = Body(f, d)
    BY <1>1, <2>1
  <2>3. f = [d \in DtypesTo[0] |-> Body(f, d)]
    BY <2>2
  <2>. HIDE DEF f
  <2>. QED
    BY <2>1, <2>3
<1>4. ASSUME NEW n \in 1 .. MaxDepth, n - 1 \in S
      PROVE  n \in S
  <2>1. PICK f : f = [d \in DtypesTo[n - 1] |-> Body(f, d)]
    BY <1>4
  <2>. DEFINE g == [d \in DtypesTo[n] |-> Body(f, d)]
  <2>2. n \in 0 .. MaxDepth /\ n # 0
    BY MaxDepthIsNatural
  <2>3. \A d \in DtypesTo[n] : /\ d \in Dtype /\ PartsOf(d) \subseteq DtypesTo[n - 1]
                               /\ DtypesTo[n - 1] \subseteq DtypesTo[n]
    BY <2>2, DtypeToShape
  <2>4. \A d \in DtypesTo[n] : \A e \in PartsOf(d) : f[e] = g[e]
    BY <2>1, <2>3
  <2>5. \A d \in DtypesTo[n] : Body(f, d) = Body(g, d)
    <3>. HIDE DEF g
    <3>. QED
      BY <1>1, <2>3, <2>4
  <2>6. g = [d \in DtypesTo[n] |-> Body(g, d)]
    BY <2>5
  <2>. HIDE DEF g
  <2>. QED
    BY <2>2, <2>6
<1>5. MaxDepth \in S
  <2>. HIDE DEF S
  <2>. QED
    BY <1>3, <1>4, MaxDepthIsNatural, PlaceInduction
<1>6. PartialSchemas = [d \in Dtype |-> Body(PartialSchemas, d)]
  BY <1>2, <1>5 DEF Dtype
<1>7. PartialSchemas[dtype] = Body(PartialSchemas, dtype)
  BY <1>6
<1>. QED
  BY <1>7 DEF Body

PartialsOf(d) == PartialSchemas[d]
HasPart(d, name) == HasField(d, name)
PartNamed(d, name) == FieldDtype(d, name)

LEMMA PartNamedFacts ==
  ASSUME NEW d \in Dtype, NEW name, HasPart(d, name)
  PROVE  /\ d \in Structs
         /\ \E i \in 1 .. Arity(d) : NameAt(d, i) = name /\ PartNamed(d, name) = PartAt(d, i)
<1>1. d.type = "struct" /\ Has(d.fields, name)
  BY DEF HasPart, HasField
<1>2. d \in Structs
  BY <1>1 DEF Structs
<1>3. Len(d.fields) \in Nat
  BY <1>1, DtypeShape
<1>4. PICK i \in 1 .. Len(d.fields) : d.fields[i].name = name /\ Find(d.fields, name) = d.fields[i]
  BY <1>1, <1>3, FindPlace
<1>. QED
  BY <1>2, <1>4 DEF Arity, NameAt, PartNamed, FieldDtype, PartAt

LEMMA PartialsStruct ==
  ASSUME NEW d \in Structs, NEW r \in Structs, r \in PartialsOf(d)
  PROVE  \A i \in 1 .. Arity(r) : /\ HasPart(d, NameAt(r, i))
                                  /\ PartAt(r, i) \in PartialsOf(PartNamed(d, NameAt(r, i)))
<1>1. d \in Dtype /\ d.type = "struct" /\ r.type = "struct" /\ r \in PartialSchemas[d]
  BY DEF Structs, PartialsOf
<1>2. \A i \in 1 .. Len(r.fields) : /\ HasField(d, r.fields[i].name)
                                    /\ r.fields[i].dtype \in PartialSchemas[FieldDtype(d,
                                                                                       r.fields[i].name)]
  BY <1>1, PartialSchemasDef
<1>. QED
  BY <1>2 DEF Arity, HasPart, NameAt, PartAt, PartialsOf, PartNamed

LEMMA PartialsList ==
  ASSUME NEW d \in Lists, NEW r \in Lists, r \in PartialsOf(d)
  PROVE  Inner(r) \in PartialsOf(Inner(d))
<1>1. d \in Dtype /\ d.type = "list" /\ r.type = "list" /\ r \in PartialSchemas[d]
  BY DEF Lists, PartialsOf
<1>. QED
  BY <1>1, PartialSchemasDef DEF Inner, PartialsOf

LEMMA PartialsOther ==
  ASSUME NEW d \in Dtype, NEW r \in PartialsOf(d)
  PROVE  /\ r \in Dtype
         /\ ~(r \in Structs /\ d \in Structs) /\ ~(r \in Lists /\ d \in Lists) => r = d
<1>1. r \in PartialSchemas[d]
  BY DEF PartialsOf
<1>2. r \in Dtype
  BY <1>1, PartialSchemasDef
<1>3. ~(r.type = "struct" /\ d.type = "struct") /\ ~(r.type = "list" /\ d.type = "list") => r = d
  BY <1>1, PartialSchemasDef
<1>. QED
  BY <1>2, <1>3 DEF Structs, Lists

(* Data that keeps to a schema keeps to every part of it.                  *)
THEOREM PartialAccepts ==
  ASSUME NEW way \in Ways, NEW dtype \in Dtype, NEW requested \in PartialsOf(dtype)
  PROVE  requested \in Dtype /\ Accepts(way, dtype) \subseteq Accepts(way, requested)
<1>. DEFINE S == {d \in Dtype : \A x \in Ways : \A r \in PartialsOf(d) : Accepts(x, d)
                  \subseteq Accepts(x, r)}
<1>1. ASSUME NEW x \in Ways, NEW d \in Structs, \A i \in 1 .. Arity(d) : PartAt(d, i) \in S,
             NEW r \in PartialsOf(d), NEW v \in Accepts(x, d)
      PROVE  v \in Accepts(x, r)
  <2>1. CASE r \in Structs
    <3>1. ASSUME NEW i \in 1 .. Arity(r), HasEntry(v, NameAt(r, i))
          PROVE  EntryOf(v, NameAt(r, i)) \in Accepts(x, PartAt(r, i))
      <4>1. HasPart(d, NameAt(r, i)) /\ PartAt(r, i) \in PartialsOf(PartNamed(d, NameAt(r, i)))
        BY <2>1, PartialsStruct
      <4>2. PICK j \in 1 .. Arity(d) : NameAt(d, j) = NameAt(r, i)
            /\ PartNamed(d, NameAt(r, i)) = PartAt(d, j)
        BY <4>1, PartNamedFacts, StructFacts
      <4>3. EntryOf(v, NameAt(r, i)) \in Accepts(x, PartAt(d, j))
        BY <1>1, <3>1, <4>2, AcceptsStruct
      <4>4. Accepts(x, PartAt(d, j)) \subseteq Accepts(x, PartAt(r, i))
        BY <1>1, <4>1, <4>2
      <4>. QED
        BY <4>3, <4>4
    <3>2. v \in Maps
      BY <1>1, AcceptsStruct
    <3>. HIDE DEF S
    <3>. QED
      BY <2>1, <3>1, <3>2, AcceptsStruct
  <2>2. CASE r \notin Structs
    <3>1. r = d
      BY <1>1, <2>2, StructFacts, DtypeKinds, PartialsOther
    <3>. QED
      BY <1>1, <3>1
  <2>. QED
    BY <2>1, <2>2
<1>2. ASSUME NEW x \in Ways, NEW d \in Lists, Inner(d) \in S,
             NEW r \in PartialsOf(d), NEW v \in Accepts(x, d)
      PROVE  v \in Accepts(x, r)
  <2>1. CASE r \in Lists
    <3>1. Accepts(InList(x), Inner(d)) \subseteq Accepts(InList(x), Inner(r))
      BY <1>2, <2>1, PartialsList, InListIsWay
    <3>2. v \in ListValues /\ \A i \in 1 .. Count(v) : ItemAt(v, i) \in Accepts(InList(x), Inner(d))
      BY <1>2, AcceptsList
    <3>. HIDE DEF S
    <3>. QED
      BY <2>1, <3>1, <3>2, AcceptsList
  <2>2. CASE r \notin Lists
    <3>1. r = d
      BY <1>2, <2>2, ListFacts, DtypeKinds, PartialsOther
    <3>. QED
      BY <1>2, <3>1
  <2>. QED
    BY <2>1, <2>2
<1>3. ASSUME NEW d \in Scalars, NEW r \in PartialsOf(d)
      PROVE  r = d
  BY <1>3, ScalarFacts, DtypeKinds, PartialsOther
<1>4. Dtype \subseteq S
  <2>1. /\ \A d \in Structs : (\A i \in 1 .. Arity(d) : PartAt(d, i) \in S) => d \in S
        /\ \A d \in Lists : Inner(d) \in S => d \in S
        /\ \A d \in Scalars : d \in S
    BY <1>1, <1>2, <1>3, StructFacts, ListFacts, ScalarFacts
  <2>. HIDE DEF S
  <2>. QED
    BY <2>1, InductionOnDtypes
<1>. QED
  BY <1>4, PartialsOther

----------------------------------------------------------------------------
(* Paths.                                                                  *)

(* What dtype_at_path has after each part of a path.                       *)
LEMMA DtypesAlongDef ==
  ASSUME NEW d, NEW path, Len(path) \in Nat
  PROVE  DtypesAlong(d, path) =
           [i \in 0 .. Len(path) |-> IF i = 0 THEN d ELSE DtypeAtPart(DtypesAlong(d,
                                                                                  path)[i - 1],
                                                                      path[i])]
<1>. DEFINE n == Len(path)
            Body(f, i) == IF i = 0 THEN d ELSE DtypeAtPart(f[i - 1], path[i])
            S == {m \in 0 .. n : \E f : f = [i \in 0 .. m |-> Body(f, i)]}
<1>1. n \in Nat
  OBVIOUS
<1>2. DtypesAlong(d, path) = CHOOSE f : f = [i \in 0 .. n |-> Body(f, i)]
  BY DEF DtypesAlong
<1>3. \A f, g : \A i \in 0 .. n : (i # 0 => f[i - 1] = g[i - 1]) => Body(f, i) = Body(g, i)
  OBVIOUS
<1>. HIDE DEF Body, n
<1>4. 0 \in S
  <2>. DEFINE f == [i \in 0 .. 0 |-> Body(<<>>, i)]
  <2>1. \A i \in 0 .. 0 : Body(<<>>, i) = Body(f, i)
    BY <1>1, <1>3
  <2>2. f = [i \in 0 .. 0 |-> Body(f, i)]
    BY <2>1
  <2>. HIDE DEF f
  <2>. QED
    BY <1>1, <2>2
<1>5. ASSUME NEW m \in 1 .. n, m - 1 \in S
      PROVE  m \in S
  <2>1. PICK f : f = [i \in 0 .. m - 1 |-> Body(f, i)]
    BY <1>5
  <2>. DEFINE g == [i \in 0 .. m |-> Body(f, i)]
  <2>2. \A i \in 0 .. m : i # 0 => i - 1 \in 0 .. m - 1 /\ f[i - 1] = g[i - 1]
    BY <1>1, <2>1
  <2>3. \A i \in 0 .. m : Body(f, i) = Body(g, i)
    <3>. HIDE DEF g
    <3>. QED
      BY <1>1, <1>3, <2>2
  <2>4. g = [i \in 0 .. m |-> Body(g, i)]
    BY <2>3
  <2>. HIDE DEF g
  <2>. QED
    BY <1>1, <2>4
<1>6. n \in S
  <2>. HIDE DEF S
  <2>. QED
    BY <1>1, <1>4, <1>5, PlaceInduction
<1>7. DtypesAlong(d, path) = [i \in 0 .. n |-> Body(DtypesAlong(d, path), i)]
  BY <1>2, <1>6
<1>. QED
  BY <1>7 DEF Body, n

(* What decode_path has after each part of a path.                         *)
LEMMA ValuesAlongDef ==
  ASSUME NEW v, NEW path, Len(path) \in Nat
  PROVE  ValuesAlong(v, path) =
           [i \in 0 .. Len(path) |-> IF i = 0 THEN v ELSE Descend(ValuesAlong(v, path)[i - 1],
                                                                  path[i])]
<1>. DEFINE n == Len(path)
            Body(f, i) == IF i = 0 THEN v ELSE Descend(f[i - 1], path[i])
            S == {m \in 0 .. n : \E f : f = [i \in 0 .. m |-> Body(f, i)]}
<1>1. n \in Nat
  OBVIOUS
<1>2. ValuesAlong(v, path) = CHOOSE f : f = [i \in 0 .. n |-> Body(f, i)]
  BY DEF ValuesAlong
<1>3. \A f, g : \A i \in 0 .. n : (i # 0 => f[i - 1] = g[i - 1]) => Body(f, i) = Body(g, i)
  OBVIOUS
<1>. HIDE DEF Body, n
<1>4. 0 \in S
  <2>. DEFINE f == [i \in 0 .. 0 |-> Body(<<>>, i)]
  <2>1. \A i \in 0 .. 0 : Body(<<>>, i) = Body(f, i)
    BY <1>1, <1>3
  <2>2. f = [i \in 0 .. 0 |-> Body(f, i)]
    BY <2>1
  <2>. HIDE DEF f
  <2>. QED
    BY <1>1, <2>2
<1>5. ASSUME NEW m \in 1 .. n, m - 1 \in S
      PROVE  m \in S
  <2>1. PICK f : f = [i \in 0 .. m - 1 |-> Body(f, i)]
    BY <1>5
  <2>. DEFINE g == [i \in 0 .. m |-> Body(f, i)]
  <2>2. \A i \in 0 .. m : i # 0 => i - 1 \in 0 .. m - 1 /\ f[i - 1] = g[i - 1]
    BY <1>1, <2>1
  <2>3. \A i \in 0 .. m : Body(f, i) = Body(g, i)
    <3>. HIDE DEF g
    <3>. QED
      BY <1>1, <1>3, <2>2
  <2>4. g = [i \in 0 .. m |-> Body(g, i)]
    BY <2>3
  <2>. HIDE DEF g
  <2>. QED
    BY <1>1, <2>4
<1>6. n \in S
  <2>. HIDE DEF S
  <2>. QED
    BY <1>1, <1>4, <1>5, PlaceInduction
<1>7. ValuesAlong(v, path) = [i \in 0 .. n |-> Body(ValuesAlong(v, path), i)]
  BY <1>2, <1>6
<1>. QED
  BY <1>7 DEF Body, n

LEMMA NavigateEmpty == \A v : Navigate(v, <<>>) = v
<1>1. Len(<<>>) = 0
  OBVIOUS
<1>2. 0 \in 0 .. Len(<<>>)
  BY <1>1
<1>3. ASSUME NEW v PROVE ValuesAlong(v, <<>>)[0] = v
  BY <1>1, <1>2, ValuesAlongDef
<1>. QED
  BY <1>1, <1>3 DEF Navigate

(* One part more at the front of a path.                                   *)
LEMMA NavigateFront ==
  ASSUME NEW v, NEW T, NEW part \in T, NEW path \in Seq(T)
  PROVE  Navigate(v, <<part>> \o path) = Navigate(Descend(v, part), path)
<1>. DEFINE n == Len(path)
            long == <<part>> \o path
            far == ValuesAlong(v, long)
            near == ValuesAlong(Descend(v, part), path)
            S == {i \in 0 .. n : far[i + 1] = near[i]}
<1>1. /\ n \in Nat /\ Len(long) = n + 1 /\ Len(long) \in Nat
      /\ long[1] = part /\ \A i \in 1 .. n : long[i + 1] = path[i]
  OBVIOUS
<1>. HIDE DEF long
<1>2. \A i \in 0 .. n + 1 : far[i] = IF i = 0 THEN v ELSE Descend(far[i - 1], long[i])
  BY <1>1, ValuesAlongDef
<1>3. \A i \in 0 .. n : near[i] = IF i = 0 THEN Descend(v, part) ELSE Descend(near[i - 1], path[i])
  BY <1>1, ValuesAlongDef
<1>. HIDE DEF far, near
<1>4. 0 \in S
  <2>1. far[0] = v
    BY <1>1, <1>2
  <2>2. far[1] = Descend(far[0], long[1])
    BY <1>1, <1>2
  <2>3. near[0] = Descend(v, part)
    BY <1>1, <1>3
  <2>. QED
    BY <1>1, <2>1, <2>2, <2>3
<1>5. \A i \in 1 .. n : i - 1 \in S => i \in S
  <2>. SUFFICES ASSUME NEW i \in 1 .. n, far[i] = near[i - 1]
                PROVE  far[i + 1] = near[i]
    BY <1>1
  <2>1. far[i + 1] = Descend(far[i], long[i + 1])
    BY <1>1, <1>2
  <2>2. near[i] = Descend(near[i - 1], path[i])
    BY <1>1, <1>3
  <2>3. long[i + 1] = path[i]
    BY <1>1
  <2>. QED
    BY <2>1, <2>2, <2>3
<1>6. 0 .. n \subseteq S
  <2>. HIDE DEF S, n
  <2>. QED
    BY <1>1, <1>4, <1>5, PlaceInduction
<1>. QED
  BY <1>1, <1>6 DEF Navigate, far, near, long

(* There is no way on from nowhere.                                        *)
LEMMA NavigateStuck ==
  ASSUME NEW v \in {None, Mismatch}, NEW path, Len(path) \in Nat
  PROVE  Navigate(v, path) = v
<1>. DEFINE n == Len(path)
            at == ValuesAlong(v, path)
            S == {i \in 0 .. n : at[i] = v}
<1>1. n \in Nat
  OBVIOUS
<1>2. \A i \in 0 .. n : at[i] = IF i = 0 THEN v ELSE Descend(at[i - 1], path[i])
  BY ValuesAlongDef
<1>3. \A part : Descend(v, part) = v
  BY DEF Descend
<1>. HIDE DEF at, n
<1>4. 0 \in S
  BY <1>1, <1>2
<1>5. \A i \in 1 .. n : i - 1 \in S => i \in S
  <2>. SUFFICES ASSUME NEW i \in 1 .. n, at[i - 1] = v
                PROVE  at[i] = v
    BY <1>1
  <2>1. at[i] = Descend(at[i - 1], path[i])
    BY <1>1, <1>2
  <2>. QED
    BY <1>3, <2>1
<1>6. 0 .. n \subseteq S
  <2>. HIDE DEF S
  <2>. QED
    BY <1>1, <1>4, <1>5, PlaceInduction
<1>. QED
  BY <1>1, <1>6 DEF Navigate, at, n

(* Into a map by a name, and into a list by a place.                       *)
LEMMA DescendMap ==
  ASSUME NEW v \in Maps, NEW part, part.at = "key"
  PROVE  /\ Descend(v, part) = EntryOr(v, part.name, None)
         /\ Descend(v, part) \in Value \cup {None}
<1>1. v \in Value /\ v.kind = "map"
  BY DEF Maps
<1>2. v \notin {None, Mismatch}
  BY <1>1, NoValues
<1>3. Descend(v, part) = EntryOr(v, part.name, None)
  BY <1>1, <1>2 DEF Descend, EntryOr
<1>. QED
  BY <1>3, MapFacts

LEMMA DescendNoMap ==
  ASSUME NEW v \in Value, v \notin Maps, NEW part, part.at = "key"
  PROVE  Descend(v, part) = Mismatch
<1>1. v.kind # "map" /\ v \notin {None, Mismatch}
  BY NoValues DEF Maps
<1>. QED
  BY <1>1 DEF Descend

LEMMA DescendList ==
  ASSUME NEW v \in ListValues, NEW part, part.at # "key"
  PROVE  \/ Descend(v, part) = None
         \/ \E i \in 1 .. Count(v) : Descend(v, part) = ItemAt(v, i)
<1>. DEFINE i == IF part.at = "index" THEN part.index + 1 ELSE Len(v.items) - part.index
<1>1. v \in Value /\ v.kind = "list"
  BY DEF ListValues
<1>2. v \notin {None, Mismatch}
  BY <1>1, NoValues
<1>3. Descend(v, part) = IF i \in 1 .. Len(v.items) THEN v.items[i] ELSE None
  BY <1>1, <1>2 DEF Descend
<1>. HIDE DEF i
<1>. QED
  BY <1>3 DEF Count, ItemAt

LEMMA DescendNoList ==
  ASSUME NEW v \in Value, v \notin ListValues, NEW part, part.at # "key"
  PROVE  Descend(v, part) = Mismatch
<1>1. v.kind # "list" /\ v \notin {None, Mismatch}
  BY NoValues DEF ListValues
<1>. QED
  BY <1>1 DEF Descend

LEMMA NoDtypeIsNone == NoDtype \notin Dtype /\ \A part : DtypeAtPart(NoDtype, part) = NoDtype
<1>1. NoDtype.type = "none"
  BY DEF NoDtype
<1>2. "none" \notin ScalarTypes \cup {"list", "struct"}
  BY ScalarTypesAre
<1>3. NoDtype \notin Dtype
  BY <1>1, <1>2, DtypeShape
<1>4. \A part : DtypeAtPart(NoDtype, part) = NoDtype
  BY <1>1 DEF DtypeAtPart, HasField
<1>. QED
  BY <1>3, <1>4

(* The dtype has what the data has, one part of a path further.            *)
LEMMA KnownPart ==
  ASSUME NEW way \in {"seed", "struct"}, NEW d \in Dtype, NEW part \in PathPart,
  DtypeAtPart(d, part) # NoDtype
  PROVE  /\ DtypeAtPart(d, part) \in Dtype
         /\ \A v \in Accepts(way, d) : \/ Descend(v, PathElement(part)) = None
                                  \/ Descend(v, PathElement(part)) \in Accepts(way,
                                                                               DtypeAtPart(d,
                                                                                           part))
<1>. DEFINE e == PathElement(part)
<1>0. way \in Ways /\ InList(way) = way
  BY InListIsWay DEF Ways
<1>1. CASE part.at = "key"
  <2>1. HasPart(d, part.name) /\ DtypeAtPart(d, part) = PartNamed(d, part.name)
    BY <1>1 DEF DtypeAtPart, HasPart, PartNamed
  <2>2. d \in Structs
    BY <2>1, PartNamedFacts
  <2>3. PICK i \in 1 .. Arity(d) : NameAt(d, i) = part.name /\ PartNamed(d, part.name) = PartAt(d, i)
    BY <2>1, PartNamedFacts
  <2>4. e = part
    BY <1>1 DEF PathElement
  <2>5. ASSUME NEW v \in Accepts(way, d)
        PROVE  Descend(v, part) = None \/ Descend(v, part) \in Accepts(way, PartAt(d, i))
    <3>1. v \in Maps
      BY <1>0, <2>2, AcceptsStruct
    <3>2. Descend(v, part) = IF HasEntry(v, part.name) THEN EntryOf(v, part.name) ELSE None
      BY <1>1, <3>1, DescendMap, MapFacts
    <3>3. HasEntry(v, part.name) => EntryOf(v, part.name) \in Accepts(way, PartAt(d, i))
      BY <1>0, <2>2, <2>3, AcceptsStruct
    <3>. QED
      BY <3>2, <3>3
  <2>. QED
    BY <2>1, <2>2, <2>3, <2>4, <2>5, StructFacts
<1>2. CASE part.at # "key"
  <2>1. d.type = "list" /\ DtypeAtPart(d, part) = d.inner
    BY <1>2 DEF DtypeAtPart
  <2>2. d \in Lists /\ DtypeAtPart(d, part) = Inner(d)
    BY <2>1 DEF Lists, Inner
  <2>3. e.at # "key"
    BY <1>2 DEF PathElement, Index, FromEnd
  <2>4. ASSUME NEW v \in Accepts(way, d)
        PROVE  Descend(v, e) = None \/ Descend(v, e) \in Accepts(way, Inner(d))
    <3>1. v \in ListValues /\ \A i \in 1 .. Count(v) : ItemAt(v, i) \in Accepts(way, Inner(d))
      BY <1>0, <2>2, AcceptsList
    <3>. HIDE DEF e
    <3>. QED
      BY <2>3, <3>1, DescendList
  <2>. QED
    BY <2>2, <2>4, ListFacts
<1>. QED
  BY <1>1, <1>2

LEMMA DtypeAtPathIsDtype ==
  ASSUME NEW d \in Dtype, NEW path \in Seq(PathPart), DtypeAtPath(d, path) # NoDtype
  PROVE  DtypeAtPath(d, path) \in Dtype
<1>. DEFINE n == Len(path)
            types == DtypesAlong(d, path)
            S == {i \in 0 .. n : types[i] \in Dtype \cup {NoDtype}}
<1>1. n \in Nat /\ \A i \in 1 .. n : path[i] \in PathPart
  BY ElementOf
<1>2. \A i \in 0 .. n : types[i] = IF i = 0 THEN d ELSE DtypeAtPart(types[i - 1], path[i])
  BY <1>1, DtypesAlongDef
<1>. HIDE DEF types, n
<1>3. 0 \in S
  BY <1>1, <1>2
<1>4. \A i \in 1 .. n : i - 1 \in S => i \in S
  <2>. SUFFICES ASSUME NEW i \in 1 .. n, types[i - 1] \in Dtype \cup {NoDtype}
                PROVE  types[i] \in Dtype \cup {NoDtype}
    BY <1>1
  <2>1. types[i] = DtypeAtPart(types[i - 1], path[i]) /\ path[i] \in PathPart
    BY <1>1, <1>2
  <2>. QED
    BY <2>1, KnownPart, NoDtypeIsNone
<1>5. 0 .. n \subseteq S
  <2>. HIDE DEF S
  <2>. QED
    BY <1>1, <1>3, <1>4, PlaceInduction
<1>. QED
  BY <1>1, <1>5 DEF DtypeAtPath, types, n

(* What a schema promises at the end of a path is what data that keeps to  *)
(* it has there, if it has anything.                                       *)
THEOREM KnownPath ==
  ASSUME NEW way \in {"seed", "struct"}, NEW d \in Dtype, NEW path \in Seq(PathPart),
         DtypeAtPath(d, path) # NoDtype,
         NEW v \in Accepts(way, d)
  PROVE  /\ DtypeAtPath(d, path) \in Dtype
         /\ \/ Navigate(v, ToMmdbPath(path)) = None
            \/ Navigate(v, ToMmdbPath(path)) \in Accepts(way, DtypeAtPath(d, path))
<1>. DEFINE n == Len(path)
            elements == ToMmdbPath(path)
            types == DtypesAlong(d, path)
            at == ValuesAlong(v, elements)
            S == {i \in 0 .. n :
                    \/ types[i] = NoDtype
                    \/ types[i] \in Dtype /\ (at[i] = None \/ at[i] \in Accepts(way, types[i]))}
<1>1. n \in Nat /\ Len(elements) = n
  BY DEF ToMmdbPath
<1>2. \A i \in 1 .. n : path[i] \in PathPart /\ elements[i] = PathElement(path[i])
  BY ElementOf DEF ToMmdbPath
<1>3. \A i \in 0 .. n : types[i] = IF i = 0 THEN d ELSE DtypeAtPart(types[i - 1], path[i])
  BY <1>1, DtypesAlongDef
<1>. HIDE DEF elements
<1>4. \A i \in 0 .. n : at[i] = IF i = 0 THEN v ELSE Descend(at[i - 1], elements[i])
  BY <1>1, ValuesAlongDef
<1>. HIDE DEF types, at
<1>5. 0 \in S
  BY <1>1, <1>3, <1>4
<1>6. ASSUME NEW i \in 1 .. n, i - 1 \in S
      PROVE  i \in S
  <2>1. types[i] = DtypeAtPart(types[i - 1], path[i])
    BY <1>1, <1>3
  <2>2. at[i] = Descend(at[i - 1], PathElement(path[i])) /\ path[i] \in PathPart
    BY <1>1, <1>2, <1>4
  <2>3. CASE types[i - 1] = NoDtype
    BY <2>1, <2>3, NoDtypeIsNone
  <2>4. CASE types[i - 1] \in Dtype /\ types[i] # NoDtype
    <3>1. types[i] \in Dtype
      BY <2>1, <2>2, <2>4, KnownPart
    <3>2. CASE at[i - 1] = None
      <4>1. at[i] = None
        BY <2>2, <3>2 DEF Descend
      <4>. QED
        BY <3>1, <4>1
    <3>3. CASE at[i - 1] \in Accepts(way, types[i - 1])
      <4>1. at[i] = None \/ at[i] \in Accepts(way, types[i])
        BY <2>1, <2>2, <2>4, <3>3, KnownPart
      <4>. QED
        BY <3>1, <4>1
    <3>. QED
      BY <1>6, <2>4, <3>2, <3>3, NoDtypeIsNone
  <2>. QED
    BY <1>6, <2>3, <2>4
<1>7. n \in S
  <2>. HIDE DEF S, n
  <2>. QED
    BY <1>1, <1>5, <1>6, PlaceInduction
<1>8. types[n] # NoDtype
  BY DEF DtypeAtPath, types
<1>. QED
  BY <1>1, <1>7, <1>8 DEF DtypeAtPath, Navigate, types, at, elements

=============================================================================
