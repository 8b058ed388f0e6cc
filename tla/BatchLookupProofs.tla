-------------------------- MODULE BatchLookupProofs --------------------------
(***************************************************************************)
(* The invariants of BatchLookup, proved for columns of every length, in   *)
(* every chunking, for every number of workers and both thresholds: IInv   *)
(* is inductive.  From it follows that each way to look a column up is the *)
(* service of RowLookup.                                                   *)
(***************************************************************************)
EXTENDS BatchLookup, SequenceTheorems, WellFoundedInduction, TLAPS

----------------------------------------------------------------------------
(* Rows and collect().                                                     *)

LEMMA LookupIsTyped ==
  ASSUME TypeOK, NEW value \in Texts
  PROVE  /\ LookupOne(value) \in Offsets \cup {NoIp, Missing} \cup Errors
         /\ RowOutcome(value) \in Cells \cup Errors
<1>1. LookupOne(value) \in Offsets \cup {NoIp, Missing} \cup Errors
  BY SearchResults, KindsAreDistinct DEF LookupOne, Texts, Errors
<1>2. \A result : DecodePath(result) \in Cells \cup Errors
  BY DecodeResults DEF DecodePath, Cells, Errors
<1>. QED
  BY <1>1, <1>2 DEF RowOutcome

LEMMA DecodedIsTyped ==
  ASSUME NEW result
  PROVE  DecodePath(result) \in Cells \cup Errors
BY DecodeResults DEF DecodePath, Cells, Errors

(* Cells, errors, columns and the lack of an answer are told apart.        *)
LEMMA AnswersDiffer ==
  /\ Errors \cap Cells = {} /\ Errors \cap Seq(Cells) = {}
  /\ Pending \notin Errors /\ Pending \notin Seq(Cells)
BY KindsAreDistinct

(* A row is looked up the same as long as the input is the same.           *)
LEMMA InputsFrame ==
  ASSUME UNCHANGED inputVars
  PROVE  /\ ips' = ips /\ ends' = ends /\ strict' = strict
         /\ \A value : LookupOne(value)' = LookupOne(value)
         /\ \A i : Outcome(i)' = Outcome(i)
BY DEF inputVars, Outcome, RowOutcome, LookupOne

(* The first error is an error, and that of one of the results: here is    *)
(* why there is a least index to be found.                                 *)
LEMMA FirstErrorIsError ==
  ASSUME NEW results, NEW n \in Nat, Len(results) = n, HasError(results)
  PROVE  \E i \in 1 .. n : results[i] \in Errors /\ FirstError(results) = results[i]
<1>. DEFINE bad == {i \in 1 .. n : results[i] \in Errors}
<1>1. bad \subseteq Nat /\ bad # {}
  BY DEF HasError
<1>2. PICK i \in bad : \A j \in bad : ~(<<j, i>> \in OpToRel(<, Nat))
  <2>. HIDE DEF bad
  <2>. QED
    BY <1>1, NatLessThanWellFounded, WFMin, Zenon
<1>3. \A j \in bad : ~(j < i)
  BY <1>1, <1>2 DEF OpToRel
<1>4. i \in 1 .. n /\ results[i] \in Errors /\ \A j \in 1 .. i - 1 : results[j] \notin Errors
  BY <1>3
<1>. QED
  BY <1>4 DEF FirstError

(* The two ways for the call to end.                                       *)
LEMMA AnswerError ==
  ASSUME UNCHANGED inputVars, NEW e \in Errors, Return(e),
         \E i \in 1 .. Len(ips) : Outcome(i) = e
  PROVE  /\ stage' = "done" /\ output' = e
         /\ output' = Pending <=> stage' # "done"
         /\ AnswersRowByRow'
<1>. PICK i \in 1 .. Len(ips) : Outcome(i) = e
  OBVIOUS
<1>1. stage' = "done" /\ output' = e /\ output' # Pending
  BY AnswersDiffer DEF Return
<1>2. ips' = ips /\ \A k : RowOutcome(ips[k])' = RowOutcome(ips[k])
  BY InputsFrame DEF Outcome
<1>. DEFINE outcomes == [k \in 1 .. Len(ips) |-> RowOutcome(ips[k])]
<1>3. outcomes' = outcomes
  BY <1>2
<1>4. outcomes[i] = e
  BY DEF Outcome
<1>. HIDE DEF outcomes
<1>5. AnswersRowByRow'
  <2>1. output' \in Errors /\ \E k \in 1 .. Len(ips') : outcomes'[k] = output'
    BY <1>1, <1>2, <1>3, <1>4
  <2>2. HasError(outcomes') => output' \in Errors /\ \E k \in 1 .. Len(ips') : outcomes'[k] = output'
    BY <2>1
  <2>3. HasError(outcomes')
    BY <1>3, <1>4 DEF HasError, outcomes
  <2>. QED
    BY <2>2, <2>3 DEF AnswersRowByRow, outcomes
<1>. QED
  BY <1>1, <1>5

LEMMA AnswerColumn ==
  ASSUME TypeOK, UNCHANGED inputVars, NEW c \in Seq(Cells), Return(c),
         Len(c) = Len(ips), \A i \in 1 .. Len(ips) : c[i] = Outcome(i)
  PROVE  /\ stage' = "done" /\ output' = c
         /\ output' = Pending <=> stage' # "done"
         /\ AnswersRowByRow'
<1>1. stage' = "done" /\ output' = c /\ output' # Pending
  BY AnswersDiffer DEF Return
<1>2. ips' = ips /\ \A k : RowOutcome(ips[k])' = RowOutcome(ips[k])
  BY InputsFrame DEF Outcome
<1>. DEFINE outcomes == [k \in 1 .. Len(ips) |-> RowOutcome(ips[k])]
<1>3. outcomes' = outcomes
  BY <1>2
<1>4. Len(ips) \in Nat
  BY DEF TypeOK
<1>5. outcomes = c
  BY <1>4 DEF Outcome
<1>6. \A i \in 1 .. Len(c) : c[i] \notin Errors
  BY AnswersDiffer
<1>. HIDE DEF outcomes
<1>7. ~HasError(outcomes') /\ output' = outcomes'
  BY <1>1, <1>3, <1>5, <1>6 DEF HasError
<1>8. AnswersRowByRow'
  BY <1>7 DEF AnswersRowByRow, outcomes
<1>. QED
  BY <1>1, <1>8

(* What a step that does not end the call leaves as it is.                 *)
LEMMA NoAnswerYet ==
  ASSUME IInv, UNCHANGED output, stage # "done", stage' # "done"
  PROVE  /\ output' = Pending <=> stage' # "done"
         /\ AnswersRowByRow'
BY DEF IInv, AnswersRowByRow

----------------------------------------------------------------------------

LEMMA InitIInv == Init => IInv
<1>. SUFFICES ASSUME Init PROVE IInv
  OBVIOUS
<1>. USE DEF Init
<1>1. ips \in Seq(Texts) /\ Len(ips) \in Nat
  BY ColumnsAreSequences
<1>2. /\ ends \in Seq(0 .. Len(ips))
      /\ ArraysInv
  <2>1. PICK n \in 0 .. MaxArrays : ends \in [1 .. n -> 0 .. Len(ips)]
    OBVIOUS
  <2>2. n \in Nat
    BY ColumnsAreSequences
  <2>3. ends \in Seq(0 .. Len(ips)) /\ Len(ends) = n
    BY <2>1, <2>2, SeqDef
  <2>. QED
    BY <2>3 DEF ArraysInv
<1>3. TypeOK
  <2>1. task \in Intervals /\ task_rows \in 0 .. MaxTaskRows - 1
    BY <1>1, SizesArePositive DEF Intervals
  <2>2. array \in 1 .. Len(ends) + 1 /\ start \in 0 .. Len(ips)
    BY <1>1, <1>2
  <2>3. /\ unique \in Seq(Offsets) /\ rows \in Seq(0 .. Len(unique)) /\ tasks \in Seq(Intervals)
        /\ chunks \in Seq(Seq(Cells)) /\ column \in Seq(Cells) /\ appended \in 0 .. Len(chunks)
    OBVIOUS
  <2>4. offsets \in [DOMAIN offsets -> 1 .. Len(unique)] /\ DOMAIN offsets \subseteq Offsets
    OBVIOUS
  <2>5. /\ unclaimed \subseteq 1 .. Len(tasks) /\ saved \subseteq Errors
        /\ running \in [Workers -> (1 .. Len(tasks)) \cup {Idle}]
    OBVIOUS
  <2>6. panicked \in BOOLEAN /\ strict \in BOOLEAN
    BY Zenon
  <2>. QED
    BY <1>1, <1>2, <2>1, <2>2, <2>3, <2>4, <2>5, <2>6 DEF TypeOK
<1>4. SerialInv
  BY <1>1 DEF SerialInv, RecordsShared
<1>5. CutInv
  <2>1. ends # <<>> => Len(ends) >= 1 /\ ends[1] \in 0 .. Len(ips)
    BY <1>2
  <2>2. ends # <<>> => 0 <= ArrayLen
    BY <1>1, <2>1 DEF ArrayLen, ArrayBase
  <2>. QED
    BY <1>1, <1>2, <2>1, <2>2, SizesArePositive DEF CutInv, ArrayBase, FullTo
<1>6. RunInv /\ AppendInv /\ TasksCoverColumn
  BY DEF RunInv, AppendInv, TasksCoverColumn
<1>. QED
  BY <1>2, <1>3, <1>4, <1>5, <1>6 DEF IInv, AnswersRowByRow

----------------------------------------------------------------------------
(* The serial path.                                                        *)

(* What only the parallel path can disturb, and what only the serial can.  *)
LEMMA ParallelFrame ==
  ASSUME IInv, UNCHANGED <<inputVars, cutVars, runVars, joinVars>>,
         stage = "lookup", stage' \in {"lookup", "done"}
  PROVE  CutInv' /\ RunInv' /\ AppendInv' /\ TasksCoverColumn' /\ ArraysInv'
<1>1. ips' = ips /\ ends' = ends /\ \A i : Outcome(i)' = Outcome(i)
  BY InputsFrame
<1>2. RunInv'
  BY <1>1 DEF IInv, RunInv, runVars
<1>. QED
  BY <1>1, <1>2 DEF IInv, CutInv, AppendInv, TasksCoverColumn, ArraysInv, joinVars

LEMMA SerialFrame ==
  ASSUME IInv, UNCHANGED <<inputVars, batchVars>>
  PROVE  SerialInv' /\ ArraysInv'
<1>1. ips' = ips /\ ends' = ends /\ \A value : LookupOne(value)' = LookupOne(value)
  BY InputsFrame
<1>. QED
  BY <1>1 DEF IInv, SerialInv, RecordsShared, ArraysInv, batchVars

LEMMA DispatchStep ==
  ASSUME IInv, Dispatch
  PROVE  IInv'
<1>1. /\ stage = "called" /\ stage' \in {"cut", "lookup"}
      /\ stage' = "cut" => Len(ips) >= MinRows
      /\ UNCHANGED <<inputVars, batchVars, cutVars, runVars, joinVars, output>>
  BY DEF Dispatch
<1>2. ips' = ips /\ ends' = ends /\ \A i : Outcome(i)' = Outcome(i)
  BY <1>1, InputsFrame
<1>3. TypeOK'
  BY <1>1 DEF IInv, TypeOK, inputVars, batchVars, cutVars, runVars, joinVars, Intervals
<1>4. SerialInv' /\ ArraysInv'
  BY <1>1, SerialFrame
<1>5. Len(ips) \in Nat /\ MinRows \in Nat \ {0}
  BY SizesArePositive DEF IInv, TypeOK
<1>6. CutInv'
  BY <1>1, <1>2, <1>5 DEF IInv, CutInv, cutVars, ArrayBase, ArrayLen
<1>7. RunInv' /\ AppendInv' /\ TasksCoverColumn'
  BY <1>1, <1>2 DEF IInv, RunInv, AppendInv, TasksCoverColumn, runVars, joinVars
<1>8. (output' = Pending <=> stage' # "done") /\ AnswersRowByRow'
  BY <1>1, NoAnswerYet
<1>. QED
  BY <1>3, <1>4, <1>6, <1>7, <1>8 DEF IInv

(* What an index into the records is worth after a record was appended.    *)
LEMMA UniqueGrows ==
  ASSUME IInv, NEW result \in Offsets,
         unique' = Append(unique, result)
  PROVE  /\ Len(unique) \in Nat
         /\ unique' \in Seq(Offsets)
         /\ Len(unique') = Len(unique) + 1
         /\ \A u \in 1 .. Len(unique) : unique'[u] = unique[u]
         /\ unique'[Len(unique) + 1] = result
BY DEF IInv, TypeOK

LEMMA RowsGrow ==
  ASSUME TypeOK, NEW n \in Nat, NEW index \in 0 .. n, Len(unique) <= n,
         rows' = Append(rows, index)
  PROVE  /\ Len(rows) \in Nat
         /\ rows' \in Seq(0 .. n)
         /\ Len(rows') = Len(rows) + 1
         /\ \A i \in 1 .. Len(rows) : rows'[i] = rows[i]
         /\ rows'[Len(rows) + 1] = index
<1>1. rows \in Seq(0 .. n)
  <2>1. Len(unique) \in Nat /\ rows \in Seq(0 .. Len(unique))
    BY DEF TypeOK
  <2>2. 0 .. Len(unique) \subseteq 0 .. n
    BY <2>1
  <2>. QED
    BY <2>1, <2>2
<1>. QED
  BY <1>1

LEMMA AddRowStep ==
  ASSUME IInv, UNCHANGED inputVars, Len(rows) < Len(ips),
         NEW result, result = LookupOne(ips[Len(rows) + 1]), result \notin Errors,
         AddRow(result)
  PROVE  /\ SerialInv'
         /\ unique' \in Seq(Offsets)
         /\ offsets' \in [DOMAIN offsets' -> 1 .. Len(unique')] /\ DOMAIN offsets' \subseteq Offsets
         /\ rows' \in Seq(0 .. Len(unique'))
<1>1. /\ ips' = ips /\ \A value : LookupOne(value)' = LookupOne(value)
  BY InputsFrame
<1>2. /\ TypeOK /\ SerialInv /\ Len(unique) \in Nat /\ Len(rows) \in Nat /\ Len(ips) \in Nat
  <2>1. TypeOK /\ SerialInv
    BY DEF IInv
  <2>. QED
    BY <2>1 DEF TypeOK
<1>3. result \in Offsets \cup {NoIp, Missing}
  <2>1. ips[Len(rows) + 1] \in Texts
    BY <1>2 DEF TypeOK
  <2>. QED
    BY <1>2, <2>1, LookupIsTyped
<1>4. CASE result \notin Offsets
  <2>1. rows' = Append(rows, 0) /\ UNCHANGED <<offsets, unique>>
    BY <1>2, <1>4 DEF AddRow, TypeOK
  <2>2. /\ rows' \in Seq(0 .. Len(unique)) /\ Len(rows') = Len(rows) + 1
        /\ \A i \in 1 .. Len(rows) : rows'[i] = rows[i]
        /\ rows'[Len(rows) + 1] = 0
    BY <1>2, <2>1, RowsGrow
  <2>3. RecordsShared'
    <3>1. \A i \in 1 .. Len(rows') : i \in 1 .. Len(rows) \/ i = Len(rows) + 1
      BY <1>2, <2>2
    <3>. QED
      BY <1>1, <1>2, <1>3, <1>4, <2>1, <2>2, <3>1 DEF SerialInv, RecordsShared
  <2>4. SerialInv'
    <3>1. Len(rows') <= Len(ips')
      BY <1>1, <1>2, <2>2
    <3>2. \A u \in 1 .. Len(unique') : \E i \in 1 .. Len(rows') : rows'[i] = u
      BY <1>2, <2>1, <2>2 DEF SerialInv
    <3>3. /\ DOMAIN offsets' = {unique'[u] : u \in 1 .. Len(unique')}
          /\ \A o \in DOMAIN offsets' : unique'[offsets'[o]] = o
      BY <1>2, <2>1 DEF SerialInv
    <3>. QED
      BY <2>3, <3>1, <3>2, <3>3 DEF SerialInv
  <2>. QED
    BY <1>2, <2>1, <2>2, <2>4 DEF TypeOK
<1>5. CASE result \in DOMAIN offsets
  <2>1. rows' = Append(rows, offsets[result]) /\ UNCHANGED <<offsets, unique>>
    BY <1>2, <1>5 DEF AddRow, TypeOK
  <2>2. offsets[result] \in 1 .. Len(unique) /\ unique[offsets[result]] = result
    BY <1>2, <1>5 DEF TypeOK, SerialInv
  <2>3. /\ rows' \in Seq(0 .. Len(unique)) /\ Len(rows') = Len(rows) + 1
        /\ \A i \in 1 .. Len(rows) : rows'[i] = rows[i]
        /\ rows'[Len(rows) + 1] = offsets[result]
    BY <1>2, <2>1, <2>2, RowsGrow
  <2>4. RecordsShared'
    <3>1. ASSUME NEW i \in 1 .. Len(rows')
          PROVE  LET found == LookupOne(ips[i])
                 IN  IF rows'[i] = 0 THEN found \in {NoIp, Missing} ELSE unique[rows'[i]] = found
      <4>1. CASE i \in 1 .. Len(rows)
        BY <1>2, <2>3, <4>1 DEF SerialInv, RecordsShared
      <4>2. CASE i = Len(rows) + 1
        BY <1>2, <2>2, <2>3, <4>2
      <4>. QED
        BY <1>2, <2>3, <4>1, <4>2
    <3>2. \A i, j \in 1 .. Len(unique') : unique'[i] = unique'[j] => i = j
      BY <1>2, <2>1 DEF SerialInv, RecordsShared
    <3>. QED
      BY <1>1, <2>1, <3>1, <3>2 DEF RecordsShared
  <2>5. SerialInv'
    <3>1. Len(rows') <= Len(ips')
      BY <1>1, <1>2, <2>3
    <3>2. \A u \in 1 .. Len(unique') : \E i \in 1 .. Len(rows') : rows'[i] = u
      BY <1>2, <2>1, <2>3 DEF SerialInv
    <3>3. /\ DOMAIN offsets' = {unique'[u] : u \in 1 .. Len(unique')}
          /\ \A o \in DOMAIN offsets' : unique'[offsets'[o]] = o
      BY <1>2, <2>1 DEF SerialInv
    <3>. QED
      BY <2>4, <3>1, <3>2, <3>3 DEF SerialInv
  <2>. QED
    BY <1>2, <2>1, <2>3, <2>5 DEF TypeOK
<1>6. CASE result \in Offsets \ DOMAIN offsets
  <2>. DEFINE n == Len(unique) + 1
  <2>1. /\ unique' = Append(unique, result)
        /\ offsets' = [o \in DOMAIN offsets \cup {result} |->
                         IF o = result THEN n ELSE offsets[o]]
        /\ rows' = Append(rows, n)
    BY <1>6 DEF AddRow
  <2>2. /\ n \in Nat
        /\ unique' \in Seq(Offsets)
        /\ Len(unique') = n
        /\ \A u \in 1 .. Len(unique) : unique'[u] = unique[u]
        /\ unique'[n] = result
    BY <1>2, <1>6, <2>1, UniqueGrows
  <2>3. /\ rows' \in Seq(0 .. n) /\ Len(rows') = Len(rows) + 1
        /\ \A i \in 1 .. Len(rows) : rows'[i] = rows[i]
        /\ rows'[Len(rows) + 1] = n
    BY <1>2, <2>1, <2>2, RowsGrow
  <2>4. \A u \in 1 .. Len(unique) : unique[u] # result
    BY <1>2, <1>6 DEF SerialInv
  <2>5. \A u \in 1 .. n : u \in 1 .. Len(unique) \/ u = n
    BY <1>2
  <2>6. \A i \in 1 .. Len(rows') : i \in 1 .. Len(rows) \/ i = Len(rows) + 1
    BY <1>2, <2>3
  <2>7. \A i \in 1 .. Len(rows) : rows[i] \in 0 .. Len(unique)
    BY <1>2 DEF TypeOK
  <2>. HIDE DEF n
  <2>8. \A o \in DOMAIN offsets : offsets[o] \in 1 .. Len(unique) /\ offsets'[o] = offsets[o]
    BY <1>2, <1>6, <2>1 DEF TypeOK
  <2>9. offsets'[result] = n /\ DOMAIN offsets' = DOMAIN offsets \cup {result}
    BY <2>1
  <2>10. RecordsShared'
    <3>1. \A i, j \in 1 .. Len(unique') : unique'[i] = unique'[j] => i = j
      BY <1>2, <2>2, <2>4, <2>5 DEF SerialInv, RecordsShared
    <3>2. ASSUME NEW i \in 1 .. Len(rows')
          PROVE  LET found == LookupOne(ips[i])
                 IN  IF rows'[i] = 0 THEN found \in {NoIp, Missing} ELSE unique'[rows'[i]] = found
      <4>1. CASE i \in 1 .. Len(rows) /\ rows[i] = 0
        BY <1>2, <2>3, <4>1 DEF SerialInv, RecordsShared
      <4>2. CASE i \in 1 .. Len(rows) /\ rows[i] # 0
        <5>1. rows[i] \in 1 .. Len(unique) /\ rows'[i] = rows[i]
          BY <1>2, <2>3, <2>7, <4>2
        <5>2. unique[rows[i]] = LookupOne(ips[i])
          BY <1>2, <4>2 DEF SerialInv, RecordsShared
        <5>. QED
          BY <2>2, <4>2, <5>1, <5>2
      <4>3. CASE i = Len(rows) + 1
        BY <1>2, <2>2, <2>3, <4>3 DEF n
      <4>. QED
        BY <2>6, <4>1, <4>2, <4>3
    <3>. QED
      BY <1>1, <3>1, <3>2 DEF RecordsShared
  <2>11. SerialInv'
    <3>1. Len(rows') <= Len(ips')
      BY <1>1, <1>2, <2>3
    <3>2. DOMAIN offsets' = {unique'[u] : u \in 1 .. Len(unique')}
      <4>1. {unique'[u] : u \in 1 .. Len(unique')} = {unique[u] : u \in 1 .. Len(unique)} \cup {result}
        BY <1>2, <2>2, <2>5 DEF n
      <4>. QED
        BY <1>2, <2>9, <4>1 DEF SerialInv
    <3>3. \A o \in DOMAIN offsets' : unique'[offsets'[o]] = o
      BY <1>2, <2>2, <2>8, <2>9 DEF SerialInv
    <3>4. ASSUME NEW u \in 1 .. Len(unique')
          PROVE  \E i \in 1 .. Len(rows') : rows'[i] = u
      <4>1. CASE u \in 1 .. Len(unique)
        BY <1>2, <2>3, <4>1 DEF SerialInv
      <4>2. CASE u = n
        <5>1. Len(rows) + 1 \in 1 .. Len(rows')
          BY <1>2, <2>3
        <5>. QED
          BY <2>3, <4>2, <5>1
      <4>. QED
        BY <2>2, <2>5, <4>1, <4>2
    <3>. QED
      BY <2>10, <3>1, <3>2, <3>3, <3>4 DEF SerialInv
  <2>12. \A o \in DOMAIN offsets' : offsets'[o] \in 1 .. n
    BY <1>2, <2>2, <2>8, <2>9 DEF n
  <2>13. offsets' \in [DOMAIN offsets' -> 1 .. Len(unique')] /\ DOMAIN offsets' \subseteq Offsets
    BY <1>2, <1>6, <2>1, <2>2, <2>9, <2>12 DEF TypeOK
  <2>. QED
    BY <2>2, <2>3, <2>11, <2>13
<1>. QED
  BY <1>4, <1>5, <1>6

LEMMA LookupRowStep ==
  ASSUME IInv, LookupRow
  PROVE  IInv'
<1>. DEFINE result == LookupOne(ips[Len(rows) + 1])
<1>1. /\ stage = "lookup" /\ Len(rows) < Len(ips)
      /\ UNCHANGED <<inputVars, cutVars, runVars, joinVars>>
  BY DEF LookupRow
<1>2. ips' = ips /\ ends' = ends /\ strict' = strict
  BY <1>1, InputsFrame
<1>3. Len(ips) \in Nat /\ Len(rows) \in Nat
  BY DEF IInv, TypeOK
<1>4. CASE result \in Errors
  <2>1. Return(result) /\ UNCHANGED batchVars
    BY <1>4 DEF LookupRow
  <2>2. \E i \in 1 .. Len(ips) : Outcome(i) = result
    BY <1>1, <1>3, <1>4 DEF Outcome, RowOutcome
  <2>3. /\ stage' = "done" /\ output' = result
        /\ (output' = Pending <=> stage' # "done") /\ AnswersRowByRow'
    BY <1>1, <1>4, <2>1, <2>2, AnswerError
  <2>4. TypeOK'
    BY <1>1, <1>4, <2>1, <2>3 DEF IInv, TypeOK, inputVars, batchVars, cutVars, runVars, joinVars, Intervals
  <2>5. SerialInv' /\ CutInv' /\ RunInv' /\ AppendInv' /\ TasksCoverColumn' /\ ArraysInv'
    BY <1>1, <2>1, <2>3, SerialFrame, ParallelFrame
  <2>. QED
    BY <2>3, <2>4, <2>5 DEF IInv
<1>5. CASE result \notin Errors
  <2>1. AddRow(result) /\ UNCHANGED <<stage, output>>
    BY <1>5 DEF LookupRow
  <2>2. /\ SerialInv'
        /\ unique' \in Seq(Offsets)
        /\ offsets' \in [DOMAIN offsets' -> 1 .. Len(unique')] /\ DOMAIN offsets' \subseteq Offsets
        /\ rows' \in Seq(0 .. Len(unique'))
    <3>. HIDE DEF result
    <3>1. result = LookupOne(ips[Len(rows) + 1])
      BY DEF result
    <3>. QED
      BY <1>1, <1>5, <2>1, <3>1, AddRowStep
  <2>3. TypeOK'
    BY <1>1, <2>1, <2>2 DEF IInv, TypeOK, inputVars, cutVars, runVars, joinVars, Intervals
  <2>4. CutInv' /\ RunInv' /\ AppendInv' /\ TasksCoverColumn' /\ ArraysInv'
    BY <1>1, <2>1, ParallelFrame
  <2>5. (output' = Pending <=> stage' # "done") /\ AnswersRowByRow'
    BY <1>1, <2>1, NoAnswerYet
  <2>. QED
    BY <2>2, <2>3, <2>4, <2>5 DEF IInv
<1>. QED
  BY <1>4, <1>5

LEMMA DecodeScalarValuesStep ==
  ASSUME IInv, DecodeScalarValues
  PROVE  IInv'
<1>. DEFINE decoded == [u \in 1 .. Len(unique) |-> DecodePath(unique[u])]
            gathered == [i \in 1 .. Len(rows) |-> IF rows[i] = 0 THEN Null ELSE decoded[rows[i]]]
<1>1. /\ stage = "lookup" /\ Len(rows) = Len(ips)
      /\ UNCHANGED <<inputVars, batchVars, cutVars, runVars, joinVars>>
      /\ IF HasError(decoded) THEN Return(FirstError(decoded)) ELSE Return(gathered)
  BY DEF DecodeScalarValues
<1>2. /\ TypeOK /\ SerialInv /\ Len(unique) \in Nat /\ Len(rows) \in Nat
      /\ \A i \in 1 .. Len(rows) : rows[i] \in 0 .. Len(unique)
      /\ \A u \in 1 .. Len(unique) : unique[u] \in Offsets
  <2>1. TypeOK /\ SerialInv
    BY DEF IInv
  <2>2. unique \in Seq(Offsets) /\ rows \in Seq(0 .. Len(unique))
    BY <2>1 DEF TypeOK
  <2>. QED
    BY <2>1, <2>2
<1>3. ASSUME NEW i \in 1 .. Len(rows)
      PROVE  Outcome(i) = gathered[i]
  <2>1. CASE rows[i] = 0
    <3>1. LookupOne(ips[i]) \in {NoIp, Missing}
      BY <1>2, <2>1 DEF SerialInv, RecordsShared
    <3>. QED
      BY <2>1, <3>1, KindsAreDistinct DEF Outcome, RowOutcome, DecodePath
  <2>2. CASE rows[i] # 0
    <3>1. rows[i] \in 1 .. Len(unique) /\ LookupOne(ips[i]) = unique[rows[i]]
      BY <1>2, <2>2 DEF SerialInv, RecordsShared
    <3>2. unique[rows[i]] \in Offsets /\ unique[rows[i]] \notin Errors
      BY <1>2, <3>1, KindsAreDistinct
    <3>. QED
      BY <2>2, <3>1, <3>2 DEF Outcome, RowOutcome
  <2>. QED
    BY <2>1, <2>2
<1>4. /\ stage' = "done"
      /\ output' \in Errors \cup Seq(Cells)
      /\ (output' = Pending <=> stage' # "done") /\ AnswersRowByRow'
  <2>1. CASE HasError(decoded)
    <3>1. Len(decoded) = Len(unique)
      BY <1>2
    <3>. HIDE DEF decoded
    <3>2. PICK u \in 1 .. Len(unique) : decoded[u] \in Errors /\ FirstError(decoded) = decoded[u]
      BY <1>2, <2>1, <3>1, FirstErrorIsError
    <3>3. PICK i \in 1 .. Len(rows) : rows[i] = u
      BY <1>2 DEF SerialInv
    <3>4. Outcome(i) = decoded[u]
      BY <1>2, <1>3, <3>3
    <3>5. Return(decoded[u])
      BY <1>1, <2>1, <3>2
    <3>6. \E k \in 1 .. Len(ips) : Outcome(k) = decoded[u]
      BY <1>1, <3>4
    <3>. QED
      BY <1>1, <3>2, <3>5, <3>6, AnswerError
  <2>2. CASE ~HasError(decoded)
    <3>1. \A u \in 1 .. Len(unique) : decoded[u] \in Cells
      BY <1>2, <2>2, DecodedIsTyped DEF HasError
    <3>2. gathered \in Seq(Cells) /\ Len(gathered) = Len(rows)
      <4>. HIDE DEF decoded
      <4>1. \A i \in 1 .. Len(rows) : gathered[i] \in Cells
        BY <1>2, <3>1 DEF Cells
      <4>. QED
        BY <1>2, <4>1
    <3>3. Return(gathered)
      BY <1>1, <2>2
    <3>4. \A i \in 1 .. Len(ips) : gathered[i] = Outcome(i)
      BY <1>1, <1>3
    <3>. HIDE DEF gathered
    <3>. QED
      BY <1>1, <1>2, <3>2, <3>3, <3>4, AnswerColumn
  <2>. QED
    BY <2>1, <2>2
<1>. HIDE DEF decoded, gathered
<1>5. TypeOK'
  BY <1>1, <1>4 DEF IInv, TypeOK, inputVars, batchVars, cutVars, runVars, joinVars, Intervals
<1>6. SerialInv' /\ CutInv' /\ RunInv' /\ AppendInv' /\ TasksCoverColumn' /\ ArraysInv'
  BY <1>1, <1>4, SerialFrame, ParallelFrame
<1>. QED
  BY <1>4, <1>5, <1>6 DEF IInv

----------------------------------------------------------------------------
(* The parallel path: the cutting.                                         *)

LEMMA FullTasks ==
  ASSUME NEW n \in Nat
  PROVE  FullTo(n) \in Nat /\ FullTo(n + 1) = FullTo(n) + MaxTaskRows
<1>1. \A m \in Nat : n * m \in Nat /\ (n + 1) * m = n * m + m
  OBVIOUS
<1>. QED
  BY <1>1, SizesArePositive DEF FullTo

(* The numbers the cutting reckons with.                                   *)
LEMMA CuttingNumbers ==
  ASSUME IInv
  PROVE  /\ Len(ips) \in Nat /\ Len(ends) \in Nat /\ Len(tasks) \in Nat
         /\ MaxTaskRows \in Nat /\ task_rows \in Nat /\ task_rows < MaxTaskRows
         /\ start \in Nat /\ array \in Nat /\ array >= 1 /\ array <= Len(ends) + 1
         /\ \A k \in 1 .. Len(ends) : ends[k] \in 0 .. Len(ips)
         /\ task.from \in 0 .. Len(ips) /\ task.to \in 0 .. Len(ips)
         /\ ArrayBase \in 0 .. Len(ips)
         /\ array <= Len(ends) => ArrayLen \in Int /\ ArrayBase + ArrayLen = ends[array]
<1>1. TypeOK
  BY DEF IInv
<1>2. /\ Len(ips) \in Nat /\ Len(ends) \in Nat /\ Len(tasks) \in Nat
      /\ start \in Nat /\ array \in Nat /\ array >= 1 /\ array <= Len(ends) + 1
      /\ \A k \in 1 .. Len(ends) : ends[k] \in 0 .. Len(ips)
  BY <1>1 DEF TypeOK
<1>3. MaxTaskRows \in Nat /\ task_rows \in Nat /\ task_rows < MaxTaskRows
  BY <1>1, SizesArePositive DEF TypeOK
<1>4. task.from \in 0 .. Len(ips) /\ task.to \in 0 .. Len(ips)
  BY <1>1 DEF TypeOK, Intervals
<1>5. ArrayBase \in 0 .. Len(ips)
  BY <1>2 DEF ArrayBase
<1>6. array <= Len(ends) => ArrayLen \in Int /\ ArrayBase + ArrayLen = ends[array]
  BY <1>2, <1>5 DEF ArrayLen
<1>. QED
  BY <1>2, <1>3, <1>4, <1>5, <1>6

LEMMA CutSliceStep ==
  ASSUME IInv, CutSlice
  PROVE  IInv'
<1>. DEFINE n == SliceRows
            end == ArrayBase + (start + SliceRows)
<1>1. /\ stage = "cut" /\ stage' = "cut"
      /\ array <= Len(ends) /\ start < ArrayLen
      /\ AddSlice
      /\ UNCHANGED <<inputVars, batchVars, array, runVars, joinVars, output>>
  BY DEF CutSlice
<1>2. /\ ips' = ips /\ ends' = ends /\ array' = array /\ start' = start + n
      /\ \A i : Outcome(i)' = Outcome(i)
  BY <1>1, InputsFrame DEF AddSlice
<1>3. /\ Len(ips) \in Nat /\ Len(ends) \in Nat /\ Len(tasks) \in Nat
      /\ MaxTaskRows \in Nat /\ task_rows \in Nat /\ task_rows < MaxTaskRows
      /\ start \in Nat /\ array \in Nat /\ array >= 1
      /\ ends[array] \in 0 .. Len(ips)
      /\ task.from \in 0 .. Len(ips) /\ task.to \in 0 .. Len(ips)
      /\ ArrayBase \in 0 .. Len(ips)
      /\ ArrayLen \in Int /\ ArrayBase + ArrayLen = ends[array]
  BY <1>1, CuttingNumbers
<1>4. /\ n \in Nat /\ n >= 1 /\ n <= MaxTaskRows - task_rows /\ n <= ArrayLen - start
  BY <1>1, <1>3 DEF SliceRows
<1>5. /\ ArrayBase' = ArrayBase /\ ArrayLen' = ArrayLen
  BY <1>2 DEF ArrayBase, ArrayLen
<1>6. /\ \A k \in 1 .. Len(tasks) :
           tasks[k].from = FullTo(k - 1) /\ tasks[k].to = FullTo(k)
      /\ task.from = FullTo(Len(tasks)) /\ task.to = task.from + task_rows
      /\ task.to = ArrayBase + start
      /\ Len(ips) > 0
  BY <1>1, <1>3 DEF IInv, CutInv
<1>7. start' \in 0 .. Len(ips) /\ start' <= ArrayLen /\ end \in 0 .. Len(ips) /\ end = task.to + n
  <2>1. start + n \in Nat /\ start + n <= ArrayLen
    BY <1>3, <1>4
  <2>2. end = task.to + n
    BY <1>3, <1>4, <1>6
  <2>3. ArrayBase + (start + n) \in Nat /\ ArrayBase + (start + n) <= Len(ips)
    BY <1>3, <2>1
  <2>. QED
    BY <1>2, <1>3, <2>1, <2>2, <2>3
<1>. HIDE DEF n, end
<1>8. tasks \in Seq(Intervals) /\ task \in Intervals
  BY DEF IInv, TypeOK
<1>9. /\ tasks' \in Seq(Intervals) /\ Len(tasks') >= Len(tasks) /\ Len(tasks') \in Nat
      /\ task' \in Intervals /\ task_rows' \in 0 .. MaxTaskRows - 1
      /\ \A k \in 1 .. Len(tasks') :
           tasks'[k].from = FullTo(k - 1) /\ tasks'[k].to = FullTo(k)
      /\ task'.from = FullTo(Len(tasks')) /\ task'.to = task'.from + task_rows'
      /\ task'.to = end
  <2>1. CASE /\ task_rows + n < MaxTaskRows
             /\ task' = [task EXCEPT !.to = end]
             /\ task_rows' = task_rows + n
             /\ UNCHANGED tasks
    <3>1. task' \in Intervals /\ task'.from = task.from /\ task'.to = end
      BY <1>7, <1>8, <2>1 DEF Intervals
    <3>2. tasks' = tasks /\ Len(tasks) \in Nat /\ Len(tasks') >= Len(tasks)
      BY <1>3, <2>1
    <3>3. task_rows' \in 0 .. MaxTaskRows - 1
      BY <1>3, <1>4, <2>1
    <3>4. task'.to = task'.from + task_rows'
      <4>1. end = (task.from + task_rows) + n
        BY <1>6, <1>7
      <4>2. task.from \in Nat /\ task_rows \in Nat /\ n \in Nat /\ task_rows' = task_rows + n
        BY <1>3, <1>4, <2>1
      <4>. QED
        BY <3>1, <4>1, <4>2
    <3>. QED
      BY <1>6, <1>8, <3>1, <3>2, <3>3, <3>4
  <2>2. CASE /\ task_rows + n = MaxTaskRows
             /\ tasks' = Append(tasks, [task EXCEPT !.to = end])
             /\ task' = [from |-> end, to |-> end]
             /\ task_rows' = 0
    <3>. DEFINE full == [task EXCEPT !.to = end]
    <3>1. full \in Intervals /\ full.from = task.from /\ full.to = end
      BY <1>7, <1>8 DEF Intervals
    <3>. HIDE DEF full
    <3>2. /\ tasks' \in Seq(Intervals) /\ Len(tasks') = Len(tasks) + 1
          /\ \A k \in 1 .. Len(tasks) : tasks'[k] = tasks[k]
          /\ tasks'[Len(tasks) + 1] = full
      BY <1>8, <2>2, <3>1 DEF full
    <3>3. end = FullTo(Len(tasks')) /\ full.from = FullTo(Len(tasks))
      <4>1. /\ FullTo(Len(tasks)) \in Nat
            /\ FullTo(Len(tasks')) = FullTo(Len(tasks)) + MaxTaskRows
        BY <1>3, <3>2, FullTasks
      <4>2. end = (task.from + task_rows) + n
        BY <1>6, <1>7
      <4>3. /\ task.from \in Nat /\ task_rows \in Nat /\ n \in Nat
            /\ task_rows + n = MaxTaskRows
        BY <1>3, <1>4, <2>2
      <4>4. task.from = FullTo(Len(tasks))
        BY <1>6
      <4>. QED
        BY <3>1, <4>1, <4>2, <4>3, <4>4
    <3>4. task' \in Intervals /\ task'.from = end /\ task'.to = end
      BY <1>7, <2>2 DEF Intervals
    <3>5. ASSUME NEW k \in 1 .. Len(tasks')
          PROVE  tasks'[k].from = FullTo(k - 1) /\ tasks'[k].to = FullTo(k)
      <4>1. CASE k \in 1 .. Len(tasks)
        BY <1>6, <3>2, <4>1
      <4>2. CASE k = Len(tasks) + 1
        <5>1. k - 1 = Len(tasks) /\ k = Len(tasks')
          BY <1>3, <3>2, <4>2
        <5>. QED
          BY <3>1, <3>2, <3>3, <4>2, <5>1
      <4>. QED
        BY <1>3, <3>2, <4>1, <4>2
    <3>6. task_rows' \in 0 .. MaxTaskRows - 1 /\ Len(tasks') >= Len(tasks) /\ Len(tasks') \in Nat
      BY <1>3, <2>2, <3>2
    <3>7. task'.to = task'.from + task_rows'
      <4>1. end \in Nat /\ end = end + 0
        BY <1>3, <1>7
      <4>. QED
        BY <2>2, <3>4, <4>1
    <3>8. task'.from = FullTo(Len(tasks'))
      BY <3>3, <3>4
    <3>. QED
      BY <3>2, <3>4, <3>5, <3>6, <3>7, <3>8
  <2>. QED
    BY <1>1, <1>2, <2>1, <2>2 DEF AddSlice, n, end
<1>10. TypeOK'
  <2>1. unclaimed \subseteq 1 .. Len(tasks') /\ running \in [Workers -> (1 .. Len(tasks')) \cup {Idle}]
    <3>1. 1 .. Len(tasks) \subseteq 1 .. Len(tasks')
      BY <1>3, <1>9
    <3>. QED
      BY <3>1 DEF IInv, TypeOK
  <2>2. task' \in Intervals' /\ tasks' \in Seq(Intervals')
    BY <1>2, <1>9 DEF Intervals
  <2>. QED
    BY <1>1, <1>2, <1>7, <1>9, <2>1, <2>2 DEF IInv, TypeOK, inputVars, batchVars, runVars, joinVars
<1>11. SerialInv' /\ ArraysInv'
  BY <1>1, SerialFrame
<1>12. CutInv'
  <2>1. task'.to = ArrayBase' + start'
    BY <1>2, <1>5, <1>9 DEF end, n
  <2>2. IF array' <= Len(ends') THEN start' <= ArrayLen' ELSE start' = 0
    BY <1>1, <1>2, <1>5, <1>7
  <2>3. /\ \A k \in 1 .. Len(tasks') :
             tasks'[k].from = FullTo(k - 1) /\ tasks'[k].to = FullTo(k)
        /\ task'.from = FullTo(Len(tasks')) /\ task'.to = task'.from + task_rows'
    BY <1>9
  <2>4. (\A k : FullTo(k)' = FullTo(k)) /\ stage' = "cut" /\ Len(ips') > 0
    BY <1>1, <1>2, <1>6 DEF FullTo
  <2>. QED
    BY <2>1, <2>2, <2>3, <2>4 DEF CutInv
<1>13. RunInv' /\ AppendInv' /\ TasksCoverColumn'
  BY <1>1, <1>2 DEF IInv, RunInv, AppendInv, TasksCoverColumn, runVars, joinVars
<1>14. (output' = Pending <=> stage' # "done") /\ AnswersRowByRow'
  BY <1>1, NoAnswerYet
<1>. QED
  BY <1>10, <1>11, <1>12, <1>13, <1>14 DEF IInv

LEMMA NextArrayStep ==
  ASSUME IInv, NextArray
  PROVE  IInv'
<1>1. /\ stage = "cut" /\ stage' = "cut"
      /\ array <= Len(ends) /\ start = ArrayLen
      /\ array' = array + 1 /\ start' = 0
      /\ UNCHANGED <<inputVars, batchVars, tasks, task, task_rows, runVars, joinVars, output>>
  BY DEF NextArray
<1>2. /\ ips' = ips /\ ends' = ends /\ \A i : Outcome(i)' = Outcome(i)
  BY <1>1, InputsFrame
<1>3. /\ Len(ips) \in Nat /\ Len(ends) \in Nat
      /\ array \in Nat /\ array >= 1
      /\ \A k \in 1 .. Len(ends) : ends[k] \in 0 .. Len(ips)
      /\ ArrayBase + ArrayLen = ends[array]
  BY <1>1, CuttingNumbers
<1>4. ArrayBase' = ends[array]
  BY <1>1, <1>2, <1>3 DEF ArrayBase
<1>5. array' <= Len(ends) => 0 <= ArrayLen'
  <2>1. array' <= Len(ends) => ends[array] <= ends[array + 1]
    <3>1. \A k \in 2 .. Len(ends) : ends[k - 1] <= ends[k]
      BY DEF IInv, ArraysInv
    <3>2. array' <= Len(ends) => array + 1 \in 2 .. Len(ends) /\ (array + 1) - 1 = array
      BY <1>1, <1>3
    <3>. QED
      BY <3>1, <3>2
  <2>2. array' <= Len(ends) => ends[array] \in Int /\ ends[array + 1] \in Int
    BY <1>1, <1>3
  <2>. QED
    BY <1>1, <1>2, <1>4, <2>1, <2>2 DEF ArrayLen
<1>6. TypeOK'
  <2>1. array' \in 1 .. Len(ends') + 1 /\ start' \in 0 .. Len(ips')
    BY <1>1, <1>2, <1>3
  <2>. QED
    BY <1>1, <1>2, <2>1 DEF IInv, TypeOK, inputVars, batchVars, runVars, joinVars, Intervals
<1>7. SerialInv' /\ ArraysInv'
  BY <1>1, SerialFrame
<1>8. CutInv'
  <2>1. task.to = ends[array] + 0
    BY <1>1, <1>3 DEF IInv, CutInv
  <2>. QED
    BY <1>1, <1>2, <1>4, <1>5, <2>1 DEF IInv, CutInv
<1>9. RunInv' /\ AppendInv' /\ TasksCoverColumn'
  BY <1>1, <1>2 DEF IInv, RunInv, AppendInv, TasksCoverColumn, runVars, joinVars
<1>10. (output' = Pending <=> stage' # "done") /\ AnswersRowByRow'
  BY <1>1, NoAnswerYet
<1>. QED
  BY <1>6, <1>7, <1>8, <1>9, <1>10 DEF IInv

LEMMA StartTasksStep ==
  ASSUME IInv, StartTasks
  PROVE  IInv'
<1>1. /\ stage = "cut" /\ stage' = "running" /\ array > Len(ends)
      /\ tasks' = IF task.from = task.to THEN tasks ELSE Append(tasks, task)
      /\ unclaimed' = 1 .. Len(tasks')
      /\ chunks' = [k \in 1 .. Len(tasks') |-> <<>>]
      /\ UNCHANGED <<inputVars, batchVars, task, task_rows, array, start, running, saved,
                     panicked, joinVars, output>>
  BY DEF StartTasks
<1>2. /\ ips' = ips /\ ends' = ends /\ \A i : Outcome(i)' = Outcome(i)
  BY <1>1, InputsFrame
<1>3. /\ Len(ips) \in Nat /\ Len(ends) \in Nat /\ Len(tasks) \in Nat
      /\ MaxTaskRows \in Nat /\ task_rows \in Nat /\ task_rows < MaxTaskRows
      /\ array \in Nat /\ array = Len(ends) + 1
      /\ task.from \in 0 .. Len(ips) /\ task.to \in 0 .. Len(ips)
  BY <1>1, CuttingNumbers
<1>4. /\ \A k \in 1 .. Len(tasks) :
           tasks[k].from = FullTo(k - 1) /\ tasks[k].to = FullTo(k)
      /\ task.from = FullTo(Len(tasks)) /\ task.to = task.from + task_rows
      /\ task.to = ArrayBase /\ Len(ips) > 0
  <2>1. task.to = ArrayBase + start /\ start = 0
    BY <1>1, <1>3 DEF IInv, CutInv
  <2>2. ArrayBase \in Nat
    BY CuttingNumbers
  <2>. QED
    BY <1>1, <2>1, <2>2 DEF IInv, CutInv
<1>5. task.to = Len(ips)
  <2>1. ends # <<>> /\ ends[Len(ends)] = Len(ips)
    BY <1>4 DEF IInv, ArraysInv
  <2>2. Len(ends) # 0
    BY <2>1 DEF IInv, TypeOK
  <2>. QED
    BY <1>3, <1>4, <2>1, <2>2 DEF ArrayBase
<1>6. tasks \in Seq(Intervals) /\ task \in Intervals
  BY DEF IInv, TypeOK
<1>7. /\ tasks' \in Seq(Intervals) /\ Len(tasks') \in Nat /\ Len(tasks') > 0
      /\ \A k \in 1 .. Len(tasks') :
           /\ tasks'[k].from = FullTo(k - 1)
           /\ k < Len(tasks') => tasks'[k].to = FullTo(k)
           /\ k = Len(tasks') => tasks'[k].to = Len(ips)
           /\ tasks'[k].to - tasks'[k].from \in 1 .. MaxTaskRows
  <2>1. CASE task.from = task.to
    <3>1. tasks' = tasks /\ task.from = Len(ips)
      BY <1>1, <1>5, <2>1
    <3>2. Len(tasks) # 0
      <4>1. FullTo(0) = 0
        BY SizesArePositive DEF FullTo
      <4>2. task.from = FullTo(Len(tasks)) /\ task.from = Len(ips) /\ Len(ips) > 0
        BY <1>4, <3>1
      <4>3. FullTo(Len(tasks)) # FullTo(0)
        BY <1>3, <4>1, <4>2
      <4>. QED
        BY <4>3, Zenon
    <3>3. ASSUME NEW k \in 1 .. Len(tasks)
          PROVE  tasks[k].to - tasks[k].from \in 1 .. MaxTaskRows
      <4>1. k - 1 \in Nat /\ (k - 1) + 1 = k
        BY <1>3
      <4>2. FullTo(k - 1) \in Nat /\ FullTo(k) = FullTo(k - 1) + MaxTaskRows
        BY <4>1, FullTasks
      <4>. QED
        BY <1>3, <1>4, <4>2, SizesArePositive
    <3>4. Len(tasks) \in Nat /\ Len(tasks) > 0
      BY <1>3, <3>2
    <3>5. ASSUME NEW k \in 1 .. Len(tasks)
          PROVE  /\ tasks[k].from = FullTo(k - 1)
                 /\ k < Len(tasks) => tasks[k].to = FullTo(k)
                 /\ k = Len(tasks) => tasks[k].to = Len(ips)
      <4>1. tasks[k].from = FullTo(k - 1) /\ tasks[k].to = FullTo(k)
        BY <1>4
      <4>2. Len(ips) = FullTo(Len(tasks))
        BY <1>4, <3>1
      <4>. QED
        BY <4>1, <4>2
    <3>. QED
      BY <1>6, <3>1, <3>3, <3>4, <3>5
  <2>2. CASE task.from # task.to
    <3>1. /\ tasks' \in Seq(Intervals) /\ Len(tasks') = Len(tasks) + 1
          /\ \A k \in 1 .. Len(tasks) : tasks'[k] = tasks[k]
          /\ tasks'[Len(tasks) + 1] = task
      BY <1>1, <1>6, <2>2
    <3>2. ASSUME NEW k \in 1 .. Len(tasks)
          PROVE  tasks[k].to - tasks[k].from \in 1 .. MaxTaskRows
      <4>1. k - 1 \in Nat /\ (k - 1) + 1 = k
        BY <1>3
      <4>2. FullTo(k - 1) \in Nat /\ FullTo(k) = FullTo(k - 1) + MaxTaskRows
        BY <4>1, FullTasks
      <4>. QED
        BY <1>3, <1>4, <4>2, SizesArePositive
    <3>3. /\ Len(tasks') - 1 = Len(tasks)
          /\ task.to - task.from \in 1 .. MaxTaskRows
      BY <1>3, <1>4, <2>2, <3>1
    <3>4. \A k \in 1 .. Len(tasks') : k \in 1 .. Len(tasks) \/ k = Len(tasks')
      BY <1>3, <3>1
    <3>5. ASSUME NEW k \in 1 .. Len(tasks')
          PROVE  /\ tasks'[k].from = FullTo(k - 1)
                 /\ k < Len(tasks') => tasks'[k].to = FullTo(k)
                 /\ k = Len(tasks') => tasks'[k].to = Len(ips)
                 /\ tasks'[k].to - tasks'[k].from \in 1 .. MaxTaskRows
      <4>1. CASE k \in 1 .. Len(tasks)
        <5>1. tasks'[k] = tasks[k] /\ tasks[k].from = FullTo(k - 1) /\ tasks[k].to = FullTo(k)
          BY <1>4, <3>1, <4>1
        <5>2. k # Len(tasks')
          BY <1>3, <3>1, <4>1
        <5>. QED
          BY <3>2, <4>1, <5>1, <5>2
      <4>2. CASE k = Len(tasks')
        <5>1. tasks'[k] = task /\ k - 1 = Len(tasks) /\ ~(k < Len(tasks'))
          BY <1>3, <3>1, <3>3, <4>2
        <5>2. task.from = FullTo(Len(tasks))
          BY <1>4
        <5>. QED
          BY <1>5, <3>3, <5>1, <5>2
      <4>. QED
        BY <3>4, <4>1, <4>2
    <3>. QED
      BY <1>3, <3>1, <3>5
  <2>. QED
    BY <2>1, <2>2
<1>8. TasksCoverColumn'
  <2>1. tasks' # <<>>
    BY <1>7
  <2>. QED
    BY <1>2, <1>7, <2>1 DEF TasksCoverColumn
<1>9. /\ chunks' \in Seq(Seq(Cells)) /\ Len(chunks') = Len(tasks')
      /\ unclaimed' \subseteq 1 .. Len(tasks')
  BY <1>1, <1>7
<1>10. \A w \in Workers : running[w] = Idle
  BY <1>1 DEF IInv, RunInv
<1>11. TypeOK'
  <2>1. running' \in [Workers -> (1 .. Len(tasks')) \cup {Idle}]
    BY <1>1, <1>10 DEF IInv, TypeOK
  <2>2. appended' \in 0 .. Len(chunks')
    <3>1. appended = 0
      BY <1>1 DEF IInv, AppendInv
    <3>. QED
      BY <1>1, <1>7, <1>9, <3>1 DEF joinVars
  <2>3. task' \in Intervals' /\ tasks' \in Seq(Intervals')
    BY <1>1, <1>2, <1>6, <1>7 DEF Intervals
  <2>. QED
    BY <1>1, <1>2, <1>7, <1>9, <2>1, <2>2, <2>3 DEF IInv, TypeOK, inputVars, batchVars, joinVars
<1>12. SerialInv' /\ ArraysInv'
  BY <1>1, SerialFrame
<1>13. CutInv' /\ AppendInv'
  BY <1>1 DEF IInv, CutInv, AppendInv, joinVars
<1>14. RunInv'
  BY <1>1, <1>2, <1>9 DEF IInv, RunInv
<1>15. (output' = Pending <=> stage' # "done") /\ AnswersRowByRow'
  BY <1>1, NoAnswerYet
<1>. QED
  BY <1>8, <1>11, <1>12, <1>13, <1>14, <1>15 DEF IInv

----------------------------------------------------------------------------
(* The parallel path: the tasks, and the appending of their chunks.        *)

LEMMA CutFrame ==
  ASSUME IInv, UNCHANGED <<inputVars, batchVars, cutVars>>,
         stage \in {"running", "append"}, stage' \in {"running", "append", "done"}
  PROVE  /\ SerialInv' /\ ArraysInv' /\ CutInv' /\ TasksCoverColumn'
         /\ ips' = ips /\ tasks' = tasks /\ \A i : Outcome(i)' = Outcome(i)
<1>1. ips' = ips /\ tasks' = tasks /\ \A i : Outcome(i)' = Outcome(i)
  BY InputsFrame DEF cutVars
<1>2. SerialInv' /\ ArraysInv'
  BY SerialFrame
<1>3. CutInv'
  BY DEF CutInv
<1>4. TasksCoverColumn'
  BY <1>1 DEF IInv, TasksCoverColumn, FullTo
<1>. QED
  BY <1>1, <1>2, <1>3, <1>4

(* The tasks once they are cut.                                            *)
LEMMA TaskBounds ==
  ASSUME IInv, stage \in {"running", "append"}, NEW k \in 1 .. Len(tasks)
  PROVE  /\ tasks[k] \in Intervals
         /\ tasks[k].to - tasks[k].from \in Nat
<1>1. tasks[k] \in Intervals
  BY DEF IInv, TypeOK
<1>2. tasks[k].to - tasks[k].from \in 1 .. MaxTaskRows
  BY DEF IInv, TasksCoverColumn
<1>. QED
  BY <1>1, <1>2, SizesArePositive

(* What a task results in: the error of one of its rows, or their values.  *)
LEMMA TaskResults ==
  ASSUME TypeOK, NEW t \in Intervals, t.to - t.from \in Nat
  PROVE  \/ /\ TaskResult(t) \in Errors
            /\ \E i \in 1 .. Len(ips) : Outcome(i) = TaskResult(t)
         \/ /\ TaskResult(t) \in Seq(Cells)
            /\ Len(TaskResult(t)) = t.to - t.from
            /\ \A i \in 1 .. Len(TaskResult(t)) : TaskResult(t)[i] = Outcome(t.from + i)
<1>. DEFINE n == t.to - t.from
            results == [i \in 1 .. n |-> RowOutcome(ips[t.from + i])]
<1>1. Len(results) = n /\ results \in Seq(Cells \cup Errors) /\ \A i \in 1 .. n : results[i] = Outcome(t.from + i)
  <2>1. ASSUME NEW i \in 1 .. n
        PROVE  t.from + i \in 1 .. Len(ips) /\ RowOutcome(ips[t.from + i]) \in Cells \cup Errors
    <3>1. t.from \in 0 .. Len(ips) /\ t.to \in 0 .. Len(ips) /\ Len(ips) \in Nat
      BY DEF Intervals, TypeOK
    <3>2. t.from + i \in 1 .. Len(ips)
      BY <3>1
    <3>3. ips[t.from + i] \in Texts
      BY <3>2 DEF TypeOK
    <3>. QED
      BY <3>2, <3>3, LookupIsTyped
  <2>. QED
    BY <2>1 DEF Outcome
<1>2. \A i \in 1 .. n : t.from + i \in 1 .. Len(ips)
  <2>1. t.from \in 0 .. Len(ips) /\ t.to \in 0 .. Len(ips) /\ Len(ips) \in Nat
    BY DEF Intervals, TypeOK
  <2>. QED
    BY <2>1
<1>3. TaskResult(t) = IF HasError(results) THEN FirstError(results) ELSE results
  BY DEF TaskResult, CollectResults
<1>. HIDE DEF results
<1>4. CASE HasError(results)
  <2>1. PICK i \in 1 .. n : results[i] \in Errors /\ FirstError(results) = results[i]
    BY <1>1, <1>4, FirstErrorIsError
  <2>. QED
    BY <1>1, <1>2, <1>3, <1>4, <2>1
<1>5. CASE ~HasError(results)
  <2>1. \A i \in 1 .. n : results[i] \in Cells
    BY <1>1, <1>5 DEF HasError
  <2>2. results \in Seq(Cells)
    BY <1>1, <2>1
  <2>. QED
    BY <1>1, <1>3, <1>5, <2>2
<1>. QED
  BY <1>4, <1>5

LEMMA ClaimTaskStep ==
  ASSUME IInv, NEW w \in Workers, NEW k \in unclaimed, ClaimTask(w, k)
  PROVE  IInv'
<1>1. /\ stage = "running" /\ stage' = "running" /\ running[w] = Idle
      /\ running' = [running EXCEPT ![w] = k]
      /\ unclaimed' = unclaimed \ {k}
      /\ UNCHANGED <<inputVars, batchVars, cutVars, chunks, saved, panicked, joinVars, output>>
  BY DEF ClaimTask
<1>2. /\ SerialInv' /\ ArraysInv' /\ CutInv' /\ TasksCoverColumn'
      /\ ips' = ips /\ tasks' = tasks /\ \A i : Outcome(i)' = Outcome(i)
  BY <1>1, CutFrame
<1>3. /\ unclaimed \subseteq 1 .. Len(tasks) /\ k \in 1 .. Len(tasks)
      /\ running \in [Workers -> (1 .. Len(tasks)) \cup {Idle}]
  BY DEF IInv, TypeOK
<1>4. TypeOK'
  <2>1. unclaimed' \subseteq 1 .. Len(tasks') /\ running' \in [Workers -> (1 .. Len(tasks')) \cup {Idle}]
    BY <1>1, <1>2, <1>3
  <2>. QED
    BY <1>1, <2>1 DEF IInv, TypeOK, inputVars, batchVars, cutVars, joinVars, Intervals
<1>5. RunInv'
  <2>1. ASSUME NEW j \in 1 .. Len(tasks)
        PROVE  \/ j \in unclaimed' \/ (\E v \in Workers : running'[v] = j) \/ ChunkDone(j)'
               \/ saved' # {} \/ panicked'
    <3>1. ChunkDone(j)' <=> ChunkDone(j)
      BY <1>1, <1>2 DEF ChunkDone
    <3>2. j # Idle
      BY KindsAreDistinct
    <3>3. CASE j = k
      BY <1>1, <1>3, <3>3
    <3>4. CASE j # k
      <4>1. \/ j \in unclaimed \/ (\E v \in Workers : running[v] = j) \/ ChunkDone(j)
            \/ saved # {} \/ panicked
        BY <1>1 DEF IInv, RunInv
      <4>2. \A v \in Workers : running[v] = j => running'[v] = j
        BY <1>1, <1>3, <3>2
      <4>. QED
        BY <1>1, <3>1, <3>4, <4>1, <4>2
    <3>. QED
      BY <3>3, <3>4
  <2>. QED
    BY <1>1, <1>2, <2>1 DEF IInv, RunInv
<1>6. AppendInv'
  BY <1>1 DEF IInv, AppendInv, joinVars
<1>7. (output' = Pending <=> stage' # "done") /\ AnswersRowByRow'
  BY <1>1, NoAnswerYet
<1>. QED
  BY <1>2, <1>4, <1>5, <1>6, <1>7 DEF IInv

LEMMA RunTaskStep ==
  ASSUME IInv, NEW w \in Workers, RunTask(w)
  PROVE  IInv'
<1>1. stage = "running" /\ stage' = "running" /\ running[w] # Idle
  BY DEF IInv, RunInv, RunTask
<1>. PICK k \in 1 .. Len(tasks) : running[w] = k
  BY <1>1 DEF IInv, TypeOK
<1>. DEFINE result == TaskResult(tasks[k])
<1>2. /\ k # Idle
      /\ running' = [running EXCEPT ![w] = Idle]
      /\ UNCHANGED <<inputVars, batchVars, cutVars, unclaimed, joinVars, output>>
  BY <1>1 DEF RunTask
<1>3. \/ result = Panicked /\ panicked' = TRUE /\ UNCHANGED <<saved, chunks>>
      \/ result \in Errors \ {Panicked} /\ saved' = saved \cup {result} /\ UNCHANGED <<panicked, chunks>>
      \/ result \notin Errors /\ chunks' = [chunks EXCEPT ![k] = result] /\ UNCHANGED <<saved, panicked>>
  <2>1. result = TaskResult(tasks[running[w]])
    OBVIOUS
  <2>. HIDE DEF result
  <2>. QED
    BY <2>1 DEF RunTask
<1>4. /\ SerialInv' /\ ArraysInv' /\ CutInv' /\ TasksCoverColumn'
      /\ ips' = ips /\ tasks' = tasks /\ \A i : Outcome(i)' = Outcome(i)
  BY <1>1, <1>2, CutFrame
<1>5. /\ k \in 1 .. Len(tasks) /\ running \in [Workers -> (1 .. Len(tasks)) \cup {Idle}]
      /\ chunks \in Seq(Seq(Cells)) /\ Len(chunks) = Len(tasks)
  <2>1. /\ running \in [Workers -> (1 .. Len(tasks)) \cup {Idle}]
        /\ chunks \in Seq(Seq(Cells))
    BY DEF IInv, TypeOK
  <2>2. Len(chunks) = Len(tasks)
    BY <1>1 DEF IInv, RunInv
  <2>. QED
    BY <1>2, <2>1, <2>2
<1>6. \/ result \in Errors /\ \E i \in 1 .. Len(ips) : Outcome(i) = result
      \/ /\ result \in Seq(Cells) /\ Len(result) = tasks[k].to - tasks[k].from
         /\ \A i \in 1 .. Len(result) : result[i] = Outcome(tasks[k].from + i)
  <2>1. tasks[k] \in Intervals /\ tasks[k].to - tasks[k].from \in Nat
    BY <1>1, <1>5, TaskBounds
  <2>. QED
    BY <2>1, TaskResults DEF IInv
<1>. HIDE DEF result
<1>7. CASE result \in Errors
  <2>1. /\ chunks' = chunks /\ saved' \subseteq saved \cup {result} /\ panicked' \in BOOLEAN
        /\ saved' # {} \/ panicked'
        /\ panicked' => panicked \/ result = Panicked
    <3>1. panicked \in BOOLEAN
      BY DEF IInv, TypeOK
    <3>2. CASE result = Panicked /\ panicked' = TRUE /\ UNCHANGED <<saved, chunks>>
      BY <3>2
    <3>3. CASE saved' = saved \cup {result} /\ UNCHANGED <<panicked, chunks>>
      <4>1. saved' # {}
        BY <3>3
      <4>. QED
        BY <3>1, <3>3, <4>1, Zenon
    <3>. QED
      BY <1>3, <1>7, <3>2, <3>3
  <2>2. \E i \in 1 .. Len(ips) : Outcome(i) = result
    BY <1>6, <1>7, AnswersDiffer
  <2>3. RunInv'
    BY <1>1, <1>4, <1>5, <2>1, <2>2 DEF IInv, RunInv
  <2>4. TypeOK'
    <3>1. running' \in [Workers -> (1 .. Len(tasks)) \cup {Idle}]
      BY <1>2, <1>5
    <3>2. saved' \subseteq Errors
      BY <1>7, <2>1 DEF IInv, TypeOK
    <3>. QED
      BY <1>1, <1>2, <2>1, <3>1, <3>2 DEF IInv, TypeOK, inputVars, batchVars, cutVars, joinVars, Intervals
  <2>. QED
    BY <1>4, <2>3, <2>4, <1>1, <1>2, NoAnswerYet DEF IInv, AppendInv, joinVars
<1>8. CASE result \notin Errors
  <2>1. /\ chunks' = [chunks EXCEPT ![k] = result] /\ saved' = saved /\ panicked' = panicked
        /\ result \in Seq(Cells) /\ Len(result) = tasks[k].to - tasks[k].from
        /\ \A i \in 1 .. Len(result) : result[i] = Outcome(tasks[k].from + i)
    BY <1>3, <1>6, <1>8 DEF Errors
  <2>2. /\ chunks' \in Seq(Seq(Cells)) /\ Len(chunks') = Len(tasks) /\ chunks'[k] = result
        /\ \A j \in 1 .. Len(tasks) : j # k => chunks'[j] = chunks[j]
    BY <1>5, <2>1
  <2>3. RunInv'
    <3>1. ChunkDone(k)'
      BY <1>4, <1>5, <2>1, <2>2 DEF ChunkDone
    <3>2. ASSUME NEW j \in 1 .. Len(tasks), j # k
          PROVE  \/ j \in unclaimed' \/ (\E v \in Workers : running'[v] = j) \/ ChunkDone(j)'
                 \/ saved' # {} \/ panicked'
      <4>1. \/ j \in unclaimed \/ (\E v \in Workers : running[v] = j) \/ ChunkDone(j)
            \/ saved # {} \/ panicked
        BY <1>1 DEF IInv, RunInv
      <4>2. \A v \in Workers : running[v] = j => running'[v] = j
        BY <1>2, <1>5, <3>2
      <4>3. ChunkDone(j) => ChunkDone(j)'
        BY <1>4, <2>2, <3>2 DEF ChunkDone
      <4>. QED
        BY <1>2, <2>1, <4>1, <4>2, <4>3
    <3>3. \A j \in 1 .. Len(tasks) :
            \/ j \in unclaimed' \/ (\E v \in Workers : running'[v] = j) \/ ChunkDone(j)'
            \/ saved' # {} \/ panicked'
      BY <3>1, <3>2
    <3>. QED
      BY <1>1, <1>4, <2>1, <2>2, <3>3 DEF IInv, RunInv
  <2>4. TypeOK'
    <3>1. running' \in [Workers -> (1 .. Len(tasks)) \cup {Idle}]
      BY <1>2, <1>5
    <3>2. appended' \in 0 .. Len(chunks')
      BY <1>2, <1>5, <2>2 DEF IInv, TypeOK, joinVars
    <3>. QED
      BY <1>1, <1>2, <2>1, <2>2, <3>1, <3>2 DEF IInv, TypeOK, inputVars, batchVars, cutVars, joinVars, Intervals
  <2>. QED
    BY <1>4, <2>3, <2>4, <1>1, <1>2, NoAnswerYet DEF IInv, AppendInv, joinVars
<1>. QED
  BY <1>7, <1>8

LEMMA JoinTasksStep ==
  ASSUME IInv, JoinTasks
  PROVE  IInv'
<1>1. /\ stage = "running" /\ \A w \in Workers : running[w] = Idle
      /\ unclaimed = {} \/ saved # {} \/ panicked
      /\ UNCHANGED <<inputVars, batchVars, cutVars, runVars>>
  BY DEF JoinTasks
<1>2. CASE \E error \in Collected : Return(error) /\ UNCHANGED joinVars
  <2>1. PICK e \in Collected : Return(e) /\ UNCHANGED joinVars
    BY <1>2
  <2>2. e \in Errors /\ \E i \in 1 .. Len(ips) : Outcome(i) = e
    BY DEF Collected, Errors, IInv, TypeOK, RunInv
  <2>3. /\ stage' = "done" /\ output' = e
        /\ (output' = Pending <=> stage' # "done") /\ AnswersRowByRow'
    BY <1>1, <2>1, <2>2, AnswerError
  <2>4. TypeOK'
    BY <1>1, <2>1, <2>2, <2>3 DEF IInv, TypeOK, inputVars, batchVars, cutVars, runVars, joinVars, Intervals
  <2>5. /\ SerialInv' /\ ArraysInv' /\ CutInv' /\ TasksCoverColumn'
        /\ ips' = ips /\ tasks' = tasks /\ \A i : Outcome(i)' = Outcome(i)
    BY <1>1, <2>3, CutFrame
  <2>6. RunInv' /\ AppendInv'
    BY <1>1, <2>3, <2>5 DEF IInv, RunInv, AppendInv, runVars
  <2>. QED
    BY <2>3, <2>4, <2>5, <2>6 DEF IInv
<1>3. CASE Collected = {} /\ stage' = "append" /\ column' = Head(chunks) /\ appended' = 1 /\ UNCHANGED output
  <2>1. /\ SerialInv' /\ ArraysInv' /\ CutInv' /\ TasksCoverColumn'
        /\ ips' = ips /\ tasks' = tasks /\ \A i : Outcome(i)' = Outcome(i)
    BY <1>1, <1>3, CutFrame
  <2>2. saved = {} /\ ~panicked /\ unclaimed = {}
    BY <1>1, <1>3 DEF Collected
  <2>3. Len(chunks) = Len(tasks) /\ \A k \in 1 .. Len(tasks) : ChunkDone(k)
    <3>1. \A k \in 1 .. Len(tasks) : k # Idle
      BY KindsAreDistinct
    <3>. QED
      BY <1>1, <2>2, <3>1 DEF IInv, RunInv
  <2>4. chunks \in Seq(Seq(Cells)) /\ tasks \in Seq(Intervals) /\ tasks # <<>>
    BY <1>1 DEF IInv, TypeOK, TasksCoverColumn
  <2>5. 1 \in 1 .. Len(tasks) /\ column' = chunks[1] /\ column' \in Seq(Cells)
    BY <1>3, <2>3, <2>4
  <2>6. tasks[1].from = 0
    <3>1. FullTo(0) = 0
      BY SizesArePositive DEF FullTo
    <3>2. tasks[1].from = FullTo(1 - 1)
      BY <1>1, <2>5 DEF IInv, TasksCoverColumn
    <3>. QED
      BY <3>1, <3>2
  <2>7. Len(column') = tasks[1].to /\ \A i \in 1 .. Len(column') : column'[i] = Outcome(i)
    <3>1. tasks[1] \in Intervals
      BY <2>4, <2>5
    <3>2. tasks[1].to - 0 = tasks[1].to
      BY <3>1 DEF Intervals
    <3>3. \A i \in 1 .. Len(column') : 0 + i = i
      BY <2>5
    <3>. QED
      BY <2>3, <2>5, <2>6, <3>2, <3>3 DEF ChunkDone
  <2>8. AppendInv'
    <3>1. \A k : ChunkDone(k)' <=> ChunkDone(k)
      BY <1>1, <2>1 DEF ChunkDone, runVars
    <3>. QED
      BY <1>3, <2>1, <2>3, <2>5, <2>7, <3>1 DEF AppendInv
  <2>9. RunInv'
    <3>1. \A k : ChunkDone(k)' <=> ChunkDone(k)
      BY <1>1, <2>1 DEF ChunkDone, runVars
    <3>. QED
      BY <1>1, <1>3, <2>1, <2>3, <3>1 DEF IInv, RunInv, runVars
  <2>10. TypeOK'
    <3>1. appended' \in 0 .. Len(chunks')
      BY <1>1, <1>3, <2>3, <2>5 DEF runVars
    <3>. QED
      BY <1>1, <1>3, <2>5, <3>1 DEF IInv, TypeOK, inputVars, batchVars, cutVars, runVars, Intervals
  <2>11. (output' = Pending <=> stage' # "done") /\ AnswersRowByRow'
    BY <1>1, <1>3, NoAnswerYet
  <2>. QED
    BY <2>1, <2>8, <2>9, <2>10, <2>11 DEF IInv
<1>. QED
  BY <1>2, <1>3 DEF JoinTasks

LEMMA AppendChunkStep ==
  ASSUME IInv, AppendChunk
  PROVE  IInv'
<1>. DEFINE a == appended
            t == tasks[a + 1]
            chunk == chunks[a + 1]
<1>1. /\ stage = "append" /\ stage' = "append" /\ a < Len(chunks)
      /\ column' = column \o chunk /\ appended' = a + 1
      /\ UNCHANGED <<inputVars, batchVars, cutVars, runVars, output>>
  BY DEF AppendChunk
<1>2. /\ SerialInv' /\ ArraysInv' /\ CutInv' /\ TasksCoverColumn'
      /\ ips' = ips /\ tasks' = tasks /\ \A i : Outcome(i)' = Outcome(i)
  BY <1>1, CutFrame
<1>3. /\ Len(tasks) \in Nat /\ Len(chunks) = Len(tasks) /\ chunks \in Seq(Seq(Cells))
      /\ column \in Seq(Cells) /\ a \in 1 .. Len(tasks)
      /\ Len(column) = tasks[a].to /\ \A i \in 1 .. Len(column) : column[i] = Outcome(i)
      /\ \A k \in 1 .. Len(tasks) : ChunkDone(k)
  <2>1. Len(tasks) \in Nat /\ chunks \in Seq(Seq(Cells)) /\ column \in Seq(Cells)
    BY DEF IInv, TypeOK
  <2>2. Len(chunks) = Len(tasks)
    BY <1>1 DEF IInv, RunInv
  <2>3. /\ a \in 1 .. Len(tasks) /\ Len(column) = tasks[a].to
        /\ \A i \in 1 .. Len(column) : column[i] = Outcome(i)
        /\ \A k \in 1 .. Len(tasks) : ChunkDone(k)
    BY <1>1 DEF IInv, AppendInv
  <2>. QED
    BY <2>1, <2>2, <2>3
<1>4. a + 1 \in 1 .. Len(tasks) /\ (a + 1) - 1 = a /\ a < Len(tasks)
  BY <1>1, <1>3
<1>5. t.from = Len(column) /\ t.from \in Nat /\ t.to \in Nat
  <2>1. t.from = FullTo((a + 1) - 1)
    BY <1>1, <1>4 DEF IInv, TasksCoverColumn
  <2>2. tasks[a].to = FullTo(a)
    BY <1>1, <1>3, <1>4 DEF IInv, TasksCoverColumn
  <2>3. t \in Intervals
    BY <1>1, <1>4, TaskBounds
  <2>. QED
    BY <1>3, <1>4, <2>1, <2>2, <2>3 DEF Intervals
<1>6. /\ chunk \in Seq(Cells) /\ Len(chunk) = t.to - t.from
      /\ \A i \in 1 .. Len(chunk) : chunk[i] = Outcome(t.from + i)
  BY <1>3, <1>4 DEF ChunkDone
<1>. HIDE DEF a, t, chunk
<1>7. /\ column' \in Seq(Cells) /\ Len(column') = t.to
      /\ \A i \in 1 .. Len(column') : column'[i] = Outcome(i)
  <2>1. /\ column' \in Seq(Cells) /\ Len(column') = Len(column) + Len(chunk)
        /\ \A i \in 1 .. Len(column') :
             column'[i] = IF i <= Len(column) THEN column[i] ELSE chunk[i - Len(column)]
    <3>1. column \in Seq(Cells) /\ chunk \in Seq(Cells)
      BY <1>3, <1>6
    <3>2. /\ column \o chunk \in Seq(Cells)
          /\ Len(column \o chunk) = Len(column) + Len(chunk)
          /\ \A i \in 1 .. Len(column) + Len(chunk) :
               (column \o chunk)[i] = IF i <= Len(column) THEN column[i] ELSE chunk[i - Len(column)]
      BY <3>1, ConcatProperties, Zenon
    <3>3. column' = column \o chunk
      BY <1>1
    <3>. QED
      BY <3>2, <3>3, Zenon
  <2>2. ASSUME NEW i \in 1 .. Len(column')
        PROVE  column'[i] = Outcome(i)
    <3>1. CASE i <= Len(column)
      <4>1. i \in 1 .. Len(column)
        BY <1>3, <1>6, <2>1, <3>1
      <4>. QED
        BY <1>3, <2>1, <3>1, <4>1
    <3>2. CASE ~(i <= Len(column))
      <4>1. i - Len(column) \in 1 .. Len(chunk) /\ t.from + (i - Len(column)) = i
        <5>1. /\ Len(column) \in Nat /\ Len(chunk) \in Nat /\ t.from = Len(column)
              /\ i \in 1 .. Len(column) + Len(chunk)
          BY <1>3, <1>5, <1>6, <2>1
        <5>. QED
          BY <3>2, <5>1
      <4>2. chunk[i - Len(column)] = Outcome(t.from + (i - Len(column)))
        BY <1>6, <4>1
      <4>. QED
        BY <2>1, <3>2, <4>1, <4>2
    <3>. QED
      BY <3>1, <3>2
  <2>. QED
    BY <1>5, <1>6, <2>1, <2>2
<1>8. \A k : ChunkDone(k)' <=> ChunkDone(k)
  BY <1>1, <1>2 DEF ChunkDone, runVars
<1>9. AppendInv'
  BY <1>1, <1>2, <1>3, <1>4, <1>7, <1>8 DEF AppendInv, t
<1>10. RunInv'
  BY <1>1, <1>2, <1>8 DEF IInv, RunInv, runVars
<1>11. TypeOK'
  <2>1. appended' \in 0 .. Len(chunks')
    BY <1>1, <1>3, <1>4 DEF runVars
  <2>. QED
    BY <1>1, <1>7, <2>1 DEF IInv, TypeOK, inputVars, batchVars, cutVars, runVars, Intervals
<1>12. (output' = Pending <=> stage' # "done") /\ AnswersRowByRow'
  BY <1>1, NoAnswerYet
<1>. QED
  BY <1>2, <1>9, <1>10, <1>11, <1>12 DEF IInv

LEMMA ReturnColumnStep ==
  ASSUME IInv, ReturnColumn
  PROVE  IInv'
<1>1. /\ stage = "append" /\ appended = Len(chunks) /\ Return(column)
      /\ UNCHANGED <<inputVars, batchVars, cutVars, runVars, joinVars>>
  BY DEF ReturnColumn
<1>2. /\ TypeOK /\ column \in Seq(Cells) /\ Len(column) = Len(ips)
      /\ \A i \in 1 .. Len(ips) : column[i] = Outcome(i)
  <2>1. TypeOK /\ column \in Seq(Cells) /\ Len(tasks) \in Nat
    BY DEF IInv, TypeOK
  <2>2. appended = Len(tasks) /\ appended \in 1 .. Len(tasks)
    BY <1>1 DEF IInv, RunInv, AppendInv
  <2>3. tasks[Len(tasks)].to = Len(ips)
    BY <1>1, <2>2 DEF IInv, TasksCoverColumn
  <2>. QED
    BY <1>1, <2>1, <2>2, <2>3 DEF IInv, AppendInv
<1>3. /\ stage' = "done" /\ output' = column
      /\ (output' = Pending <=> stage' # "done") /\ AnswersRowByRow'
  BY <1>1, <1>2, AnswerColumn
<1>4. TypeOK'
  BY <1>1, <1>2, <1>3 DEF TypeOK, inputVars, batchVars, cutVars, runVars, joinVars, Intervals
<1>5. /\ SerialInv' /\ ArraysInv' /\ CutInv' /\ TasksCoverColumn'
      /\ ips' = ips /\ tasks' = tasks /\ \A i : Outcome(i)' = Outcome(i)
  BY <1>1, <1>3, CutFrame
<1>6. RunInv' /\ AppendInv'
  BY <1>1, <1>3, <1>5 DEF IInv, RunInv, AppendInv, runVars
<1>. QED
  BY <1>3, <1>4, <1>5, <1>6 DEF IInv

----------------------------------------------------------------------------
(* The invariant, and what follows from it.                                *)

LEMMA StutterStep ==
  ASSUME IInv, UNCHANGED vars
  PROVE  IInv'
<1>1. \A k : FullTo(k)' = FullTo(k)
  BY DEF FullTo
<1>2. /\ ips' = ips /\ ends' = ends /\ (\A value : LookupOne(value)' = LookupOne(value))
      /\ \A i : Outcome(i)' = Outcome(i)
  BY InputsFrame DEF vars
<1>3. TypeOK'
  BY DEF IInv, TypeOK, vars, inputVars, batchVars, cutVars, runVars, joinVars, Intervals
<1>4. SerialInv' /\ ArraysInv'
  BY SerialFrame DEF vars
<1>5. CutInv'
  BY <1>1, <1>2 DEF IInv, CutInv, ArrayBase, ArrayLen, vars, cutVars
<1>6. RunInv' /\ AppendInv'
  BY <1>2 DEF IInv, RunInv, AppendInv, ChunkDone, vars, cutVars, runVars, joinVars
<1>7. TasksCoverColumn'
  BY <1>1, <1>2 DEF IInv, TasksCoverColumn, vars, cutVars
<1>8. output' = Pending <=> stage' # "done"
  BY DEF IInv, vars
<1>9. AnswersRowByRow'
  <2>1. \A i : RowOutcome(ips[i])' = RowOutcome(ips[i])
    BY <1>2 DEF Outcome
  <2>. DEFINE outcomes == [i \in 1 .. Len(ips) |-> RowOutcome(ips[i])]
  <2>2. outcomes' = outcomes
    BY <1>2, <2>1
  <2>3. HasError(outcomes') <=> HasError(outcomes)
    BY <2>2
  <2>. QED
    BY <1>2, <2>2, <2>3 DEF IInv, AnswersRowByRow, vars
<1>. QED
  BY <1>3, <1>4, <1>5, <1>6, <1>7, <1>8, <1>9 DEF IInv

LEMMA NextIInv == IInv /\ [Next]_vars => IInv'
<1>. SUFFICES ASSUME IInv, [Next]_vars PROVE IInv'
  OBVIOUS
<1>1. CASE Dispatch
  BY <1>1, DispatchStep
<1>2. CASE LookupRow
  BY <1>2, LookupRowStep
<1>3. CASE DecodeScalarValues
  BY <1>3, DecodeScalarValuesStep
<1>4. CASE CutSlice
  BY <1>4, CutSliceStep
<1>5. CASE NextArray
  BY <1>5, NextArrayStep
<1>6. CASE StartTasks
  BY <1>6, StartTasksStep
<1>7. CASE JoinTasks
  BY <1>7, JoinTasksStep
<1>8. CASE AppendChunk
  BY <1>8, AppendChunkStep
<1>9. CASE ReturnColumn
  BY <1>9, ReturnColumnStep
<1>10. ASSUME NEW w \in Workers, Worker(w)
       PROVE  IInv'
  BY <1>10, RunTaskStep, ClaimTaskStep DEF Worker
<1>11. CASE UNCHANGED vars
  BY <1>11, StutterStep
<1>. QED
  BY <1>1, <1>2, <1>3, <1>4, <1>5, <1>6, <1>7, <1>8, <1>9, <1>10, <1>11 DEF Next, Caller, Returned

(* IInv holds in every reachable state, however the tasks are interleaved. *)
THEOREM Inductive == Spec => []IInv
BY InitIInv, NextIInv, PTL DEF Spec

(* Every variable keeps its type: no index leaves its sequence.            *)
THEOREM Typed == Spec => []TypeOK
<1>1. IInv => TypeOK
  BY DEF IInv
<1>. QED
  BY <1>1, Inductive, PTL

(* The index of lookup_batch gives each row its own record, once.          *)
THEOREM OneDecodePerRecord == Spec => []RecordsShared
<1>1. IInv => RecordsShared
  BY DEF IInv, SerialInv
<1>. QED
  BY <1>1, Inductive, PTL

(* scalar_input_tasks cuts a column of any length, chunked in any way, for *)
(* any task size, into tasks that cover it without gap or overlap.         *)
THEOREM Covered == Spec => []TasksCoverColumn
<1>1. IInv => TasksCoverColumn
  BY DEF IInv
<1>. QED
  BY <1>1, Inductive, PTL

(* Both paths answer with the rows' own values or the error of a row,      *)
(* whatever the number of workers and the order they take the tasks in.    *)
THEOREM RowByRow == Spec => []AnswersRowByRow
<1>1. IInv => AnswersRowByRow
  BY DEF IInv
<1>. QED
  BY <1>1, Inductive, PTL

----------------------------------------------------------------------------
(* The refinement.                                                         *)

LEMMA InputStays ==
  ASSUME [Next]_vars
  PROVE  UNCHANGED inputVars
BY DEF Next, Caller, Worker, Returned, Dispatch, LookupRow, DecodeScalarValues, CutSlice, NextArray,
       StartTasks, JoinTasks, AppendChunk, ReturnColumn, RunTask, ClaimTask, vars

LEMMA OneAnswer ==
  ASSUME IInv, [Next]_vars, output' # output
  PROVE  stage # "done" /\ stage' = "done"
BY DEF IInv, Next, Caller, Worker, Returned, Dispatch, LookupRow, DecodeScalarValues, CutSlice,
       NextArray, StartTasks, JoinTasks, AppendChunk, ReturnColumn, RunTask, ClaimTask, Return, vars

LEMMA ServiceInit == Init => Service!Init
<1>. SUFFICES ASSUME Init PROVE Service!Init
  OBVIOUS
<1>. DEFINE outcomes == [i \in 1 .. Len(ips) |-> RowOutcome(ips[i])]
<1>1. TypeOK
  BY InitIInv DEF IInv
<1>2. Len(ips) \in Nat /\ \A i \in 1 .. Len(ips) : RowOutcome(ips[i]) \in Cells \cup Errors
  <2>1. Len(ips) \in Nat /\ \A i \in 1 .. Len(ips) : ips[i] \in Texts
    BY <1>1 DEF TypeOK
  <2>. QED
    BY <1>1, <2>1, LookupIsTyped
<1>3. outcomes \in Seq(Cells \cup Errors)
  BY <1>2
<1>. QED
  BY <1>3 DEF Init, Service!Init

LEMMA ServiceStep == IInv /\ IInv' /\ [Next]_vars => [Service!Answer]_(Service!vars)
<1>. SUFFICES ASSUME IInv, IInv', [Next]_vars
              PROVE  [Service!Answer]_(Service!vars)
  OBVIOUS
<1>. DEFINE outcomes == [i \in 1 .. Len(ips) |-> RowOutcome(ips[i])]
<1>1. outcomes' = outcomes
  <2>1. ips' = ips /\ \A i : RowOutcome(ips[i])' = RowOutcome(ips[i])
    BY InputStays, InputsFrame DEF Outcome
  <2>. QED
    BY <2>1
<1>2. CASE output' = output
  BY <1>1, <1>2 DEF Service!vars
<1>3. CASE output' # output
  <2>1. output = Pending /\ stage' = "done"
    BY <1>3, OneAnswer DEF IInv
  <2>2. IF HasError(outcomes')
        THEN output' \in Errors /\ \E i \in 1 .. Len(ips') : outcomes'[i] = output'
        ELSE output' = outcomes'
    BY <2>1 DEF IInv, AnswersRowByRow
  <2>3. Len(outcomes) = Len(ips) /\ ips' = ips
    <3>1. Len(ips) \in Nat
      BY DEF IInv, TypeOK
    <3>. QED
      BY <3>1, InputStays, InputsFrame
  <2>4. Service!Failures = {e \in Errors : \E i \in 1 .. Len(outcomes) : outcomes[i] = e}
    BY DEF Service!Failures
  <2>. HIDE DEF outcomes
  <2>5. Service!Failures = {} <=> ~HasError(outcomes)
    BY <2>4 DEF HasError
  <2>6. IF Service!Failures = {} THEN output' = outcomes ELSE output' \in Service!Failures
    BY <1>1, <2>2, <2>3, <2>4, <2>5
  <2>. QED
    BY <1>1, <2>1, <2>6 DEF Service!Answer, outcomes
<1>. QED
  BY <1>2, <1>3

(* Either way to look a column up is the service RowLookup promises, for   *)
(* every column, chunking, threshold and number of workers.                *)
THEOREM RowLookupImplemented == Spec => ImplementsSafeRowLookup
<1>1. IInv /\ [Next]_vars => IInv'
  BY NextIInv
<1>. QED
  BY <1>1, ServiceInit, ServiceStep, Inductive, PTL
     DEF Spec, ImplementsSafeRowLookup, Service!SafeSpec

=============================================================================
