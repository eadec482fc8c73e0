------------------------ MODULE TempRecordingsProofs ------------------------
(***************************************************************************)
(* Theorems about the temp recordings, for any students, dataset and paths *)
(***************************************************************************)
EXTENDS TempRecordings, SequenceTheorems, TLAPS

LEMMA ListType ==
  ASSUME NEW s \in Tested
  PROVE  [i \in 1 .. Base[s] |-> FromDataset(i)] \in Seq(Record)
<1>1. Base[s] \in Nat /\ \A i \in 1 .. Base[s] : FromDataset(i) \in Record
  BY TempAssumption DEF FromDataset, Record
<1>2. [i \in 1 .. Base[s] |-> FromDataset(i)] \in [1 .. Base[s] -> Record] BY <1>1
<1> QED BY <1>1, <1>2, SeqDef

LEMMA BaseRecordsType == \A s \in Students : BaseRecords(s) \in Seq(Record)
<1> SUFFICES ASSUME NEW s \in Students PROVE BaseRecords(s) \in Seq(Record)
  OBVIOUS
<1> USE TempAssumption
<1>1. CASE s \in Tested
  <2> DEFINE list == [i \in 1 .. Base[s] |-> FromDataset(i)]
  <2>1. list \in Seq(Record) BY <1>1, ListType
  <2> HIDE DEF list
  <2>2. Truncated(list, burn_in_size) \in Seq(Record)
    <3>1. CASE Len(list) <= burn_in_size BY <2>1, <3>1 DEF Truncated
    <3>2. CASE ~(Len(list) <= burn_in_size)
      <4>1. SubSeq(list, 1, burn_in_size) \in Seq(Record) BY <2>1, <3>2, SubSeqProperties
      <4> QED BY <3>2, <4>1 DEF Truncated
    <3> QED BY <3>1, <3>2
  <2> QED BY <1>1, <2>2 DEF BaseRecords, list
<1>2. CASE s \notin Tested BY <1>2 DEF BaseRecords
<1> QED BY <1>1, <1>2

\* truncating to the burn-in size once more changes nothing
LEMMA LimitedTwice ==
  ASSUME NEW s \in Tested
  PROVE  Truncated(BaseRecords(s), burn_in_size) = BaseRecords(s)
<1> USE TempAssumption
<1> DEFINE list == [i \in 1 .. Base[s] |-> FromDataset(i)]
<1>1. list \in Seq(Record) BY ListType
<1>2. BaseRecords(s) = Truncated(list, burn_in_size) BY DEF BaseRecords
<1> HIDE DEF list
<1>3. CASE Len(list) <= burn_in_size BY <1>2, <1>3 DEF Truncated
<1>4. CASE ~(Len(list) <= burn_in_size)
  <2>1. BaseRecords(s) = SubSeq(list, 1, burn_in_size) BY <1>2, <1>4 DEF Truncated
  <2>2. Len(SubSeq(list, 1, burn_in_size)) = burn_in_size BY <1>1, <1>4, SubSeqProperties
  <2>3. Len(BaseRecords(s)) <= burn_in_size BY <1>1, <2>1, <2>2
  <2> QED BY <2>3 DEF Truncated
<1> QED BY <1>3, <1>4

\* what the loaded and limited datasets hold for a student
LEMMA Loaded ==
  ASSUME NEW s \in Students
  PROVE  /\ At(InitializeData, s) = BaseRecords(s)
         /\ At(Limited(InitializeData), s) = BaseRecords(s)
         /\ DOMAIN Limited(InitializeData) = Tested
<1>1. CASE s \in Tested
  BY <1>1, LimitedTwice DEF At, InitializeData, Limited
<1>2. CASE s \notin Tested
  BY <1>2 DEF At, InitializeData, Limited, BaseRecords
<1> QED BY <1>1, <1>2 DEF InitializeData, Limited

LEMMA ExtendedAt ==
  ASSUME NEW data, NEW s, NEW r, NEW t
  PROVE  At(Extended(data, s, r), t) = IF t = s THEN Append(At(data, s), r) ELSE At(data, t)
BY DEF At, Extended

LEMMA AppendAfter ==
  ASSUME NEW b \in Seq(Record), NEW k \in Seq(Record), NEW r \in Record
  PROVE  Append(b \o k, r) = b \o Append(k, r) /\ Append(k, r) \in Seq(Record)
OBVIOUS

LEMMA TruncatedType ==
  ASSUME NEW list \in Seq(Record), NEW n \in Nat PROVE Truncated(list, n) \in Seq(Record)
<1>1. CASE Len(list) <= n BY <1>1 DEF Truncated
<1>2. CASE ~(Len(list) <= n)
  <2>1. SubSeq(list, 1, n) \in Seq(Record) BY <1>2, SubSeqProperties
  <2> QED BY <1>2, <2>1 DEF Truncated
<1> QED BY <1>1, <1>2

LEMMA LoadedType == IsDataset(InitializeData)
<1>1. InitializeData \in [Tested -> Seq(Record)]
  BY BaseRecordsType, TempAssumption DEF InitializeData
<1> QED BY <1>1, TempAssumption DEF IsDataset

LEMMA LimitedType == ASSUME NEW data, IsDataset(data) PROVE IsDataset(Limited(data))
<1>1. PICK S \in SUBSET Students : data \in [S -> Seq(Record)] BY DEF IsDataset
<1>2. Limited(data) \in [S -> Seq(Record)]
  BY <1>1, TruncatedType, TempAssumption DEF Limited
<1> QED BY <1>2 DEF IsDataset

LEMMA AtType == ASSUME NEW data, IsDataset(data), NEW s PROVE At(data, s) \in Seq(Record)
BY DEF At, IsDataset

LEMMA ExtendedType ==
  ASSUME NEW data, IsDataset(data), NEW s \in Students, NEW r \in Record
  PROVE  IsDataset(Extended(data, s, r))
<1>1. PICK S \in SUBSET Students : data \in [S -> Seq(Record)] BY DEF IsDataset
<1>2. At(data, s) \in Seq(Record) BY AtType
<1>3. Append(At(data, s), r) \in Seq(Record) BY <1>2
<1>4. Extended(data, s, r) \in [S \cup {s} -> Seq(Record)]
  BY <1>1, <1>3 DEF Extended
<1> QED BY <1>4 DEF IsDataset

\* the end of a list stays its end when both get the same record
LEMMA EndsWithAppend ==
  ASSUME NEW list \in Seq(Record), NEW tail \in Seq(Record), NEW r \in Record,
         EndsWith(list, tail)
  PROVE  EndsWith(Append(list, r), Append(tail, r))
<1>1. /\ Len(list) \in Nat /\ Len(tail) \in Nat /\ Len(tail) <= Len(list)
      /\ Len(Append(list, r)) = Len(list) + 1 /\ Len(Append(tail, r)) = Len(tail) + 1
  BY DEF EndsWith
<1>2. ASSUME NEW i \in 1 .. Len(tail) + 1
      PROVE  Append(list, r)[Len(list) + 1 - (Len(tail) + 1) + i] = Append(tail, r)[i]
  <2>1. CASE i = Len(tail) + 1 BY <1>1, <2>1
  <2>2. CASE i # Len(tail) + 1
    <3>1. i \in 1 .. Len(tail) /\ Len(list) - Len(tail) + i \in 1 .. Len(list)
      BY <1>1, <2>2
    <3>2. list[Len(list) - Len(tail) + i] = tail[i] BY <3>1 DEF EndsWith
    <3>3. Len(list) + 1 - (Len(tail) + 1) + i = Len(list) - Len(tail) + i BY <1>1
    <3> QED BY <3>1, <3>2, <3>3
  <2> QED BY <2>1, <2>2
<1>3. \A i \in 1 .. Len(Append(tail, r)) :
        Append(list, r)[Len(Append(list, r)) - Len(Append(tail, r)) + i] = Append(tail, r)[i]
  <2> DEFINE l == Append(list, r)
             t == Append(tail, r)
  <2>1. Len(l) = Len(list) + 1 /\ Len(t) = Len(tail) + 1 BY <1>1
  <2>2. \A i \in 1 .. Len(tail) + 1 : l[Len(list) + 1 - (Len(tail) + 1) + i] = t[i] BY <1>2
  <2> HIDE DEF l, t
  <2>3. \A i \in 1 .. Len(t) : l[Len(l) - Len(t) + i] = t[i] BY <2>1, <2>2
  <2> QED BY <2>3 DEF l, t
<1>4. Len(Append(tail, r)) <= Len(Append(list, r)) BY <1>1
<1> QED BY <1>3, <1>4, Zenon DEF EndsWith

---------------------------------------------------------------------------
(* The invariant                                                           *)

\* data holds the truncated dataset and the sequences of ks
Holds(data, ks) == \A s \in Students : At(data, s) = BaseRecords(s) \o ks[s]

AllEndWith(data, ks) == \A s \in Students : EndsWith(At(data, s), ks[s])

NoAnswers == [s \in Students |-> <<>>]

\* what a call in progress will have appended
KeptNext == [kept[path] EXCEPT ![writing.student] = Append(@, writing.record)]

KeptInv ==
  /\ \A p \in Paths : IF files[p] = None THEN kept[p] = NoAnswers
                                         ELSE AllEndWith(files[p], kept[p])
  /\ writing # None => AllEndWith(writing.data, KeptNext)

DefaultInv ==
  used = {Default} =>
    /\ files[Default] # None => Holds(files[Default], kept[Default])
    /\ files[Default] = None => DOMAIN datas = {} \/ datas = InitializeData
    /\ writing # None => Holds(writing.data, KeptNext)

TempInv == TypeOK /\ CacheIsTheFile /\ KeptInv /\ DefaultInv

LEMMA TempInit == Init => TempInv
<1> SUFFICES ASSUME Init PROVE TempInv
  OBVIOUS
<1>1. IsDataset(NoData)
  <2>1. NoData \in [{} -> Seq(Record)] BY DEF NoData
  <2> QED BY <2>1 DEF IsDataset
<1>2. Default \in Paths BY DEF Paths
<1>3. \A p \in Paths : files[p] = None /\ kept[p] = NoAnswers BY DEF Init, NoAnswers
<1>4. TypeOK BY <1>1, <1>2, <1>3, TempAssumption DEF Init, TypeOK
<1> QED BY <1>2, <1>3, <1>4 DEF Init, TempInv, CacheIsTheFile, KeptInv, DefaultInv, NoData

LEMMA AppendBeginsInv ==
  ASSUME TempInv, NEW s \in Students, AppendBegins(s) PROVE TempInv'
<1> DEFINE found == LoadTempDataset
           loaded == IF found = None /\ DOMAIN datas = {} THEN InitializeData ELSE datas
           dataset == IF found = None THEN Limited(loaded) ELSE found
           r == Answer(answers')
           data == Extended(dataset, s, r)
<1>1. /\ writing = None /\ answers' = answers + 1 /\ answers < MaxAnswers
      /\ cached' = found /\ datas' = loaded
      /\ writing' = [student |-> s, record |-> r, data |-> data]
      /\ UNCHANGED <<files, used, path, kept>>
  BY DEF AppendBegins
<1>2. path \in Paths /\ found = files[path]
  BY DEF LoadTempDataset, TempInv, CacheIsTheFile, TypeOK, Paths
<1>3. r \in Record /\ answers' \in 0 .. MaxAnswers
  BY <1>1, TempAssumption DEF Answer, Record, TempInv, TypeOK
<1>4. IsDataset(loaded) BY LoadedType DEF TempInv, TypeOK
<1>5. IsDataset(dataset) BY <1>2, <1>4, LimitedType DEF TempInv, TypeOK
<1>6. kept[path] \in [Students -> Seq(Record)] BY <1>2 DEF TempInv, TypeOK
<1>7. KeptNext' = [kept[path] EXCEPT ![s] = Append(@, r)] BY <1>1 DEF KeptNext
<1>8. loaded = InitializeData \/ loaded = datas OBVIOUS
<1>9. found = None /\ DOMAIN datas = {} => loaded = InitializeData OBVIOUS
<1>10. IF found = None THEN dataset = Limited(loaded) ELSE dataset = found OBVIOUS
<1> HIDE DEF found, loaded, dataset, r
<1>11. IsDataset(data) BY <1>3, <1>5, ExtendedType
<1>12. ASSUME NEW t \in Students
       PROVE  At(data, t) = IF t = s THEN Append(At(dataset, s), r) ELSE At(dataset, t)
  BY ExtendedAt
<1> HIDE DEF data
<1>13. TypeOK'
  BY <1>1, <1>2, <1>3, <1>4, <1>11 DEF TempInv, TypeOK
<1>14. CacheIsTheFile' BY <1>1, <1>2 DEF CacheIsTheFile
<1>15. KeptInv'
  <2>1. AllEndWith(dataset, kept[path])
    <3>1. CASE found = None
      <4>1. kept[path] = NoAnswers BY <1>2, <3>1 DEF TempInv, KeptInv
      <4>2. \A t \in Students : At(dataset, t) \in Seq(Record) BY <1>5, AtType
      <4> QED BY <4>1, <4>2 DEF AllEndWith, NoAnswers, EndsWith
    <3>2. CASE found # None BY <1>2, <1>10, <3>2 DEF TempInv, KeptInv
    <3> QED BY <3>1, <3>2
  <2>2. ASSUME NEW t \in Students
        PROVE  EndsWith(At(data, t), [kept[path] EXCEPT ![s] = Append(@, r)][t])
    <3>1. /\ EndsWith(At(dataset, t), kept[path][t])
          /\ At(dataset, t) \in Seq(Record) /\ kept[path][t] \in Seq(Record)
      BY <1>5, <1>6, <2>1, AtType DEF AllEndWith
    <3>2. CASE t = s
      <4>1. EndsWith(Append(At(dataset, t), r), Append(kept[path][t], r))
        BY <1>3, <3>1, EndsWithAppend
      <4> QED BY <1>6, <1>12, <3>2, <4>1
    <3>3. CASE t # s BY <1>6, <1>12, <3>1, <3>3
    <3> QED BY <3>2, <3>3
  <2>3. AllEndWith(data, KeptNext') BY <1>7, <2>2 DEF AllEndWith
  <2> QED BY <1>1, <2>3 DEF TempInv, KeptInv
<1>16. DefaultInv'
  <2> SUFFICES ASSUME used = {Default}
               PROVE  /\ files[Default] = None => DOMAIN loaded = {} \/ loaded = InitializeData
                      /\ Holds(data, KeptNext')
    BY <1>1 DEF TempInv, DefaultInv
  <2>1. path = Default /\ found = files[Default] BY <1>2 DEF TempInv, TypeOK
  <2>2. files[Default] = None => loaded = InitializeData
    BY <1>8, <1>9, <2>1 DEF TempInv, DefaultInv
  <2>3. Holds(dataset, kept[Default])
    <3>1. CASE files[Default] = None
      <4>1. dataset = Limited(InitializeData) BY <1>10, <2>1, <2>2, <3>1
      <4>2. kept[Default] = NoAnswers BY <1>2, <2>1, <3>1 DEF TempInv, KeptInv
      <4>3. ASSUME NEW t \in Students PROVE At(dataset, t) = BaseRecords(t) \o NoAnswers[t]
        <5>1. At(dataset, t) = BaseRecords(t) BY <4>1, Loaded
        <5>2. NoAnswers[t] = <<>> BY DEF NoAnswers
        <5>3. BaseRecords(t) \in Seq(Record) BY BaseRecordsType
        <5> QED BY <5>1, <5>2, <5>3
      <4> QED BY <4>2, <4>3 DEF Holds
    <3>2. CASE files[Default] # None
      BY <1>10, <2>1, <3>2 DEF TempInv, DefaultInv
    <3> QED BY <3>1, <3>2
  <2>4. ASSUME NEW t \in Students
        PROVE  At(data, t) = BaseRecords(t) \o [kept[Default] EXCEPT ![s] = Append(@, r)][t]
    <3>1. At(dataset, t) = BaseRecords(t) \o kept[Default][t] BY <2>3 DEF Holds
    <3>2. BaseRecords(t) \in Seq(Record) /\ kept[Default][t] \in Seq(Record)
      BY <1>6, <2>1, BaseRecordsType
    <3>3. CASE t = s
      <4>1. At(data, t) = Append(BaseRecords(t) \o kept[Default][t], r)
        BY <1>12, <3>1, <3>3
      <4>2. [kept[Default] EXCEPT ![s] = Append(@, r)][t] = Append(kept[Default][t], r)
        BY <1>6, <2>1, <3>3
      <4> DEFINE b == BaseRecords(t)
                 k == kept[Default][t]
      <4>3. r \in Record /\ b \in Seq(Record) /\ k \in Seq(Record) BY <1>3, <3>2
      <4> HIDE DEF b, k
      <4>4. Append(b \o k, r) = b \o Append(k, r) BY <4>3, AppendAfter
      <4> QED BY <4>1, <4>2, <4>4 DEF b, k
    <3>4. CASE t # s BY <1>6, <1>12, <2>1, <3>1, <3>4
    <3> QED BY <3>3, <3>4
  <2> QED BY <1>7, <2>1, <2>2, <2>4 DEF Holds
<1> QED BY <1>13, <1>14, <1>15, <1>16 DEF TempInv

LEMMA AppendEndsInv == ASSUME TempInv, AppendEnds PROVE TempInv'
<1> DEFINE s == writing.student
           r == writing.record
           data == writing.data
<1>1. /\ writing # None /\ writing' = None
      /\ files' = [files EXCEPT ![path] = data] /\ cached' = data
      /\ datas' = Extended(datas, s, r)
      /\ kept' = [kept EXCEPT ![path] = KeptNext]
      /\ UNCHANGED <<used, path, answers>>
  BY DEF AppendEnds, KeptNext
<1>2. s \in Students /\ r \in Record /\ IsDataset(data) /\ path \in Paths
  BY <1>1 DEF TempInv, TypeOK, Paths
<1>3. kept[path] \in [Students -> Seq(Record)] BY <1>2 DEF TempInv, TypeOK
<1>4. KeptNext \in [Students -> Seq(Record)]
  <2>1. KeptNext = [kept[path] EXCEPT ![s] = Append(@, r)] BY DEF KeptNext
  <2>2. Append(kept[path][s], r) \in Seq(Record) BY <1>2, <1>3
  <2> QED BY <1>2, <1>3, <2>1, <2>2
<1>5. data # None BY <1>2, TempAssumption
<1>6. IsDataset(datas') BY <1>1, <1>2, ExtendedType DEF TempInv, TypeOK
<1>7. AllEndWith(data, KeptNext) BY <1>1 DEF TempInv, KeptInv
<1>8. used = {Default} => Holds(data, KeptNext) /\ path = Default
  BY <1>1 DEF TempInv, DefaultInv, TypeOK
<1> HIDE DEF s, r, data
<1>9. TypeOK' BY <1>1, <1>2, <1>4, <1>6 DEF TempInv, TypeOK
<1>10. files'[path] = data /\ kept'[path] = KeptNext
       /\ \A p \in Paths : p # path => files'[p] = files[p] /\ kept'[p] = kept[p]
  BY <1>1, <1>2 DEF TempInv, TypeOK
<1>11. CacheIsTheFile' BY <1>1, <1>10 DEF CacheIsTheFile
<1>12. KeptInv' BY <1>1, <1>5, <1>7, <1>10 DEF TempInv, KeptInv
<1>13. DefaultInv' BY <1>1, <1>5, <1>8, <1>10 DEF DefaultInv
<1> QED BY <1>9, <1>11, <1>12, <1>13 DEF TempInv

LEMMA ResetInv == ASSUME TempInv, Reset PROVE TempInv'
<1>1. /\ writing = None /\ writing' = None /\ files' = [files EXCEPT ![path] = None]
      /\ cached' = None /\ datas' = NoData
      /\ kept' = [kept EXCEPT ![path] = NoAnswers]
      /\ UNCHANGED <<used, path, answers>>
  BY DEF Reset, NoAnswers
<1>2. NoData \in [{} -> Seq(Record)] /\ NoAnswers \in [Students -> Seq(Record)]
  BY DEF NoData, NoAnswers
<1>3. IsDataset(NoData) BY <1>2 DEF IsDataset
<1>4. path \in Paths /\ (used = {Default} => path = Default)
  BY DEF TempInv, TypeOK, Paths
<1>5. files'[path] = None /\ kept'[path] = NoAnswers
      /\ \A p \in Paths : p # path => files'[p] = files[p] /\ kept'[p] = kept[p]
  BY <1>1, <1>4 DEF TempInv, TypeOK
<1>6. TypeOK' BY <1>1, <1>2, <1>3 DEF TempInv, TypeOK
<1>7. CacheIsTheFile' /\ KeptInv' BY <1>1, <1>5 DEF TempInv, CacheIsTheFile, KeptInv
<1>8. DefaultInv' BY <1>1, <1>4, <1>5 DEF DefaultInv, NoData
<1> QED BY <1>6, <1>7, <1>8 DEF TempInv

\* a failed write, a change of path and a restart leave the files alone
LEMMA RestInv ==
  ASSUME TempInv, AppendFails \/ Restart \/ \E p \in used \cup {None} : SetPath(p)
  PROVE  TempInv'
<1>1. /\ writing' = None /\ UNCHANGED <<files, used, answers, kept>>
      /\ (cached' = cached /\ path' = path) \/ cached' = None
      /\ datas' = datas \/ datas' = NoData
  BY DEF AppendFails, Restart, SetPath
<1>2. path' \in used /\ Default \in used BY DEF Paths, AppendFails, Restart, SetPath, TempInv, TypeOK
<1>3. IsDataset(datas')
  <2>1. NoData \in [{} -> Seq(Record)] BY DEF NoData
  <2> QED BY <1>1, <2>1 DEF IsDataset, TempInv, TypeOK
<1>4. TypeOK' BY <1>1, <1>2, <1>3 DEF TempInv, TypeOK
<1>5. CacheIsTheFile' /\ KeptInv' BY <1>1 DEF TempInv, CacheIsTheFile, KeptInv
<1>6. DefaultInv' BY <1>1 DEF TempInv, DefaultInv, NoData
<1> QED BY <1>4, <1>5, <1>6 DEF TempInv

LEMMA TempStep == TempInv /\ [Next]_vars => TempInv'
<1> SUFFICES ASSUME TempInv, [Next]_vars PROVE TempInv'
  OBVIOUS
<1>1. CASE Next
  BY <1>1, AppendBeginsInv, AppendEndsInv, ResetInv, RestInv DEF Next
<1>2. CASE UNCHANGED vars
  BY <1>2 DEF vars, TempInv, TypeOK, CacheIsTheFile, KeptInv, DefaultInv, KeptNext
<1> QED BY <1>1, <1>2

LEMMA TempInvariant == Spec => []TempInv
BY TempInit, TempStep, PTL DEF Spec

(* Every dataset in memory, in a file or on its way to one is a dataset of  *)
(* students' records, and the path in use is one that was configured: what  *)
(* the lookups by student rely on (data_cache.py, global_datas).            *)
THEOREM RecordingsTyped == Spec => []TypeOK
<1>1. TempInv => TypeOK BY DEF TempInv
<1> QED BY <1>1, TempInvariant, PTL

(* For any students, dataset and paths, however appends fail, the process   *)
(* is killed or the path changes, the dataset in memory is the file's       *)
(* (_temp_dataset_cache).                                                   *)
THEOREM CacheFollowsFile == Spec => []CacheIsTheFile
<1>1. TempInv => CacheIsTheFile BY DEF TempInv
<1> QED BY <1>1, TempInvariant, PTL

(* No answer that reached a temp file is lost from it or reordered until    *)
(* the file is reset (append_temp_records).                                 *)
THEOREM NoAnswerLost == Spec => []AnswersKept
<1>1. TempInv => AnswersKept
  BY DEF TempInv, KeptInv, AnswersKept, AllEndWith, NoAnswers
<1> QED BY <1>1, TempInvariant, PTL

(* On a single path a temp file never holds anything but the truncated      *)
(* dataset and the answers since the last reset (update.py, reset_temp).    *)
THEOREM BaselineIsFresh == Spec => []FreshBaseline
<1>1. TempInv => FreshBaseline BY DEF TempInv, DefaultInv, FreshBaseline, Holds
<1> QED BY <1>1, TempInvariant, PTL
=============================================================================
