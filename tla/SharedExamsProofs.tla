------------------------- MODULE SharedExamsProofs -------------------------
(***************************************************************************)
(* Theorems about the shared files, for any number of processes that start *)
(* and die at any time and any exam sets.                                  *)
(***************************************************************************)
EXTENDS SharedExams, TLAPS

\* The file of a signature holds predictions of the exam set signed, and so
\* does a process that has been through it.
OwnPredictions ==
  /\ \A e \in Exams : initialFiles[e] \in {None, Torn, e}
  /\ \A p \in Procs : pc[p] \in {"dumpInitial", "evaluate", "done"} => initial[p] = exam[p]

\* Strengthens InitialOfOwnExam, and the types with it: what a process takes
\* from a file is a real set because it is its own.
OwnInv == SharedTypeOK /\ OwnPredictions

LEMMA OwnInit == SharedInit => OwnInv
BY ExamsAssumption DEF SharedInit, OwnInv, SharedTypeOK, OwnPredictions, Ended, Real

LEMMA OwnNext == OwnInv /\ [SharedNext]_vars => OwnInv'
<1> SUFFICES ASSUME OwnInv, [SharedNext]_vars PROVE OwnInv' OBVIOUS
<1> USE ExamsAssumption DEF OwnInv
<1>0. CASE UNCHANGED vars BY <1>0 DEF vars, SharedTypeOK, OwnPredictions
<1>1. ASSUME NEW p \in Procs, NameFolder(p) PROVE OwnInv'
  <2>1. examFile \in Exams \cup {None} => FolderSize \in {e.size : e \in Exams} \cup {0, exam_size}
    BY DEF FolderSize
  <2> QED BY <1>1, <2>1 DEF NameFolder, Goto, shared, Ended, SharedTypeOK, OwnPredictions
<1>2. ASSUME NEW p \in Procs, LookForExam(p) PROVE OwnInv'
  BY <1>2 DEF LookForExam, Goto, shared, Ended, SharedTypeOK, OwnPredictions
<1>3. ASSUME NEW p \in Procs, ChooseExam(p) PROVE OwnInv'
  <2>1. Choices \subseteq Real BY DEF Choices
  <2> QED BY <1>3, <2>1 DEF ChooseExam, Goto, Ended, SharedTypeOK, OwnPredictions
<1>4. ASSUME NEW p \in Procs, DumpExam(p) PROVE OwnInv'
  BY <1>4 DEF DumpExam, Goto, Ended, SharedTypeOK, OwnPredictions, Real
<1>5. ASSUME NEW p \in Procs, LookForInitial(p) PROVE OwnInv'
  BY <1>5 DEF LookForInitial, Signature, Goto, shared, Ended, SharedTypeOK, OwnPredictions, Real
<1>6. ASSUME NEW p \in Procs, OpenInitial(p) PROVE OwnInv'
  BY <1>6 DEF OpenInitial, Signature, Goto, Ended, SharedTypeOK, OwnPredictions, Real
<1>7. ASSUME NEW p \in Procs, DumpInitial(p) PROVE OwnInv'
  BY <1>7 DEF DumpInitial, Signature, Goto, Ended, SharedTypeOK, OwnPredictions, Real
<1>8. ASSUME NEW p \in Procs, Evaluate(p) PROVE OwnInv'
  BY <1>8 DEF Evaluate, Goto, shared, Ended, SharedTypeOK, OwnPredictions
<1>9. ASSUME NEW p \in Procs, Die(p) PROVE OwnInv'
  BY <1>9 DEF Die, Goto, shared, Ended, SharedTypeOK, OwnPredictions
<1> QED BY <1>0, <1>1, <1>2, <1>3, <1>4, <1>5, <1>6, <1>7, <1>8, <1>9
        DEF SharedNext, AllEnded

\* A student's gain is taken between two exams on the same questions, whatever
\* processes ran beside this one and wherever they died.
THEOREM InitialIsOwn == SharedSpec => []InitialOfOwnExam
<1>1. OwnInv => InitialOfOwnExam
  BY DEF OwnInv, OwnPredictions, InitialOfOwnExam, Done
<1> QED BY OwnInit, OwnNext, <1>1, PTL DEF SharedSpec

\* The shared files and what processes took from them keep their shapes.
THEOREM SharedTypeCorrect == SharedSpec => []SharedTypeOK
<1>1. OwnInv => SharedTypeOK BY DEF OwnInv
<1> QED BY OwnInit, OwnNext, <1>1, PTL DEF SharedSpec

---------------------------------------------------------------------------
Named == {p \in Procs : pc[p] \notin {"new", "raised", "dead"}}

\* Strengthens NamedForItsExam.  Which size all processes use is settled from
\* the start: that of a real set of another size, if there is one, since no
\* process then writes, or else the one they ask for.
OneSize(n) ==
  /\ examFile \in {e \in Exams : e.size = n} \cup {None, Torn}
  /\ \A p \in Procs : exam[p] # None => exam[p].size = n
  /\ \A p \in Named : named[p] = n

OtherSize == examFile \in Real /\ OneSize(examFile.size)
             /\ \A p \in Procs : pc[p] \notin {"choose", "dump"}

SizeInv == OneSize(exam_size) \/ OtherSize

LEMMA SizeInit == SharedInit => SizeInv
<1> SUFFICES ASSUME SharedInit PROVE SizeInv OBVIOUS
<1> USE ExamsAssumption DEF SizeInv, OneSize, OtherSize, Named, SharedInit, Real, Requested
<1>1. CASE examFile \in Real BY <1>1
<1>2. CASE examFile \in Requested \cup {None} BY <1>2
<1> QED BY <1>1, <1>2

LEMMA SizeNext == OwnInv /\ SizeInv /\ [SharedNext]_vars => SizeInv'
<1> SUFFICES ASSUME SharedTypeOK, SizeInv, [SharedNext]_vars PROVE SizeInv'
  BY DEF OwnInv
<1> USE ExamsAssumption DEF SizeInv, OneSize, OtherSize, Named, SharedTypeOK
<1>0. CASE UNCHANGED vars BY <1>0 DEF vars
<1>1. ASSUME NEW p \in Procs, NameFolder(p) PROVE SizeInv'
  <2>1. CASE examFile = Torn BY <1>1, <2>1 DEF NameFolder, Goto, shared, Real
  <2>2. CASE examFile # Torn
    <3>1. CASE OneSize(exam_size)
      <4>1. FolderSize = exam_size BY <2>2, <3>1 DEF FolderSize
      <4>2. OneSize(exam_size)' BY <1>1, <2>2, <3>1, <4>1 DEF NameFolder, Goto, shared
      <4> QED BY <4>2
    <3>2. CASE OtherSize
      <4>1. FolderSize = examFile.size BY <3>2 DEF FolderSize, Real
      <4>2. OtherSize' BY <1>1, <2>2, <3>2, <4>1 DEF NameFolder, Goto, shared
      <4> QED BY <4>2
    <3> QED BY <3>1, <3>2
  <2> QED BY <2>1, <2>2
<1>2. ASSUME NEW p \in Procs, LookForExam(p) PROVE SizeInv'
  <2>1. CASE OneSize(exam_size)
    <3>1. OneSize(exam_size)' BY <1>2, <2>1 DEF LookForExam, Goto, shared, Real
    <3> QED BY <3>1
  <2>2. CASE OtherSize
    <3>1. OtherSize' BY <1>2, <2>2 DEF LookForExam, Goto, shared, Real
    <3> QED BY <3>1
  <2> QED BY <2>1, <2>2
<1>3. ASSUME NEW p \in Procs, ChooseExam(p) PROVE SizeInv'
  <2>1. Choices \subseteq Requested BY DEF Choices
  <2> QED BY <1>3, <2>1 DEF ChooseExam, Goto, Requested
<1>4. ASSUME NEW p \in Procs, DumpExam(p) PROVE SizeInv'
  BY <1>4 DEF DumpExam, Goto, Real
<1>5. ASSUME NEW p \in Procs, LookForInitial(p) PROVE SizeInv'
  BY <1>5 DEF LookForInitial, Goto, shared
<1>6. ASSUME NEW p \in Procs, OpenInitial(p) PROVE SizeInv'
  BY <1>6 DEF OpenInitial, Goto
<1>7. ASSUME NEW p \in Procs, DumpInitial(p) PROVE SizeInv'
  BY <1>7 DEF DumpInitial, Goto
<1>8. ASSUME NEW p \in Procs, Evaluate(p) PROVE SizeInv'
  BY <1>8 DEF Evaluate, Goto, shared
<1>9. ASSUME NEW p \in Procs, Die(p) PROVE SizeInv'
  BY <1>9 DEF Die, Goto, shared
<1> QED BY <1>0, <1>1, <1>2, <1>3, <1>4, <1>5, <1>6, <1>7, <1>8, <1>9
        DEF SharedNext, AllEnded

\* The folder's name tells the size of the exam given, although the exam set is
\* looked for a second time after the folder has its name.
THEOREM NamedRight == SharedSpec => []NamedForItsExam
<1>1. OwnInv /\ SizeInv => NamedForItsExam
  BY ExamsAssumption DEF OwnInv, SizeInv, OneSize, OtherSize, Named,
     SharedTypeOK, NamedForItsExam, Done, Real
<1> QED BY OwnInit, OwnNext, SizeInit, SizeNext, <1>1, PTL DEF SharedSpec

---------------------------------------------------------------------------
LEMMA SettledStep ==
  OwnInv /\ [SharedNext]_vars => [Settled => Settled' /\ examFile' = examFile]_vars
<1> SUFFICES ASSUME SharedTypeOK, SharedNext, Settled
             PROVE  Settled' /\ examFile' = examFile
  BY DEF OwnInv
<1> USE ExamsAssumption DEF Settled, SharedTypeOK, Goto, shared
<1>1. ASSUME NEW p \in Procs, NameFolder(p) PROVE Settled' /\ examFile' = examFile
  BY <1>1 DEF NameFolder
<1>2. ASSUME NEW p \in Procs, LookForExam(p) PROVE Settled' /\ examFile' = examFile
  BY <1>2 DEF LookForExam, Real
<1>3. ASSUME NEW p \in Procs, LookForInitial(p) PROVE Settled' /\ examFile' = examFile
  BY <1>3 DEF LookForInitial
<1>4. ASSUME NEW p \in Procs, OpenInitial(p) \/ DumpInitial(p)
      PROVE Settled' /\ examFile' = examFile
  BY <1>4 DEF OpenInitial, DumpInitial
<1>5. ASSUME NEW p \in Procs, Evaluate(p) \/ Die(p)
      PROVE Settled' /\ examFile' = examFile
  BY <1>5 DEF Evaluate, Die
<1> QED BY <1>1, <1>2, <1>3, <1>4, <1>5
        DEF SharedNext, ChooseExam, DumpExam, AllEnded, vars

\* An exam set that is there and that no process is about to write stays.
THEOREM SettledStays == SharedSpec => ExamSettles
BY OwnInit, OwnNext, SettledStep, PTL DEF SharedSpec, ExamSettles

---------------------------------------------------------------------------
Chosen == {"initial", "predict", "dumpInitial", "evaluate", "done"}

\* Strengthens SameExamForAll.  While no two processes have run at once, the
\* one that runs is alone, no file has two writers, every process that has its
\* exam set has the one in the file, and whoever is about to write is the first
\* to have one.
Serial ==
  ~overlapped =>
    /\ \A p, q \in Running : p = q
    /\ crossed = {}
    /\ \A p \in Procs : pc[p] \in Chosen => exam[p] = examFile
    /\ \A p, q \in Procs : pc[p] \in {"choose", "dump"} => pc[q] \notin Chosen

LEMMA SerialInit == SharedInit => Serial
BY DEF SharedInit, Serial, Running, Ended, Chosen

LEMMA SerialNext == OwnInv /\ Serial /\ [SharedNext]_vars => Serial'
<1> SUFFICES ASSUME SharedTypeOK, Serial, [SharedNext]_vars, ~overlapped' PROVE Serial'
  BY DEF OwnInv, Serial
<1> USE ExamsAssumption DEF Serial, Running, Ended, Chosen, SharedTypeOK
<1>0. CASE UNCHANGED vars BY <1>0 DEF vars
<1>1. ASSUME NEW p \in Procs, NameFolder(p) PROVE Serial'
  <2>1. ~overlapped /\ Running = {} BY ONLY <1>1, ~overlapped' DEF NameFolder
  <2>2. pc' \in {[pc EXCEPT ![p] = "raised"], [pc EXCEPT ![p] = "look"]}
    BY <1>1 DEF NameFolder, Goto
  <2>3. UNCHANGED <<examFile, crossed, exam>> BY <1>1 DEF NameFolder, shared
  <2> QED BY <2>1, <2>2, <2>3
<1>2. ASSUME NEW p \in Procs, LookForExam(p) PROVE Serial'
  <2>0. ~overlapped BY <1>2 DEF LookForExam
  <2>1. CASE examFile = Torn
    BY <1>2, <2>0, <2>1 DEF LookForExam, Goto, shared, Real
  <2>2. CASE examFile \notin Real \cup {Torn}
    <3>1. \A q \in Procs : pc[q] \notin Chosen BY <2>0, <2>2
    <3> QED BY <1>2, <2>0, <2>2, <3>1 DEF LookForExam, Goto, shared
  <2>3. CASE examFile \in Real
    BY <1>2, <2>0, <2>3 DEF LookForExam, Goto, shared, Real
  <2> QED BY <2>1, <2>2, <2>3
<1>3. ASSUME NEW p \in Procs, ChooseExam(p) PROVE Serial'
  <2>1. ~overlapped BY <1>3 DEF ChooseExam
  <2>2. {q \in Procs : pc[q] = "dump"} = {} BY <1>3, <2>1 DEF ChooseExam
  <2>3. crossed' = {} BY <1>3, <2>1, <2>2 DEF ChooseExam
  <2> QED BY <1>3, <2>1, <2>3 DEF ChooseExam, Goto
<1>4. ASSUME NEW p \in Procs, DumpExam(p) PROVE Serial'
  <2>1. ~overlapped BY <1>4 DEF DumpExam
  <2>2. crossed' = {} /\ examFile' = exam[p] BY <1>4, <2>1 DEF DumpExam
  <2> QED BY <1>4, <2>1, <2>2 DEF DumpExam, Goto
<1>5. ASSUME NEW p \in Procs, LookForInitial(p) PROVE Serial'
  BY <1>5 DEF LookForInitial, Goto, shared
<1>6. ASSUME NEW p \in Procs, OpenInitial(p) PROVE Serial'
  <2>1. ~overlapped BY <1>6 DEF OpenInitial
  <2>2. crossed' = {} BY <1>6, <2>1 DEF OpenInitial
  <2> QED BY <1>6, <2>1, <2>2 DEF OpenInitial, Goto
<1>7. ASSUME NEW p \in Procs, DumpInitial(p) PROVE Serial'
  BY <1>7 DEF DumpInitial, Goto
<1>8. ASSUME NEW p \in Procs, Evaluate(p) PROVE Serial'
  BY <1>8 DEF Evaluate, Goto, shared
<1>9. ASSUME NEW p \in Procs, Die(p) PROVE Serial'
  BY <1>9 DEF Die, Goto, shared
<1> QED BY <1>0, <1>1, <1>2, <1>3, <1>4, <1>5, <1>6, <1>7, <1>8, <1>9
        DEF SharedNext, AllEnded

\* Any number of processes that run one after the other are given one exam set,
\* wherever some of them died.
THEOREM SameExamWhenSerial == SharedSpec => []SameExamForAll
<1>1. Serial => SameExamForAll
  BY DEF Serial, SameExamForAll, Done, Chosen
<1> QED BY OwnInit, OwnNext, SerialInit, SerialNext, <1>1, PTL DEF SharedSpec
============================================================================
