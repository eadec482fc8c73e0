---------------------------- MODULE SharedExams ----------------------------
(***************************************************************************)
(* The files that evaluation processes share                               *)
(* (EQG_Codes/eval/recommender_eval.py, used by gen_practice_eval.py too): *)
(* the exam set of a module and, for each exam set, the initial exam of    *)
(* all students.  Both are looked for, and written when they are missing,  *)
(* without a lock: a file is empty from its open to its dump, and a        *)
(* process may die in between.                                             *)
(***************************************************************************)
EXTENDS Naturals, FiniteSets

CONSTANTS
  Procs,     \* evaluation processes
  Exams,     \* exam sets, records of an id, a size and whether they are real
  exam_size, \* the size all processes ask for
  None,      \* no file, or nothing read yet
  Torn       \* a file that is not JSON: empty, cut short or two writers mixed

Requested == {e \in Exams : e.size = exam_size}
Real == {e \in Exams : e.real}

ASSUME ExamsAssumption ==
  /\ \A e \in Exams : DOMAIN e = {"id", "size", "real"} /\ e.size \in Nat /\ e.real \in BOOLEAN
  /\ Exams \ Real \subseteq Requested \* placeholders had the size in the file's name
  /\ None \notin Exams /\ Torn \notin Exams /\ None # Torn

VARIABLES
  examFile,     \* exam_set_size_N.json
  legacy,       \* exam_set.json beside it, never written any more
  initialFiles, \* per signature of an exam set: the set its predictions are of
  pc,           \* per process: where it is
  named,        \* per process: effective_exam_size, part of its folder's name
  exam,         \* per process: exam_set
  initial,      \* per process: the exam set its initial predictions are of
  crossed,      \* processes whose open file another one has open or truncated
  overlapped    \* has a process ever started while another one ran?

vars == <<examFile, legacy, initialFiles, pc, named, exam, initial, crossed,
          overlapped>>
shared == <<examFile, legacy, initialFiles, crossed>>

Ended == {"done", "raised", "dead"}
Running == {p \in Procs : pc[p] \notin Ended \cup {"new"}}

SharedInit ==
  /\ examFile \in Exams \cup {None}
  /\ legacy \in Exams \cup {None}
  /\ initialFiles = [e \in Exams |-> None]
  /\ pc = [p \in Procs |-> "new"]
  /\ named = [p \in Procs |-> 0]
  /\ exam = [p \in Procs |-> None]
  /\ initial = [p \in Procs |-> None]
  /\ crossed = {}
  /\ overlapped = FALSE

Goto(p, l) == pc' = [pc EXCEPT ![p] = l]

---------------------------------------------------------------------------
\* As FolderSize, with whatever size the legacy file has.
AnyLegacySize ==
  IF examFile # None THEN examFile.size
  ELSE IF legacy # None THEN legacy.size ELSE exam_size

\* The size of the exam set found, or the one asked for.  A legacy file counts
\* only if it has that size anyway.
FolderSize == IF examFile # None THEN examFile.size ELSE exam_size

\* The folder is named after the exam set that is there when the process starts.
NameFolder(p) ==
  /\ pc[p] = "new"
  /\ overlapped' = (overlapped \/ Running # {})
  /\ \/ examFile = Torn /\ Goto(p, "raised") /\ UNCHANGED named
     \/ /\ examFile # Torn
        /\ named' = [named EXCEPT ![p] = FolderSize]
        /\ Goto(p, "look")
  /\ UNCHANGED <<shared, exam, initial>>

\* As LookForExam, never using what it finds.
LookInVain(p) ==
  /\ pc[p] = "look"
  /\ Goto(p, "choose")
  /\ UNCHANGED <<shared, overlapped, named, exam, initial>>

LookForExam(p) ==
  /\ pc[p] = "look"
  /\ \/ examFile = Torn /\ Goto(p, "raised") /\ UNCHANGED exam
     \/ examFile \notin Real \cup {Torn} /\ Goto(p, "choose") /\ UNCHANGED exam
     \/ /\ examFile \in Real
        /\ exam' = [exam EXCEPT ![p] = examFile]
        /\ Goto(p, "initial")
  /\ UNCHANGED <<shared, overlapped, named, initial>>

\* As Choices, a legacy set of any size.
AnyChoices == IF legacy \in Real THEN {legacy} ELSE Real \cap Requested

\* A fitting legacy set, or a new sample of real questions.
Choices == IF legacy \in Real \cap Requested THEN {legacy} ELSE Real \cap Requested

ChooseExam(p) ==
  /\ pc[p] = "choose"
  /\ \E e \in Choices : exam' = [exam EXCEPT ![p] = e]
  /\ examFile' = Torn
  /\ LET others == {q \in Procs : pc[q] = "dump"}
     IN  crossed' = crossed \cup others \cup (IF others = {} THEN {} ELSE {p})
  /\ Goto(p, "dump")
  /\ UNCHANGED <<legacy, initialFiles, named, initial, overlapped>>

\* Two that have the file open at once may leave a mixture of their sets.
DumpExam(p) ==
  /\ pc[p] = "dump"
  /\ \/ examFile' = exam[p]
     \/ p \in crossed /\ examFile' = Torn
  /\ crossed' = crossed \ {p}
  /\ Goto(p, "initial")
  /\ UNCHANGED <<legacy, initialFiles, named, exam, initial, overlapped>>

\* As Signature, from the size of the set alone.
SizeSignature(e) == CHOOSE s \in Exams : s.size = e.size

\* The file of an exam set is named after a hash of its question ids.
Signature(e) == e

LookForInitial(p) ==
  /\ pc[p] = "initial"
  /\ LET found == initialFiles[Signature(exam[p])]
     IN  \/ found = Torn /\ Goto(p, "raised") /\ UNCHANGED initial
         \/ found = None /\ Goto(p, "predict") /\ UNCHANGED initial
         \/ /\ found \in Exams
            /\ initial' = [initial EXCEPT ![p] = found]
            /\ Goto(p, "evaluate")
  /\ UNCHANGED <<shared, overlapped, named, exam>>

OpenInitial(p) ==
  /\ pc[p] = "predict"
  /\ initial' = [initial EXCEPT ![p] = exam[p]]
  /\ initialFiles' = [initialFiles EXCEPT ![Signature(exam[p])] = Torn]
  /\ crossed' = crossed \cup {q \in Procs : /\ pc[q] = "dumpInitial"
                                           /\ Signature(exam[q]) = Signature(exam[p])}
  /\ Goto(p, "dumpInitial")
  /\ UNCHANGED <<examFile, legacy, named, exam, overlapped>>

\* Writers of one file write the same bytes: only what another one has
\* truncated in between is missing.
DumpInitial(p) ==
  /\ pc[p] = "dumpInitial"
  /\ \E content \in {initial[p]} \cup (IF p \in crossed THEN {Torn} ELSE {}) :
       initialFiles' = [initialFiles EXCEPT ![Signature(exam[p])] = content]
  /\ crossed' = crossed \ {p}
  /\ Goto(p, "evaluate")
  /\ UNCHANGED <<examFile, legacy, named, exam, initial, overlapped>>

Evaluate(p) ==
  /\ pc[p] = "evaluate"
  /\ Goto(p, "done")
  /\ UNCHANGED <<shared, overlapped, named, exam, initial>>

Die(p) ==
  /\ p \in Running
  /\ Goto(p, "dead")
  /\ UNCHANGED <<shared, overlapped, named, exam, initial>>

AllEnded == Running = {} /\ (\A p \in Procs : pc[p] # "new") /\ UNCHANGED vars

SharedNext ==
  \/ \E p \in Procs : \/ NameFolder(p) \/ LookForExam(p) \/ ChooseExam(p) \/ DumpExam(p)
                      \/ LookForInitial(p) \/ OpenInitial(p) \/ DumpInitial(p)
                      \/ Evaluate(p) \/ Die(p)
  \/ AllEnded

SharedSpec == SharedInit /\ [][SharedNext]_vars

---------------------------------------------------------------------------
Done == {p \in Procs : pc[p] = "done"}

\* Files hold exam sets or are torn; a process that is past the choice of an
\* exam set has one.
SharedTypeOK ==
  /\ examFile \in Exams \cup {None, Torn} /\ legacy \in Exams \cup {None}
  /\ initialFiles \in [Exams -> Exams \cup {None, Torn}]
  /\ pc \in [Procs -> {"new", "look", "choose", "dump", "initial", "predict",
                       "dumpInitial", "evaluate"} \cup Ended]
  /\ named \in [Procs -> {e.size : e \in Exams} \cup {0, exam_size}]
  /\ crossed \subseteq Procs /\ overlapped \in BOOLEAN
  /\ exam \in [Procs -> Real \cup {None}] /\ initial \in [Procs -> Real \cup {None}]
  /\ \A p \in Procs :
       pc[p] \in {"dump", "initial", "predict", "dumpInitial", "evaluate", "done"} =>
         exam[p] \in Real

\* The gain of a student is the final exam less the initial one: both are of
\* the same exam set, though the initial one may be another process's and the
\* shared exam set may have been replaced since (recommender_eval.py:350-380).
InitialOfOwnExam == \A p \in Done : initial[p] = exam[p]

\* The folder a run writes to names the size of the exam it has given, though
\* the name is chosen before the exam set is (recommender_eval.py:254, 292).
NamedForItsExam == \A p \in Done : named[p] = exam[p].size

Settled == examFile \in Real /\ \A p \in Procs : pc[p] \notin {"choose", "dump"}

\* Once an exam set is there and no process is on its way to write one, no
\* process ever is again: it stays as it is, and all later ones share it.
ExamSettles ==
  [][Settled => Settled' /\ examFile' = examFile]_vars

\* Runs one after the other are given the same exam, even if one of them dies
\* at any point; only runs that overlap before there is one may differ.
SameExamForAll == ~overlapped => \A p, q \in Done : exam[p] = exam[q]
============================================================================
