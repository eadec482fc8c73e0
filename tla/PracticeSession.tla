--------------------------- MODULE PracticeSession ---------------------------
(***************************************************************************)
(* What a practice evaluation promises, without files, caches or graphs:   *)
(* the students are served one after the other, each answers Rounds        *)
(* questions from a fresh start, and is graded on exactly the answers of   *)
(* that sitting.                                                           *)
(***************************************************************************)
EXTENDS Naturals, Sequences

CONSTANTS
  Order,   \* the students in the order they are served
  KCs,     \* what a question is about
  Rounds,  \* questions per student
  None     \* nobody, or not graded yet

VARIABLES
  student, \* who is practising, None between two students
  answers, \* the concepts answered in this sitting, in order
  served,  \* how many students have been started
  grades   \* per student, the answers the grade is computed from

vars == <<student, answers, served, grades>>

Init ==
  /\ student = None
  /\ answers = <<>>
  /\ served = 0
  /\ grades = [s \in {Order[i] : i \in DOMAIN Order} |-> None]

Start ==
  /\ student = None
  /\ served < Len(Order)
  /\ served' = served + 1
  /\ student' = Order[served']
  /\ UNCHANGED <<answers, grades>>

Answer(k) ==
  /\ student # None
  /\ Len(answers) < Rounds
  /\ answers' = Append(answers, k)
  /\ UNCHANGED <<student, served, grades>>

Grade ==
  /\ student # None
  /\ Len(answers) = Rounds
  /\ grades' = [grades EXCEPT ![student] = answers]
  /\ student' = None
  /\ answers' = <<>>
  /\ UNCHANGED served

Next == Start \/ Grade \/ \E k \in KCs : Answer(k)

Spec == Init /\ [][Next]_vars /\ WF_vars(Next)
==============================================================================
