SPECIFICATION SharedSpec
CONSTANTS
  Procs = {p1, p2, p3}
  Exams <- MCExams
  exam_size = 2
  None = None
  Torn = Torn
INVARIANTS
  InitialOfOwnExam
  NamedForItsExam
  SameExamForAll
PROPERTIES
  ExamSettles
