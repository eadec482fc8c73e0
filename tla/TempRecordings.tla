--------------------------- MODULE TempRecordings ---------------------------
(***************************************************************************)
(* The temp recordings of EQG_Codes/kt/KT2/module/data_cache.py: the file  *)
(* to which an update appends a student's answers, "for cross-run          *)
(* persistence" (update.py:90), the copies a process keeps of it, and what *)
(* crashes, restarts, failing writes, resets and a change of path do to    *)
(* them.                                                                   *)
(*                                                                         *)
(* A dataset is a function from students to sequences of records.  The     *)
(* process is single-threaded; between the steps below it can be killed.   *)
(* The .tmp file that is written before it replaces the temp file is read  *)
(* by nobody and is left out.                                              *)
(***************************************************************************)
EXTENDS Integers, Sequences, FiniteSets

CONSTANTS
  Students,   \* students that answer
  Tested,     \* those among them in test_uids, the only ones that are loaded
  Base,       \* Base[s]: how many of a student's dataset records are kept
  burn_in_size,
  Default,    \* _default_temp_recordings_path
  RunPaths,   \* the paths evaluations configure for their runs
  MaxAnswers, \* bound on the answers of a run of the model
  None

Paths == {Default} \cup RunPaths

\* a dataset record by its position, an answer by its number
Record == [src : {"dataset", "answer"}, n : Nat]
IsDataset(data) == \E S \in SUBSET Students : data \in [S -> Seq(Record)]

ASSUME TempAssumption ==
  /\ Tested \subseteq Students
  /\ Base \in [Students -> Nat]
  /\ burn_in_size \in Nat /\ MaxAnswers \in Nat
  /\ Default \notin RunPaths /\ None \notin Paths
  /\ ~IsDataset(None)

VARIABLES
  files,    \* the temp file at each path, None when there is none
  used,     \* the paths that are configured: the default one only, or all
  path,     \* temp_recordings_path
  cached,   \* _temp_dataset_cache
  datas,    \* global_datas
  writing,  \* the call of _write_temp_dataset in progress, None when idle
  answers,  \* history: how many answers were given so far
  kept      \* history: the answers appended to each file since it was created

vars == <<files, used, path, cached, datas, writing, answers, kept>>

FromDataset(i) == [src |-> "dataset", n |-> i]
Answer(i) == [src |-> "answer", n |-> i]

NoData == [s \in {} |-> <<>>]
Truncated(list, n) == IF Len(list) <= n THEN list ELSE SubSeq(list, 1, n)
At(data, s) == IF s \in DOMAIN data THEN data[s] ELSE <<>>

\* the first records of a test student
BaseRecords(s) ==
  IF s \in Tested THEN Truncated([i \in 1 .. Base[s] |-> FromDataset(i)], burn_in_size)
                  ELSE <<>>

Init ==
  /\ files = [p \in Paths |-> None]
  /\ used \in {{Default}, Paths}
  /\ path = Default
  /\ cached = None /\ datas = NoData /\ writing = None
  /\ answers = 0
  /\ kept = [p \in Paths |-> [s \in Students |-> <<>>]]

---------------------------------------------------------------------------
\* mutant: the file of an earlier process is not looked for
LoadCachedOnly == cached

\* _load_temp_dataset: the cache, or else the file
LoadTempDataset == IF cached # None THEN cached ELSE files[path]

\* initialize_data when there is no temp file: the test students' records
InitializeData == [s \in Tested |-> BaseRecords(s)]

\* the limit of a baseline: train_size, which only test students have
Limited(data) ==
  [s \in DOMAIN data |->
     IF s \in Tested THEN Truncated(data[s], burn_in_size) ELSE data[s]]

Extended(data, s, r) ==
  [t \in DOMAIN data \cup {s} |-> IF t = s THEN Append(At(data, s), r) ELSE data[t]]

\* mutant: extended in place and not in a copy of the cached dataset
AppendBeginsInPlace(s) ==
  LET found == LoadTempDataset
      loaded == IF found = None /\ DOMAIN datas = {} THEN InitializeData ELSE datas
      data == Extended(IF found = None THEN Limited(loaded) ELSE found, s, Answer(answers'))
  IN  /\ writing = None
      /\ answers < MaxAnswers
      /\ answers' = answers + 1
      /\ cached' = IF found = None THEN None ELSE data
      /\ datas' = loaded
      /\ writing' = [student |-> s, record |-> Answer(answers'), data |-> data]
      /\ UNCHANGED <<files, used, path, kept>>

\* append_temp_records up to the new file: the dataset of the temp file, or a
\* baseline made from global_datas when there is none
AppendBegins(s) ==
  LET found == LoadTempDataset
      loaded == IF found = None /\ DOMAIN datas = {} THEN InitializeData ELSE datas
      dataset == IF found = None THEN Limited(loaded) ELSE found
  IN  /\ writing = None
      /\ answers < MaxAnswers
      /\ answers' = answers + 1
      /\ cached' = found
      /\ datas' = loaded
      /\ writing' = [student |-> s, record |-> Answer(answers'),
                     data |-> Extended(dataset, s, Answer(answers'))]
      /\ UNCHANGED <<files, used, path, kept>>

\* os.replace, and the same records for global_datas
AppendEnds ==
  LET s == writing.student
  IN  /\ writing # None
      /\ files' = [files EXCEPT ![path] = writing.data]
      /\ cached' = writing.data
      /\ datas' = Extended(datas, s, writing.record)
      /\ kept' = [kept EXCEPT ![path][s] = Append(@, writing.record)]
      /\ writing' = None
      /\ UNCHANGED <<used, path, answers>>

\* the new file cannot be written: the exception leaves the call
AppendFails ==
  /\ writing # None
  /\ writing' = None
  /\ UNCHANGED <<files, used, path, cached, datas, answers, kept>>

\* reset_temp: reset_temp_recordings, then clear_cached_data
Reset ==
  /\ writing = None
  /\ files' = [files EXCEPT ![path] = None]
  /\ cached' = None
  /\ datas' = NoData
  /\ kept' = [kept EXCEPT ![path] = [s \in Students |-> <<>>]]
  /\ UNCHANGED <<used, path, writing, answers>>

\* mutants: the dataset cached for the old path stays; no path is no default
SetPathKeepingCache(p) ==
  /\ writing = None
  /\ path' = IF p = None THEN Default ELSE p
  /\ UNCHANGED <<files, used, cached, datas, writing, answers, kept>>
SetPathAsGiven(p) ==
  /\ writing = None
  /\ path' = p
  /\ cached' = None
  /\ UNCHANGED <<files, used, datas, writing, answers, kept>>

\* set_temp_recordings_path, as an evaluation does before and after its run;
\* no path stands for the default one
SetPath(p) ==
  /\ writing = None
  /\ path' = IF p = None THEN Default ELSE p
  /\ cached' = None
  /\ UNCHANGED <<files, used, datas, writing, answers, kept>>

\* the process is killed, and another is started
Restart ==
  /\ path' = Default
  /\ cached' = None /\ datas' = NoData /\ writing' = None
  /\ UNCHANGED <<files, used, answers, kept>>

Next ==
  \/ \E s \in Students : AppendBegins(s)
  \/ AppendEnds \/ AppendFails \/ Reset \/ Restart
  \/ \E p \in used \cup {None} : SetPath(p)

Spec == Init /\ [][Next]_vars

---------------------------------------------------------------------------
TypeOK ==
  /\ DOMAIN files = Paths /\ \A p \in Paths : files[p] = None \/ IsDataset(files[p])
  /\ used \in {{Default}, Paths} /\ path \in used
  /\ cached = None \/ IsDataset(cached)
  /\ IsDataset(datas)
  /\ writing # None => /\ writing.student \in Students
                       /\ writing.record \in Record /\ IsDataset(writing.data)
  /\ answers \in 0 .. MaxAnswers
  /\ kept \in [Paths -> [Students -> Seq(Record)]]

EndsWith(list, tail) ==
  /\ Len(tail) <= Len(list)
  /\ \A i \in 1 .. Len(tail) : list[Len(list) - Len(tail) + i] = tail[i]

(* Whatever fails, is killed or reconfigured in between, a temp file ends   *)
(* with all the answers that were appended to it since it was created, in   *)
(* their order (append_temp_records, _write_temp_dataset).                  *)
AnswersKept ==
  \A p \in Paths, s \in Students :
    IF files[p] = None THEN kept[p][s] = <<>> ELSE EndsWith(At(files[p], s), kept[p][s])

(* While only the default path is in use, a temp file is the truncated      *)
(* dataset and those answers, and nothing else: none of a student's later   *)
(* dataset records, none of an append that failed, and none from before a   *)
(* reset (the docstring of reset_temp: "so the model reloads data from the  *)
(* original dataset").                                                      *)
FreshBaseline ==
  used = {Default} /\ files[Default] # None =>
    \A s \in Students : At(files[Default], s) = BaseRecords(s) \o kept[Default][s]

(* The dataset cached in memory is the one in the file of the current path, *)
(* after a failed write and a change of path too.                           *)
CacheIsTheFile == cached # None => cached = files[path]

=============================================================================
