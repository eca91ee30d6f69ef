-------------------------------- MODULE Upload ------------------------------
(***************************************************************************)
(* A nightly run: runner.main has perf.main measure the benchmarks one     *)
(* after another, writes the results to a file and then saves them, one    *)
(* request per result, at every url of the changed and then of the         *)
(* baseline interpreter.  The servers are the environment: a request may   *)
(* be refused, lost, or stored while its answer is lost.                   *)
(***************************************************************************)
EXTENDS Integers, Sequences

CONSTANTS NumBench,      \* the benchmarks to run
          NoStatistics,  \* perf's --no_statistics (runner's --full-store)
          ChangedUrls,   \* the number of urls for CHANGED, 0 without --upload
          BaselineUrls,  \* the number of urls for BASELINE
          Retries,       \* the length of retries in send, 4 there
          Healthy        \* the uploads whose server always answers

ASSUME UploadAssumption == /\ NumBench \in Nat
                           /\ NoStatistics \in BOOLEAN
                           /\ ChangedUrls \in Nat
                           /\ BaselineUrls \in Nat
                           /\ Retries \in Nat

\* an upload is one call of save; those of CHANGED come first
Uploads == 1..(ChangedUrls + BaselineUrls)

-----------------------------------------------------------------------------
(* What a benchmark function reports.  A value is the time of one          *)
(* interpreter, or "none" (a list without a time, or None), "many" (a list *)
(* of several times) or "fake" (the -1 of a benchmark that runs only the   *)
(* baseline).                                                              *)
Values == {"none", "time", "many", "fake"}
Types  == {"Comparison", "Raw", "ResultError"}
Result(t, c, b) == [type |-> t, changed |-> c, baseline |-> b]
Results == [type : Types, changed : Values, baseline : Values]

\* one SimpleComparisonResult or ComparisonResult: both have one value a side
Compared == Result("Comparison", "time", "time")

(* CompareMultipleRuns, of lists with no, one or many times. *)
CompareMultipleRuns(b, c) == IF NoStatistics \/ b = "none" \/ c = "none"
                               THEN Result("Raw", c, b)
                               ELSE Compared

Lists == {"none", "time", "many"}

(* What perf.main adds to its results for one benchmark: one result, or    *)
(* one for each phase of translate.py.                                     *)
Outcomes == {<<CompareMultipleRuns(l[1], l[2])>> : l \in Lists \X Lists}
              \union {<<Result("Comparison", "fake", "time")>>,
                      <<Result("Raw", "none", "time"), Result("Raw", "none", "time")>>,
                      <<Result("ResultError", "none", "none")>>}

VARIABLES bench,     \* the benchmarks run so far
          results,
          broken,    \* perf.main has errors
          file,      \* the result file is written
          upload,    \* the upload under way
          pos,       \* the result it is at
          try,       \* the failed tries to send it
          error,     \* the error of save
          errors,    \* main has errors
          status,      \* how the program ended, "running" before it does
          stored,    \* <<u, i, k>>: the server of u stored the k-th try of result i
          answered   \* those that send knows of

measured == <<bench, results, broken, file>>
vars == <<measured, upload, pos, try, error, errors, status, stored, answered>>

Tries == Uploads \X (Nat \ {0}) \X (0..Retries)

TypeOK == /\ bench \in 0..NumBench
          /\ results \in Seq(Results)
          /\ broken \in BOOLEAN
          /\ file \in BOOLEAN
          /\ upload \in 1..(ChangedUrls + BaselineUrls + 1)
          /\ pos \in 1..(Len(results) + 1)
          /\ try \in 0..Retries
          /\ error \in BOOLEAN
          /\ errors \in BOOLEAN
          /\ status \in {"running", "ok", "benchmarkFailed", "uploadFailed", "died"}
          /\ stored \in SUBSET Tries
          /\ answered \in SUBSET Tries

Init == /\ bench = 0
        /\ results = <<>>
        /\ broken = FALSE
        /\ file = FALSE
        /\ upload = 1
        /\ pos = 1
        /\ try = 0
        /\ error = FALSE
        /\ errors = FALSE
        /\ status = "running"
        /\ stored = {}
        /\ answered = {}

-----------------------------------------------------------------------------
unsent == <<upload, pos, try, error, errors, stored, answered>>

Measuring == bench < NumBench /\ status = "running"

RunBenchmark == /\ Measuring
                /\ \E o \in Outcomes : results' = results \o o
                /\ bench' = bench + 1
                /\ UNCHANGED <<broken, file, status, unsent>>

(* The function raises: the others still run. *)
BenchmarkRaises == /\ Measuring
                   /\ bench' = bench + 1
                   /\ broken' = TRUE
                   /\ UNCHANGED <<results, file, status, unsent>>

(* perf.main returns to run_and_store, which writes the file. *)
Report == /\ bench = NumBench /\ status = "running" /\ ~file
          /\ ~broken
          /\ file' = TRUE
          /\ UNCHANGED <<bench, results, broken, status, unsent>>

(* perf.main raises its last error: no result is kept. *)
ReportFails == /\ bench = NumBench /\ status = "running" /\ ~file
               /\ broken
               /\ status' = "benchmarkFailed"
               /\ UNCHANGED <<measured, unsent>>

(* The file cannot be written. *)
StoreFails == /\ bench = NumBench /\ status = "running" /\ ~file
              /\ ~broken
              /\ status' = "died"
              /\ UNCHANGED <<measured, unsent>>

-----------------------------------------------------------------------------
Saving == file /\ status = "running" /\ upload \in Uploads

Value(r, u) == IF u <= ChangedUrls THEN r.changed ELSE r.baseline

AtResult == Saving /\ pos <= Len(results)
AtValue(v) == /\ AtResult
              /\ results[pos].type # "ResultError"
              /\ Value(results[pos], upload) = v

NextResult == /\ pos' = pos + 1
              /\ try' = 0
              /\ UNCHANGED upload

\* save ends, by return or with an IOError that main keeps
NextUpload(failed) == /\ errors' = (errors \/ failed)
                      /\ upload' = upload + 1
                      /\ pos' = 1
                      /\ try' = 0
                      /\ error' = FALSE
                      /\ UNCHANGED <<measured, status>>

(* A type of result that save does not know: it returns 1, which main prints. *)
UnknownType == /\ AtResult
               /\ results[pos].type = "ResultError"
               /\ NextUpload(FALSE)
               /\ UNCHANGED <<stored, answered>>

(* assert len(value) == 1 fails, and main catches only IOError. *)
ManyValues == /\ AtValue("many")
              /\ status' = "died"
              /\ UNCHANGED <<measured, unsent>>

SkipResult == /\ AtValue("none")
              /\ NextResult
              /\ UNCHANGED <<measured, error, errors, status, stored, answered>>

ThisTry == <<upload, pos, try>>
Sending == AtValue("time") \/ AtValue("fake")

(* Defect: the loop of send goes on after an answer. *)
AnsweredAgain == /\ Sending
                 /\ stored' = stored \union {ThisTry}
                 /\ answered' = answered \union {ThisTry}
                 /\ IF try < Retries THEN try' = try + 1 /\ UNCHANGED <<pos, upload>>
                                     ELSE NextResult
                 /\ UNCHANGED <<measured, error, errors, status>>

Answered == /\ Sending
            /\ stored' = stored \union {ThisTry}
            /\ answered' = answered \union {ThisTry}
            /\ NextResult
            /\ UNCHANGED <<measured, error, errors, status>>

\* a request that fails may have reached the server all the same
Unanswered == /\ Sending
              /\ upload \notin Healthy
              /\ stored' \in {stored, stored \union {ThisTry}}
              /\ UNCHANGED answered

(* URLError: another try after a pause. *)
Retry == /\ Unanswered
         /\ try < Retries
         /\ try' = try + 1
         /\ UNCHANGED <<measured, upload, pos, error, errors, status>>

(* URLError with no retry left: send returns 1, save goes on. *)
GiveUp == /\ Unanswered
          /\ try = Retries
          /\ error' = TRUE
          /\ NextResult
          /\ UNCHANGED <<measured, errors, status>>

(* Defect: another error ends the uploads. *)
OtherIOErrorEnds == /\ Unanswered
                    /\ errors' = TRUE
                    /\ upload' = ChangedUrls + BaselineUrls + 1
                    /\ UNCHANGED <<measured, pos, try, error, status>>

(* Another IOError, of the socket or of error.html, leaves send and save. *)
OtherIOError == Unanswered /\ NextUpload(TRUE)

(* An exception that is no IOError (of httplib) ends the program. *)
SendDies == /\ Unanswered
            /\ status' = "died"
            /\ UNCHANGED <<measured, upload, pos, try, error, errors>>

(* Defect: save does not look at its error. *)
EndSaveForgets == /\ Saving
                  /\ pos = Len(results) + 1
                  /\ NextUpload(FALSE)
                  /\ UNCHANGED <<stored, answered>>

EndSave == /\ Saving
           /\ pos = Len(results) + 1
           /\ NextUpload(error)
           /\ UNCHANGED <<stored, answered>>

Finish == /\ file /\ status = "running" /\ upload \notin Uploads
          /\ status' = IF errors THEN "uploadFailed" ELSE "ok"
          /\ UNCHANGED <<measured, unsent>>

-----------------------------------------------------------------------------
Next == \/ RunBenchmark \/ BenchmarkRaises
        \/ Report \/ ReportFails \/ StoreFails
        \/ UnknownType \/ ManyValues \/ SkipResult
        \/ Answered \/ Retry \/ GiveUp \/ OtherIOError \/ SendDies
        \/ EndSave \/ Finish

Spec == Init /\ [][Next]_vars

-----------------------------------------------------------------------------
IsStored(u, i) == \E k \in 0..Retries : <<u, i, k>> \in stored
IsAnswered(u, i) == \E k \in 0..Retries : <<u, i, k>> \in answered

HasValue(u, i) == /\ results[i].type # "ResultError"
                  /\ Value(results[i], u) # "none"

\* save gets to result i
Reached(i) == \A j \in 1..i : results[j].type # "ResultError"

AllTypesKnown == \A i \in DOMAIN results : results[i].type # "ResultError"

(* The exit status is the only report of a nightly run.  If no benchmark   *)
(* reports a ResultError, it is 0 only if every value of every result is   *)
(* stored at every url: an error survives the results and uploads that     *)
(* follow.  And the uploads are said to have failed only if some value was *)
(* sent without an answer to the last: a try that succeeds after others    *)
(* have failed leaves no error behind.                                     *)
ExitStatusTells ==
  /\ status = "ok" /\ AllTypesKnown =>
       \A u \in Uploads, i \in DOMAIN results : HasValue(u, i) => IsStored(u, i)
  /\ status = "uploadFailed" =>
       \E u \in Uploads \ Healthy, i \in DOMAIN results : HasValue(u, i) /\ ~IsAnswered(u, i)

(* The uploads are independent: whatever goes wrong at one url, a url      *)
(* whose server always answers gets all results, unless main dies.         *)
HealthyGetAll == status \in {"ok", "uploadFailed"} =>
  \A u \in Uploads \intersect Healthy, i \in DOMAIN results :
    HasValue(u, i) /\ Reached(i) => IsStored(u, i)

(* The server stores a result twice only if the answer to the first of the *)
(* two requests was lost.                                                  *)
SentAgainOnlyIfUnanswered ==
  \A t \in answered, s \in stored : t[1] = s[1] /\ t[2] = s[2] => s[3] <= t[3]

(* One benchmark that raises keeps every result of the night from the file *)
(* and from the servers.                                                   *)
AllOrNothing == broken => ~file /\ stored = {}

(* save reports a result of unknown type as an ERROR and returns 1, so a   *)
(* run in which a value was not stored should not end as a success.        *)
OkMeansAllStored == status = "ok" =>
  \A u \in Uploads, i \in DOMAIN results : HasValue(u, i) => IsStored(u, i)
=============================================================================
