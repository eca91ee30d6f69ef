---------------------------- MODULE NightlyProofs ---------------------------
(***************************************************************************)
(* Proofs about the two parts of a nightly run.  About Selection, for any  *)
(* tables of benchmarks and groups and lists of any length; about Upload,  *)
(* for any number of benchmarks, urls and retries and any behaviour of the *)
(* servers.                                                                *)
(***************************************************************************)
EXTENDS Upload, Selection, SequenceTheorems, TLAPS

\* the place of send has gone past try t
Past(t) == t[1] < upload \/ (t[1] = upload /\ t[2] < pos)

\* ... or is a try of the result it is at, the last one if send died
AtPlace(t) == /\ t[1] = upload /\ t[2] = pos
              /\ t[3] < try \/ (t[3] = try /\ status = "died")

\* nothing is sent before the file is written, nothing measured after it
Phases == /\ ~file => /\ upload = 1 /\ pos = 1 /\ try = 0
                      /\ ~error /\ ~errors
                      /\ stored = {} /\ answered = {}
                      /\ status \notin {"ok", "uploadFailed"}
          /\ file => ~broken /\ bench = NumBench
          /\ status \in {"ok", "uploadFailed"} => upload \notin Uploads
          /\ status = "ok" => ~errors
          /\ status = "uploadFailed" => errors

\* the tries made lie behind, or at the result under way
Order == /\ \A t \in answered : Past(t)
         /\ \A s \in stored : Past(s) \/ AtPlace(s)

\* what is behind the place of send is stored, or an error tells of it
Behind == \A u \in Uploads, i \in DOMAIN results : HasValue(u, i) =>
  /\ u < upload /\ AllTypesKnown => IsStored(u, i) \/ errors
  /\ u < upload /\ u \in Healthy /\ Reached(i) => IsStored(u, i)
  /\ u = upload /\ i < pos => IsStored(u, i) \/ error
  /\ u = upload /\ i < pos /\ u \in Healthy => IsStored(u, i)

IInv == TypeOK /\ Phases /\ Order /\ Behind /\ SentAgainOnlyIfUnanswered

-----------------------------------------------------------------------------
(* A list that CompareMultipleRuns reports on is a list of results. *)
LEMMA OutcomeType == \A o \in Outcomes : o \in Seq(Results)
<1> SUFFICES ASSUME NEW o \in Outcomes PROVE o \in Seq(Results)
  OBVIOUS
<1>1. \A b, c \in Lists : CompareMultipleRuns(b, c) \in Results
  BY DEF Lists, CompareMultipleRuns, Compared, Result, Results, Types, Values
<1>2. /\ Result("Comparison", "fake", "time") \in Results
      /\ Result("Raw", "none", "time") \in Results
      /\ Result("ResultError", "none", "none") \in Results
  BY DEF Result, Results, Types, Values
<1> HIDE DEF Results, Result, CompareMultipleRuns, Lists
<1>3. \A r, s \in Results : <<r>> \in Seq(Results) /\ <<r, s>> \in Seq(Results)
  OBVIOUS
<1>4. CASE \E l \in Lists \X Lists : o = <<CompareMultipleRuns(l[1], l[2])>>
  BY <1>1, <1>3, <1>4
<1>5. CASE \/ o = <<Result("Comparison", "fake", "time")>>
           \/ o = <<Result("Raw", "none", "time"), Result("Raw", "none", "time")>>
           \/ o = <<Result("ResultError", "none", "none")>>
  BY <1>2, <1>3, <1>5
<1> QED BY <1>4, <1>5 DEF Outcomes

LEMMA InitInv == Init => IInv
<1> SUFFICES ASSUME Init PROVE IInv
  OBVIOUS
<1> USE UploadAssumption DEF UploadAssumption, Init
<1>1. TypeOK
  <2>1. results \in Seq(Results) /\ Len(results) = 0
    BY EmptySeq
  <2>2. bench \in 0..NumBench /\ try \in 0..Retries
    OBVIOUS
  <2>3. pos \in 1..(Len(results) + 1) /\ upload \in 1..(ChangedUrls + BaselineUrls + 1)
    BY <2>1
  <2> HIDE DEF Results
  <2> QED BY <2>1, <2>2, <2>3 DEF TypeOK
<1>2. Phases
  BY DEF Phases
<1>3. Order /\ SentAgainOnlyIfUnanswered
  BY DEF Order, SentAgainOnlyIfUnanswered
<1>4. Behind
  BY EmptySeq DEF Behind, Uploads
<1> QED BY <1>1, <1>2, <1>3, <1>4 DEF IInv

(* A step before the upload phase. *)
LEMMA MeasureStep ==
  ASSUME IInv, ~file, status = "running", UNCHANGED unsent,
         bench' \in 0..NumBench, results' \in Seq(Results),
         broken' \in BOOLEAN, file' \in BOOLEAN,
         file' => bench' = NumBench /\ ~broken',
         status' \in {"running", "benchmarkFailed", "died"}
  PROVE  IInv'
<1> USE UploadAssumption DEF UploadAssumption
<1>1. /\ upload' = upload /\ pos' = pos /\ try' = try
      /\ error' = error /\ errors' = errors
      /\ stored' = stored /\ answered' = answered
  BY DEF unsent
<1>2. upload' = 1 /\ pos' = 1 /\ try' = 0 /\ stored' = {} /\ answered' = {}
  BY <1>1 DEF IInv, Phases
<1>2a. ~error' /\ ~errors'
  BY <1>1 DEF IInv, Phases
<1>3. DOMAIN results' = 1..Len(results') /\ Len(results') \in Nat
  BY LenProperties
<1>4. TypeOK'
  <2> HIDE DEF Results
  <2>1. pos' \in 1..(Len(results') + 1) /\ upload' \in 1..(ChangedUrls + BaselineUrls + 1)
    BY <1>2, <1>3
  <2>2. try' \in 0..Retries /\ error' \in BOOLEAN /\ errors' \in BOOLEAN
    BY <1>1 DEF IInv, TypeOK
  <2>3. stored' \in SUBSET Tries /\ answered' \in SUBSET Tries
    BY <1>1, <1>2
  <2> QED BY <2>1, <2>2, <2>3 DEF TypeOK
<1>5. Phases'
  BY <1>2, <1>2a DEF Phases
<1>6. Order' /\ SentAgainOnlyIfUnanswered'
  BY <1>1, <1>2 DEF Order, SentAgainOnlyIfUnanswered
<1>7. Behind'
  <2>1. \A u \in Uploads, i \in DOMAIN results' : ~(u < upload') /\ ~(i < pos')
    BY <1>2, <1>3 DEF Uploads
  <2> HIDE DEF Uploads
  <2> QED BY <2>1 DEF Behind
<1> QED BY <1>4, <1>5, <1>6, <1>7 DEF IInv

-----------------------------------------------------------------------------
LEMMA SavingFacts ==
  ASSUME IInv, Saving
  PROVE  /\ upload \in Uploads /\ upload \in Nat /\ pos \in Nat /\ pos >= 1 /\ try \in Nat
         /\ \A u \in Uploads : u \in Nat
         /\ ChangedUrls + BaselineUrls \in Nat /\ Uploads = 1..(ChangedUrls + BaselineUrls)
         /\ results \in Seq(Results) /\ Len(results) \in Nat
         /\ DOMAIN results = 1..Len(results)
         /\ pos \in 1..(Len(results) + 1) /\ ThisTry \in Tries
<1>1. results \in Seq(Results)
  BY DEF IInv, TypeOK
<1>2. Len(results) \in Nat /\ DOMAIN results = 1..Len(results)
  BY <1>1, LenProperties
<1>3. /\ pos \in 1..(Len(results) + 1) /\ try \in 0..Retries /\ upload \in Uploads
  BY DEF IInv, TypeOK, Saving
<1>4. ChangedUrls + BaselineUrls \in Nat
  BY UploadAssumption DEF UploadAssumption
<1>5. ThisTry \in Tries
  BY <1>2, <1>3 DEF ThisTry, Tries
<1> QED BY <1>1, <1>2, <1>3, <1>4, <1>5, UploadAssumption DEF Uploads, UploadAssumption

(* What is stored stays stored. *)
LEMMA StoredStays ==
  ASSUME stored \subseteq stored', NEW u, NEW i, IsStored(u, i)
  PROVE  IsStored(u, i)'
BY DEF IsStored

(* save goes on to the next result: it was skipped, answered or given up. *)
LEMMA NextResultStep ==
  ASSUME IInv, AtResult, UNCHANGED measured, UNCHANGED errors, UNCHANGED status, NextResult,
         stored \subseteq stored', stored' \subseteq stored \union {ThisTry},
         answered' \subseteq answered \union {ThisTry},
         error' \in BOOLEAN, error => error',
         NEW u0 \in Uploads, NEW i0 \in Nat, u0 = upload, i0 = pos,
         HasValue(u0, i0) => /\ IsStored(u0, i0)' \/ error'
                             /\ u0 \in Healthy => IsStored(u0, i0)'
  PROVE  IInv'
<1>1. Saving /\ pos <= Len(results)
  BY DEF AtResult
<1> DEFINE Last == ChangedUrls + BaselineUrls
<1>f. /\ upload \in Uploads /\ upload \in Nat /\ pos \in Nat /\ pos >= 1 /\ try \in Nat
      /\ Uploads = 1..Last /\ Last \in Nat
      /\ Len(results) \in Nat /\ DOMAIN results = 1..Len(results) /\ ThisTry \in Tries
  BY <1>1, SavingFacts
<1>2. /\ upload' = upload /\ pos' = pos + 1 /\ try' = 0
      /\ results' = results /\ bench' = bench /\ broken' = broken /\ file' = file
      /\ errors' = errors /\ status' = status
  BY DEF NextResult, measured
<1>3. TypeOK'
  <2>1. stored' \in SUBSET Tries /\ answered' \in SUBSET Tries
    BY <1>f DEF IInv, TypeOK
  <2>2. pos' \in 1..(Len(results') + 1) /\ try' \in 0..Retries
    BY <1>1, <1>f, <1>2, UploadAssumption DEF UploadAssumption
  <2> QED BY <1>2, <2>1, <2>2 DEF IInv, TypeOK
<1>4. Phases'
  BY <1>1, <1>2, <1>f DEF IInv, Phases, Saving
<1>3a. \A t \in stored \union answered : t \in Tries /\ t[1] \in Nat /\ t[2] \in Nat /\ t[3] \in Nat
  BY <1>f DEF IInv, TypeOK, Tries
<1>5. \A t \in stored \union answered : Past(t) => Past(t)'
  BY <1>f, <1>2, <1>3a DEF Past
<1>6. \A t : t = ThisTry => Past(t)'
  BY <1>f, <1>2 DEF Past, ThisTry
<1>7. \A s \in stored : AtPlace(s) => Past(s)'
  BY <1>f, <1>2, <1>3a DEF Past, AtPlace
<1>8. Order'
  BY <1>5, <1>6, <1>7 DEF IInv, Order
<1>9. SentAgainOnlyIfUnanswered'
  <2> SUFFICES ASSUME NEW t \in answered', NEW s \in stored', t[1] = s[1], t[2] = s[2]
               PROVE  s[3] <= t[3]
    BY DEF SentAgainOnlyIfUnanswered
  <2>2. CASE t \in answered /\ s \in stored
    BY <2>2 DEF IInv, SentAgainOnlyIfUnanswered
  <2>3. CASE t \in answered /\ s = ThisTry
    BY <2>3, <1>f, <1>3a DEF IInv, Order, Past, ThisTry
  <2>4. CASE t = ThisTry /\ s \in stored
    BY <2>4, <1>1, <1>f, <1>3a DEF IInv, Order, Past, AtPlace, ThisTry, Saving
  <2>5. CASE t = ThisTry /\ s = ThisTry
    BY <2>5, <1>f DEF ThisTry
  <2> QED BY <2>2, <2>3, <2>4, <2>5
<1>10. Behind'
  <2> SUFFICES ASSUME NEW u \in Uploads, NEW i \in DOMAIN results, HasValue(u, i)
               PROVE  /\ u < upload /\ AllTypesKnown => IsStored(u, i)' \/ errors
                      /\ u < upload /\ u \in Healthy /\ Reached(i) => IsStored(u, i)'
                      /\ u = upload /\ i < pos + 1 => IsStored(u, i)' \/ error'
                      /\ u = upload /\ i < pos + 1 /\ u \in Healthy => IsStored(u, i)'
    BY <1>2 DEF Behind, HasValue, Value, AllTypesKnown, Reached
  <2>1. IsStored(u, i) => IsStored(u, i)'
    BY StoredStays
  <2>2. CASE u # upload \/ i # pos
    <3>1. i \in Nat /\ (u = upload /\ i < pos + 1 => i < pos)
      BY <1>f, <2>2
    <3> QED BY <3>1, <2>1, <2>2 DEF IInv, Behind
  <2>3. CASE u = upload /\ i = pos
    <3>1. ~(u < upload)
      BY <1>f, <2>3
    <3> QED BY <3>1, <2>3
  <2> QED BY <2>2, <2>3
<1> QED BY <1>3, <1>4, <1>8, <1>9, <1>10 DEF IInv

(* save ends, and main goes on to the next upload. *)
LEMMA NextUploadStep ==
  ASSUME IInv, Saving, NEW failed \in BOOLEAN, NextUpload(failed),
         stored \subseteq stored', stored' \subseteq stored \union {ThisTry}, answered' = answered,
         NEW u0 \in Uploads, u0 = upload,
         \A i \in DOMAIN results : HasValue(u0, i) =>
             /\ AllTypesKnown => IsStored(u0, i)' \/ errors'
             /\ u0 \in Healthy /\ Reached(i) => IsStored(u0, i)'
  PROVE  IInv'
<1> DEFINE Last == ChangedUrls + BaselineUrls
<1>1. /\ upload \in Uploads /\ upload \in Nat /\ pos \in Nat /\ pos >= 1 /\ try \in Nat
      /\ Uploads = 1..Last /\ Last \in Nat
      /\ results \in Seq(Results) /\ Len(results) \in Nat
      /\ DOMAIN results = 1..Len(results) /\ ThisTry \in Tries
  BY SavingFacts
<1>2. /\ upload' = upload + 1 /\ pos' = 1 /\ try' = 0
      /\ results' = results /\ bench' = bench /\ broken' = broken /\ file' = file
      /\ status' = status
  BY DEF NextUpload, measured
<1>2a. /\ errors => errors'
       /\ error' = FALSE
  BY DEF NextUpload
<1>2b. errors' \in BOOLEAN
  BY DEF NextUpload
<1>3. TypeOK'
  <2>1. stored' \in SUBSET Tries /\ answered' \in SUBSET Tries
    BY <1>1 DEF IInv, TypeOK
  <2>2. pos' \in 1..(Len(results') + 1) /\ try' \in 0..Retries /\ upload' \in 1..(Last + 1)
    BY <1>1, <1>2, UploadAssumption DEF UploadAssumption
  <2>3. error' \in BOOLEAN /\ errors' \in BOOLEAN
    BY <1>2a, <1>2b
  <2>4. /\ bench' \in 0..NumBench /\ results' \in Seq(Results) /\ broken' \in BOOLEAN
        /\ file' \in BOOLEAN
        /\ status' \in {"running", "ok", "benchmarkFailed", "uploadFailed", "died"}
    BY <1>2 DEF IInv, TypeOK
  <2> QED BY <2>1, <2>2, <2>3, <2>4 DEF TypeOK
<1>4. Phases'
  BY <1>2 DEF IInv, Phases, Saving
<1>5. \A t \in stored \union answered : t \in Tries /\ t[1] \in Nat /\ t[2] \in Nat /\ t[3] \in Nat
  BY <1>1 DEF IInv, TypeOK, Tries
<1>6. \A t \in stored \union answered : Past(t) \/ AtPlace(t) => Past(t)'
  BY <1>1, <1>2, <1>5 DEF Past, AtPlace
<1>7. \A t : t = ThisTry => Past(t)'
  BY <1>1, <1>2 DEF Past, ThisTry
<1>8. Order'
  BY <1>6, <1>7 DEF IInv, Order
<1>9. SentAgainOnlyIfUnanswered'
  <2> SUFFICES ASSUME NEW t \in answered, NEW s \in stored', t[1] = s[1], t[2] = s[2]
               PROVE  s[3] <= t[3]
    BY DEF SentAgainOnlyIfUnanswered
  <2>1. CASE s \in stored
    BY <2>1 DEF IInv, SentAgainOnlyIfUnanswered
  <2>2. CASE s = ThisTry
    BY <2>2, <1>1, <1>5 DEF IInv, Order, Past, ThisTry
  <2> QED BY <2>1, <2>2
<1>10. Behind'
  <2> SUFFICES ASSUME NEW u \in Uploads, NEW i \in DOMAIN results, HasValue(u, i)
               PROVE  /\ u < upload + 1 /\ AllTypesKnown => IsStored(u, i)' \/ errors'
                      /\ u < upload + 1 /\ u \in Healthy /\ Reached(i) => IsStored(u, i)'
                      /\ u = upload + 1 => ~(i < 1)
    BY <1>2 DEF Behind, HasValue, Value, AllTypesKnown, Reached
  <2>1. IsStored(u, i) => IsStored(u, i)'
    BY StoredStays
  <2>2. ~(i < 1) /\ (u < upload + 1 => u = upload \/ u < upload)
    BY <1>1
  <2>3. CASE u = upload
    BY <2>2, <2>3
  <2>4. CASE u # upload
    BY <2>1, <2>2, <2>4, <1>2a DEF IInv, Behind
  <2> QED BY <2>3, <2>4
<1> QED BY <1>3, <1>4, <1>8, <1>9, <1>10 DEF IInv

(* URLError with a retry left. *)
LEMMA RetryStep == ASSUME IInv, Retry PROVE IInv'
<1> DEFINE Last == ChangedUrls + BaselineUrls
<1>s. Saving
  BY DEF Retry, Unanswered, Sending, AtValue, AtResult
<1>1. /\ upload \in Uploads /\ upload \in Nat /\ pos \in Nat /\ pos >= 1 /\ try \in Nat
      /\ Uploads = 1..Last /\ Last \in Nat
      /\ DOMAIN results = 1..Len(results) /\ ThisTry \in Tries
  BY <1>s, SavingFacts
<1>2. /\ upload' = upload /\ pos' = pos /\ try' = try + 1
      /\ results' = results /\ bench' = bench /\ broken' = broken /\ file' = file
      /\ status' = status /\ error' = error /\ errors' = errors /\ answered' = answered
  BY DEF Retry, Unanswered, measured
<1>3. stored \subseteq stored' /\ stored' \subseteq stored \union {ThisTry}
  BY DEF Retry, Unanswered
<1>4. TypeOK'
  <2>1. stored' \in SUBSET Tries
    BY <1>1, <1>3 DEF IInv, TypeOK
  <2>2. try' \in 0..Retries
    BY <1>1, <1>2, UploadAssumption DEF UploadAssumption, Retry
  <2>3. /\ upload' \in 1..(Last + 1) /\ results' \in Seq(Results)
        /\ pos' \in 1..(Len(results') + 1) /\ answered' \in SUBSET Tries
    BY <1>2 DEF IInv, TypeOK
  <2> QED BY <1>2, <2>1, <2>2, <2>3 DEF IInv, TypeOK
<1>5. Phases'
  BY <1>2, <1>s DEF IInv, Phases, Saving
<1>6. \A t \in stored \union answered : t \in Tries /\ t[1] \in Nat /\ t[2] \in Nat /\ t[3] \in Nat
  BY <1>1 DEF IInv, TypeOK, Tries
<1>7. Order'
  <2>1. \A t \in stored \union answered : (Past(t) => Past(t)') /\ (AtPlace(t) => AtPlace(t)')
    BY <1>1, <1>2, <1>6 DEF Past, AtPlace
  <2>2. \A t : t = ThisTry => AtPlace(t)'
    BY <1>1, <1>2 DEF AtPlace, ThisTry
  <2> QED BY <1>2, <1>3, <2>1, <2>2 DEF IInv, Order
<1>8. SentAgainOnlyIfUnanswered'
  <2> SUFFICES ASSUME NEW t \in answered, NEW s \in stored', t[1] = s[1], t[2] = s[2]
               PROVE  s[3] <= t[3]
    BY <1>2 DEF SentAgainOnlyIfUnanswered
  <2>1. CASE s \in stored
    BY <2>1 DEF IInv, SentAgainOnlyIfUnanswered
  <2>2. CASE s = ThisTry
    BY <2>2, <1>1, <1>6 DEF IInv, Order, Past, ThisTry
  <2> QED BY <2>1, <2>2, <1>3
<1>9. Behind'
  <2>1. \A u, i : IsStored(u, i) => IsStored(u, i)'
    BY <1>3, StoredStays
  <2> QED BY <1>2, <2>1 DEF IInv, Behind, HasValue, Value, AllTypesKnown, Reached
<1> QED BY <1>4, <1>5, <1>7, <1>8, <1>9 DEF IInv

(* The program ends during the uploads. *)
LEMMA StopStep ==
  ASSUME IInv, file, status = "running", UNCHANGED measured,
         UNCHANGED <<upload, pos, try, error, errors>>, UNCHANGED answered,
         status' \in {"ok", "uploadFailed", "died"},
         status' \in {"ok", "uploadFailed"} => upload \notin Uploads,
         status' = "ok" => ~errors, status' = "uploadFailed" => errors,
         \/ UNCHANGED stored
         \/ Saving /\ status' = "died" /\ stored' \in {stored, stored \union {ThisTry}}
  PROVE  IInv'
<1>2. /\ upload' = upload /\ pos' = pos /\ try' = try
      /\ results' = results /\ bench' = bench /\ broken' = broken /\ file' = file
      /\ error' = error /\ errors' = errors /\ answered' = answered
  BY DEF measured
<1>3. /\ stored \subseteq stored'
      /\ \A s \in stored' : s \in stored \/ (s = ThisTry /\ Saving /\ status' = "died")
  OBVIOUS
<1>4. TypeOK'
  <2>1. stored' \in SUBSET Tries
    BY <1>3, SavingFacts DEF IInv, TypeOK
  <2> QED BY <1>2, <2>1 DEF IInv, TypeOK
<1>5. Phases'
  BY <1>2 DEF IInv, Phases
<1>6. /\ \A t : Past(t) => Past(t)'
      /\ \A t : AtPlace(t) => AtPlace(t)'
  BY <1>2 DEF Past, AtPlace
<1>7. \A t : t = ThisTry /\ status' = "died" => AtPlace(t)'
  BY <1>2 DEF AtPlace, ThisTry
<1>8. Order'
  BY <1>2, <1>3, <1>6, <1>7 DEF IInv, Order
<1>9. SentAgainOnlyIfUnanswered'
  <2> SUFFICES ASSUME NEW t \in answered, NEW s \in stored', t[1] = s[1], t[2] = s[2]
               PROVE  s[3] <= t[3]
    BY <1>2 DEF SentAgainOnlyIfUnanswered
  <2>1. CASE s \in stored
    BY <2>1 DEF IInv, SentAgainOnlyIfUnanswered
  <2>2. CASE s = ThisTry /\ Saving
    <3>1. upload \in Nat /\ pos \in Nat /\ t \in Tries
      BY <2>2, SavingFacts DEF IInv, TypeOK
    <3> QED BY <2>2, <3>1 DEF IInv, Order, Past, ThisTry
  <2> QED BY <2>1, <2>2, <1>3
<1>10. Behind'
  <2>1. \A u, i : IsStored(u, i) => IsStored(u, i)'
    BY <1>3, StoredStays
  <2> QED BY <1>2, <2>1 DEF IInv, Behind, HasValue, Value, AllTypesKnown, Reached
<1> QED BY <1>4, <1>5, <1>8, <1>9, <1>10 DEF IInv

-----------------------------------------------------------------------------
LEMMA InvStep == IInv /\ [Next]_vars => IInv'
<1> SUFFICES ASSUME IInv, [Next]_vars PROVE IInv'
  OBVIOUS
<1>t. TypeOK
  BY DEF IInv
<1>a. \A u, i : stored \subseteq stored' => (IsStored(u, i) => IsStored(u, i)')
  BY StoredStays
<1>1. CASE RunBenchmark
  <2>1. results' \in Seq(Results)
    BY <1>1, <1>t, OutcomeType, ConcatProperties DEF RunBenchmark, TypeOK
  <2>2. ~file /\ status = "running"
    BY <1>1, UploadAssumption DEF IInv, Phases, RunBenchmark, Measuring, TypeOK, UploadAssumption
  <2>3. bench' \in 0..NumBench
    BY <1>1, <1>t, UploadAssumption DEF RunBenchmark, Measuring, TypeOK, UploadAssumption
  <2>4. broken' \in BOOLEAN /\ ~file' /\ file' \in BOOLEAN /\ status' = "running"
    BY <1>1, <1>t, <2>2 DEF RunBenchmark, TypeOK
  <2>5. UNCHANGED unsent
    BY <1>1 DEF RunBenchmark
  <2> QED BY <2>1, <2>2, <2>3, <2>4, <2>5, MeasureStep
<1>2. CASE BenchmarkRaises
  <2>1. results' \in Seq(Results)
    BY <1>2, <1>t DEF BenchmarkRaises, TypeOK
  <2>2. ~file /\ status = "running"
    BY <1>2, UploadAssumption DEF IInv, Phases, BenchmarkRaises, Measuring, TypeOK, UploadAssumption
  <2>3. bench' \in 0..NumBench
    BY <1>2, <1>t, UploadAssumption DEF BenchmarkRaises, Measuring, TypeOK, UploadAssumption
  <2>4. broken' \in BOOLEAN /\ ~file' /\ file' \in BOOLEAN /\ status' = "running"
    BY <1>2, <1>t, <2>2 DEF BenchmarkRaises, TypeOK
  <2>5. UNCHANGED unsent
    BY <1>2 DEF BenchmarkRaises
  <2> QED BY <2>1, <2>2, <2>3, <2>4, <2>5, MeasureStep
<1>3. CASE Report \/ ReportFails \/ StoreFails
  <2>1. /\ bench' = bench /\ results' = results /\ broken' = broken
        /\ bench = NumBench /\ ~file /\ status = "running" /\ UNCHANGED unsent
    BY <1>3 DEF Report, ReportFails, StoreFails, measured
  <2>2. bench' \in 0..NumBench /\ results' \in Seq(Results) /\ broken' \in BOOLEAN
    BY <2>1, <1>t DEF TypeOK
  <2>3. CASE Report
    <3>1. file' = TRUE /\ ~broken /\ status' = status
      BY <2>3 DEF Report
    <3> QED BY <3>1, <2>1, <2>2, MeasureStep
  <2>4. CASE ReportFails \/ StoreFails
    <3>1. file' = file
      BY <2>4 DEF ReportFails, StoreFails, measured
    <3>2. file' \in BOOLEAN /\ ~file'
      BY <3>1, <2>1, <1>t DEF TypeOK
    <3>3. status' \in {"running", "benchmarkFailed", "died"}
      BY <2>4 DEF ReportFails, StoreFails
    <3> QED BY <3>2, <3>3, <2>1, <2>2, MeasureStep
  <2> QED BY <1>3, <2>3, <2>4
<1>4. CASE UnknownType
  <2>1. Saving /\ NextUpload(FALSE) /\ stored' = stored /\ answered' = answered
    BY <1>4 DEF UnknownType, AtResult
  <2>2. pos \in DOMAIN results /\ results[pos].type = "ResultError" /\ upload \in Uploads
    BY <1>4, <2>1, SavingFacts DEF UnknownType, AtResult
  <2>3. ~AllTypesKnown
    BY <2>2 DEF AllTypesKnown
  <2>4. \A i \in DOMAIN results : Reached(i) => i < pos
    BY <2>1, <2>2, SavingFacts DEF Reached
  <2>5. \A i \in DOMAIN results, u \in Uploads : u = upload /\ HasValue(u, i) =>
          (u \in Healthy /\ Reached(i) => IsStored(u, i)')
    BY <2>1, <2>4, <1>a DEF IInv, Behind
  <2> QED BY <2>1, <2>2, <2>3, <2>5, NextUploadStep
<1>5. CASE ManyValues
  <2>1. /\ file /\ status = "running" /\ status' = "died"
        /\ UNCHANGED measured /\ UNCHANGED unsent
    BY <1>5 DEF ManyValues, AtValue, AtResult, Saving
  <2> QED BY <2>1, StopStep DEF unsent
<1>6. CASE SkipResult
  <2>1. /\ AtResult /\ NextResult /\ UNCHANGED measured /\ errors' = errors
        /\ status' = status /\ stored' = stored /\ answered' = answered
        /\ Value(results[pos], upload) = "none"
    BY <1>6 DEF SkipResult, AtValue
  <2>2. error' = error /\ error \in BOOLEAN
    BY <1>6, <1>t DEF SkipResult, TypeOK
  <2>3. upload \in Uploads /\ pos \in Nat /\ ~HasValue(upload, pos)
    BY <2>1, SavingFacts DEF AtResult, HasValue
  <2> QED BY <2>1, <2>2, <2>3, NextResultStep
<1>7. CASE Answered
  <2>1. /\ AtResult /\ NextResult /\ UNCHANGED measured /\ errors' = errors
        /\ status' = status /\ stored' = stored \union {ThisTry}
        /\ answered' = answered \union {ThisTry}
    BY <1>7 DEF Answered, Sending, AtValue
  <2>2. error' = error /\ error \in BOOLEAN
    BY <1>7, <1>t DEF Answered, TypeOK
  <2>3. upload \in Uploads /\ pos \in Nat /\ try \in 0..Retries
    BY <2>1, <1>t, SavingFacts DEF AtResult, TypeOK
  <2>4. \A u, i : u = upload /\ i = pos => IsStored(u, i)'
    BY <2>1, <2>3 DEF IsStored, ThisTry
  <2> QED BY <2>1, <2>2, <2>3, <2>4, NextResultStep
<1>8. CASE Retry
  BY <1>8, RetryStep
<1>9. CASE GiveUp
  <2>1. /\ AtResult /\ NextResult /\ UNCHANGED measured /\ errors' = errors
        /\ status' = status /\ stored \subseteq stored' /\ stored' \subseteq stored \union {ThisTry}
        /\ answered' = answered /\ upload \notin Healthy
    BY <1>9 DEF GiveUp, Unanswered, Sending, AtValue
  <2>2. error' = TRUE
    BY <1>9 DEF GiveUp
  <2>3. upload \in Uploads /\ pos \in Nat
    BY <2>1, SavingFacts DEF AtResult
  <2> QED BY <2>1, <2>2, <2>3, NextResultStep
<1>10. CASE OtherIOError
  <2>1. /\ Saving /\ NextUpload(TRUE) /\ stored \subseteq stored'
        /\ stored' \subseteq stored \union {ThisTry} /\ answered' = answered
        /\ upload \notin Healthy
    BY <1>10 DEF OtherIOError, Unanswered, Sending, AtValue, AtResult
  <2>2. errors' = TRUE
    BY <2>1 DEF NextUpload
  <2>3. upload \in Uploads
    BY <2>1 DEF Saving
  <2> QED BY <2>1, <2>2, <2>3, NextUploadStep
<1>11. CASE SendDies
  <2>1. /\ Saving /\ status' = "died" /\ stored' \in {stored, stored \union {ThisTry}}
        /\ answered' = answered /\ UNCHANGED measured
        /\ UNCHANGED <<upload, pos, try, error, errors>>
    BY <1>11 DEF SendDies, Unanswered, Sending, AtValue, AtResult
  <2>2. file /\ status = "running"
    BY <2>1 DEF Saving
  <2> QED BY <2>1, <2>2, StopStep
<1>12. CASE EndSave
  <2>1. Saving /\ pos = Len(results) + 1 /\ NextUpload(error) /\ stored' = stored /\ answered' = answered
    BY <1>12 DEF EndSave
  <2>2. error \in BOOLEAN /\ upload \in Uploads
    BY <2>1, <1>t DEF TypeOK, Saving
  <2>3. error => errors'
    BY <2>1 DEF NextUpload
  <2>4. \A i \in DOMAIN results : i < pos
    BY <2>1, SavingFacts
  <2>5. \A i \in DOMAIN results, u \in Uploads : u = upload /\ HasValue(u, i) =>
          /\ IsStored(u, i)' \/ errors'
          /\ u \in Healthy => IsStored(u, i)'
    <3>1. \A i \in DOMAIN results, u \in Uploads : u = upload /\ HasValue(u, i) =>
            /\ IsStored(u, i) \/ error
            /\ u \in Healthy => IsStored(u, i)
      BY <2>4 DEF IInv, Behind
    <3>2. \A u, i : IsStored(u, i) => IsStored(u, i)'
      BY <2>1, <1>a
    <3> QED BY <3>1, <3>2, <2>3
  <2> QED BY <2>1, <2>2, <2>5, NextUploadStep
<1>13. CASE Finish
  <2>1. /\ file /\ status = "running" /\ upload \notin Uploads
        /\ UNCHANGED measured /\ UNCHANGED unsent
        /\ status' \in {"ok", "uploadFailed"}
        /\ (status' = "ok" => ~errors) /\ (status' = "uploadFailed" => errors)
    BY <1>13 DEF Finish
  <2> QED BY <2>1, StopStep DEF unsent
<1>14. CASE UNCHANGED vars
  <2>1. /\ bench' = bench /\ results' = results /\ broken' = broken /\ file' = file
        /\ upload' = upload /\ pos' = pos /\ try' = try /\ error' = error
        /\ errors' = errors /\ status' = status /\ stored' = stored /\ answered' = answered
    BY <1>14 DEF vars, measured
  <2> QED BY <2>1 DEF IInv, TypeOK, Phases, Order, Past, AtPlace, Behind, IsStored, HasValue,
        Value, AllTypesKnown, Reached, SentAgainOnlyIfUnanswered
<1> QED
  BY <1>1, <1>2, <1>3, <1>4, <1>5, <1>6, <1>7, <1>8, <1>9, <1>10, <1>11, <1>12, <1>13, <1>14 DEF Next

LEMMA IInvAlways == Spec => []IInv
BY InitInv, InvStep, PTL DEF Spec

(* The types, for any number of benchmarks, urls and retries. *)
THEOREM UploadTypeCorrect == Spec => []TypeOK
<1>1. IInv => TypeOK
  BY DEF IInv
<1> QED BY <1>1, IInvAlways, PTL

(* An error is due to a result that has gone unanswered to the last: sent  *)
(* to a server that may fail, and behind the place of send, so that no     *)
(* later try of it can be answered.                                        *)
Blame == error \/ errors =>
  \E u \in Uploads \ Healthy, i \in DOMAIN results :
    Past(<<u, i, 0>>) /\ HasValue(u, i) /\ ~IsAnswered(u, i)

\* a step that makes no error
LEMMA BlameStays ==
  ASSUME IInv, Blame, Saving, error' \/ errors' => error \/ errors, results' = results,
         answered' \subseteq answered \union {ThisTry},
         \/ upload' = upload /\ pos' \in {pos, pos + 1}
         \/ upload' = upload + 1
  PROVE  Blame'
<1> SUFFICES ASSUME error \/ errors
             PROVE  \E u \in Uploads \ Healthy, i \in DOMAIN results :
                      Past(<<u, i, 0>>)' /\ HasValue(u, i)' /\ ~IsAnswered(u, i)'
  BY DEF Blame
<1>1. PICK u \in Uploads \ Healthy, i \in DOMAIN results :
        Past(<<u, i, 0>>) /\ HasValue(u, i) /\ ~IsAnswered(u, i)
  BY DEF Blame
<1>2. upload \in Nat /\ pos \in Nat /\ u \in Nat /\ i \in Nat
  BY SavingFacts
<1>3. u < upload \/ (u = upload /\ i < pos)
  BY <1>1 DEF Past
<1>4. Past(<<u, i, 0>>)'
  <2>1. u < upload' \/ (u = upload' /\ i < pos')
    BY <1>2, <1>3
  <2> QED BY <2>1 DEF Past
<1>5. HasValue(u, i)'
  BY <1>1 DEF HasValue, Value
<1>6. ~IsAnswered(u, i)'
  <2>1. u # upload \/ i # pos
    BY <1>2, <1>3
  <2>2. \A k : <<u, i, k>> # ThisTry
    BY <2>1 DEF ThisTry
  <2> QED BY <1>1, <2>2 DEF IsAnswered
<1> QED BY <1>4, <1>5, <1>6

\* a step by which send leaves a result without an answer
LEMMA NewBlame ==
  ASSUME IInv, Unanswered, results' = results,
         \/ upload' = upload /\ pos' = pos + 1
         \/ upload' = upload + 1
  PROVE  Blame'
<1>1. /\ AtResult /\ Saving /\ upload \notin Healthy
      /\ HasValue(upload, pos) /\ answered' = answered
  BY DEF Unanswered, Sending, AtValue, AtResult, HasValue
<1>2. upload \in Uploads /\ upload \in Nat /\ pos \in DOMAIN results /\ pos \in Nat
  BY <1>1, SavingFacts DEF AtResult
<1>3. ~IsAnswered(upload, pos)
  <2>1. \A k : ~Past(<<upload, pos, k>>)
    BY <1>2 DEF Past
  <2> QED BY <2>1 DEF IsAnswered, IInv, Order
<1>4. PICK u \in Uploads \ Healthy, i \in DOMAIN results : u = upload /\ i = pos
  BY <1>1, <1>2
<1>5. Past(<<u, i, 0>>)'
  <2>1. u < upload' \/ (u = upload' /\ i < pos')
    BY <1>2, <1>4
  <2> QED BY <2>1 DEF Past
<1>6. HasValue(u, i)'
  BY <1>1, <1>4 DEF HasValue, Value
<1>7. ~IsAnswered(u, i)'
  BY <1>1, <1>3, <1>4 DEF IsAnswered
<1> QED BY <1>5, <1>6, <1>7 DEF Blame

LEMMA BlameStep == IInv /\ Blame /\ [Next]_vars => Blame'
<1> SUFFICES ASSUME IInv, Blame, [Next]_vars PROVE Blame'
  OBVIOUS
<1>1. CASE RunBenchmark \/ BenchmarkRaises \/ Report \/ ReportFails \/ StoreFails
  <2>1. ~file /\ UNCHANGED unsent
    BY <1>1, UploadAssumption
       DEF IInv, Phases, TypeOK, UploadAssumption, RunBenchmark, BenchmarkRaises, Measuring,
           Report, ReportFails, StoreFails
  <2>2. ~error' /\ ~errors'
    BY <2>1 DEF unsent, IInv, Phases
  <2> QED BY <2>2 DEF Blame
<1>2. CASE UnknownType \/ EndSave \/ SkipResult \/ Answered \/ Retry
  <2>1. Saving /\ results' = results /\ answered' \subseteq answered \union {ThisTry}
    BY <1>2 DEF UnknownType, EndSave, SkipResult, Answered, Retry, Unanswered, Sending, AtValue,
                AtResult, NextUpload, measured
  <2>2. \/ upload' = upload /\ pos' \in {pos, pos + 1}
        \/ upload' = upload + 1
    BY <1>2 DEF UnknownType, EndSave, SkipResult, Answered, Retry, NextUpload, NextResult
  <2>3. error' \/ errors' => error \/ errors
    BY <1>2 DEF UnknownType, EndSave, SkipResult, Answered, Retry, NextUpload
  <2> QED BY <2>1, <2>2, <2>3, BlameStays
<1>3. CASE GiveUp \/ OtherIOError
  <2>1. Unanswered /\ results' = results
    BY <1>3 DEF GiveUp, OtherIOError, NextUpload, measured
  <2>2. \/ upload' = upload /\ pos' = pos + 1
        \/ upload' = upload + 1
    BY <1>3 DEF GiveUp, OtherIOError, NextResult, NextUpload
  <2> QED BY <2>1, <2>2, NewBlame
<1>4. CASE ManyValues \/ SendDies \/ Finish \/ UNCHANGED vars
  <2>1. /\ upload' = upload /\ pos' = pos /\ error' = error /\ errors' = errors
        /\ results' = results /\ answered' = answered
    BY <1>4 DEF ManyValues, SendDies, Finish, Unanswered, measured, unsent, vars
  <2> QED BY <2>1 DEF Blame, Past, HasValue, Value, IsAnswered
<1> QED BY <1>1, <1>2, <1>3, <1>4 DEF Next

(* A run that ends with status 0 has stored every value at every url, if   *)
(* the type of every result is one that save knows; and one that reports   *)
(* a failed upload has sent some value without ever having an answer.      *)
THEOREM UploadExitStatusTells == Spec => []ExitStatusTells
<1>1. ASSUME IInv, status = "ok", AllTypesKnown,
             NEW u \in Uploads, NEW i \in DOMAIN results, HasValue(u, i)
      PROVE  IsStored(u, i)
  <2>1. u < upload
    BY <1>1, UploadAssumption DEF IInv, TypeOK, Phases, Uploads, UploadAssumption
  <2>2. ~errors
    BY <1>1 DEF IInv, Phases
  <2> QED BY <1>1, <2>1, <2>2 DEF IInv, Behind
<1>2. ASSUME IInv, Blame, status = "uploadFailed"
      PROVE  \E u \in Uploads \ Healthy, i \in DOMAIN results : HasValue(u, i) /\ ~IsAnswered(u, i)
  BY <1>2 DEF IInv, Phases, Blame
<1>3. IInv /\ Blame => ExitStatusTells
  BY <1>1, <1>2 DEF ExitStatusTells
<1>4. Init => Blame
  BY DEF Init, Blame
<1> QED BY <1>3, <1>4, InitInv, InvStep, BlameStep, PTL DEF Spec

(* A url whose server always answers gets every result that save reaches,  *)
(* whatever fails at the other urls.                                       *)
THEOREM UploadHealthyGetAll == Spec => []HealthyGetAll
<1>1. IInv => HealthyGetAll
  <2> SUFFICES ASSUME IInv, status \in {"ok", "uploadFailed"},
                      NEW u \in Uploads \intersect Healthy, NEW i \in DOMAIN results,
                      HasValue(u, i), Reached(i)
               PROVE  IsStored(u, i)
    BY DEF HealthyGetAll
  <2>1. u < upload
    BY UploadAssumption DEF IInv, TypeOK, Phases, Uploads, UploadAssumption
  <2> QED BY <2>1 DEF IInv, Behind
<1> QED BY <1>1, IInvAlways, PTL

(* No result is sent again once the server's answer has arrived. *)
THEOREM UploadSentAgainOnlyIfUnanswered == Spec => []SentAgainOnlyIfUnanswered
<1>1. IInv => SentAgainOnlyIfUnanswered
  BY DEF IInv
<1> QED BY <1>1, IInvAlways, PTL

(* One benchmark that raises keeps every result from the servers. *)
THEOREM UploadAllOrNothing == Spec => []AllOrNothing
<1>1. IInv => AllOrNothing
  BY DEF IInv, Phases, AllOrNothing
<1> QED BY <1>1, IInvAlways, PTL

-----------------------------------------------------------------------------
(* Which benchmarks run.  The recursion of expansion has a solution        *)
(* whatever the groups are: a name stands for what it must stand for in    *)
(* every table that is closed under the recursion.                         *)
IsGroup(n) == n \in DOMAIN AllGroups /\ AllGroups[n] # {}

ClosedTable(T) == /\ \A n \in Names : ~IsGroup(n) => <<n, n>> \in T
                  /\ \A n \in Names, x \in Names : IsGroup(n) =>
                       \A m \in AllGroups[n] : <<m, x>> \in T => <<n, x>> \in T

Leaves(n) == {x \in Names :
                \A T \in SUBSET (Names \X Names) : ClosedTable(T) => <<n, x>> \in T}

\* what all tables hold, but for one pair
Without(n, x) == {p \in Names \X Names : p[2] \in Leaves(p[1]) /\ p # <<n, x>>}

LEMMA MembersAreNames == \A n \in Names : IsGroup(n) => AllGroups[n] \subseteq Names
BY DEF Names, IsGroup

\* a pair that the others do not force is in no leaves
LEMMA NotForced ==
  ASSUME NEW n \in Names, NEW x \in Names,
         ~IsGroup(n) => x # n,
         IsGroup(n) => \A m \in AllGroups[n] : x \notin Leaves(m)
  PROVE  x \notin Leaves(n)
<1> DEFINE T == Without(n, x)
<1>1. T \in SUBSET (Names \X Names)
  BY DEF Without
<1>2. <<n, x>> \notin T
  BY DEF Without
<1>3. ClosedTable(T)
  <2>1. ASSUME NEW k \in Names, ~IsGroup(k) PROVE <<k, k>> \in T
    <3>1. k \in Leaves(k)
      BY <2>1 DEF Leaves, ClosedTable
    <3>2. <<k, k>> # <<n, x>>
      BY <2>1
    <3> QED BY <3>1, <3>2 DEF Without
  <2>2. ASSUME NEW k \in Names, NEW y \in Names, IsGroup(k),
               NEW m \in AllGroups[k], <<m, y>> \in T
        PROVE  <<k, y>> \in T
    <3>1. y \in Leaves(m)
      BY <2>2 DEF Without
    <3>2. y \in Leaves(k)
      BY <3>1, <2>2 DEF Leaves, ClosedTable
    <3>3. <<k, y>> # <<n, x>>
      BY <3>1, <2>2
    <3> QED BY <3>2, <3>3 DEF Without
  <2> QED BY <2>1, <2>2 DEF ClosedTable
<1> HIDE DEF T
<1> QED BY <1>1, <1>2, <1>3 DEF Leaves

LEMMA LeavesSolve ==
  ASSUME NEW n \in Names
  PROVE  Leaves(n) = IF IsGroup(n) THEN UNION {Leaves(m) : m \in AllGroups[n]} ELSE {n}
<1>1. CASE ~IsGroup(n)
  <2>1. n \in Leaves(n)
    BY <1>1 DEF Leaves, ClosedTable
  <2>2. \A x \in Names : x # n => x \notin Leaves(n)
    BY <1>1, NotForced
  <2>3. Leaves(n) \subseteq Names
    BY DEF Leaves
  <2> QED BY <1>1, <2>1, <2>2, <2>3
<1>2. CASE IsGroup(n)
  <2>1. \A m \in AllGroups[n] : Leaves(m) \subseteq Leaves(n)
    BY <1>2 DEF Leaves, ClosedTable
  <2>2. \A x \in Names : (\A m \in AllGroups[n] : x \notin Leaves(m)) => x \notin Leaves(n)
    BY <1>2, NotForced
  <2>3. Leaves(n) \subseteq Names
    BY DEF Leaves
  <2> QED BY <1>2, <2>1, <2>2, <2>3
<1> QED BY <1>1, <1>2

ExpansionSolves(f) ==
  f = [n \in Names |-> IF n \in DOMAIN AllGroups /\ AllGroups[n] # {}
                         THEN UNION {f[m] : m \in AllGroups[n]}
                         ELSE {n}]

LEMMA ExpansionExists == \E f : ExpansionSolves(f)
<1> DEFINE f == [n \in Names |-> Leaves(n)]
<1>1. ASSUME NEW n \in Names
      PROVE  f[n] = IF n \in DOMAIN AllGroups /\ AllGroups[n] # {}
                      THEN UNION {f[m] : m \in AllGroups[n]} ELSE {n}
  <2>1. CASE IsGroup(n)
    <3>1. \A m \in AllGroups[n] : f[m] = Leaves(m)
      BY <2>1, MembersAreNames
    <3>2. {f[m] : m \in AllGroups[n]} = {Leaves(m) : m \in AllGroups[n]}
      BY <3>1
    <3> QED BY <2>1, <3>2, LeavesSolve DEF IsGroup
  <2>2. CASE ~IsGroup(n)
    BY <2>2, LeavesSolve DEF IsGroup
  <2> QED BY <2>1, <2>2
<1>2. ExpansionSolves(f)
  <2>1. f = [n \in Names |-> f[n]]
    OBVIOUS
  <2> HIDE DEF f
  <2> QED BY <1>1, <2>1 DEF ExpansionSolves
<1> QED BY <1>2

(* A benchmark stands for itself. *)
LEMMA BenchmarkExpansion == \A n \in Benchmarks : expansion[n] = {n}
<1>1. ExpansionSolves(CHOOSE f : ExpansionSolves(f))
  BY ExpansionExists, Zenon
<1>2. ExpansionSolves(expansion)
  BY <1>1, Zenon DEF expansion, ExpansionSolves
<1>3. \A n \in Benchmarks : n \in Names /\ n \notin DOMAIN AllGroups
  BY SelectionAssumption DEF SelectionAssumption, Names, AllGroups
<1>4. \A n \in Names : expansion[n] = IF n \in DOMAIN AllGroups /\ AllGroups[n] # {}
                                        THEN UNION {expansion[m] : m \in AllGroups[n]}
                                        ELSE {n}
  <2> HIDE DEF expansion
  <2> QED BY <1>2 DEF ExpansionSolves
<1> QED BY <1>3, <1>4, Zenon

-----------------------------------------------------------------------------
SelectionInv == list \in Seq(Args) /\ RunsAreMeant

\* of a list, what RunsAreMeant says of an outcome of perf
Meant(named, taken, o) ==
  /\ named # {} /\ taken = {} => o.error = "none"
  /\ o.error = "none" => /\ (named \intersect Benchmarks) \ taken \subseteq o.run
                         /\ o.run \subseteq Benchmarks \ taken

LEMMA OutcomeFields ==
  /\ \A S : Runs(S).error = "none" /\ Runs(S).run = S
  /\ \A e : Raises(e).error = e /\ Raises(e).run = {}
BY DEF Runs, Raises

(* A benchmark that is named is among those to run. *)
LEMMA ExpandedNames ==
  ASSUME NEW named \in SUBSET Names, named # {}
  PROVE  /\ named \intersect Benchmarks \subseteq Expanded(named)
         /\ Expanded(named) \subseteq Benchmarks
         /\ named \subseteq Benchmarks => Expanded(named) = named
<1>1. \A b : b \in Expanded(named) <=> b \in Benchmarks /\ \E n \in named : b \in expansion[n]
  BY Zenon DEF Expanded
<1>2. \A n \in named : n \in Benchmarks => expansion[n] = {n}
  BY BenchmarkExpansion
<1>3. \A n \in named : n \in Benchmarks => n \in Expanded(named)
  BY <1>1, <1>2
<1>4. ASSUME named \subseteq Benchmarks, NEW b \in Expanded(named) PROVE b \in named
  BY <1>1, <1>2, <1>4
<1> QED BY <1>1, <1>3, <1>4

(* What perf does with a list is what the list means. *)
LEMMA PerfMeant ==
  ASSUME NEW named \in SUBSET Names, NEW taken \in SUBSET Names, NEW o \in Perf(named, taken)
  PROVE  Meant(named, taken, o)
<1> DEFINE bad == (taken \intersect Benchmarks) \ Expanded(named)
           groups == taken \intersect DOMAIN AllGroups
<1>1. PICK p \in Parse(named, taken) : o = Looked(p)
  BY DEF Perf
<1>2. CASE bad = {} /\ groups = {}
  <2>1. p = Runs(Expanded(named) \ (taken \intersect Benchmarks))
    BY <1>2 DEF Parse
  <2>2. p.error = "none" /\ p.run = Expanded(named) \ (taken \intersect Benchmarks)
    BY <2>1, OutcomeFields
  <2>3. CASE p.run \subseteq Benchmarks
    <3>1. o = p
      BY <1>1, <2>3 DEF Looked
    <3>2. (named \intersect Benchmarks) \ taken \subseteq p.run
      BY <2>2, ExpandedNames
    <3> QED BY <2>2, <2>3, <3>1, <3>2 DEF Meant
  <2>4. CASE ~(p.run \subseteq Benchmarks)
    <3>1. o.error = "KeyError"
      BY <1>1, <2>4, OutcomeFields DEF Looked
    <3>2. named = {}
      BY <2>2, <2>4, ExpandedNames
    <3> QED BY <3>1, <3>2 DEF Meant
  <2> QED BY <2>3, <2>4
<1>3. CASE ~(bad = {} /\ groups = {})
  <2>1. p \in {Raises("KeyError") : b \in bad} \union {Raises("ValueError") : g \in groups}
    BY <1>3 DEF Parse
  <2>2. p = Raises("KeyError") \/ p = Raises("ValueError")
    BY <2>1
  <2>3. p.error # "none" /\ p.run = {}
    BY <2>2, OutcomeFields
  <2>4. o = p
    BY <1>1, <2>3 DEF Looked
  <2>5. taken # {}
    BY <1>3
  <2> QED BY <2>3, <2>4, <2>5 DEF Meant
<1> QED BY <1>2, <1>3

(* Benchmarks named one by one, and none taken back, are what runs. *)
LEMMA PerfRunsBenchmarks ==
  ASSUME NEW named \in SUBSET Benchmarks, named # {}, NEW o \in Perf(named, {})
  PROVE  o = Runs(named)
<1>0. named \in SUBSET Names
  BY DEF Names
<1>1. Expanded(named) = named
  BY <1>0, ExpandedNames
<1>2. PICK p \in Parse(named, {}) : o = Looked(p)
  BY DEF Perf
<1>3. p = Runs(named)
  BY <1>1, <1>2 DEF Parse
<1>4. p.run \subseteq Benchmarks
  BY <1>3, OutcomeFields
<1> QED BY <1>2, <1>3, <1>4 DEF Looked

LEMMA ListNames ==
  ASSUME list \in Seq(Args)
  PROVE  /\ Positives(list) \in SUBSET Names
         /\ Negatives(list) \in SUBSET Names
<1>1. \A i \in DOMAIN list : list[i] \in Args
  OBVIOUS
<1>2. \A i \in DOMAIN list : list[i].name \in Names
  BY <1>1 DEF Args
<1> QED BY <1>2 DEF Positives, Negatives

(* A list that runner lets pass names benchmarks only. *)
LEMMA CheckedNames ==
  ASSUME list \in Seq(Args), ~Wrong(list)
  PROVE  /\ Positives(list) \in SUBSET Benchmarks
         /\ Negatives(list) = {}
         /\ list # <<>> => Positives(list) # {}
<1>1. \A i \in DOMAIN list : ~list[i].negative /\ list[i].name \in Full
  BY DEF Wrong
<1>2. Full \subseteq Benchmarks
  BY SelectionAssumption DEF SelectionAssumption
<1>3. ASSUME list # <<>> PROVE 1 \in DOMAIN list
  BY <1>3
<1>4. ASSUME list # <<>> PROVE Positives(list) # {}
  <2>1. list[1].name \in Positives(list)
    BY <1>1, <1>3, <1>4 DEF Positives
  <2> QED BY <2>1
<1> QED BY <1>1, <1>2, <1>4 DEF Positives, Negatives

LEMMA SelectionStart == SelectionInit => SelectionInv
<1>1. \A S : <<>> \in Seq(S)
  OBVIOUS
<1> QED BY <1>1 DEF SelectionInit, SelectionInv, RunsAreMeant

LEMMA SelectionStep == SelectionInv /\ [SelectionNext]_selectionVars => SelectionInv'
<1> SUFFICES ASSUME SelectionInv, [SelectionNext]_selectionVars PROVE SelectionInv'
  OBVIOUS
<1>0. list \in Seq(Args)
  BY DEF SelectionInv
<1>1. CASE AddArg
  <2>1. PICK a \in Args : list' = Append(list, a)
    BY <1>1 DEF AddArg
  <2>2. list' \in Seq(Args)
    BY <1>0, <2>1
  <2>3. outcome' = NotParsed
    BY <1>1 DEF AddArg
  <2> QED BY <2>2, <2>3 DEF SelectionInv, RunsAreMeant, NotParsed, Raises
<1>2. CASE PerfParses
  <2>1. list' = list /\ caller' = caller /\ caller = "perf"
    BY <1>2 DEF PerfParses
  <2>2. Meant(Positives(list), Negatives(list), outcome')
    BY <1>0, <1>2, ListNames, PerfMeant DEF PerfParses
  <2>3. Meant(Positives(list), Negatives(list), outcome)'
    BY <2>1, <2>2 DEF Meant, Positives, Negatives
  <2> QED BY <1>0, <2>1, <2>3 DEF SelectionInv, RunsAreMeant, Meant
<1>3. CASE RunnerParses /\ Wrong(list)
  <2>1. /\ list' = list /\ caller' = caller /\ caller # "perf"
        /\ caller = "option" => list # <<>>
        /\ outcome' = Raises("WrongBenchmark")
    BY <1>3 DEF RunnerParses
  <2>2. outcome'.error # "none"
    BY <2>1, OutcomeFields
  <2> QED BY <1>0, <2>1, <2>2 DEF SelectionInv, RunsAreMeant, Raises
<1>4. CASE RunnerParses /\ ~Wrong(list)
  <2>1. /\ list' = list /\ caller' = caller /\ caller # "perf"
        /\ caller = "option" => list # <<>>
        /\ outcome' \in Perf(Positives(list), Negatives(list))
    BY <1>4 DEF RunnerParses
  <2>2. Meant(Positives(list), Negatives(list), outcome')
    BY <1>0, <2>1, ListNames, PerfMeant
  <2>3. list # <<>> => outcome' = Runs(Positives(list))
    BY <1>0, <1>4, <2>1, CheckedNames, PerfRunsBenchmarks
  <2>4. Positives(list') = Positives(list) /\ Negatives(list') = Negatives(list)
    BY <2>1
  <2> QED BY <1>0, <2>1, <2>2, <2>3, <2>4 DEF SelectionInv, RunsAreMeant, Meant
<1>5. CASE RunnerDefault
  <2>1. /\ list' = list /\ caller' = caller /\ caller = "option" /\ list = <<>>
        /\ outcome' \in Perf(DefaultList, {})
    BY <1>5 DEF RunnerDefault
  <2>2. DefaultList \in SUBSET Benchmarks /\ DefaultList # {} /\ DefaultList \subseteq Full
    BY SelectionAssumption DEF SelectionAssumption
  <2>3. outcome' = Runs(DefaultList)
    BY <2>1, <2>2, PerfRunsBenchmarks
  <2>4. Positives(list') = {} /\ Negatives(list') = {}
    BY <2>1 DEF Positives, Negatives
  <2>5. outcome'.error = "none" /\ outcome'.run = DefaultList
    BY <2>3, OutcomeFields
  <2> QED BY <1>0, <2>1, <2>2, <2>3, <2>4, <2>5 DEF SelectionInv, RunsAreMeant
<1>6. CASE UNCHANGED selectionVars
  BY <1>6 DEF selectionVars, SelectionInv, RunsAreMeant, Positives, Negatives
<1> QED BY <1>1, <1>2, <1>3, <1>4, <1>5, <1>6 DEF SelectionNext

(* Runner's names mean to perf what they say, and what perf runs was named *)
(* and has a function: for all tables and lists of any length.             *)
THEOREM SelectionRunsAreMeant == SelectionSpec => []RunsAreMeant
<1>1. SelectionInv => RunsAreMeant
  BY DEF SelectionInv
<1> QED BY <1>1, SelectionStart, SelectionStep, PTL DEF SelectionSpec
=============================================================================
