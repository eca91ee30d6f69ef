------------------------------- MODULE BenchLib -----------------------------
(***************************************************************************)
(* own/twisted/benchlib.py: benchmarks on one Twisted reactor.  A job is a *)
(* Client that keeps a number of requests in flight until its timer fires; *)
(* its Deferred then starts the next job, first the warm-up jobs and then  *)
(* the iterations that are reported.  The requests of a job that is over   *)
(* are still answered, or fail, during the jobs after it.  driver() runs   *)
(* one benchmark, multidriver() one after another.  The client of tcp.py,  *)
(* which is not a benchlib.Client, is one with a single request, its       *)
(* connection, that is answered with each piece of data that comes back.   *)
(***************************************************************************)
EXTENDS Integers, FiniteSets

CONSTANTS Iterations, WarmUp,
          Concurrency,    \* requests in flight
          MinCount,       \* fewer answers are no result (10); bound: no more are counted
          NumPrograms     \* the benchmarks of multidriver()

ASSUME BenchLibAssumption == /\ Iterations \in Nat \ {0}
                             /\ WarmUp \in Nat
                             /\ Concurrency \in Nat \ {0}
                             /\ MinCount \in Nat
                             /\ NumPrograms \in Nat \ {0}

(* What main() does besides running a client: nothing in accepts,          *)
(* iteration and threads; in web and names it closes its port before the   *)
(* next job; in pb and tcp the job begins when a connection is made.       *)
Kinds == {"plain", "closes", "pb", "tcp"}
Connecting == {"pb", "tcp"}

JobsEach == Iterations + WarmUp
Clients == 1..(NumPrograms * JobsEach)    \* in the order in which they are made

VARIABLES driving,    \* "no", "driver" or "multidriver"
          kind,       \* of the benchmark that runs
          connecting, \* whether the latest job waits for its connection
          client,     \* client[c]: the state of a Client
          latest,     \* the last one made
          due,        \* the outcome of a job whose port is being closed, or Nothing
          fired,      \* the Deferred of setup_driver: "open", "ok" or "failed"
          reports,    \* reports[p]: the reports printed for benchmark p
          failure,
          reactor     \* "new", "running" or "stopped"

twistedVars ==
  <<driving, kind, connecting, client, latest, due, fired, reports, failure, reactor>>

Unborn == [requestCount |-> 0, open |-> FALSE, flying |-> 0, timer |-> FALSE]
Nothing == [ok |-> FALSE, count |-> -1]
Outcome(ok, count) == [ok |-> ok, count |-> count]

BenchLibTypeOK ==
  /\ driving \in {"no", "driver", "multidriver"}
  /\ kind \in Kinds
  /\ connecting \in BOOLEAN
  /\ client \in [Clients -> [requestCount : 0..MinCount, open : BOOLEAN,
                             flying : 0..Concurrency, timer : BOOLEAN]]
  /\ latest \in {0} \union Clients
  /\ due \in [ok : BOOLEAN, count : -1..MinCount]
  /\ fired \in {"open", "ok", "failed"}
  /\ reports \in [1..NumPrograms -> 0..JobsEach]
  /\ failure \in BOOLEAN
  /\ reactor \in {"new", "running", "stopped"}

BenchLibInit == /\ driving = "no"
                /\ kind = "plain"
                /\ connecting = FALSE
                /\ client = [c \in Clients |-> Unborn]
                /\ latest = 0
                /\ due = Nothing
                /\ fired = "open"
                /\ reports = [p \in 1..NumPrograms |-> 0]
                /\ failure = FALSE
                /\ reactor = "new"

-----------------------------------------------------------------------------
(* Client.run: the timer is set and the first requests are sent. *)
Running(k) == [requestCount |-> 0, open |-> TRUE, timer |-> TRUE,
               flying |-> IF k = "tcp" THEN 1 ELSE Concurrency]

(* main() of the next job, after what has become of the clients, cs: it    *)
(* runs a client at once or asks for a connection.                         *)
NewJob(cs) ==
  /\ latest' = latest + 1
  /\ kind' \in IF latest % JobsEach = 0 THEN Kinds ELSE {kind}
  /\ connecting' = (kind' \in Connecting)
  /\ client' = IF connecting' THEN cs ELSE [cs EXCEPT ![latest + 1] = Running(kind')]

ProgramOf(c) == ((c - 1) \div JobsEach) + 1
JobOf(c) == ((c - 1) % JobsEach) + 1   \* counter = WarmUp + 1 - JobOf(c)

(* Defect: the last warm-up job is reported too. *)
IsReportedEarly(c) == JobOf(c) >= WarmUp

(* counter <= 0 *)
IsReported(c) == JobOf(c) > WarmUp

TooFew(o) == o.ok /\ IsReported(latest) /\ o.count < MinCount

(* A failed job, or one with too few answers, is the failure of the whole. *)
(* driver() then stops the reactor; multidriver() has no errback.          *)
JobFails(cs, o) == /\ ~o.ok \/ TooFew(o)
                   /\ fired' = "failed"
                   /\ failure' = (failure \/ TooFew(o))
                   /\ reactor' = IF driving = "driver" THEN "stopped" ELSE reactor
                   /\ client' = cs
                   /\ UNCHANGED <<latest, kind, reports>>
                   /\ connecting' = FALSE

(* benchmark_report and work: the next job, or the next benchmark, or the  *)
(* end of the reactor.                                                     *)
JobEnds(cs, o) ==
  LET p == ProgramOf(latest)
      more == JobOf(latest) < JobsEach \/ (driving = "multidriver" /\ p < NumPrograms)
  IN  /\ o.ok /\ ~TooFew(o)
      /\ reports' = IF IsReported(latest) THEN [reports EXCEPT ![p] = @ + 1] ELSE reports
      /\ IF more THEN NewJob(cs) /\ UNCHANGED <<fired, reactor>>
                 ELSE /\ client' = cs
                      /\ fired' = "ok"
                      /\ reactor' = "stopped"
                      /\ UNCHANGED <<latest, kind, connecting>>
      /\ UNCHANGED failure

(* What the Deferred of a job calls. *)
Proceed(cs, o) == JobFails(cs, o) \/ JobEnds(cs, o)

(* _stop of client c, when the clients are cs: only the first call counts. *)
StopClient(cs, c, o) ==
  LET closed == [cs EXCEPT ![c].open = FALSE]
      others == <<kind, connecting, latest, fired, reports, failure, reactor>>
  IN  CASE ~cs[c].open -> client' = cs /\ UNCHANGED <<others, due>>
        [] cs[c].open /\ kind = "closes" -> client' = closed /\ due' = o /\ UNCHANGED others
        [] OTHER -> Proceed(closed, o) /\ UNCHANGED due

-----------------------------------------------------------------------------
(* setup_driver starts the first job before the reactor runs. *)
SetupDriver == /\ driving = "no"
               /\ driving' \in {"driver", "multidriver"}
               /\ NewJob(client)
               /\ reactor' = "running"
               /\ UNCHANGED <<due, fired, reports, failure>>

(* Defect: each answer is followed by another request. *)
ContinueAlways(c) ==
  /\ reactor = "running"
  /\ client[c].flying > 0
  /\ client' = [client EXCEPT ![c].requestCount = IF @ < MinCount THEN @ + 1 ELSE @]
  /\ UNCHANGED <<driving, kind, connecting, latest, due, fired, reports, failure, reactor>>

(* _continue: an answer, followed by a request while the job is on. *)
Continue(c) ==
  /\ reactor = "running"
  /\ client[c].flying > 0
  /\ client' = [client EXCEPT ![c].requestCount = IF @ < MinCount THEN @ + 1 ELSE @,
                              ![c].flying = IF client[c].open THEN @ ELSE @ - 1]
  /\ UNCHANGED <<driving, kind, connecting, latest, due, fired, reports, failure, reactor>>

(* A request fails: d.addErrback(self._stop).  When tcp's connection is    *)
(* lost, nobody tells the client: its connectionLost is never called.      *)
RequestFails(c) ==
  /\ reactor = "running"
  /\ client[c].flying > 0
  /\ LET less == [client EXCEPT ![c].flying = @ - 1]
     IN  IF kind = "tcp" /\ c = latest
           THEN /\ client' = less
                /\ UNCHANGED <<kind, connecting, latest, due, fired, reports, failure, reactor>>
           ELSE StopClient(less, c, Outcome(FALSE, 0))
  /\ UNCHANGED driving

(* callLater(duration, self._stop, None) *)
TimeIsUp(c) == /\ reactor = "running"
               /\ client[c].timer
               /\ StopClient([client EXCEPT ![c].timer = FALSE], c,
                             Outcome(TRUE, client[c].requestCount))
               /\ UNCHANGED driving

(* The port is closed, and the outcome passed on. *)
PortCloses == /\ reactor = "running"
              /\ due # Nothing
              /\ Proceed(client, due)
              /\ due' = Nothing
              /\ UNCHANGED driving

(* connected(reference) of pb, _connected(client) of tcp *)
Connected == /\ reactor = "running"
             /\ connecting
             /\ connecting' = FALSE
             /\ client' = [client EXCEPT ![latest] = Running(kind)]
             /\ UNCHANGED <<driving, kind, latest, due, fired, reports, failure, reactor>>

(* The connection, or pb's root object, is refused. *)
ConnectFails == /\ reactor = "running"
                /\ connecting
                /\ Proceed(client, Outcome(FALSE, 0))
                /\ UNCHANGED <<driving, due>>

(* What comes about without an answer to a request. *)
Goes == SetupDriver \/ PortCloses \/ Connected \/ ConnectFails \/ \E c \in Clients : TimeIsUp(c)

BenchLibNext == Goes \/ \E c \in Clients : Continue(c) \/ RequestFails(c)

BenchLibSpec == BenchLibInit /\ [][BenchLibNext]_twistedVars /\ WF_twistedVars(Goes)

-----------------------------------------------------------------------------
(* Every benchmark that has come to its end has printed one report for     *)
(* each iteration and none for a warm-up job; the exit status is a failure *)
(* only after a job that failed.                                           *)
ReportsAreIterations ==
  /\ \A p \in 1..NumPrograms :
       latest # 0 /\ (p < ProgramOf(latest) \/ (p = ProgramOf(latest) /\ fired = "ok")) =>
         reports[p] = Iterations
  /\ failure => fired = "failed"

(* One job is on at a time, and when it is over nothing more is asked for  *)
(* it: late answers and errors of its requests start no request, do not    *)
(* open it again and end no other job.                                     *)
StragglersOnlyDrain ==
  [][/\ \A c, d \in Clients : client'[c].open /\ client'[d].open => c = d
     /\ \A c \in Clients : c <= latest /\ ~client[c].open /\ ~(connecting /\ c = latest) =>
          /\ ~client'[c].open
          /\ client'[c] # client[c] =>
               /\ \/ client'[c].flying < client[c].flying
                  \/ client[c].timer /\ ~client'[c].timer
               /\ latest' = latest /\ fired' = fired]_twistedVars
=============================================================================
