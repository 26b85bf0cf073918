------------------------------ MODULE JobQueue ------------------------------
(***************************************************************************)
(* The job queue: rows written by enqueueJob() in their creator's          *)
(* transaction, and the pollers that claim them in batches and run their   *)
(* handlers (queue/enqueue.js, queue/poller.js, utils/backoff.js).         *)
(*                                                                         *)
(* Every statement of a poller commits on its own.  What a poller knows    *)
(* of a job it claimed is a dispatch: the row as the claim returned it, and *)
(* how far its handler got.  Ticks of one interval overlap, so a process   *)
(* may have any number of dispatches.  An answer may be lost on its way    *)
(* back, the statement having taken effect by then or never; a process may *)
(* die between any two steps, and its interval starts again with it.       *)
(*                                                                         *)
(* run_at is kept as "past" or "future".  ORDER BY run_at is left out: a   *)
(* claim takes any due rows, which allows all the code does and more.      *)
(***************************************************************************)
EXTENDS Naturals, FiniteSets

CONSTANTS
  Jobs,         \* rows of job_queue
  Processes,    \* server processes, each with a poller
  Limit,        \* of one claim
  MaxAttempts   \* JOB_MAX_ATTEMPTS

ASSUME QueueAssumption == Limit \in Nat \ {0} /\ MaxAttempts \in Nat \ {0}

VARIABLES
  job,         \* job_queue
  dispatches,  \* jobs in the hands of a poller
  lost,        \* history: jobs whose poller never got, or never wrote, an answer
  finished     \* history: jobs whose handler is through, unless completeJob() threw then

vars == <<job, dispatches, lost, finished>>

-----------------------------------------------------------------------------
\* FAILED is in the comment of the migration and is never written.
JobRows ==
  [status : {"NONE", "PENDING", "RUNNING", "DONE", "DEAD"}, attempts : Nat,
   runAt : {"past", "future"}]

Dispatches ==
  [process : Processes, job : Jobs, attempts : Nat,
   pc : {"handling", "completing", "failing"}]

TypeOK ==
  /\ job \in [Jobs -> JobRows]
  /\ dispatches \subseteq Dispatches
  /\ lost \subseteq Jobs
  /\ finished \subseteq Jobs

Init ==
  /\ job = [j \in Jobs |-> [status |-> "NONE", attempts |-> 0, runAt |-> "future"]]
  /\ dispatches = {}
  /\ lost = {}
  /\ finished = {}

-----------------------------------------------------------------------------
\* enqueueJob(), seen when the transaction around it commits.
Enqueue(j) ==
  /\ job[j].status = "NONE"
  /\ \E at \in {"past", "future"} :
       job' = [job EXCEPT ![j] = [status |-> "PENDING", attempts |-> 0, runAt |-> at]]
  /\ UNCHANGED <<dispatches, lost, finished>>

\* run_at <= now() becomes true.
ComeDue(j) ==
  /\ job[j].status = "PENDING" /\ job[j].runAt = "future"
  /\ job' = [job EXCEPT ![j].runAt = "past"]
  /\ UNCHANGED <<dispatches, lost, finished>>

\* A claim that also takes what somebody else is running.
DueOrRunning == {j \in Jobs : job[j].status \in {"PENDING", "RUNNING"} /\ job[j].runAt = "past"}

Due == {j \in Jobs : job[j].status = "PENDING" /\ job[j].runAt = "past"}

\* The batches a claim may return.  SKIP LOCKED may leave out rows that another
\* claim has locked and does not keep.
Batches == {batch \in SUBSET Due : batch # {} /\ Cardinality(batch) <= Limit}

\* A claim that does not count.
UncountedRow(row) == [row EXCEPT !.status = "RUNNING"]

ClaimedRow(row) == [row EXCEPT !.status = "RUNNING", !.attempts = @ + 1]

Take(batch) ==
  job' = [j \in Jobs |-> IF j \in batch THEN ClaimedRow(job[j]) ELSE job[j]]

\* claimJobs(): one UPDATE, committed before any handler runs.
Claim(p) ==
  \E batch \in Batches :
    /\ Take(batch)
    /\ dispatches' = dispatches \cup
         {[process |-> p, job |-> j, attempts |-> job[j].attempts + 1,
           pc |-> "handling"] : j \in batch}
    /\ UNCHANGED <<lost, finished>>

\* The claim committed and its RETURNING rows never came.
LoseClaim ==
  \E batch \in Batches :
    /\ Take(batch)
    /\ lost' = lost \cup batch
    /\ UNCHANGED <<dispatches, finished>>

GoOn(d, pc) ==
  /\ dispatches' = (dispatches \ {d}) \cup {[d EXCEPT !.pc = pc]}
  /\ UNCHANGED <<job, lost>>

HandlerReturns(d) ==
  /\ d.pc = "handling"
  /\ GoOn(d, "completing")
  /\ finished' = finished \cup {d.job}

\* The handler throws, or no handler is registered for the type.
HandlerThrows(d) == d.pc = "handling" /\ GoOn(d, "failing") /\ UNCHANGED finished

Completed(d) == job' = [job EXCEPT ![d.job].status = "DONE"]

\* completeJob() inside try, failJob() in a finally instead of the catch.
CompleteThenFail(d) ==
  /\ d.pc = "completing"
  /\ Completed(d)
  /\ dispatches' = (dispatches \ {d}) \cup {[d EXCEPT !.pc = "failing"]}
  /\ UNCHANGED <<lost, finished>>

\* completeJob()
Complete(d) ==
  /\ d.pc = "completing"
  /\ Completed(d)
  /\ dispatches' = dispatches \ {d}
  /\ UNCHANGED <<lost, finished>>

\* completeJob() throws: the job counts as failed although its handler is
\* through and its row may say DONE.
CompleteInDoubt(d) ==
  /\ d.pc = "completing"
  /\ Completed(d) \/ UNCHANGED job
  /\ dispatches' = (dispatches \ {d}) \cup {[d EXCEPT !.pc = "failing"]}
  /\ finished' = finished \ {d.job}
  /\ UNCHANGED lost

\* Plausible mistakes: the FAILED of the migration's comment, one attempt too many,
\* a retry that stays RUNNING.
MarkedFailed(row, attempts) == {[row EXCEPT !.status = "FAILED"]}
GivenUpLate(row, attempts) ==
  IF attempts > MaxAttempts THEN {[row EXCEPT !.status = "DEAD"]}
  ELSE {[row EXCEPT !.status = "PENDING", !.runAt = at] : at \in {"past", "future"}}
LeftRunning(row, attempts) ==
  IF attempts >= MaxAttempts THEN {[row EXCEPT !.status = "DEAD"]}
  ELSE {[row EXCEPT !.runAt = at] : at \in {"past", "future"}}

\* What failJob() may make of the row, by the attempts the dispatch was claimed
\* with.  With full jitter the delay of nextBackoffMs() may be none at all.
FailedRow(row, attempts) ==
  IF attempts >= MaxAttempts THEN {[row EXCEPT !.status = "DEAD"]}
  ELSE {[row EXCEPT !.status = "PENDING", !.runAt = at] : at \in {"past", "future"}}

Failed(d) ==
  \E row \in FailedRow(job[d.job], d.attempts) : job' = [job EXCEPT ![d.job] = row]

\* failJob(): by id alone, whatever the row says by now.
Fail(d) ==
  /\ d.pc = "failing"
  /\ Failed(d)
  /\ dispatches' = dispatches \ {d}
  /\ UNCHANGED <<lost, finished>>

\* failJob() throws: the cycle rejects, the other jobs of its batch go on.
FailInDoubt(d) ==
  /\ d.pc = "failing"
  /\ Failed(d) \/ UNCHANGED job
  /\ dispatches' = dispatches \ {d}
  /\ lost' = lost \cup {d.job}
  /\ UNCHANGED finished

\* The process dies with everything it had in hand.
Crash(p) ==
  LET dropped == {d \in dispatches : d.process = p}
  IN  /\ dropped # {}
      /\ dispatches' = dispatches \ dropped
      /\ lost' = lost \cup {d.job : d \in dropped}
      /\ UNCHANGED <<job, finished>>

\* One job of runPollCycle()'s batch.
Work(d) ==
  \/ HandlerReturns(d)
  \/ HandlerThrows(d)
  \/ Complete(d)
  \/ CompleteInDoubt(d)
  \/ Fail(d)
  \/ FailInDoubt(d)

Next ==
  \/ \E j \in Jobs : Enqueue(j) \/ ComeDue(j)
  \/ \E p \in Processes : Claim(p) \/ Crash(p)
  \/ LoseClaim
  \/ \E d \in dispatches : Work(d)

Spec == Init /\ [][Next]_vars

\* Time passes, some process polls, and handlers end: nothing in the code bounds
\* how long one runs, so that is asked of the handlers.
Fairness ==
  /\ \A j \in Jobs : WF_vars(ComeDue(j))
  /\ WF_vars(\E p \in Processes : Claim(p))
  /\ \A j \in Jobs : WF_vars(\E d \in dispatches : d.job = j /\ Work(d))

FairSpec == Spec /\ Fairness

-----------------------------------------------------------------------------
\* "Claimed once" (walkthrough of runPollCycle): no job is in the hands of two
\* pollers, or of two ticks of one, and the row still is as the claim left it,
\* so that the unconditional UPDATEs of completeJob() and failJob() never write
\* over another attempt.
ClaimedOnce ==
  /\ \A d, e \in dispatches : d.job = e.job => d = e
  /\ \A d \in dispatches :
       /\ job[d.job].attempts = d.attempts
       /\ \/ job[d.job].status = "RUNNING"
          \/ job[d.job].status = "DONE" /\ d.pc = "failing"

\* A job is tried at most JOB_MAX_ATTEMPTS times, is given up only after the
\* last of them, and has one left whenever it waits (claimJobs, failJob).
TriedOftenEnough ==
  \A j \in Jobs :
    /\ job[j].attempts <= MaxAttempts
    /\ job[j].status = "DEAD" => job[j].attempts = MaxAttempts
    /\ job[j].status = "PENDING" => job[j].attempts < MaxAttempts

\* A row is stuck RUNNING only because an answer was lost or a process died.
StuckOnlyWhenLost ==
  \A j \in Jobs :
    job[j].status = "RUNNING" => j \in lost \/ \E d \in dispatches : d.job = j

\* A job whose handler is through is run again, or given up, only when completeJob()
\* threw: no overlapping tick claims it, and no failJob(), which writes by id alone,
\* of an attempt before comes in late and puts it back.
DoneOnce ==
  \A j \in finished :
    /\ job[j].status \in {"RUNNING", "DONE"}
    /\ \A d \in dispatches : d.job = j => d.pc = "completing"

\* A job given up is never tried or finished afterwards: no poller is left with
\* a claim on it.
DeadIsFinal ==
  [][\A j \in Jobs : job[j].status = "DEAD" => job'[j] = job[j]]_vars

\* Unless an answer about it is lost, every job is finished or given up, for good.
Settled(j) == job[j].status \in {"DONE", "DEAD"} /\ \A d \in dispatches : d.job # j
EveryJobSettles ==
  \A j \in Jobs : job[j].status = "PENDING" ~> [](j \in lost \/ Settled(j))
=============================================================================
