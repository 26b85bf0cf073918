--------------------------- MODULE JobQueueProofs ---------------------------
(***************************************************************************)
(* What JobQueue promises for any number of jobs, pollers and attempts and *)
(* for any size of a batch.  The invariants need each other and nothing    *)
(* else: a claim takes only PENDING rows, which ClaimedOnce says nobody    *)
(* has in hand, and a failure counts by the dispatch's attempts, which     *)
(* ClaimedOnce says are the row's.                                         *)
(***************************************************************************)
EXTENDS JobQueue, TLAPS

IInv ==
  /\ TypeOK
  /\ ClaimedOnce
  /\ TriedOftenEnough
  /\ StuckOnlyWhenLost

-----------------------------------------------------------------------------
LEMMA InitIInv == Init => IInv
BY QueueAssumption, SMT
DEF Init, IInv, TypeOK, ClaimedOnce, TriedOftenEnough, StuckOnlyWhenLost, JobRows

\* What is known of the row of a job that somebody has in hand.
LEMMA InHand ==
  ASSUME IInv, NEW d \in dispatches
  PROVE  /\ d \in Dispatches /\ d.job \in Jobs /\ job[d.job] \in JobRows
         /\ job[d.job].attempts = d.attempts
         /\ job[d.job].attempts <= MaxAttempts
         /\ job[d.job].status \in {"RUNNING", "DONE"}
         /\ job[d.job].status = "DONE" => d.pc = "failing"
         /\ \A e \in dispatches : e.job = d.job => e = d
<1>1. d \in Dispatches /\ d.job \in Jobs BY SMT DEF IInv, TypeOK, Dispatches
<1> QED BY <1>1, SMT DEF IInv, TypeOK, ClaimedOnce, TriedOftenEnough

\* One job leaves its poller's hands.
LEMMA DropKeepsIInv ==
  ASSUME IInv, NEW d \in dispatches, NEW row \in JobRows,
         job' = [job EXCEPT ![d.job] = row],
         dispatches' = dispatches \ {d},
         lost \subseteq lost', lost' \subseteq Jobs, UNCHANGED finished,
         row.attempts = job[d.job].attempts,
         row.status = "RUNNING" => d.job \in lost',
         row.status = "DEAD" => row.attempts = MaxAttempts,
         row.status = "PENDING" => row.attempts < MaxAttempts
  PROVE  IInv'
<1>1. /\ d.job \in Jobs /\ row.attempts <= MaxAttempts
      /\ \A e \in dispatches : e.job = d.job => e = d
  BY InHand
<1>2. \A j \in Jobs : job'[j] = IF j = d.job THEN row ELSE job[j]
  BY <1>1, Zenon DEF IInv, TypeOK
<1>3. TypeOK' BY <1>1, SMT DEF IInv, TypeOK
<1>4. ClaimedOnce'
  <2>1. \A e \in dispatches' : e \in dispatches /\ e.job \in Jobs /\ job'[e.job] = job[e.job]
    BY <1>1, <1>2, SMT DEF IInv, TypeOK, Dispatches
  <2> QED BY <2>1, Zenon DEF IInv, ClaimedOnce
<1>5. TriedOftenEnough' BY <1>1, <1>2, SMT DEF IInv, TriedOftenEnough
<1>6. StuckOnlyWhenLost'
  <2> SUFFICES ASSUME NEW j \in Jobs, job'[j].status = "RUNNING", j \notin lost'
               PROVE  \E e \in dispatches' : e.job = j
    BY DEF StuckOnlyWhenLost
  <2>1. j # d.job /\ job'[j] = job[j] BY <1>2
  <2>2. PICK e \in dispatches : e.job = j BY <2>1 DEF IInv, StuckOnlyWhenLost
  <2> QED BY <2>1, <2>2
<1> QED BY <1>3, <1>4, <1>5, <1>6 DEF IInv

\* One job goes a step further in its poller's hands.
LEMMA StepKeepsIInv ==
  ASSUME IInv, NEW d \in dispatches, NEW row \in JobRows,
         NEW n \in Dispatches,
         n.job = d.job, n.attempts = d.attempts,
         job' = [job EXCEPT ![d.job] = row],
         dispatches' = (dispatches \ {d}) \cup {n},
         UNCHANGED lost, finished' \subseteq Jobs,
         row.attempts = job[d.job].attempts,
         row.status \in {"RUNNING", "DONE"},
         row.status = "DONE" => n.pc = "failing"
  PROVE  IInv'
<1>1. /\ d \in Dispatches /\ d.job \in Jobs /\ row.attempts <= MaxAttempts
      /\ row.attempts = d.attempts
      /\ \A e \in dispatches : e.job = d.job => e = d
  BY InHand
<1>2. \A j \in Jobs : job'[j] = IF j = d.job THEN row ELSE job[j]
  BY <1>1, Zenon DEF IInv, TypeOK
<1>3. n \in Dispatches /\ n.job = d.job /\ n.attempts = d.attempts
  OBVIOUS
<1>4. dispatches' = (dispatches \ {d}) \cup {n} OBVIOUS
<1>5. TypeOK' BY <1>1, <1>3, <1>4, SMT DEF IInv, TypeOK
<1>6. ClaimedOnce'
  <2>1. \A e \in dispatches' :
          \/ e = n
          \/ e \in dispatches /\ e.job \in Jobs /\ e.job # d.job /\ job'[e.job] = job[e.job]
    BY <1>1, <1>2, <1>4, SMT DEF IInv, TypeOK, Dispatches
  <2>2. ASSUME NEW e \in dispatches', NEW f \in dispatches', e.job = f.job
        PROVE  e = f
    <3>1. CASE e = n /\ f = n BY <3>1
    <3>2. CASE e \in dispatches /\ f \in dispatches
      BY <2>2, <3>2, Zenon DEF IInv, ClaimedOnce
    <3> QED BY <2>1, <2>2, <1>3, <3>1, <3>2
  <2>3. job'[n.job] = row BY <1>1, <1>2, <1>3
  <2>4. ASSUME NEW e \in dispatches'
        PROVE  /\ job'[e.job].attempts = e.attempts
               /\ \/ job'[e.job].status = "RUNNING"
                  \/ job'[e.job].status = "DONE" /\ e.pc = "failing"
    <3>1. CASE e = n BY <3>1, <2>3, <1>1, <1>3
    <3>2. CASE e \in dispatches /\ job'[e.job] = job[e.job]
      BY <3>2, Zenon DEF IInv, ClaimedOnce
    <3> QED BY <2>1, <3>1, <3>2
  <2> QED BY <2>2, <2>4 DEF ClaimedOnce
<1>7. TriedOftenEnough' BY <1>1, <1>2, SMT DEF IInv, TriedOftenEnough
<1>8. StuckOnlyWhenLost'
  <2> SUFFICES ASSUME NEW j \in Jobs, job'[j].status = "RUNNING", j \notin lost
               PROVE  \E e \in dispatches' : e.job = j
    BY DEF StuckOnlyWhenLost
  <2>1. CASE j = d.job BY <2>1, <1>3, <1>4
  <2>2. CASE j # d.job
    <3>1. PICK e \in dispatches : e.job = j BY <2>2, <1>2 DEF IInv, StuckOnlyWhenLost
    <3> QED BY <2>2, <3>1, <1>4
  <2> QED BY <2>1, <2>2
<1> QED BY <1>5, <1>6, <1>7, <1>8 DEF IInv

-----------------------------------------------------------------------------
LEMMA ClaimedRowType ==
  ASSUME NEW row \in JobRows
  PROVE  /\ ClaimedRow(row) \in JobRows
         /\ ClaimedRow(row).status = "RUNNING"
         /\ ClaimedRow(row).attempts = row.attempts + 1
<1>1. row.attempts + 1 \in Nat BY SMT DEF JobRows
<1>2. ClaimedRow(row) \in JobRows BY <1>1 DEF ClaimedRow, JobRows
<1>3. ClaimedRow(row).status = "RUNNING" BY DEF ClaimedRow, JobRows
<1>4. ClaimedRow(row).attempts = row.attempts + 1 BY DEF ClaimedRow, JobRows
<1> QED BY <1>2, <1>3, <1>4

\* The rows of a batch after claimJobs().
LEMMA TakenRows ==
  ASSUME IInv, NEW batch \in Batches, Take(batch)
  PROVE  /\ batch \subseteq Jobs
         /\ job' \in [Jobs -> JobRows]
         /\ \A j \in batch : /\ job[j].status = "PENDING"
                             /\ job'[j].status = "RUNNING"
                             /\ job'[j].attempts = job[j].attempts + 1
                             /\ job'[j].attempts <= MaxAttempts
         /\ \A j \in Jobs \ batch : job'[j] = job[j]
         /\ \A d \in dispatches : d.job \in Jobs \ batch
<1>1. batch \subseteq Jobs /\ \A j \in batch : job[j].status = "PENDING"
  BY SMT DEF Batches, Due
<1>2. \A j \in Jobs : /\ job[j] \in JobRows
                      /\ job'[j] = IF j \in batch THEN ClaimedRow(job[j]) ELSE job[j]
  BY Zenon DEF Take, IInv, TypeOK
<1>3. \A j \in Jobs : /\ ClaimedRow(job[j]) \in JobRows
                      /\ ClaimedRow(job[j]).status = "RUNNING"
                      /\ ClaimedRow(job[j]).attempts = job[j].attempts + 1
  BY <1>2, ClaimedRowType
<1>4. job' \in [Jobs -> JobRows] BY <1>2, <1>3, Zenon DEF Take
<1>5. \A j \in batch : job[j].attempts + 1 <= MaxAttempts
  BY <1>1, <1>2, QueueAssumption, SMT DEF IInv, TriedOftenEnough, JobRows
<1>6. \A d \in dispatches : d.job \in Jobs \ batch
  <2> SUFFICES ASSUME NEW d \in dispatches PROVE d.job \in Jobs \ batch
    OBVIOUS
  <2>1. d.job \in Jobs /\ job[d.job].status # "PENDING" BY InHand
  <2> QED BY <2>1, <1>1
<1> QED BY <1>1, <1>2, <1>3, <1>4, <1>5, <1>6, Zenon

LEMMA ClaimKeepsIInv ==
  ASSUME IInv, NEW p \in Processes, Claim(p)
  PROVE  IInv'
<1>1. PICK batch \in Batches :
        /\ Take(batch)
        /\ dispatches' = dispatches \cup
             {[process |-> p, job |-> j, attempts |-> job[j].attempts + 1,
               pc |-> "handling"] : j \in batch}
        /\ UNCHANGED <<lost, finished>>
  BY DEF Claim
<1> DEFINE D(j) == [process |-> p, job |-> j, attempts |-> job[j].attempts + 1,
                    pc |-> "handling"]
<1>2. /\ batch \subseteq Jobs
      /\ job' \in [Jobs -> JobRows]
      /\ \A j \in batch : /\ job'[j].status = "RUNNING"
                          /\ job'[j].attempts = job[j].attempts + 1
                          /\ job'[j].attempts <= MaxAttempts
      /\ \A j \in Jobs \ batch : job'[j] = job[j]
      /\ \A d \in dispatches : d.job \in Jobs \ batch
  BY <1>1, TakenRows
<1>3. \A j \in batch : D(j) \in Dispatches /\ D(j).job = j
                       /\ D(j).attempts = job'[j].attempts
  BY <1>2, SMT DEF Dispatches, IInv, TypeOK, JobRows
<1> HIDE DEF D
<1>4. dispatches' = dispatches \cup {D(j) : j \in batch} BY <1>1 DEF D
<1>5. TypeOK' BY <1>1, <1>2, <1>3, <1>4, Zenon DEF IInv, TypeOK
<1>6. ClaimedOnce'
  <2>1. \A e \in dispatches' :
          \/ e \in dispatches /\ e.job \notin batch /\ job'[e.job] = job[e.job]
          \/ e.job \in batch /\ e = D(e.job)
    BY <1>2, <1>3, <1>4
  <2>2. ASSUME NEW e \in dispatches', NEW f \in dispatches', e.job = f.job
        PROVE  e = f
    <3>1. CASE e.job \in batch BY <3>1, <2>1, <2>2
    <3>2. CASE e \in dispatches /\ f \in dispatches
      BY <2>2, <3>2, Zenon DEF IInv, ClaimedOnce
    <3> QED BY <2>1, <2>2, <3>1, <3>2
  <2>3. ASSUME NEW e \in dispatches'
        PROVE  /\ job'[e.job].attempts = e.attempts
               /\ \/ job'[e.job].status = "RUNNING"
                  \/ job'[e.job].status = "DONE" /\ e.pc = "failing"
    <3>1. CASE e.job \in batch /\ e = D(e.job) BY <3>1, <1>2, <1>3
    <3>2. CASE e \in dispatches /\ job'[e.job] = job[e.job]
      BY <3>2, Zenon DEF IInv, ClaimedOnce
    <3> QED BY <2>1, <3>1, <3>2
  <2> QED BY <2>2, <2>3 DEF ClaimedOnce
<1>7. TriedOftenEnough'
  <2>1. \A j \in batch : job'[j].status \notin {"PENDING", "DEAD"} BY <1>2
  <2> QED BY <2>1, <1>2, Zenon DEF IInv, TriedOftenEnough
<1>8. StuckOnlyWhenLost' BY <1>1, <1>2, <1>3, <1>4, Zenon DEF IInv, StuckOnlyWhenLost
<1> QED BY <1>5, <1>6, <1>7, <1>8 DEF IInv

LEMMA LoseClaimKeepsIInv ==
  ASSUME IInv, LoseClaim
  PROVE  IInv'
<1>1. PICK batch \in Batches :
        Take(batch) /\ lost' = lost \cup batch /\ UNCHANGED <<dispatches, finished>>
  BY DEF LoseClaim
<1>2. /\ batch \subseteq Jobs
      /\ job' \in [Jobs -> JobRows]
      /\ \A j \in batch : /\ job'[j].status = "RUNNING"
                          /\ job'[j].attempts <= MaxAttempts
      /\ \A j \in Jobs \ batch : job'[j] = job[j]
      /\ \A d \in dispatches : d.job \in Jobs \ batch
  BY <1>1, TakenRows
<1>3. TypeOK' BY <1>1, <1>2, Zenon DEF IInv, TypeOK
<1>4. ClaimedOnce' BY <1>1, <1>2, Zenon DEF IInv, ClaimedOnce
<1>5. TriedOftenEnough'
  <2>1. \A j \in batch : job'[j].status \notin {"PENDING", "DEAD"} BY <1>2
  <2> QED BY <2>1, <1>2, Zenon DEF IInv, TriedOftenEnough
<1>6. StuckOnlyWhenLost' BY <1>1, <1>2, Zenon DEF IInv, StuckOnlyWhenLost
<1> QED BY <1>3, <1>4, <1>5, <1>6 DEF IInv

-----------------------------------------------------------------------------
\* The row after completeJob(), and the rows failJob() may leave.
LEMMA WrittenRows ==
  ASSUME IInv, NEW d \in dispatches
  PROVE  /\ LET done == [job[d.job] EXCEPT !.status = "DONE"]
            IN  /\ done \in JobRows /\ done.status = "DONE"
                /\ done.attempts = job[d.job].attempts
                /\ Completed(d) => job' = [job EXCEPT ![d.job] = done]
         /\ \A row \in FailedRow(job[d.job], d.attempts) :
              /\ row \in JobRows
              /\ row.attempts = job[d.job].attempts
              /\ row.status \in {"PENDING", "DEAD"}
              /\ row.status = "DEAD" => row.attempts = MaxAttempts
              /\ row.status = "PENDING" => row.attempts < MaxAttempts
         /\ job = [job EXCEPT ![d.job] = job[d.job]]
<1>1. /\ d.job \in Jobs /\ job[d.job] \in JobRows
      /\ job[d.job].attempts = d.attempts /\ job[d.job].attempts <= MaxAttempts
  BY InHand
<1>2. LET done == [job[d.job] EXCEPT !.status = "DONE"]
      IN  /\ done \in JobRows /\ done.status = "DONE"
          /\ done.attempts = job[d.job].attempts
          /\ Completed(d) => job' = [job EXCEPT ![d.job] = done]
  BY <1>1, SMT DEF JobRows, Completed, IInv, TypeOK
<1>3. ASSUME NEW row \in FailedRow(job[d.job], d.attempts)
      PROVE  /\ row \in JobRows
             /\ row.attempts = job[d.job].attempts
             /\ row.status \in {"PENDING", "DEAD"}
             /\ row.status = "DEAD" => row.attempts = MaxAttempts
             /\ row.status = "PENDING" => row.attempts < MaxAttempts
  <2>1. CASE d.attempts >= MaxAttempts
    <3>1. row = [job[d.job] EXCEPT !.status = "DEAD"] BY <1>3, <2>1 DEF FailedRow
    <3> QED BY <1>1, <2>1, <3>1, QueueAssumption, SMT DEF JobRows
  <2>2. CASE ~ (d.attempts >= MaxAttempts)
    <3>1. PICK at \in {"past", "future"} :
            row = [job[d.job] EXCEPT !.status = "PENDING", !.runAt = at]
      BY <1>3, <2>2 DEF FailedRow
    <3>2. row \in JobRows BY <1>1, <3>1 DEF JobRows
    <3>3. row.status = "PENDING" /\ row.attempts = job[d.job].attempts
      BY <1>1, <3>1 DEF JobRows
    <3>4. row.attempts < MaxAttempts
      BY <1>1, <2>2, <3>3, QueueAssumption, SMT DEF JobRows
    <3> QED BY <3>2, <3>3, <3>4
  <2> QED BY <2>1, <2>2
<1>4. job = [job EXCEPT ![d.job] = job[d.job]] BY <1>1, SMT DEF IInv, TypeOK
<1> QED BY <1>2, <1>3, <1>4

LEMMA WorkKeepsIInv ==
  ASSUME IInv, NEW d \in dispatches, Work(d)
  PROVE  IInv'
<1> DEFINE row == job[d.job]
           completing == [d EXCEPT !.pc = "completing"]
           failing == [d EXCEPT !.pc = "failing"]
<1>1. /\ d.job \in Jobs /\ row \in JobRows /\ row.status \in {"RUNNING", "DONE"}
      /\ row.status = "DONE" => d.pc = "failing"
  BY InHand
<1>0. /\ completing \in Dispatches
      /\ completing.job = d.job /\ completing.attempts = d.attempts
      /\ failing \in Dispatches
      /\ failing.job = d.job /\ failing.attempts = d.attempts
      /\ failing.pc = "failing"
  BY InHand DEF Dispatches
<1> HIDE DEF completing, failing
<1>2. CASE HandlerReturns(d)
  <2>1. row.status = "RUNNING" BY <1>1, <1>2 DEF HandlerReturns
  <2>2. /\ job' = [job EXCEPT ![d.job] = row] /\ UNCHANGED lost
        /\ dispatches' = (dispatches \ {d}) \cup {completing}
        /\ finished' \subseteq Jobs
    BY <1>1, <1>2, WrittenRows DEF HandlerReturns, GoOn, completing, IInv, TypeOK
  <2> QED BY <1>0, <1>1, <2>1, <2>2, StepKeepsIInv
<1>3. CASE HandlerThrows(d)
  <2>1. row.status = "RUNNING" BY <1>1, <1>3 DEF HandlerThrows
  <2>2. /\ job' = [job EXCEPT ![d.job] = row] /\ UNCHANGED lost
        /\ dispatches' = (dispatches \ {d}) \cup {failing}
        /\ finished' \subseteq Jobs
    BY <1>3, WrittenRows DEF HandlerThrows, GoOn, failing, IInv, TypeOK
  <2> QED BY <1>0, <1>1, <2>1, <2>2, StepKeepsIInv
<1>4. CASE Complete(d)
  BY <1>4, WrittenRows, DropKeepsIInv DEF Complete, IInv, TypeOK
<1>5. CASE CompleteInDoubt(d)
  <2>1. row.status = "RUNNING" BY <1>1, <1>5 DEF CompleteInDoubt
  <2>2. /\ UNCHANGED lost
        /\ dispatches' = (dispatches \ {d}) \cup {failing}
        /\ finished' \subseteq Jobs
    BY <1>5 DEF CompleteInDoubt, failing, IInv, TypeOK
  <2>3. CASE Completed(d) BY <1>0, <2>2, <2>3, WrittenRows, StepKeepsIInv
  <2>4. CASE UNCHANGED job
    BY <1>0, <1>1, <2>1, <2>2, <2>4, WrittenRows, StepKeepsIInv
  <2> QED BY <1>5, <2>3, <2>4 DEF CompleteInDoubt
<1>6. CASE Fail(d)
  <2>1. PICK new \in FailedRow(job[d.job], d.attempts) : job' = [job EXCEPT ![d.job] = new]
    BY <1>6 DEF Fail, Failed
  <2> QED BY <1>6, <2>1, WrittenRows, DropKeepsIInv DEF Fail, IInv, TypeOK
<1>7. CASE FailInDoubt(d)
  <2>1. /\ dispatches' = dispatches \ {d}
        /\ lost \subseteq lost' /\ lost' \subseteq Jobs /\ d.job \in lost'
        /\ UNCHANGED finished
    BY <1>1, <1>7, SMT DEF FailInDoubt, IInv, TypeOK
  <2>2. CASE Failed(d)
    <3>1. PICK new \in FailedRow(job[d.job], d.attempts) :
            job' = [job EXCEPT ![d.job] = new]
      BY <2>2 DEF Failed
    <3> QED BY <2>1, <3>1, WrittenRows, DropKeepsIInv
  <2>3. CASE UNCHANGED job
    <3>1. row.status # "DEAD" /\ row.status # "PENDING" BY <1>1
    <3> QED BY <1>1, <2>1, <2>3, <3>1, WrittenRows, DropKeepsIInv
  <2> QED BY <1>7, <2>2, <2>3 DEF FailInDoubt
<1> QED BY <1>2, <1>3, <1>4, <1>5, <1>6, <1>7 DEF Work

LEMMA CrashKeepsIInv ==
  ASSUME IInv, NEW p \in Processes, Crash(p)
  PROVE  IInv'
<1>1. /\ dispatches' \subseteq dispatches /\ job' = job
      /\ lost' \subseteq Jobs /\ lost \subseteq lost' /\ UNCHANGED finished
      /\ \A d \in dispatches \ dispatches' : d.job \in lost'
  BY SMT DEF Crash, IInv, TypeOK, Dispatches
<1>2. TypeOK' BY <1>1, SMT DEF IInv, TypeOK
<1>3. ClaimedOnce' BY <1>1, Zenon DEF IInv, ClaimedOnce
<1>4. TriedOftenEnough' BY <1>1, Zenon DEF IInv, TriedOftenEnough
<1>5. StuckOnlyWhenLost' BY <1>1, Zenon DEF IInv, StuckOnlyWhenLost
<1> QED BY <1>2, <1>3, <1>4, <1>5 DEF IInv

LEMMA RowComesKeepsIInv ==
  ASSUME IInv, NEW j \in Jobs, Enqueue(j) \/ ComeDue(j)
  PROVE  IInv'
<1>1. /\ job' \in [Jobs -> JobRows] /\ UNCHANGED <<dispatches, lost, finished>>
      /\ job[j].status \in {"NONE", "PENDING"}
      /\ job'[j].status = "PENDING" /\ job'[j].attempts < MaxAttempts
      /\ \A i \in Jobs \ {j} : job'[i] = job[i]
  BY QueueAssumption, SMT
  DEF Enqueue, ComeDue, IInv, TypeOK, JobRows, TriedOftenEnough
<1>2. TypeOK' BY <1>1 DEF IInv, TypeOK
<1>3. \A d \in dispatches : d.job \in Jobs \ {j}
  BY <1>1, InHand
<1>4. ClaimedOnce' BY <1>1, <1>3, Zenon DEF IInv, ClaimedOnce
<1>5. TriedOftenEnough' BY <1>1, QueueAssumption, SMT DEF IInv, TypeOK, JobRows, TriedOftenEnough
<1>6. StuckOnlyWhenLost' BY <1>1, Zenon DEF IInv, StuckOnlyWhenLost
<1> QED BY <1>2, <1>4, <1>5, <1>6 DEF IInv

LEMMA NextIInv == IInv /\ [Next]_vars => IInv'
<1> SUFFICES ASSUME IInv, [Next]_vars PROVE IInv'
  OBVIOUS
<1>1. ASSUME NEW j \in Jobs, Enqueue(j) \/ ComeDue(j) PROVE IInv'
  BY <1>1, RowComesKeepsIInv
<1>2. ASSUME NEW p \in Processes, Claim(p) PROVE IInv' BY <1>2, ClaimKeepsIInv
<1>3. ASSUME NEW p \in Processes, Crash(p) PROVE IInv' BY <1>3, CrashKeepsIInv
<1>4. CASE LoseClaim BY <1>4, LoseClaimKeepsIInv
<1>5. ASSUME NEW d \in dispatches, Work(d) PROVE IInv' BY <1>5, WorkKeepsIInv
<1>6. CASE UNCHANGED vars
  BY <1>6, Zenon
  DEF vars, IInv, TypeOK, ClaimedOnce, TriedOftenEnough, StuckOnlyWhenLost
<1> QED BY <1>1, <1>2, <1>3, <1>4, <1>5, <1>6 DEF Next

LEMMA AlwaysIInv == Spec => []IInv
BY InitIInv, NextIInv, PTL DEF Spec

-----------------------------------------------------------------------------
\* Only the one who has a finished job in hand does anything about it.
LEMMA NextDoneOnce == IInv /\ DoneOnce /\ [Next]_vars => DoneOnce'
<1> SUFFICES ASSUME IInv, DoneOnce, [Next]_vars PROVE DoneOnce'
  OBVIOUS
<1>1. ASSUME NEW j \in Jobs, Enqueue(j) \/ ComeDue(j) PROVE DoneOnce'
  <2>1. job[j].status \notin {"RUNNING", "DONE"} BY <1>1 DEF Enqueue, ComeDue
  <2>2. /\ \A i \in Jobs \ {j} : job'[i] = job[i]
        /\ UNCHANGED <<dispatches, finished>> /\ finished \subseteq Jobs \ {j}
    BY <1>1, <2>1, SMT DEF Enqueue, ComeDue, IInv, TypeOK, DoneOnce
  <2> QED BY <2>2, Zenon DEF DoneOnce
<1>2. ASSUME NEW batch \in Batches, Take(batch) PROVE finished \subseteq Jobs \ batch
  BY <1>2, TakenRows, SMT DEF DoneOnce, IInv, TypeOK
<1>3. ASSUME NEW p \in Processes, Claim(p) PROVE DoneOnce'
  <2>1. PICK batch \in Batches :
          /\ Take(batch) /\ UNCHANGED finished
          /\ \A e \in dispatches' : e \in dispatches \/ e.job \in batch
    BY <1>3, SMT DEF Claim
  <2> QED BY <1>2, <2>1, TakenRows, SMT DEF DoneOnce
<1>4. CASE LoseClaim
  <2>1. PICK batch \in Batches : Take(batch) /\ UNCHANGED <<finished, dispatches>>
    BY <1>4 DEF LoseClaim
  <2> QED BY <1>2, <2>1, TakenRows, SMT DEF DoneOnce
<1>5. ASSUME NEW d \in dispatches, Work(d) PROVE DoneOnce'
  <2>1. /\ d.job \in Jobs /\ job[d.job].status \in {"RUNNING", "DONE"}
        /\ job[d.job].status = "DONE" => d.pc = "failing"
        /\ \A e \in dispatches : e.job = d.job => e = d
        /\ d.job \in finished => d.pc = "completing"
    BY InHand DEF DoneOnce
  <2>2. \A j \in Jobs \ {d.job} : job'[j] = job[j]
    BY <1>5, SMT
    DEF Work, HandlerReturns, HandlerThrows, Complete, CompleteInDoubt, Fail,
        FailInDoubt, GoOn, Completed, Failed, IInv, TypeOK
  <2>3. \A e \in dispatches' : e \in dispatches \/ e.job = d.job
    BY <1>5, InHand, SMT
    DEF Work, HandlerReturns, HandlerThrows, Complete, CompleteInDoubt, Fail,
        FailInDoubt, GoOn, Dispatches
  <2>4. finished' \ {d.job} \subseteq finished /\ finished \subseteq Jobs
    BY <1>5, SMT
    DEF Work, HandlerReturns, HandlerThrows, Complete, CompleteInDoubt, Fail,
        FailInDoubt, GoOn, IInv, TypeOK
  <2>5. ASSUME d.job \in finished'
        PROVE  /\ job'[d.job].status \in {"RUNNING", "DONE"}
               /\ \A e \in dispatches' : e.job = d.job => e.pc = "completing"
    <3>1. CASE HandlerReturns(d)
      <4>1. [d EXCEPT !.pc = "completing"].pc = "completing" BY InHand DEF Dispatches
      <4> QED BY <2>1, <3>1, <4>1 DEF HandlerReturns, GoOn
    <3>2. CASE Complete(d)
      <4>1. job'[d.job].status = "DONE"
        BY <2>1, <3>2, WrittenRows DEF Complete, IInv, TypeOK
      <4> QED BY <2>1, <3>2, <4>1 DEF Complete
    <3>3. CASE HandlerThrows(d) \/ CompleteInDoubt(d) \/ Fail(d) \/ FailInDoubt(d)
      BY <2>1, <2>5, <3>3 DEF HandlerThrows, CompleteInDoubt, Fail, FailInDoubt
    <3> QED BY <1>5, <3>1, <3>2, <3>3 DEF Work
  <2> QED BY <2>2, <2>3, <2>4, <2>5, Zenon DEF DoneOnce
<1>6. ASSUME NEW p \in Processes, Crash(p) PROVE DoneOnce'
  BY <1>6 DEF Crash, DoneOnce
<1>7. CASE UNCHANGED vars BY <1>7 DEF vars, DoneOnce
<1> QED BY <1>1, <1>3, <1>4, <1>5, <1>6, <1>7 DEF Next

-----------------------------------------------------------------------------
\* Every job and every dispatch keeps its shape.
THEOREM TypeCorrect == Spec => []TypeOK
BY AlwaysIInv, PTL DEF IInv

\* Whatever processes poll, overlap, crash and lose answers, a job is in one
\* pair of hands, and the row is as that claim left it (claimJobs).
THEOREM JobsAreClaimedOnce == Spec => []ClaimedOnce
BY AlwaysIInv, PTL DEF IInv

\* No job is tried more often than JOB_MAX_ATTEMPTS, or given up before (failJob).
THEOREM AttemptsAreCounted == Spec => []TriedOftenEnough
BY AlwaysIInv, PTL DEF IInv

\* A RUNNING row that nobody runs is the trace of a crash or a lost answer.
THEOREM OnlyLossStrandsJobs == Spec => []StuckOnlyWhenLost
BY AlwaysIInv, PTL DEF IInv

\* A handler that went through is not run again and its job not given up, except
\* after a completeJob() that threw (runPollCycle).
THEOREM FinishedJobsAreLeftAlone == Spec => []DoneOnce
<1>1. Init => DoneOnce BY DEF Init, DoneOnce
<1> QED BY <1>1, NextDoneOnce, AlwaysIInv, PTL DEF Spec

\* No step changes a job that was given up (failJob writes by id alone).
THEOREM DeadStaysDead == Spec => DeadIsFinal
<1>1. IInv /\ [Next]_vars => [\A j \in Jobs : job[j].status = "DEAD" => job'[j] = job[j]]_vars
  <2> SUFFICES ASSUME IInv, Next, NEW j \in Jobs, job[j].status = "DEAD"
               PROVE  job'[j] = job[j]
    OBVIOUS
  <2>1. ASSUME NEW i \in Jobs, Enqueue(i) \/ ComeDue(i) PROVE job'[j] = job[j]
    BY <2>1, SMT DEF Enqueue, ComeDue, IInv, TypeOK
  <2>2. ASSUME NEW batch \in Batches, Take(batch) PROVE job'[j] = job[j]
    <3>1. j \notin batch BY SMT DEF Batches, Due
    <3> QED BY <2>2, <3>1, TakenRows
  <2>3. ASSUME NEW d \in dispatches, Work(d) PROVE job'[j] = job[j]
    <3>1. d.job \in Jobs /\ d.job # j BY InHand
    <3> QED BY <2>3, <3>1, Zenon
        DEF Work, HandlerReturns, HandlerThrows, Complete, CompleteInDoubt, Fail,
            FailInDoubt, GoOn, Completed, Failed, IInv, TypeOK
  <2>4. ASSUME NEW p \in Processes, Crash(p) PROVE job'[j] = job[j]
    BY <2>4 DEF Crash
  <2> QED BY <2>1, <2>2, <2>3, <2>4 DEF Next, Claim, LoseClaim
<1> QED BY <1>1, AlwaysIInv, PTL DEF Spec, DeadIsFinal
=============================================================================
