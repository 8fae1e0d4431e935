---------------------------- MODULE JobQueueProofs ----------------------------
(* Theorems about the job queue, for every set of workers, users, kinds    *)
(* and requests, every table size and every number of faults.              *)
EXTENDS JobQueue, SequenceTheorems, TLAPS

(* A row replaced by a row, and a table mapped row by row, are tables.     *)
LEMMA RowReplaced ==
  ASSUME NEW s \in Seq(Job), NEW j \in DOMAIN s, NEW x \in Job
  PROVE  /\ [s EXCEPT ![j] = x] \in Seq(Job)
         /\ DOMAIN [s EXCEPT ![j] = x] = DOMAIN s
         /\ \A i \in DOMAIN s : [s EXCEPT ![j] = x][i] = IF i = j THEN x ELSE s[i]
<1>1. DOMAIN s = 1..Len(s)
  BY LenProperties
<1>2. QED
  BY <1>1, ExceptSeq, LenProperties

(* A requeued job is a job.                                                *)
LEMMA RequeuedIsJob ==
  ASSUME NEW job \in Job
  PROVE  /\ Requeued(job) \in Job
         /\ job.attempts <= MaxAttempts => Requeued(job).attempts <= MaxAttempts
         /\ Requeued(job).status = "QUEUED" => job.status = "QUEUED" \/ job.attempts < MaxAttempts
         /\ Requeued(job).attempts = job.attempts
         /\ ~(job.status = "RUNNING" /\ job.old) => Requeued(job) = job
BY JobQueueAssumption DEF Requeued, Job, Active

(* The stale sweep keeps the table well formed.                            *)
LEMMA TableRequeued ==
  ASSUME NEW s \in Seq(Job)
  PROVE  /\ [j \in DOMAIN s |-> Requeued(s[j])] \in Seq(Job)
         /\ DOMAIN [j \in DOMAIN s |-> Requeued(s[j])] = DOMAIN s
<1>1. DOMAIN s = 1..Len(s) /\ Len(s) \in Nat /\ s \in [1..Len(s) -> Job]
  BY LenProperties
<1>2. [j \in DOMAIN s |-> Requeued(s[j])] \in [1..Len(s) -> Job]
  BY <1>1, RequeuedIsJob
<1>3. QED
  BY <1>1, <1>2, SeqDef

(* How a step may change the table: rows are only added, and a row that    *)
(* changes is requeued, claimed, closed by the worker that has it, or old. *)
Claimed(j, w) ==
  /\ jobs[j].status = "QUEUED" /\ workers[w].pc = "idle"
  /\ jobs'[j] = [jobs[j] EXCEPT !.status = "RUNNING", !.attempts = @ + 1,
                                !.worker = w, !.old = FALSE]

Closed(j, w, status) ==
  /\ Working(w, j) /\ workers'[w].pc = "idle"
  /\ jobs'[j] = [jobs[j] EXCEPT !.status = status]

GrewOld(j) ==
  /\ jobs[j].status = "RUNNING"
  /\ jobs[j].kind \in Overruns \/ \A w \in Workers : ~Working(w, j)
  /\ jobs'[j] = [jobs[j] EXCEPT !.old = TRUE]

RowStep(j) ==
  \/ jobs'[j] = jobs[j]
  \/ jobs'[j] = Requeued(jobs[j])
  \/ \E w \in Workers : Claimed(j, w)
  \/ \E w \in Workers, status \in {"DONE", "FAILED"} : Closed(j, w, status)
  \/ GrewOld(j)

TableStep ==
  /\ jobs' \in Seq(Job)
  /\ DOMAIN jobs \subseteq DOMAIN jobs'
  /\ \A j \in DOMAIN jobs : RowStep(j)
  /\ \A j \in DOMAIN jobs' \ DOMAIN jobs : \E u \in Users, k \in Kinds : jobs'[j] = NewJob(u, k)

(* A step that leaves the table alone, and the step that replaces row j.   *)
LEMMA TableKept == TypeOK /\ UNCHANGED jobs => TableStep
BY DEF TypeOK, TableStep, RowStep

(* So does an update of one row.                                           *)
LEMMA RowChanged ==
  ASSUME TypeOK, NEW j \in DOMAIN jobs, NEW x \in Job,
         jobs' = [jobs EXCEPT ![j] = x], jobs'[j] = x => RowStep(j)
  PROVE  TableStep
<1>1. /\ jobs' \in Seq(Job)
      /\ DOMAIN jobs' = DOMAIN jobs
      /\ \A i \in DOMAIN jobs : jobs'[i] = IF i = j THEN x ELSE jobs[i]
  BY RowReplaced DEF TypeOK
<1>2. QED
  BY <1>1 DEF TableStep, RowStep

(* Every step changes the table this way.                                  *)
LEMMA StepOnTable == TypeOK /\ [Next]_vars => TableStep
<1> SUFFICES ASSUME TypeOK, [Next]_vars PROVE TableStep
  OBVIOUS
<1>1. CASE UNCHANGED vars
  BY <1>1, TableKept DEF vars
<1>2. ASSUME NEW r \in Requests, NEW u \in Users, NEW k \in Kinds, RunArrives(r, u, k)
      PROVE TableStep
  BY <1>2, TableKept DEF RunArrives
<1>3. ASSUME NEW r \in Requests, Enqueue(r) PROVE TableStep
  <2>1. PICK u \in Users, k \in Kinds : requests[r] = <<u, k>>
    BY <1>3 DEF Enqueue, TypeOK
  <2>2. jobs' = Append(jobs, NewJob(u, k)) /\ NewJob(u, k) \in Job
    BY <1>3, <2>1 DEF Enqueue, NewJob, Job, Active
  <2>3. /\ jobs' \in Seq(Job)
        /\ DOMAIN jobs = 1..Len(jobs) /\ Len(jobs) \in Nat
        /\ DOMAIN jobs' = 1..(Len(jobs) + 1)
        /\ \A j \in DOMAIN jobs : jobs'[j] = jobs[j]
        /\ jobs'[Len(jobs) + 1] = NewJob(u, k)
    BY <2>2, AppendProperties, LenProperties DEF TypeOK
  <2>4. \A j \in DOMAIN jobs' \ DOMAIN jobs : jobs'[j] = NewJob(u, k)
    BY <2>3
  <2>5. QED
    BY <2>3, <2>4 DEF TableStep, RowStep
<1>4. ASSUME NEW w \in Workers, Start(w) PROVE TableStep
  <2>1. jobs' \in Seq(Job) /\ DOMAIN jobs' = DOMAIN jobs
    BY <1>4, TableRequeued DEF Start, TypeOK
  <2>2. \A j \in DOMAIN jobs : jobs'[j] = Requeued(jobs[j])
    BY <1>4 DEF Start
  <2>3. QED
    BY <2>1, <2>2 DEF TableStep, RowStep
<1>5. ASSUME NEW w \in Workers, Claim(w) PROVE TableStep
  <2>1. PICK j \in DOMAIN jobs :
           /\ jobs[j].status = "QUEUED"
           /\ jobs' = [jobs EXCEPT ![j].status = "RUNNING", ![j].attempts = @ + 1,
                                   ![j].worker = w, ![j].old = FALSE]
    BY <1>5 DEF Claim
  <2> DEFINE x == [jobs[j] EXCEPT !.status = "RUNNING", !.attempts = @ + 1,
                                  !.worker = w, !.old = FALSE]
  <2>2. jobs[j] \in Job
    BY LenProperties DEF TypeOK
  <2>3. x \in Job
    <3>1. jobs[j].attempts + 1 \in Nat /\ "RUNNING" \in Active \union {"DONE", "FAILED"}
      BY <2>2 DEF Job, Active
    <3>2. QED
      BY <2>2, <3>1 DEF Job
  <2>4. jobs' = [jobs EXCEPT ![j] = x]
    BY <2>1, <2>2 DEF Job
  <2>5. jobs'[j] = x => RowStep(j)
    BY <1>5, <2>1 DEF RowStep, Claim, Claimed
  <2>6. QED
    BY <2>3, <2>4, <2>5, RowChanged
<1>6. ASSUME NEW w \in Workers, NEW status \in {"DONE", "FAILED"},
             workers[w].pc \in {"finish", "fail"}, Record(w, status)
      PROVE TableStep
  <2> DEFINE j == workers[w].job
             x == [jobs[j] EXCEPT !.status = status]
  <2>1. j \in DOMAIN jobs /\ Working(w, j)
    BY <1>6 DEF TypeOK, Working
  <2>2. jobs[j] \in Job
    BY <2>1, LenProperties DEF TypeOK
  <2>3. x \in Job
    BY <2>2 DEF Job, Active
  <2>4. jobs' = [jobs EXCEPT ![j] = x]
    BY <1>6, <2>2 DEF Record, Job
  <2>5. jobs'[j] = x => RowStep(j)
    <3>1. workers'[w].pc = "idle"
      BY <1>6 DEF Record, TypeOK
    <3>2. QED
      BY <2>1, <3>1 DEF RowStep, Closed
  <2> HIDE DEF j, x
  <2>6. QED
    BY <2>1, <2>3, <2>4, <2>5, RowChanged
<1>7. ASSUME NEW w \in Workers, HandlerEnds(w) \/ Exit(w) \/ RecordFails(w) \/ Signal(w) \/ Kill(w)
      PROVE TableStep
  BY <1>7, TableKept DEF HandlerEnds, Exit, RecordFails, Signal, Kill
<1>8. ASSUME NEW j \in DOMAIN jobs, Age(j) PROVE TableStep
  <2> DEFINE x == [jobs[j] EXCEPT !.old = TRUE]
  <2>1. jobs[j] \in Job
    BY LenProperties DEF TypeOK
  <2>2. x \in Job
    BY <2>1 DEF Job
  <2>3. jobs' = [jobs EXCEPT ![j] = x]
    BY <1>8, <2>1 DEF Age, Job
  <2>4. jobs'[j] = x => RowStep(j)
    BY <1>8 DEF Age, RowStep, GrewOld
  <2>5. QED
    BY <2>2, <2>3, <2>4, RowChanged
<1>9. QED
  BY <1>1, <1>2, <1>3, <1>4, <1>5, <1>6, <1>7, <1>8 DEF Next, Process, Finish, Fail

(* The processes, the requests and the faults stay well formed.            *)
LEMMA TypeStep == TypeOK /\ [Next]_vars => TypeOK'
<1> SUFFICES ASSUME TypeOK, [Next]_vars PROVE TypeOK'
  OBVIOUS
<1>1. jobs' \in Seq(Job) /\ DOMAIN jobs \subseteq DOMAIN jobs' /\ DOMAIN jobs \subseteq Nat
  BY StepOnTable, LenProperties DEF TableStep, TypeOK
<1>2. CASE UNCHANGED vars
  BY <1>2 DEF vars, TypeOK
<1>3. ASSUME NEW r \in Requests, NEW u \in Users, NEW k \in Kinds, RunArrives(r, u, k)
      PROVE TypeOK'
  BY <1>1, <1>3 DEF RunArrives, TypeOK
<1>4. ASSUME NEW r \in Requests, Enqueue(r) PROVE TypeOK'
  BY <1>1, <1>4 DEF Enqueue, TypeOK
<1>5. ASSUME NEW w \in Workers, Start(w) PROVE TypeOK'
  BY <1>1, <1>5 DEF Start, Off, TypeOK
<1>6. ASSUME NEW w \in Workers, Claim(w) PROVE TypeOK'
  <2>1. PICK j \in DOMAIN jobs : workers' = [workers EXCEPT ![w].pc = "run", ![w].job = j]
    BY <1>6 DEF Claim
  <2>2. j \in Nat /\ j \in DOMAIN jobs'
    BY <1>1
  <2>3. requests' = requests /\ faults' = faults
    BY <1>6 DEF Claim
  <2>4. workers' \in [Workers -> [pc : {"off", "idle", "run", "finish", "fail"},
                                 job : Nat, stopping : BOOLEAN]]
    BY <2>1, <2>2 DEF TypeOK
  <2>5. ASSUME NEW v \in Workers, workers'[v].pc \in {"run", "finish", "fail"}
        PROVE  workers'[v].job \in DOMAIN jobs'
    <3>1. CASE v = w
      BY <2>1, <2>2, <3>1 DEF TypeOK
    <3>2. CASE v # w
      <4>1. workers'[v] = workers[v]
        BY <2>1, <3>2 DEF TypeOK
      <4>2. QED
        BY <1>1, <2>5, <4>1 DEF TypeOK
    <3>3. QED
      BY <3>1, <3>2
  <2>6. QED
    BY <1>1, <2>3, <2>4, <2>5 DEF TypeOK
<1>7. ASSUME NEW w \in Workers, HandlerEnds(w) \/ Exit(w) \/ Signal(w) \/ Kill(w) \/ RecordFails(w)
      PROVE TypeOK'
  <2>1. CASE HandlerEnds(w)
    BY <1>1, <2>1 DEF HandlerEnds, TypeOK
  <2>2. CASE Exit(w)
    BY <1>1, <2>2 DEF Exit, Off, TypeOK
  <2> faults + 1 \in 0..MaxFaults \/ ~(faults < MaxFaults)
    BY JobQueueAssumption DEF TypeOK
  <2>3. CASE Signal(w)
    BY <1>1, <2>3 DEF Signal, TypeOK
  <2>4. CASE Kill(w)
    BY <1>1, <2>4 DEF Kill, Off, TypeOK
  <2>5. CASE RecordFails(w)
    <3> workers[w].pc \in {"finish", "fail"} /\ jobs' = jobs /\ requests' = requests
        /\ faults' \in 0..MaxFaults
      BY <2>5 DEF RecordFails
    <3>1. CASE workers' = [workers EXCEPT ![w].pc = "fail"]
      <4>1. workers' \in [Workers -> [pc : {"off", "idle", "run", "finish", "fail"},
                                     job : Nat, stopping : BOOLEAN]]
        BY <3>1 DEF TypeOK
      <4>2. \A v \in Workers : workers'[v].job = workers[v].job
                               /\ (workers'[v].pc = workers[v].pc \/ v = w)
        BY <3>1 DEF TypeOK
      <4>3. QED
        BY <4>1, <4>2 DEF TypeOK
    <3>2. CASE workers' = [workers EXCEPT ![w] = Off]
      BY <1>1, <2>5, <3>2 DEF RecordFails, Off, TypeOK
    <3>3. QED
      BY <2>5, <3>1, <3>2 DEF RecordFails
  <2>6. QED
    BY <1>7, <2>1, <2>2, <2>3, <2>4, <2>5
<1>8. ASSUME NEW w \in Workers, NEW status, Record(w, status) PROVE TypeOK'
  BY <1>1, <1>8 DEF Record, TypeOK
<1>9. ASSUME NEW j \in DOMAIN jobs, Age(j) PROVE TypeOK'
  BY <1>1, <1>9 DEF Age, TypeOK
<1>10. QED
  BY <1>2, <1>3, <1>4, <1>5, <1>6, <1>7, <1>8, <1>9 DEF Next, Process, Finish, Fail

(* Rows, processes and request threads are well formed in every reachable  *)
(* state, and a busy worker's job exists.                                  *)
THEOREM JobsTypeCorrect == Spec => []TypeOK
<1>1. Init => TypeOK
  BY EmptySeq, JobQueueAssumption DEF Init, TypeOK, Off
<1>2. QED
  BY <1>1, TypeStep, PTL DEF Spec

(* No job is ever started more than MaxAttempts times, whatever dies,      *)
(* overlaps or is recorded late.                                           *)
THEOREM JobsAttemptsBounded == Spec => []AttemptsBounded
<1>1. Init => AttemptsBounded
  BY DEF Init, AttemptsBounded
<1>2. TypeOK /\ AttemptsBounded /\ [Next]_vars => AttemptsBounded'
  <2> SUFFICES ASSUME TypeOK, AttemptsBounded, [Next]_vars, NEW j \in DOMAIN jobs'
               PROVE  /\ jobs'[j].attempts <= MaxAttempts
                      /\ jobs'[j].status = "QUEUED" => jobs'[j].attempts < MaxAttempts
    BY DEF AttemptsBounded
  <2>1. TableStep
    BY StepOnTable
  <2>2. CASE j \notin DOMAIN jobs
    BY <2>1, <2>2, JobQueueAssumption DEF TableStep, NewJob
  <2>3. CASE j \in DOMAIN jobs
    <3>1. jobs[j] \in Job /\ jobs'[j] \in Job
      BY <2>1, <2>3, LenProperties DEF TypeOK, TableStep
    <3>2. /\ jobs[j].attempts \in Nat /\ MaxAttempts \in Nat
          /\ jobs[j].attempts <= MaxAttempts
          /\ jobs[j].status = "QUEUED" => jobs[j].attempts < MaxAttempts
      BY <2>3, <3>1, JobQueueAssumption DEF AttemptsBounded, Job
    <3>3. RowStep(j)
      BY <2>1, <2>3 DEF TableStep
    <3>4. CASE jobs'[j] = Requeued(jobs[j])
      BY <3>1, <3>2, <3>4, RequeuedIsJob
    <3>5. ASSUME NEW w \in Workers, Claimed(j, w)
          PROVE  jobs'[j].status = "RUNNING" /\ jobs'[j].attempts <= MaxAttempts
      BY <3>1, <3>2, <3>5 DEF Job, Claimed
    <3>6. ASSUME NEW w, NEW status \in {"DONE", "FAILED"}, Closed(j, w, status)
          PROVE  jobs'[j].status # "QUEUED" /\ jobs'[j].attempts = jobs[j].attempts
      BY <3>1, <3>6 DEF Job, Closed
    <3>7. ASSUME GrewOld(j)
          PROVE  jobs'[j].status = jobs[j].status /\ jobs'[j].attempts = jobs[j].attempts
      BY <3>1, <3>7 DEF Job, GrewOld
    <3>8. QED
      BY <3>2, <3>3, <3>4, <3>5, <3>6, <3>7 DEF RowStep
  <2>4. QED
    BY <2>2, <2>3
<1>3. QED
  BY <1>1, <1>2, JobsTypeCorrect, PTL DEF Spec

(* A worker has a job because it had it, or because it just claimed it.    *)
LEMMA StepOnWorkers ==
  ASSUME TypeOK, [Next]_vars, NEW w \in Workers, NEW j, Working(w, j)'
  PROVE  Working(w, j) \/ (j \in DOMAIN jobs /\ Claimed(j, w))
<1> USE DEF Working
<1>1. CASE workers' = workers
  BY <1>1
<1>2. ASSUME NEW v \in Workers, Claim(v) PROVE Working(w, j) \/ (j \in DOMAIN jobs /\ Claimed(j, w))
  <2>1. PICK i \in DOMAIN jobs :
           /\ jobs[i].status = "QUEUED" /\ workers[v].pc = "idle"
           /\ workers' = [workers EXCEPT ![v].pc = "run", ![v].job = i]
           /\ jobs' = [jobs EXCEPT ![i].status = "RUNNING", ![i].attempts = @ + 1,
                                   ![i].worker = v, ![i].old = FALSE]
    BY <1>2 DEF Claim
  <2>2. CASE w # v
    BY <2>1, <2>2 DEF TypeOK
  <2>3. CASE w = v
    <3>1. i = j
      BY <2>1, <2>3 DEF TypeOK
    <3>2. jobs[i] \in Job /\ DOMAIN jobs = 1..Len(jobs) /\ jobs \in [1..Len(jobs) -> Job]
      BY LenProperties DEF TypeOK
    <3>3. jobs'[i] = [jobs[i] EXCEPT !.status = "RUNNING", !.attempts = @ + 1,
                                     !.worker = v, !.old = FALSE]
      BY <2>1, <3>2 DEF Job
    <3>4. QED
      BY <2>1, <2>3, <3>1, <3>3 DEF Claimed
  <2>4. QED
    BY <2>2, <2>3
<1>3. ASSUME NEW v \in Workers, \/ Start(v) \/ HandlerEnds(v) \/ Finish(v) \/ Fail(v) \/ Exit(v)
                                \/ RecordFails(v) \/ Signal(v) \/ Kill(v)
      PROVE Working(w, j)
  <2>1. ASSUME NEW x \in {Off, [Off EXCEPT !.pc = "idle"]}, workers' = [workers EXCEPT ![v] = x]
        PROVE  Working(w, j)
    <3>1. x.pc \in {"off", "idle"}
      BY <2>1 DEF Off
    <3>2. w # v /\ workers'[w] = workers[w]
      BY <2>1, <3>1 DEF TypeOK
    <3>3. QED
      BY <3>2
  <2>2. CASE HandlerEnds(v)
    BY <2>2 DEF TypeOK, HandlerEnds
  <2>3. CASE Finish(v) \/ Fail(v)
    BY <2>3 DEF TypeOK, Finish, Fail, Record
  <2>4. CASE RecordFails(v)
    <3>1. CASE workers[v].pc = "finish" /\ workers' = [workers EXCEPT ![v].pc = "fail"]
      BY <3>1 DEF TypeOK
    <3>2. QED
      BY <2>1, <2>4, <3>1 DEF RecordFails
  <2>5. CASE Signal(v)
    BY <2>5 DEF TypeOK, Signal
  <2>6. QED
    BY <1>3, <2>1, <2>2, <2>3, <2>4, <2>5 DEF Start, Exit, Kill
<1>4. QED
  BY <1>1, <1>2, <1>3 DEF Next, Process, vars, RunArrives, Enqueue, Age

(* A job in hand was started less than 90 minutes ago, unless its kind     *)
(* overruns.                                                               *)
InHandIsYoung ==
  \A w \in Workers, j \in DOMAIN jobs :
    Working(w, j) /\ jobs[j].kind \notin Overruns => ~jobs[j].old

(* A row keeps its kind.                                                   *)
LEMMA KindKept ==
  ASSUME TypeOK, [Next]_vars, NEW j \in DOMAIN jobs
  PROVE  jobs'[j].kind = jobs[j].kind
<1>1. RowStep(j)
  BY StepOnTable DEF TableStep
<1>2. jobs[j] \in Job
  BY LenProperties DEF TypeOK
<1>3. Requeued(jobs[j]).kind = jobs[j].kind
  BY <1>2 DEF Requeued, Job
<1>4. QED
  BY <1>1, <1>2, <1>3 DEF RowStep, Claimed, Closed, GrewOld, Job

(* No step gives such a job a second running worker.                       *)
LEMMA ExclusiveStep ==
  ASSUME TypeOK, ExclusiveRun, InHandIsYoung, [Next]_vars
  PROVE  ExclusiveRun' /\ InHandIsYoung'
<1> SUFFICES ASSUME NEW w \in Workers, NEW j \in DOMAIN jobs', Working(w, j)',
                    jobs'[j].kind \notin Overruns
             PROVE  jobs'[j].status = "RUNNING" /\ jobs'[j].worker = w /\ ~jobs'[j].old
  BY DEF ExclusiveRun, InHandIsYoung
<1>1. TableStep
  BY StepOnTable
<1>2. CASE Working(w, j)
  <2>1. j \in DOMAIN jobs
    BY <1>2 DEF Working, TypeOK
  <2>2. /\ jobs[j].status = "RUNNING" /\ jobs[j].worker = w /\ ~jobs[j].old
        /\ jobs[j] \in Job /\ jobs[j].kind \notin Overruns
    BY <1>2, <2>1, KindKept, LenProperties DEF ExclusiveRun, InHandIsYoung, TypeOK
  <2>3. Requeued(jobs[j]) = jobs[j]
    BY <2>2, RequeuedIsJob
  <2>4. ASSUME NEW v \in Workers, NEW status, Closed(j, v, status) PROVE FALSE
    <3>1. v = w
      BY <2>1, <2>2, <2>4 DEF Closed, ExclusiveRun
    <3>2. QED
      BY <2>4, <3>1 DEF Closed, Working
  <2>5. ~GrewOld(j)
    BY <1>2, <2>2 DEF GrewOld
  <2>6. \A v \in Workers : ~Claimed(j, v)
    BY <2>2 DEF Claimed
  <2>7. QED
    BY <1>1, <2>1, <2>2, <2>3, <2>4, <2>5, <2>6 DEF TableStep, RowStep
<1>3. CASE ~Working(w, j)
  <2>1. j \in DOMAIN jobs /\ Claimed(j, w)
    BY <1>3, StepOnWorkers
  <2>2. jobs[j] \in Job
    BY <2>1, LenProperties DEF TypeOK
  <2>3. QED
    BY <2>1, <2>2 DEF Claimed, Job
<1>4. QED
  BY <1>2, <1>3

(* A job in hand of a kind that does not overrun is RUNNING under its      *)
(* worker's name: no restart takes it away, no other worker writes it.     *)
THEOREM JobsExclusiveRun == Spec => []ExclusiveRun
<1>1. Init => ExclusiveRun /\ InHandIsYoung
  BY DEF Init, ExclusiveRun, InHandIsYoung
<1>2. TypeOK /\ ExclusiveRun /\ InHandIsYoung /\ [Next]_vars
        => ExclusiveRun' /\ InHandIsYoung'
  BY ExclusiveStep
<1>3. QED
  BY <1>1, <1>2, JobsTypeCorrect, PTL DEF Spec

(* Its outcome, once shown, stays as it is.                                *)
THEOREM JobsOutcomeIsFinal == Spec => OutcomeIsFinal
<1>1. TypeOK /\ ExclusiveRun /\ [Next]_vars
        => [\A j \in DOMAIN jobs :
              jobs[j].status \in {"DONE", "FAILED"} /\ jobs[j].kind \notin Overruns
                => jobs'[j] = jobs[j]]_vars
  <2> SUFFICES ASSUME TypeOK, ExclusiveRun, [Next]_vars, NEW j \in DOMAIN jobs,
                      jobs[j].status \in {"DONE", "FAILED"}, jobs[j].kind \notin Overruns
               PROVE  jobs'[j] = jobs[j]
    OBVIOUS
  <2>1. RowStep(j)
    BY StepOnTable DEF TableStep
  <2>2. jobs[j] \in Job
    BY LenProperties DEF TypeOK
  <2>3. Requeued(jobs[j]) = jobs[j]
    BY <2>2, RequeuedIsJob
  <2>4. \A w \in Workers : ~Working(w, j) /\ ~Claimed(j, w)
    BY DEF ExclusiveRun, Claimed
  <2>5. ~GrewOld(j)
    BY DEF GrewOld
  <2>6. QED
    BY <2>1, <2>3, <2>4, <2>5 DEF RowStep, Closed
<1>2. QED
  BY <1>1, JobsTypeCorrect, JobsExclusiveRun, PTL DEF Spec, OutcomeIsFinal
=============================================================================
