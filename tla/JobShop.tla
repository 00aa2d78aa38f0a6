------------------------------ MODULE JobShop ------------------------------
(* jumanji/job_shop_env.h: one operation per active job, and the jobs that configured
   machines are at work on from the start.  Replayed episodes are left out. *)
EXTENDS Integers

CONSTANTS
  NumMachines,   \* kNumMachines
  ActiveJobs,    \* the jobs below kActiveJobs
  OtherJobs,     \* the other jobs an action can name
  Starts,        \* [ops, mask, machineJob, remaining]: the default one, or those of
                 \* job_shop_ops_* and job_shop_machines_*; ops has a [machine, duration]
                 \* for each active job, mask those of them whose operation can be started
  NoJob,         \* kNoJob
  TimeLimit      \* kTimeLimit

VARIABLES start, opMask, machineJob, remaining, completed, stepCount, reward, done
vars == <<start, opMask, machineJob, remaining, completed, stepCount, reward, done>>

Machines == 0..(NumMachines - 1)
Jobs == ActiveJobs \cup OtherJobs

Init ==
  /\ start \in Starts
  /\ opMask = start.mask /\ completed = {}
  /\ machineJob = start.machineJob /\ remaining = start.remaining
  /\ stepCount = 0 /\ reward = 0 /\ done = FALSE

Reset ==
  /\ opMask' = start.mask /\ completed' = {}
  /\ machineJob' = start.machineJob /\ remaining' = start.remaining
  /\ stepCount' = 0 /\ reward' = 0 /\ done' = FALSE
  /\ UNCHANGED start

\* Mutation: a machine that is at work can be given another job.
CanStartWhenBusy(m, job) ==
  job \in ActiveJobs \ completed /\ job \in opMask /\ start.ops[job].machine = m

CanStart(m, job) ==
  /\ machineJob[m] = NoJob
  /\ job \in ActiveJobs \ completed /\ job \in opMask /\ start.ops[job].machine = m

Step(action) ==
  LET started == {m \in Machines : action[m] # NoJob /\ CanStart(m, action[m])}
      valid == \A m \in Machines : action[m] = NoJob \/ m \in started
      job == [m \in Machines |-> IF m \in started THEN action[m] ELSE machineJob[m]]
      left == [m \in Machines |->
                 (IF m \in started THEN start.ops[action[m]].duration ELSE remaining[m])
                 - (IF job[m] = NoJob THEN 0 ELSE 1)]
      finished == {m \in Machines : job[m] # NoJob /\ left[m] = 0}
  IN  /\ ~done
      /\ opMask' = opMask \ {action[m] : m \in started}
      /\ remaining' = left
      /\ machineJob' = [m \in Machines |-> IF m \in finished THEN NoJob ELSE job[m]]
      /\ completed' = completed \cup {job[m] : m \in finished}
      /\ stepCount' = stepCount + 1
      /\ reward' = IF valid THEN -1 ELSE -10
      /\ done' = (~valid \/ ActiveJobs \subseteq completed' \/ stepCount' >= TimeLimit)
      /\ UNCHANGED start

Next == Reset \/ \E action \in [Machines -> Jobs \cup {NoJob}] : Step(action)

----------------------------------------------------------------------------
\* The machines that run job j.
Running(j) == {m \in Machines : machineJob[m] = j}

\* The machine had a job at the start, and its time for it is over.
WorkIsOver(m) == start.remaining[m] \in 1..stepCount

\* Although three arrays and the machines' clocks are kept apart, every job that could be
\* started is in exactly one place: waiting, on its machine with time left, or completed.  Any
\* other job stays on the machines that had it at the start, each for the time it had there,
\* whatever they are told to do, is completed after that, and is never started again.
JobsAccountedFor ==
  /\ \A j \in start.mask :
       /\ IF j \in opMask \cup completed THEN Running(j) = {} ELSE \E m \in Machines : Running(j) = {m}
       /\ ~(j \in opMask /\ j \in completed)
       /\ \A m \in Running(j) : LET op == start.ops[j] IN
            op.machine = m /\ remaining[m] < op.duration /\ (op.duration > 0 => remaining[m] > 0)
  /\ \A j \in Jobs \ start.mask : LET before == {m \in Machines : start.machineJob[m] = j} IN
       /\ Running(j) = {m \in before : ~WorkIsOver(m)}
       /\ \A m \in Running(j) : remaining[m] = start.remaining[m] - stepCount
       /\ j \in completed <=> \E m \in before : WorkIsOver(m)

\* The inductive invariant.
IInv ==
  /\ start \in Starts /\ opMask \subseteq start.mask /\ completed \subseteq Jobs
  /\ machineJob \in [Machines -> Jobs \cup {NoJob}] /\ remaining \in [Machines -> Int]
  /\ stepCount \in Nat
  /\ JobsAccountedFor
============================================================================
