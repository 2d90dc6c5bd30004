--------------------------- MODULE AiPipeline_proofs ---------------------------
(***************************************************************************)
(* For any number of events, handler runs, attempts, stalls and faults:        *)
(* AiPipeline implements AppliedOnce, its variables keep their types, and a   *)
(* stamped row has a job in the queue.                                        *)
(***************************************************************************)
EXTENDS AiPipeline, FiniteSetTheorems, TLAPS

-----------------------------------------------------------------------------
(* An event has one audit row once its execution is terminal, and none before. *)
Ledger ==
  /\ execution = [e \in Events |-> execution[e]]
  /\ audit = [e \in Events |-> audit[e]]
  /\ \A e \in Events :
       /\ execution[e] = [status |-> execution[e].status, job |-> execution[e].job,
                          attempt |-> execution[e].attempt]
       /\ execution[e].status \in {"none", "running", "succeeded", "failed"}
       /\ audit[e] = IF Terminal(e) THEN 1 ELSE 0

(* What a handler run works on, and what a call is about, is a job.           *)
Traced ==
  /\ run = [w \in Slots |-> run[w]]
  /\ \A w \in Slots :
       \/ run[w] = Idle
       \/ /\ run[w] = [stage |-> run[w].stage, job |-> run[w].job,
                       attempt |-> run[w].attempt, stalls |-> run[w].stalls]
          /\ run[w].stage \in {"asking", "ready", "submitting"}
          /\ run[w].job \in JobIds
  /\ \A c \in calls : c.job \in JobIds

-----------------------------------------------------------------------------
LEMMA LedgerInit == Init => Ledger /\ Traced /\ Promise!AppliedInit
BY DEF Init, Ledger, Traced, Terminal, Idle, Promise!AppliedInit

-----------------------------------------------------------------------------
(* Calls are about jobs.                                                     *)

LEMMA EventOfJob ==
  ASSUME NEW j \in JobIds
  PROVE  EventOf(j) \in Events
BY DEF JobIds, EventOf

(* A run that is dropped, or that goes on with its job, leaves the rest.      *)
LEMMA TracedStep ==
  ASSUME Traced, [Next]_vars
  PROVE  Traced'
<1> USE DEF Traced
<1>1. ASSUME NEW w \in Slots, NEW j \in JobIds, Take(w, j)
      PROVE  Traced'
  BY <1>1 DEF Take, Posted
<1>2. ASSUME NEW w \in Slots, CallAI(w)
      PROVE  Traced'
  <2>1. run[w].stage = "ready" /\ run[w] # Idle
    BY <1>2 DEF CallAI, Idle
  <2>2. PICK answer \in Answers :
          \/ /\ run' = [run EXCEPT ![w].stage = "submitting"]
             /\ calls' = calls \cup {Posted(w, run[w], answer)}
          \/ run' = [run EXCEPT ![w] = Idle] /\ UNCHANGED calls
    BY <1>2 DEF CallAI, Failing
  <2>3. \A c \in calls' : c.job \in JobIds
    BY <2>1, <2>2 DEF Posted
  <2>4. CASE run' = [run EXCEPT ![w].stage = "submitting"]
    BY <2>1, <2>3, <2>4 DEF Idle
  <2>5. CASE run' = [run EXCEPT ![w] = Idle]
    BY <2>3, <2>5
  <2> QED
    BY <2>2, <2>4, <2>5
<1>3. ASSUME NEW w \in Slots, TimesOut(w)
      PROVE  Traced'
  BY <1>3 DEF TimesOut, Failing, Idle
<1>4. ASSUME NEW c \in calls, GetAIInput(c)
      PROVE  Traced'
  <2>1. calls' \subseteq calls
    BY <1>4 DEF GetAIInput
  <2>2. CASE UNCHANGED run
    BY <2>1, <2>2
  <2>3. ASSUME NEW w \in Slots, run' = [run EXCEPT ![w] = Idle]
        PROVE  Traced'
    BY <2>1, <2>3
  <2>4. ASSUME NEW w \in Receiver(c), run' = [run EXCEPT ![w].stage = "ready"]
        PROVE  Traced'
    <3>1. w \in Slots /\ run[w].stage \in {"asking", "submitting"} /\ run[w] # Idle
      BY <2>4 DEF Receiver, Waiting, Idle
    <3> QED
      BY <2>1, <2>4, <3>1 DEF Idle
  <2> QED
    BY <1>4, <2>2, <2>3, <2>4 DEF GetAIInput, Completing, Receiver
<1>5. ASSUME NEW c \in calls, SubmitAIResult(c)
      PROVE  Traced'
  BY <1>5 DEF SubmitAIResult, Completing, Receiver, Idle
<1>6. ASSUME NEW c \in calls, AnswerLost(c) \/ CallLost(c) \/ CallRefused(c)
      PROVE  Traced'
  BY <1>6 DEF AnswerLost, CallLost, CallRefused, Failing, Receiver, Idle
<1>7. CASE WorkerStops
  BY <1>7 DEF WorkerStops, Idle
<1>8. CASE UNCHANGED <<run, calls>>
  BY <1>8
<1> QED
  BY <1>1, <1>2, <1>3, <1>4, <1>5, <1>6, <1>7, <1>8
  DEF Next, vars, Dispatch, HandlerStep, CoreStep, Raise, Drain, Enqueue, Stamp, DispatchFails,
      DispatcherStops, BackoffElapses, Stalls, dispatcherVars, workerVars, coreVars

-----------------------------------------------------------------------------
(* What core-service does with a call.                                       *)

(* claimExecution leaves a terminal execution and the audit trail alone.       *)
LEMMA ClaimKeeps ==
  ASSUME Ledger, NEW c, c.job \in JobIds, execution' = Claimed(c), audit' = audit
  PROVE  Ledger' /\ UNCHANGED Promise!appliedVars
<1> DEFINE e == EventOf(c.job)
<1>1. e \in Events
  BY EventOfJob
<1>2. CASE Terminal(e)
  BY <1>2 DEF Ledger, Claimed, Terminal, Promise!appliedVars
<1>3. CASE ~Terminal(e)
  <2>1. execution' = [execution EXCEPT ![e] = [status |-> "running", job |-> c.job,
                                   attempt |-> Larger(execution[e].attempt, c.attempt)]]
    BY <1>3 DEF Claimed
  <2>2. \A f \in Events : Terminal(f)' = Terminal(f)
    BY <1>1, <1>3, <2>1 DEF Ledger, Terminal
  <2>3. Ledger'
    BY <1>1, <1>3, <2>1, <2>2 DEF Ledger
  <2>4. \A f \in Events : Terminal(f) => execution'[f] = execution[f]
    BY <1>1, <1>3, <2>1 DEF Ledger
  <2> QED
    BY <2>2, <2>3, <2>4 DEF Promise!appliedVars
<1> QED
  BY <1>2, <1>3

(* completeExecution applies the first result, with its audit row.             *)
LEMMA CompleteApplies ==
  ASSUME Ledger, NEW e \in Events, CompleteExecution(e),
         NEW s \in {"succeeded", "failed"},
         execution' = [execution EXCEPT ![e].status = s],
         audit' = [audit EXCEPT ![e] = @ + 1]
  PROVE  Ledger' /\ Promise!AppliedNext
<1>1. execution'[e].status = s /\ \A f \in Events \ {e} : execution'[f] = execution[f]
  BY DEF Ledger
<1>2. ~Terminal(e) /\ Terminal(e)'
  BY <1>1 DEF CompleteExecution, Terminal
<1>3. \A f \in Events \ {e} : Terminal(f)' = Terminal(f)
  BY <1>1 DEF Terminal
<1>4. audit'[e] = 1 /\ \A f \in Events \ {e} : audit'[f] = audit[f]
  BY <1>2 DEF Ledger
<1>5. Ledger'
  BY <1>1, <1>2, <1>3, <1>4 DEF Ledger
<1>6. Promise!Apply(e, s)
  BY <1>1, <1>2, <1>3, <1>4 DEF Ledger, Promise!Apply
<1> QED
  BY <1>5, <1>6 DEF Promise!AppliedNext

LEMMA LedgerStep ==
  ASSUME Ledger, Traced, [Next]_vars
  PROVE  Ledger' /\ [Promise!AppliedNext]_(Promise!appliedVars)
<1>1. ASSUME NEW c \in calls, GetAIInput(c)
      PROVE  Ledger' /\ UNCHANGED Promise!appliedVars
  BY <1>1, ClaimKeeps DEF Traced, GetAIInput
<1>2. CASE UNCHANGED coreVars
  BY <1>2 DEF coreVars, Ledger, Terminal, Promise!appliedVars
<1>3. ASSUME NEW c \in calls, SubmitAIResult(c)
      PROVE  Ledger' /\ [Promise!AppliedNext]_(Promise!appliedVars)
  <2>1. CASE CompleteExecution(EventOf(c.job))
    BY <1>3, <2>1, CompleteApplies, EventOfJob DEF Traced, SubmitAIResult, StatusFor
  <2>2. CASE ~CompleteExecution(EventOf(c.job))
    BY <1>2, <1>3, <2>2 DEF SubmitAIResult
  <2> QED
    BY <2>1, <2>2
<1>4. ASSUME NEW c \in calls, AnswerLost(c)
      PROVE  Ledger' /\ [Promise!AppliedNext]_(Promise!appliedVars)
  <2>1. CASE c.ask = "input" /\ execution' = Claimed(c) /\ UNCHANGED audit
    BY <2>1, ClaimKeeps DEF Traced
  <2>2. CASE c.ask # "input"
    BY <1>4, <2>2, CompleteApplies, EventOfJob DEF Traced, AnswerLost, StatusFor
  <2> QED
    BY <1>4, <2>1, <2>2 DEF AnswerLost, ResultCall
<1> QED
  BY <1>1, <1>2, <1>3, <1>4
  DEF Next, vars, Dispatch, HandlerStep, CoreStep, Raise, Drain, Enqueue, Stamp, DispatchFails,
      DispatcherStops, Take, CallAI, TimesOut, BackoffElapses, Stalls, WorkerStops, CallLost,
      CallRefused, coreVars

-----------------------------------------------------------------------------
(* PromiseKept for any number of events, slots and faults: however jobs are    *)
(* duplicated, retried or delayed, an event gets one result, for good, and one *)
(* audit row (claimExecution and completeExecution).                          *)
THEOREM ImplementsAppliedOnce == Spec => PromiseKept
<1>1. Ledger /\ Traced /\ [Next]_vars =>
        (Ledger /\ Traced)' /\ [Promise!AppliedNext]_(Promise!appliedVars)
  BY LedgerStep, TracedStep
<1> QED
  BY <1>1, LedgerInit, PTL DEF Spec, PromiseKept, Promise!AppliedSpec

-----------------------------------------------------------------------------
(* The dispatcher and the jobs it mints.                                      *)

(* A row is in one place: waiting for a drain, in the batch, being stamped or  *)
(* published.                                                                *)
Dispatching ==
  /\ Historic \subseteq raised
  /\ raised \subseteq Events
  /\ published \subseteq raised \ Historic
  /\ batch \subseteq raised \ (Historic \cup published)
  /\ stamping \subseteq raised \ (Historic \cup published \cup batch)
  /\ \A e, f \in stamping : e = f
  /\ faults \in 0..MaxFaults

MintedUpTo(e, n) == \A k \in 1..(MaxFaults + 1) : (jobs[<<e, k>>].state # "none") <=> k <= n

Handed(e) == e \in published \cup stamping

(* The jobs of an event are numbered without a gap, and every one of them      *)
(* but the last has cost a fault: JobIds has room for the next.               *)
MintedInOrder ==
  \A e \in Events : \E n \in 0..(MaxFaults + 1) :
    /\ MintedUpTo(e, n)
    /\ Handed(e) => 1 <= n /\ n <= faults + 1
    /\ ~Handed(e) => n <= faults

(* A job that may still be taken has an attempt left, and a run is one of      *)
(* those attempts.                                                           *)
JobsTyped ==
  /\ jobs \in [JobIds -> Job]
  /\ \A j \in JobIds : jobs[j].state \in {"none", "waiting", "active", "delayed"}
                         => jobs[j].made < MaxAttempts

WorkerTyped ==
  /\ JobsTyped
  /\ run \in [Slots -> Run \cup {Idle}]
  /\ calls \subseteq Call

ExecutionTyped == execution \in [Events -> Execution]

QueueInv == Dispatching /\ MintedInOrder /\ WorkerTyped

-----------------------------------------------------------------------------
LEMMA QueueInit == Init => QueueInv /\ ExecutionTyped
<1> SUFFICES ASSUME Init
             PROVE  QueueInv /\ ExecutionTyped
  OBVIOUS
<1> USE PipelineAssumption DEF Init
<1>1. \A e \in Events, k \in 1..(MaxFaults + 1) : <<e, k>> \in JobIds
  BY DEF JobIds
<1>2. NoJob \in Job /\ NoJob.state = "none" /\ NoJob.made < MaxAttempts
  BY DEF NoJob, Job
<1>3. Dispatching
  BY DEF Dispatching
<1>4. ASSUME NEW e \in Events
      PROVE  MintedUpTo(e, 0)
  <2>1. \A k \in 1..(MaxFaults + 1) : jobs[<<e, k>>].state = "none"
    BY <1>1, <1>2
  <2>2. \A k \in 1..(MaxFaults + 1) : ~(k <= 0)
    OBVIOUS
  <2> QED
    BY <2>1, <2>2 DEF MintedUpTo
<1>5. MintedInOrder
  BY <1>4 DEF MintedInOrder, Handed
<1>6. WorkerTyped
  BY <1>2 DEF WorkerTyped, JobsTyped
<1>7. \A e \in Events : <<e, 1>> \in JobIds
  BY <1>1
<1>8. ExecutionTyped
  BY <1>7 DEF ExecutionTyped, Execution
<1> QED
  BY <1>3, <1>5, <1>6, <1>8 DEF QueueInv

(* The number the next job of an event gets.                                  *)
LEMMA MintedCounts ==
  ASSUME NEW e \in Events, NEW n \in 0..(MaxFaults + 1), MintedUpTo(e, n)
  PROVE  Minted(e) = n
<1> DEFINE S == {j \in JobIds : EventOf(j) = e /\ jobs[j].state # "none"}
<1> DEFINE f == [k \in 1..n |-> <<e, k>>]
<1> USE PipelineAssumption
<1>1. \A k \in 1..n : k \in 1..(MaxFaults + 1) /\ <<e, k>> \in S
  BY DEF MintedUpTo, JobIds, EventOf
<1>2. \A j \in S : \E k \in 1..n : j = <<e, k>>
  BY DEF MintedUpTo, JobIds, EventOf
<1>3. f \in [1..n -> S]
  BY <1>1
<1>4. \A k, l \in 1..n : f[k] = f[l] => k = l
  OBVIOUS
<1>5. \A j \in S : \E k \in 1..n : f[k] = j
  BY <1>2
<1> HIDE DEF f, S
<1>6. f \in Injection(1..n, S) /\ f \in Surjection(1..n, S)
  BY <1>3, <1>4, <1>5 DEF Injection, Surjection, IsInjective
<1>7. ExistsBijection(1..n, S)
  BY <1>6 DEF ExistsBijection, Bijection
<1>8. Cardinality(S) = n
  BY <1>7, FS_CountingElements
<1> QED
  BY <1>8 DEF S, Minted

-----------------------------------------------------------------------------
(* What the steps do to the jobs.                                             *)

LEMMA EnqueueMints ==
  ASSUME QueueInv, NEW e \in Events, Enqueue(e)
  PROVE  QueueInv' /\ JobsOf(e)' # {}
<1> USE PipelineAssumption
<1>1. /\ e \in batch /\ e \in raised /\ stamping = {} /\ stamping' = {e} /\ batch' = batch \ {e}
      /\ UNCHANGED <<raised, published, faults, run, calls>>
  BY DEF Enqueue, IsNext, QueueInv, Dispatching
<1>2. ~Handed(e) /\ e \notin Historic
  BY <1>1 DEF QueueInv, Dispatching, Handed
<1>3. PICK n \in 0..(MaxFaults + 1) : MintedUpTo(e, n) /\ n <= faults
  BY <1>2, Zenon DEF QueueInv, MintedInOrder
<1>4. n + 1 \in 1..(MaxFaults + 1) /\ faults \in 0..MaxFaults
  BY <1>3 DEF QueueInv, Dispatching
<1> DEFINE j == <<e, n + 1>>
<1> DEFINE new == [NoJob EXCEPT !.state = "waiting"]
<1>5. j \in JobIds
  BY <1>4 DEF JobIds
<1>6. jobs' = [jobs EXCEPT ![j] = new]
  BY <1>3, MintedCounts DEF Enqueue, Added
<1>7. new \in Job /\ new.state = "waiting" /\ new.made = 0
  BY DEF NoJob, Job
<1> HIDE DEF new
<1>8. jobs'[j] = new /\ \A i \in JobIds \ {j} : jobs'[i] = jobs[i]
  BY <1>5, <1>6 DEF QueueInv, WorkerTyped, JobsTyped
<1>9. WorkerTyped'
  BY <1>1, <1>5, <1>6, <1>7, <1>8 DEF QueueInv, WorkerTyped, JobsTyped
<1>10. Dispatching'
  BY <1>1, <1>2 DEF QueueInv, Dispatching
<1>11. MintedUpTo(e, n + 1)'
  <2>1. \A k \in 1..(MaxFaults + 1) : <<e, k>> \in JobIds /\ (k # n + 1 => <<e, k>> # j)
    BY DEF JobIds
  <2>2. \A k \in 1..(MaxFaults + 1) : k # n + 1 => jobs'[<<e, k>>] = jobs[<<e, k>>]
    BY <2>1, <1>8
  <2>3. jobs'[<<e, n + 1>>].state # "none"
    BY <1>7, <1>8
  <2>4. \A k \in 1..(MaxFaults + 1) : k # n + 1 => (k <= n + 1 <=> k <= n)
    BY <1>3
  <2> QED
    BY <1>3, <2>2, <2>3, <2>4 DEF MintedUpTo
<1>12. ASSUME NEW f \in Events, f # e, NEW m \in 0..(MaxFaults + 1), MintedUpTo(f, m)
       PROVE  MintedUpTo(f, m)'
  <2>1. \A k \in 1..(MaxFaults + 1) : <<f, k>> \in JobIds \ {j}
    BY <1>12 DEF JobIds
  <2> QED
    BY <1>8, <1>12, <2>1 DEF MintedUpTo
<1>13. \A f \in Events \ {e} : Handed(f)' <=> Handed(f)
  BY <1>1 DEF Handed
<1>14. Handed(e)' /\ n + 1 \in 0..(MaxFaults + 1) /\ 1 <= n + 1 /\ n + 1 <= faults' + 1
  BY <1>1, <1>3, <1>4 DEF Handed
<1>15. MintedInOrder'
  <2> SUFFICES ASSUME NEW f \in Events
               PROVE  \E m \in 0..(MaxFaults + 1) :
                        /\ MintedUpTo(f, m)'
                        /\ Handed(f)' => 1 <= m /\ m <= faults' + 1
                        /\ ~Handed(f)' => m <= faults'
    BY DEF MintedInOrder
  <2>1. CASE f = e
    BY <2>1, <1>11, <1>14
  <2>2. CASE f # e
    <3>1. PICK m \in 0..(MaxFaults + 1) :
            /\ MintedUpTo(f, m)
            /\ Handed(f) => 1 <= m /\ m <= faults + 1
            /\ ~Handed(f) => m <= faults
      BY DEF QueueInv, MintedInOrder
    <3>2. MintedUpTo(f, m)' /\ (Handed(f)' <=> Handed(f)) /\ faults' = faults
      BY <1>1, <1>12, <1>13, <2>2, <3>1
    <3> QED
      BY <3>1, <3>2
  <2> QED
    BY <2>1, <2>2
<1> QED
  BY <1>5, <1>7, <1>8, <1>9, <1>10, <1>15 DEF QueueInv, JobsOf, EventOf

(* No job is minted by a step of the worker, and none is forgotten.            *)
JobsKept == \A j \in JobIds : (jobs'[j].state # "none") <=> (jobs[j].state # "none")

LEMMA OneMore ==
  ASSUME NEW m \in Nat, NEW n \in Nat, NEW l \in Nat, l <= m + 1, m <= n
  PROVE  l <= n + 1
OBVIOUS

(* A row whose dispatch is undone costs a fault.                              *)
LEMMA MintedKept ==
  ASSUME QueueInv, JobsKept, faults' \in Nat, faults <= faults',
         \A e \in Events : Handed(e)' => Handed(e),
         \A e \in Events : Handed(e) /\ ~Handed(e)' => faults + 1 <= faults'
  PROVE  MintedInOrder'
<1> SUFFICES ASSUME NEW e \in Events
             PROVE  \E n \in 0..(MaxFaults + 1) :
                      /\ MintedUpTo(e, n)'
                      /\ Handed(e)' => 1 <= n /\ n <= faults' + 1
                      /\ ~Handed(e)' => n <= faults'
  BY DEF MintedInOrder
<1>1. PICK n \in 0..(MaxFaults + 1) :
        /\ MintedUpTo(e, n)
        /\ Handed(e) => 1 <= n /\ n <= faults + 1
        /\ ~Handed(e) => n <= faults
  BY DEF QueueInv, MintedInOrder
<1>2. \A k \in 1..(MaxFaults + 1) : <<e, k>> \in JobIds
  BY DEF JobIds
<1>3. MintedUpTo(e, n)'
  BY <1>1, <1>2 DEF MintedUpTo, JobsKept
<1>4. faults \in Nat /\ n \in Nat
  BY DEF QueueInv, Dispatching
<1>5. ASSUME Handed(e)'
      PROVE  1 <= n /\ n <= faults' + 1
  <2>1. Handed(e)
    BY <1>5
  <2>2. 1 <= n /\ n <= faults + 1
    BY <1>1, <2>1
  <2>3. n <= faults' + 1
    BY <1>4, <2>2, OneMore
  <2> QED
    BY <2>2, <2>3
<1>6. ASSUME ~Handed(e)'
      PROVE  n <= faults'
  <2>1. CASE Handed(e)
    BY <1>1, <1>4, <1>6, <2>1
  <2>2. CASE ~Handed(e)
    BY <1>1, <1>4, <2>2
  <2> QED
    BY <2>1, <2>2
<1> QED
  BY <1>3, <1>5, <1>6

LEMMA JobReplaced ==
  ASSUME WorkerTyped, NEW i \in JobIds, jobs' \in [JobIds -> Job],
         \A j \in JobIds \ {i} : jobs'[j] = jobs[j],
         jobs[i].state # "none", jobs'[i].state # "none",
         jobs'[i].state \in {"waiting", "active", "delayed"} => jobs'[i].made < MaxAttempts
  PROVE  JobsTyped' /\ JobsKept
<1>1. ASSUME NEW j \in JobIds
      PROVE  /\ jobs'[j].state \in {"none", "waiting", "active", "delayed"}
                  => jobs'[j].made < MaxAttempts
             /\ (jobs'[j].state # "none") <=> (jobs[j].state # "none")
  <2>1. CASE j = i
    BY <2>1
  <2>2. CASE j # i
    BY <2>2 DEF WorkerTyped, JobsTyped
  <2> QED
    BY <2>1, <2>2
<1> QED
  BY <1>1 DEF JobsTyped, JobsKept

LEMMA JobsUnchanged ==
  ASSUME WorkerTyped, UNCHANGED jobs
  PROVE  /\ JobsTyped'
         /\ JobsKept
BY DEF WorkerTyped, JobsTyped, JobsKept

(* A run that ends settles its job, if it still owns it, and counts its        *)
(* attempt.                                                                  *)
LEMMA SettledKeeps ==
  ASSUME WorkerTyped, NEW w \in Slots, run[w] \in Run,
         NEW state \in {"completed", "failed", "delayed"},
         state = "delayed" => Retried(jobs[run[w].job]),
         jobs' = Settled(w, state)
  PROVE  JobsTyped' /\ JobsKept
<1> USE PipelineAssumption
<1> DEFINE i == run[w].job
<1>1. i \in JobIds
  BY DEF Run
<1>2. jobs \in [JobIds -> Job]
  BY DEF WorkerTyped, JobsTyped
<1>3. CASE ~Owns(w)
  BY <1>3, JobsUnchanged DEF Settled
<1>4. CASE Owns(w)
  <2>1. jobs[i].state = "active" /\ jobs[i].made < MaxAttempts
    BY <1>1, <1>4 DEF WorkerTyped, JobsTyped, Owns
  <2>2. jobs' = [jobs EXCEPT ![i].state = state, ![i].made = @ + 1, ![i].owner = "nobody"]
    BY <1>4 DEF Settled
  <2> HIDE DEF i
  <2>3. /\ jobs' \in [JobIds -> Job] /\ \A j \in JobIds \ {i} : jobs'[j] = jobs[j]
        /\ jobs'[i].state = state /\ jobs'[i].made = jobs[i].made + 1
    BY <1>1, <1>2, <2>1, <2>2 DEF Job
  <2>4. state = "delayed" => jobs[i].made + 1 < MaxAttempts
    BY DEF Retried, i
  <2> QED
    BY <1>1, <2>1, <2>3, <2>4, JobReplaced
<1> QED
  BY <1>3, <1>4

LEMMA FailingKeeps ==
  ASSUME WorkerTyped, NEW w \in Slots, run[w] \in Run, NEW kind, Failing(w, kind)
  PROVE  /\ JobsTyped'
         /\ JobsKept
         /\ run' \in [Slots -> Run \cup {Idle}]
<1> DEFINE state == IF kind = "temporary" /\ Retried(jobs[run[w].job]) THEN "delayed" ELSE "failed"
<1>1. jobs' = Settled(w, state) /\ run' = [run EXCEPT ![w] = Idle]
  BY DEF Failing
<1>2. state \in {"completed", "failed", "delayed"}
  OBVIOUS
<1>3. state = "delayed" => Retried(jobs[run[w].job])
  OBVIOUS
<1>4. run' \in [Slots -> Run \cup {Idle}]
  BY <1>1 DEF WorkerTyped, JobsTyped
<1> HIDE DEF state
<1> QED
  BY <1>1, <1>2, <1>3, <1>4, SettledKeeps

LEMMA CompletingKeeps ==
  ASSUME WorkerTyped, NEW w \in Slots, run[w] \in Run, Completing(w)
  PROVE  /\ JobsTyped'
         /\ JobsKept
         /\ run' \in [Slots -> Run \cup {Idle}]
<1>1. jobs' = Settled(w, "completed") /\ run' = [run EXCEPT ![w] = Idle]
  BY DEF Completing
<1>2. run' \in [Slots -> Run \cup {Idle}]
  BY <1>1 DEF WorkerTyped, JobsTyped
<1> QED
  BY <1>1, <1>2, SettledKeeps

(* A slot that waits for an answer, or is ready, has a run.                    *)
LEMMA Running ==
  ASSUME WorkerTyped, NEW w \in Slots, Waiting(w) \/ run[w].stage = "ready"
  PROVE  run[w] \in Run
BY DEF WorkerTyped, JobsTyped, Waiting, Idle

-----------------------------------------------------------------------------
(* The steps of the worker and of core-service keep the types.                 *)

LEMMA WorkerStep ==
  ASSUME QueueInv, [Next]_vars, \A e \in Events : ~Enqueue(e)
  PROVE  WorkerTyped' /\ JobsKept
<1> USE PipelineAssumption
<1>1. WorkerTyped
  BY DEF QueueInv
<1>11. jobs \in [JobIds -> Job]
  BY <1>1 DEF WorkerTyped, JobsTyped
<1>2. ASSUME NEW w \in Slots, NEW j \in JobIds, Take(w, j)
      PROVE  WorkerTyped' /\ JobsKept
  <2> DEFINE r == [stage |-> "asking", job |-> j, attempt |-> jobs[j].made + 1,
                   stalls |-> jobs[j].stalls]
  <2>1. jobs[j] \in Job /\ jobs[j].made < MaxAttempts /\ jobs[j].state = "waiting"
    BY <1>1, <1>2 DEF WorkerTyped, JobsTyped, Take
  <2>2. r \in Run
    BY <2>1 DEF Job, Run
  <2>3. jobs' = [jobs EXCEPT ![j].state = "active", ![j].owner = w]
    BY <1>2 DEF Take
  <2>4. /\ jobs' \in [JobIds -> Job] /\ \A i \in JobIds \ {j} : jobs'[i] = jobs[i]
        /\ jobs'[j].state = "active" /\ jobs'[j].made = jobs[j].made
    BY <1>11, <2>3 DEF Job
  <2>5. run' = [run EXCEPT ![w] = r] /\ calls' = calls \cup {Posted(w, r, "input")}
    BY <1>2 DEF Take
  <2>6. Posted(w, r, "input") \in Call
    BY <2>2 DEF Posted, Run, Call
  <2> HIDE DEF r
  <2>7. JobsTyped' /\ JobsKept
    BY <1>1, <2>1, <2>4, JobReplaced
  <2>8. run' \in [Slots -> Run \cup {Idle}] /\ calls' \subseteq Call
    BY <1>1, <2>2, <2>5, <2>6 DEF WorkerTyped, JobsTyped
  <2> QED
    BY <2>7, <2>8 DEF WorkerTyped, JobsTyped
<1>3. ASSUME NEW w \in Slots, CallAI(w)
      PROVE  WorkerTyped' /\ JobsKept
  <2>1. run[w] \in Run /\ run[w].stage = "ready"
    BY <1>1, <1>3, Running DEF CallAI
  <2>2. PICK answer \in Answers :
          \/ /\ answer \in ResultCall
             /\ run' = [run EXCEPT ![w].stage = "submitting"]
             /\ calls' = calls \cup {Posted(w, run[w], answer)}
             /\ UNCHANGED jobs
          \/ Failing(w, answer) /\ UNCHANGED calls
    BY <1>3 DEF CallAI
  <2>3. CASE Failing(w, answer) /\ UNCHANGED calls
    BY <1>1, <2>1, <2>3, FailingKeeps DEF WorkerTyped
  <2>4. ASSUME answer \in ResultCall, run' = [run EXCEPT ![w].stage = "submitting"],
               calls' = calls \cup {Posted(w, run[w], answer)}, UNCHANGED jobs
        PROVE  WorkerTyped' /\ JobsKept
    <3>1. Posted(w, run[w], answer) \in Call
      BY <2>1, <2>4 DEF Posted, Run, Call
    <3>2. [run[w] EXCEPT !.stage = "submitting"] \in Run
      BY <2>1 DEF Run
    <3>3. run' \in [Slots -> Run \cup {Idle}]
      BY <1>1, <2>4, <3>2 DEF WorkerTyped
    <3> QED
      BY <1>1, <2>4, <3>1, <3>3, JobsUnchanged DEF WorkerTyped
  <2> QED
    BY <2>2, <2>3, <2>4
<1>4. ASSUME NEW w \in Slots, TimesOut(w)
      PROVE  WorkerTyped' /\ JobsKept
  BY <1>1, <1>4, Running, FailingKeeps DEF TimesOut, WorkerTyped
<1>5. ASSUME NEW j \in JobIds, BackoffElapses(j)
      PROVE  WorkerTyped' /\ JobsKept
  <2>1. jobs[j] \in Job /\ jobs[j].made < MaxAttempts /\ jobs[j].state = "delayed"
    BY <1>1, <1>5 DEF WorkerTyped, JobsTyped, BackoffElapses
  <2>2. jobs' = [jobs EXCEPT ![j].state = "waiting"]
    BY <1>5 DEF BackoffElapses
  <2>3. /\ jobs' \in [JobIds -> Job] /\ \A i \in JobIds \ {j} : jobs'[i] = jobs[i]
        /\ jobs'[j].state = "waiting" /\ jobs'[j].made = jobs[j].made
    BY <1>11, <2>2 DEF Job
  <2>4. JobsTyped' /\ JobsKept
    BY <1>1, <2>1, <2>3, JobReplaced
  <2> QED
    BY <1>1, <1>5, <2>4 DEF WorkerTyped, BackoffElapses
<1>6. ASSUME NEW j \in JobIds, Stalls(j)
      PROVE  WorkerTyped' /\ JobsKept
  <2>1. jobs[j] \in Job /\ jobs[j].made < MaxAttempts /\ jobs[j].state = "active"
    BY <1>1, <1>6 DEF WorkerTyped, JobsTyped, Stalls
  <2>2. /\ jobs' \in [JobIds -> Job] /\ \A i \in JobIds \ {j} : jobs'[i] = jobs[i]
        /\ jobs'[j].state \in {"waiting", "failed"} /\ jobs'[j].made = jobs[j].made
    <3>1. CASE jobs[j].stalls < MaxStalls
      <4>1. jobs' = [jobs EXCEPT ![j].state = "waiting", ![j].stalls = @ + 1,
                                 ![j].owner = "nobody"]
        BY <1>6, <3>1 DEF Stalls
      <4> QED
        BY <1>11, <2>1, <3>1, <4>1 DEF Job
    <3>2. CASE ~(jobs[j].stalls < MaxStalls)
      <4>1. jobs' = [jobs EXCEPT ![j].state = "failed", ![j].owner = "nobody"]
        BY <1>6, <3>2 DEF Stalls
      <4> QED
        BY <1>11, <4>1 DEF Job
    <3> QED
      BY <3>1, <3>2
  <2>4. JobsTyped' /\ JobsKept
    BY <1>1, <2>1, <2>2, JobReplaced
  <2> QED
    BY <1>1, <1>6, <2>4 DEF WorkerTyped, Stalls
<1>7. CASE WorkerStops
  <2>1. /\ jobs' = [j \in JobIds |-> [jobs[j] EXCEPT !.owner = "nobody"]]
        /\ run' = [w \in Slots |-> Idle] /\ UNCHANGED calls
    BY <1>7 DEF WorkerStops
  <2>2. \A j \in JobIds : /\ jobs'[j] \in Job
                          /\ jobs'[j].state = jobs[j].state
                          /\ jobs'[j].made = jobs[j].made
    BY <1>1, <2>1 DEF WorkerTyped, JobsTyped, Job
  <2>3. JobsTyped'
    BY <1>1, <2>1, <2>2 DEF WorkerTyped, JobsTyped
  <2> QED
    BY <1>1, <2>1, <2>2, <2>3 DEF WorkerTyped, JobsKept
<1>8. ASSUME NEW c \in calls, GetAIInput(c)
      PROVE  WorkerTyped' /\ JobsKept
  <2>1. calls' \subseteq Call
    BY <1>1, <1>8 DEF GetAIInput, WorkerTyped
  <2>2. CASE UNCHANGED <<run, jobs>>
    BY <1>1, <2>1, <2>2, JobsUnchanged DEF WorkerTyped
  <2>3. ASSUME NEW w \in Receiver(c), Completing(w)
        PROVE  WorkerTyped' /\ JobsKept
    BY <1>1, <2>1, <2>3, Running, CompletingKeeps DEF WorkerTyped, Receiver
  <2>4. ASSUME NEW w \in Receiver(c), run' = [run EXCEPT ![w].stage = "ready"], UNCHANGED jobs
        PROVE  WorkerTyped' /\ JobsKept
    <3>1. w \in Slots /\ run[w] \in Run
      BY <1>1, Running DEF Receiver
    <3>2. [run[w] EXCEPT !.stage = "ready"] \in Run
      BY <3>1 DEF Run
    <3>3. run' \in [Slots -> Run \cup {Idle}]
      BY <1>1, <2>4, <3>1, <3>2 DEF WorkerTyped
    <3> QED
      BY <1>1, <2>1, <2>4, <3>3, JobsUnchanged DEF WorkerTyped
  <2> QED
    BY <1>8, <2>2, <2>3, <2>4 DEF GetAIInput
<1>9. ASSUME NEW c \in calls, SubmitAIResult(c) \/ AnswerLost(c) \/ CallLost(c) \/ CallRefused(c)
      PROVE  WorkerTyped' /\ JobsKept
  <2>1. calls' \subseteq Call
    BY <1>1, <1>9 DEF SubmitAIResult, AnswerLost, CallLost, CallRefused, WorkerTyped
  <2>2. CASE UNCHANGED <<run, jobs>>
    BY <1>1, <2>1, <2>2, JobsUnchanged DEF WorkerTyped
  <2>3. ASSUME NEW w \in Receiver(c), Completing(w)
        PROVE  WorkerTyped' /\ JobsKept
    BY <1>1, <2>1, <2>3, Running, CompletingKeeps DEF WorkerTyped, Receiver
  <2>4. ASSUME NEW w \in Receiver(c), NEW kind, Failing(w, kind)
        PROVE  WorkerTyped' /\ JobsKept
    BY <1>1, <2>1, <2>4, Running, FailingKeeps DEF WorkerTyped, Receiver
  <2> QED
    BY <1>9, <2>2, <2>3, <2>4 DEF SubmitAIResult, AnswerLost, CallLost, CallRefused
<1>10. CASE UNCHANGED <<jobs, run, calls>>
  BY <1>1, <1>10, JobsUnchanged DEF WorkerTyped
<1> QED
  BY <1>2, <1>3, <1>4, <1>5, <1>6, <1>7, <1>8, <1>9, <1>10
  DEF Next, vars, Dispatch, HandlerStep, CoreStep, Raise, Drain, Stamp, DispatchFails,
      DispatcherStops, dispatcherVars, workerVars, coreVars

-----------------------------------------------------------------------------
(* The steps of the dispatcher.                                               *)

LEMMA DispatchingStep ==
  ASSUME QueueInv, [Next]_vars
  PROVE  Dispatching'
<1> USE PipelineAssumption DEF Dispatching
<1>1. Dispatching
  BY DEF QueueInv
<1>2. ASSUME NEW e \in Events, Raise(e)
      PROVE  Dispatching'
  BY <1>1, <1>2 DEF Raise
<1>3. CASE Drain
  <2>1. batch' \subseteq raised \ (published \cup Historic) /\ stamping = {}
    BY <1>3 DEF Drain, Eligible
  <2> QED
    BY <1>1, <1>3, <2>1 DEF Drain
<1>4. ASSUME NEW e \in Events, Enqueue(e) \/ Stamp(e)
      PROVE  Dispatching'
  <2>1. CASE Enqueue(e)
    BY <1>1, <2>1 DEF Enqueue, IsNext
  <2>2. CASE Stamp(e)
    BY <1>1, <2>2 DEF Stamp, dispatcherVars
  <2> QED
    BY <1>4, <2>1, <2>2
<1>5. CASE DispatchFails \/ DispatcherStops
  <2>1. CASE DispatcherStops
    BY <1>1, <2>1 DEF DispatcherStops, Fault
  <2>2. CASE DispatchFails
    <3>1. UNCHANGED <<raised, published>> /\ batch' \subseteq batch /\ stamping' \subseteq stamping
      BY <2>2 DEF DispatchFails
    <3>2. faults' \in 0..MaxFaults
      BY <1>1, <2>2 DEF DispatchFails, Fault
    <3> QED
      BY <1>1, <3>1, <3>2
  <2> QED
    BY <1>5, <2>1, <2>2
<1>6. CASE UNCHANGED <<raised, published, batch, stamping, faults>>
  BY <1>1, <1>6
<1>7. CASE UNCHANGED <<raised, published, batch, stamping>> /\ Fault
  BY <1>1, <1>7 DEF Fault
<1> QED
  BY <1>2, <1>3, <1>4, <1>5, <1>6, <1>7
  DEF Next, vars, Dispatch, HandlerStep, CoreStep, Take, CallAI, TimesOut, BackoffElapses,
      Stalls, WorkerStops, GetAIInput, SubmitAIResult, AnswerLost, CallLost, CallRefused,
      dispatcherVars, workerVars, coreVars

(* A row is handed over by Enqueue alone, and taken back by a fault alone.      *)
OnlyFaultsUndo ==
  /\ faults' = faults \/ faults' = faults + 1
  /\ \A e \in Events : Handed(e)' => Handed(e)
  /\ \A e \in Events : Handed(e) /\ ~Handed(e)' => faults' = faults + 1

LEMMA QueueStep ==
  ASSUME QueueInv, [Next]_vars
  PROVE  QueueInv'
<1>1. CASE \E e \in Events : Enqueue(e)
  BY <1>1, EnqueueMints
<1>2. CASE \A e \in Events : ~Enqueue(e)
  <2>1. WorkerTyped' /\ JobsKept /\ Dispatching'
    BY <1>2, WorkerStep, DispatchingStep
  <2>2. faults \in Nat /\ faults' \in Nat
    BY <2>1 DEF QueueInv, Dispatching
  <2>3. OnlyFaultsUndo
    <3>1. CASE UNCHANGED <<published, stamping>> /\ (UNCHANGED faults \/ Fault)
      BY <3>1 DEF Fault, Handed, OnlyFaultsUndo
    <3>2. ASSUME NEW e \in Events, Stamp(e)
          PROVE  OnlyFaultsUndo
      <4>1. stamping = {e}
        BY <3>2 DEF QueueInv, Dispatching, Stamp
      <4> QED
        BY <3>2, <4>1 DEF Stamp, Handed, OnlyFaultsUndo
    <3>3. CASE DispatchFails \/ DispatcherStops
      BY <3>3 DEF DispatchFails, DispatcherStops, Fault, Handed, OnlyFaultsUndo
    <3> QED
      BY <1>2, <3>1, <3>2, <3>3
      DEF Next, vars, Dispatch, HandlerStep, CoreStep, Raise, Drain, Take, CallAI, TimesOut,
          BackoffElapses, Stalls, WorkerStops, GetAIInput, SubmitAIResult, AnswerLost, CallLost,
          CallRefused, dispatcherVars, workerVars, coreVars
  <2>4. faults <= faults' /\ \A e \in Events : Handed(e)' => Handed(e)
    BY <2>2, <2>3 DEF OnlyFaultsUndo
  <2>5. \A e \in Events : Handed(e) /\ ~Handed(e)' => faults + 1 <= faults'
    BY <2>2, <2>3 DEF OnlyFaultsUndo
  <2>6. MintedInOrder'
    BY <2>1, <2>2, <2>4, <2>5, MintedKept
  <2> QED
    BY <2>1, <2>6 DEF QueueInv
<1> QED
  BY <1>1, <1>2

LEMMA ExecutionStep ==
  ASSUME QueueInv, ExecutionTyped, [Next]_vars
  PROVE  ExecutionTyped'
<1> USE PipelineAssumption
<1>1. ASSUME NEW c \in calls, execution' = Claimed(c)
      PROVE  ExecutionTyped'
  <2> DEFINE e == EventOf(c.job)
  <2>1. c.job \in JobIds /\ c.attempt \in 0..MaxAttempts /\ e \in Events
    BY EventOfJob DEF QueueInv, WorkerTyped, Call
  <2>2. execution[e].attempt \in 0..MaxAttempts
    BY <2>1 DEF ExecutionTyped, Execution
  <2>3. Larger(execution[e].attempt, c.attempt) \in 0..MaxAttempts
    BY <2>1, <2>2 DEF Larger
  <2>4. [status |-> "running", job |-> c.job,
         attempt |-> Larger(execution[e].attempt, c.attempt)] \in Execution
    BY <2>1, <2>3 DEF Execution
  <2> QED
    BY <1>1, <2>1, <2>4 DEF ExecutionTyped, Claimed
<1>2. ASSUME NEW e \in Events, NEW s \in {"succeeded", "failed"},
             execution' = [execution EXCEPT ![e].status = s]
      PROVE  ExecutionTyped'
  BY <1>2 DEF ExecutionTyped, Execution
<1>3. \A c \in calls : EventOf(c.job) \in Events
  BY EventOfJob DEF QueueInv, WorkerTyped, Call
<1>4. \A ask : StatusFor(ask) \in {"succeeded", "failed"}
  BY DEF StatusFor
<1>5. CASE UNCHANGED execution
  BY <1>5 DEF ExecutionTyped
<1> QED
  BY <1>1, <1>2, <1>3, <1>4, <1>5
  DEF Next, vars, Dispatch, HandlerStep, CoreStep, Raise, Drain, Enqueue, Stamp, DispatchFails,
      DispatcherStops, Take, CallAI, TimesOut, BackoffElapses, Stalls, WorkerStops, GetAIInput,
      SubmitAIResult, AnswerLost, CallLost, CallRefused, dispatcherVars, workerVars, coreVars

-----------------------------------------------------------------------------
LEMMA QueueAlways == Spec => []QueueInv
<1>1. Init => QueueInv
  BY QueueInit
<1>2. QueueInv /\ [Next]_vars => QueueInv'
  BY QueueStep
<1> QED
  BY <1>1, <1>2, PTL DEF Spec

(* No crash of the dispatcher and no failing stamp loses an event: a row is    *)
(* stamped only when a job for it is in the queue (dispatch()).               *)
THEOREM StampFollowsJob == Spec => []StampedMeansQueued
<1>1. QueueInv => StampedMeansQueued
  <2> SUFFICES ASSUME QueueInv, NEW e \in published
               PROVE  JobsOf(e) # {}
    BY DEF StampedMeansQueued
  <2>1. e \in Events /\ Handed(e)
    BY DEF QueueInv, Dispatching, Handed
  <2>2. PICK n \in 0..(MaxFaults + 1) : MintedUpTo(e, n) /\ 1 <= n
    BY <2>1, Zenon DEF QueueInv, MintedInOrder
  <2>3. 1 \in 1..(MaxFaults + 1) /\ <<e, 1>> \in JobIds
    BY <2>1, PipelineAssumption DEF JobIds
  <2>4. jobs[<<e, 1>>].state # "none"
    BY <2>2, <2>3 DEF MintedUpTo
  <2> QED
    BY <2>3, <2>4 DEF JobsOf, EventOf
<1> QED
  BY <1>1, QueueAlways, PTL

(* Every variable keeps its type: no job is taken for more than                *)
(* AI_RETRY_ATTEMPTS attempts, however it is retried and stalled, and no       *)
(* event gets more jobs than one and one for each fault.                      *)
THEOREM PipelineTypeCorrect == Spec => []PipelineTypeOK
<1>1. Init => Ledger /\ Traced /\ ExecutionTyped
  BY LedgerInit, QueueInit
<1>2. Ledger /\ Traced /\ QueueInv /\ ExecutionTyped /\ [Next]_vars
        => (Ledger /\ Traced /\ ExecutionTyped)'
  BY LedgerStep, TracedStep, ExecutionStep
<1>3. QueueInv /\ Ledger /\ ExecutionTyped => PipelineTypeOK
  <2> SUFFICES ASSUME QueueInv, Ledger, ExecutionTyped
               PROVE  PipelineTypeOK
    OBVIOUS
  <2>1. audit \in [Events -> Nat]
    BY DEF Ledger
  <2>2. Dispatching /\ WorkerTyped
    BY DEF QueueInv
  <2> QED
    BY <2>1, <2>2 DEF PipelineTypeOK, Dispatching, WorkerTyped, JobsTyped, ExecutionTyped
<1> QED
  BY <1>1, <1>2, <1>3, QueueAlways, PTL DEF Spec
=============================================================================
