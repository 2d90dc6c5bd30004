----------------------------- MODULE AiPipeline -----------------------------
(***************************************************************************)
(* From a committed ticket.created row to an applied AI result: the         *)
(* dispatcher of core-service, the BullMQ queue, the handler runs of the    *)
(* worker, the AI service, and the two internal endpoints of core-service.  *)
(*                                                                          *)
(* Every hop may fail.  A call to core-service is a message: it may be      *)
(* lost, its answer may be lost, and it may be handled long after the       *)
(* worker has given it up.  Both processes may stop between two steps.      *)
(* AI_EVENT_FEATURES gives ticket.created the one feature 'noop', so an     *)
(* execution, keyed by (event_id, feature), is keyed by its event here.     *)
(***************************************************************************)
EXTENDS Naturals, FiniteSets

CONSTANTS
  Events,        \* outbox rows of type ticket.created; their order is created_at
  Historic,      \* those created before AI_DISPATCH_FROM
  Slots,         \* handler runs the worker keeps going: AI_WORKER_CONCURRENCY
  Answers,       \* how a call of the AI service may end
  MaxAttempts,   \* AI_RETRY_ATTEMPTS
  MaxStalls,     \* external: how often BullMQ restarts a stalled job
  BatchLimit,    \* AI_DISPATCH_BATCH
  MaxFaults      \* bound on lost calls, refusals, crashes and lost locks

(* errorForStatus: what is worth a retry, and what is not.                   *)
FailureKinds == {"temporary", "permanent"}

(* What executeAI may end in: a result, well-formed or not fit for its         *)
(* feature, or an error.                                                     *)
AllAnswers == {"succeeded", "failed", "invalid"} \cup FailureKinds

ASSUME PipelineAssumption ==
  /\ Events \subseteq Nat
  /\ Historic \subseteq Events
  /\ Answers \subseteq AllAnswers
  /\ {MaxAttempts, BatchLimit} \subseteq Nat \ {0}
  /\ {MaxStalls, MaxFaults} \subseteq Nat

VARIABLES
  raised,     \* events whose ticket has been committed
  published,  \* rows whose published_at is set
  batch,      \* rows the running drain still has to dispatch
  stamping,   \* the row whose job is enqueued and whose stamp is due, if any
  jobs,       \* the BullMQ jobs; every dispatch of a row mints a new one
  run,        \* what each slot of the worker is doing
  calls,      \* calls to core-service that it has not handled yet
  execution,  \* ai_execution
  audit,      \* how many ai.execution_* rows audit_event holds for an event
  faults

dispatcherVars == <<raised, published, batch, stamping>>
workerVars     == <<jobs, run, calls>>
coreVars       == <<execution, audit>>
vars           == <<dispatcherVars, workerVars, coreVars, faults>>

-----------------------------------------------------------------------------
JobIds == Events \X (1..(MaxFaults + 1))

EventOf(j) == j[1]

Job == [state : {"none", "waiting", "active", "delayed", "completed", "failed"},
        made : 0..MaxAttempts, stalls : 0..MaxStalls, owner : Slots \cup {"nobody"}]

NoJob == [state |-> "none", made |-> 0, stalls |-> 0, owner |-> "nobody"]

(* A run and the call it waits for are told apart from their predecessors    *)
(* in the same slot by their job, its attempt and how often it stalled.     *)
Run == [stage : {"asking", "ready", "submitting"}, job : JobIds,
        attempt : 1..MaxAttempts, stalls : 0..MaxStalls]

Idle == [stage |-> "idle"]

ResultCall == {"succeeded", "failed", "invalid"}

Call == [slot : Slots, job : JobIds, attempt : 1..MaxAttempts,
         stalls : 0..MaxStalls, ask : {"input"} \cup ResultCall]

Execution == [status : {"none", "running", "succeeded", "failed"},
              job : JobIds, attempt : 0..MaxAttempts]

(* Every variable holds a value of its type; no attempt number passes        *)
(* AI_RETRY_ATTEMPTS.                                                       *)
PipelineTypeOK ==
  /\ raised \subseteq Events
  /\ published \subseteq raised \ Historic
  /\ batch \subseteq raised
  /\ stamping \subseteq raised
  /\ jobs \in [JobIds -> Job]
  /\ run \in [Slots -> Run \cup {Idle}]
  /\ calls \subseteq Call
  /\ execution \in [Events -> Execution]
  /\ audit \in [Events -> Nat]
  /\ faults \in 0..MaxFaults

Init ==
  /\ raised = Historic
  /\ published = {}
  /\ batch = {}
  /\ stamping = {}
  /\ jobs = [j \in JobIds |-> NoJob]
  /\ run = [w \in Slots |-> Idle]
  /\ calls = {}
  /\ execution = [e \in Events |-> [status |-> "none", job |-> <<e, 1>>, attempt |-> 0]]
  /\ audit = [e \in Events |-> 0]
  /\ faults = 0

Fault == faults < MaxFaults /\ faults' = faults + 1

-----------------------------------------------------------------------------
(* The dispatcher.                                                          *)

(* A ticket is committed, and its outbox row with it, in created_at order.  *)
Raise(e) ==
  /\ e \notin raised
  /\ \A other \in Events \ raised : e <= other
  /\ raised' = raised \cup {e}
  /\ UNCHANGED <<published, batch, stamping, workerVars, coreVars, faults>>

Eligible == raised \ (published \cup Historic)

(* drain(): the oldest unpublished rows since the watermark.                *)
Drain ==
  /\ batch = {} /\ stamping = {}
  /\ Eligible # {}
  /\ batch' = {e \in Eligible :
                 Cardinality({o \in Eligible : o <= e}) <= BatchLimit}
  /\ UNCHANGED <<raised, published, stamping, workerVars, coreVars, faults>>

IsNext(e) == e \in batch /\ stamping = {} /\ \A other \in batch : e <= other

Minted(e) == Cardinality({j \in JobIds : EventOf(j) = e /\ jobs[j].state # "none"})

Added(e) ==
  jobs' = [jobs EXCEPT ![<<e, Minted(e) + 1>>] = [NoJob EXCEPT !.state = "waiting"]]

(* dispatch(): the job is added first ...                                   *)
Enqueue(e) ==
  /\ IsNext(e)
  /\ Added(e)
  /\ batch' = batch \ {e}
  /\ stamping' = {e}
  /\ UNCHANGED <<raised, published, run, calls, coreVars, faults>>

(* ... and the row stamped once that has succeeded.                         *)
Stamp(e) ==
  /\ e \in stamping
  /\ published' = published \cup {e}
  /\ stamping' = {}
  /\ UNCHANGED <<raised, batch, workerVars, coreVars, faults>>

(* A variant of DispatchFails whose stamp does not depend on the add.        *)
DispatchFailsStamped ==
  /\ Fault
  /\ \E e \in batch : /\ IsNext(e)
                     /\ batch' = batch \ {e}
                     /\ published' = published \cup {e}
  /\ UNCHANGED <<raised, stamping, workerVars, coreVars>>

(* The add or the stamp throws: the row is left for the next tick.          *)
DispatchFails ==
  /\ Fault
  /\ \/ stamping' = {} /\ stamping # {} /\ UNCHANGED batch
     \/ \E e \in batch : IsNext(e) /\ batch' = batch \ {e} /\ UNCHANGED stamping
  /\ UNCHANGED <<raised, published, workerVars, coreVars>>

DispatcherStops ==
  /\ batch # {} \/ stamping # {}
  /\ Fault
  /\ batch' = {}
  /\ stamping' = {}
  /\ UNCHANGED <<raised, published, workerVars, coreVars>>

-----------------------------------------------------------------------------
(* BullMQ and the handler runs of the worker.                               *)

Runs(w, j) == run[w] # Idle /\ run[w].job = j

Owns(w) == jobs[run[w].job].state = "active" /\ jobs[run[w].job].owner = w

Posted(w, r, ask) == [slot |-> w, job |-> r.job, attempt |-> r.attempt,
                      stalls |-> r.stalls, ask |-> ask]

(* The worker takes a job; its handler asks core-service for the input.     *)
Take(w, j) ==
  /\ run[w] = Idle
  /\ jobs[j].state = "waiting"
  /\ LET r == [stage |-> "asking", job |-> j, attempt |-> jobs[j].made + 1,
               stalls |-> jobs[j].stalls]
     IN /\ run' = [run EXCEPT ![w] = r]
        /\ calls' = calls \cup {Posted(w, r, "input")}
  /\ jobs' = [jobs EXCEPT ![j].state = "active", ![j].owner = w]
  /\ UNCHANGED <<dispatcherVars, coreVars, faults>>

Retried(job) == job.made + 1 < MaxAttempts

Settled(w, state) ==
  LET j == run[w].job IN
    IF Owns(w) THEN [jobs EXCEPT ![j].state = state, ![j].made = @ + 1, ![j].owner = "nobody"]
    ELSE jobs

(* The handler throws.  BullMQ alone decides about the next attempt, and     *)
(* only for the run that still holds the lock of the job.                   *)
Failing(w, kind) ==
  /\ run' = [run EXCEPT ![w] = Idle]
  /\ jobs' = Settled(w, IF kind = "temporary" /\ Retried(jobs[run[w].job])
                        THEN "delayed" ELSE "failed")

Completing(w) ==
  /\ run' = [run EXCEPT ![w] = Idle]
  /\ jobs' = Settled(w, "completed")

(* executeAI: anything but a well-formed result throws.                     *)
CallAI(w) ==
  /\ run[w].stage = "ready"
  /\ \E answer \in Answers :
       \/ /\ answer \in ResultCall
          /\ run' = [run EXCEPT ![w].stage = "submitting"]
          /\ calls' = calls \cup {Posted(w, run[w], answer)}
          /\ UNCHANGED jobs
       \/ answer \notin ResultCall /\ Failing(w, answer) /\ UNCHANGED calls
  /\ UNCHANGED <<dispatcherVars, coreVars, faults>>

Waiting(w) == run[w].stage \in {"asking", "submitting"}

Pending(w) ==
  {c \in calls : /\ c.slot = w /\ c.job = run[w].job /\ c.attempt = run[w].attempt
                 /\ c.stalls = run[w].stalls
                 /\ (c.ask = "input") <=> (run[w].stage = "asking")}

(* No answer within CORE_TIMEOUT_MS.  The call may still be on its way.      *)
TimesOut(w) ==
  /\ Waiting(w)
  /\ IF Pending(w) = {} THEN UNCHANGED faults ELSE Fault
  /\ Failing(w, "temporary")
  /\ UNCHANGED <<dispatcherVars, calls, coreVars>>

BackoffElapses(j) ==
  /\ jobs[j].state = "delayed"
  /\ jobs' = [jobs EXCEPT ![j].state = "waiting"]
  /\ UNCHANGED <<dispatcherVars, run, calls, coreVars, faults>>

(* External: BullMQ finds a job active whose lock is not renewed, because    *)
(* its worker stopped or, a fault, because it was too busy to renew it.     *)
Stalls(j) ==
  /\ jobs[j].state = "active"
  /\ IF \E w \in Slots : Runs(w, j) /\ Owns(w)
     THEN Fault ELSE UNCHANGED faults
  /\ jobs' =
       IF jobs[j].stalls < MaxStalls
       THEN [jobs EXCEPT ![j].state = "waiting", ![j].stalls = @ + 1, ![j].owner = "nobody"]
       ELSE [jobs EXCEPT ![j].state = "failed", ![j].owner = "nobody"]
  /\ UNCHANGED <<dispatcherVars, run, calls, coreVars>>

(* The worker is killed: its runs are gone, their jobs stay active.         *)
WorkerStops ==
  /\ \E w \in Slots : run[w] # Idle
  /\ Fault
  /\ run' = [w \in Slots |-> Idle]
  /\ jobs' = [j \in JobIds |-> [jobs[j] EXCEPT !.owner = "nobody"]]
  /\ UNCHANGED <<dispatcherVars, calls, coreVars>>

-----------------------------------------------------------------------------
(* core-service's internal endpoints.                                       *)

Terminal(e) == execution[e].status \in {"succeeded", "failed"}

(* The run that still waits for the answer to this call, if there is one.   *)
Receiver(c) == {w \in Slots : Waiting(w) /\ c \in Pending(w)}

(* GREATEST                                                                 *)
Larger(a, b) == IF a >= b THEN a ELSE b

(* claimExecution: one row per event, and a terminal row stays as it is.    *)
Claimed(c) ==
  LET e == EventOf(c.job) IN
    IF Terminal(e) THEN execution
    ELSE [execution EXCEPT ![e] = [status |-> "running", job |-> c.job,
                                   attempt |-> Larger(@.attempt, c.attempt)]]

(* A variant of AlreadyApplied that takes any conflicting row for done.     *)
AlreadyClaimed(e) == execution[e].status # "none"

AlreadyApplied(e) == Terminal(e)

(* POST /internal/ai/jobs/:eventId/input.                                   *)
GetAIInput(c) ==
  /\ c.ask = "input"
  /\ calls' = calls \ {c}
  /\ execution' = Claimed(c)
  /\ IF Receiver(c) = {} THEN UNCHANGED <<run, jobs>>
     ELSE \E w \in Receiver(c) :
       IF AlreadyApplied(EventOf(c.job)) THEN Completing(w)
       ELSE run' = [run EXCEPT ![w].stage = "ready"] /\ UNCHANGED jobs
  /\ UNCHANGED <<dispatcherVars, audit, faults>>

(* The feature's validator turns an unfit result into a failure.            *)
StatusFor(ask) == IF ask = "succeeded" THEN "succeeded" ELSE "failed"

(* A variant of CompleteExecution without the status = 'running'.           *)
CompleteAnyExecution(e) == execution[e].status # "none"

CompleteExecution(e) == execution[e].status = "running"

(* POST /internal/ai/jobs/:eventId/result: an audit row goes with the first  *)
(* result, and with no other.                                               *)
SubmitAIResult(c) ==
  LET e == EventOf(c.job) IN
    /\ c.ask \in ResultCall
    /\ calls' = calls \ {c}
    /\ IF CompleteExecution(e)
       THEN /\ execution' = [execution EXCEPT ![e].status = StatusFor(c.ask)]
            /\ audit' = [audit EXCEPT ![e] = @ + 1]
       ELSE UNCHANGED coreVars
    /\ IF Receiver(c) = {} THEN UNCHANGED <<run, jobs>>
       ELSE \E w \in Receiver(c) : Completing(w)
    /\ UNCHANGED <<dispatcherVars, faults>>

(* The call is handled and the answer lost.                                 *)
AnswerLost(c) ==
  /\ Fault
  /\ calls' = calls \ {c}
  /\ \/ c.ask = "input" /\ execution' = Claimed(c) /\ UNCHANGED audit
     \/ /\ c.ask \in ResultCall
        /\ CompleteExecution(EventOf(c.job))
        /\ execution' = [execution EXCEPT ![EventOf(c.job)].status = StatusFor(c.ask)]
        /\ audit' = [audit EXCEPT ![EventOf(c.job)] = @ + 1]
  /\ UNCHANGED <<dispatcherVars, jobs, run>>

(* The call does not get through; the worker may notice at once.             *)
CallLost(c) ==
  /\ Fault
  /\ calls' = calls \ {c}
  /\ \/ UNCHANGED <<run, jobs>>
     \/ \E w \in Receiver(c) : Failing(w, "temporary")
  /\ UNCHANGED <<dispatcherVars, coreVars>>

(* Refused before anything is changed: no such event, or claims that do not  *)
(* fit it, with a 4xx, which is permanent; with a 5xx, which is not.         *)
CallRefused(c) ==
  /\ Fault
  /\ calls' = calls \ {c}
  /\ \E w \in Receiver(c), kind \in FailureKinds : Failing(w, kind)
  /\ UNCHANGED <<dispatcherVars, coreVars>>

-----------------------------------------------------------------------------
Dispatch == Drain \/ \E e \in Events : Enqueue(e) \/ Stamp(e)

HandlerStep == \E w \in Slots : CallAI(w) \/ TimesOut(w)

CoreStep == \E c \in calls : GetAIInput(c) \/ SubmitAIResult(c)

Next ==
  \/ \E e \in Events : Raise(e)
  \/ Dispatch
  \/ DispatchFails
  \/ DispatcherStops
  \/ \E w \in Slots, j \in JobIds : Take(w, j)
  \/ HandlerStep
  \/ \E j \in JobIds : BackoffElapses(j) \/ Stalls(j)
  \/ WorkerStops
  \/ CoreStep
  \/ \E c \in calls : AnswerLost(c) \/ CallLost(c) \/ CallRefused(c)

Spec == Init /\ [][Next]_vars

(* The poll timer, the worker's timeouts and BullMQ's own timers keep every   *)
(* party moving, and core-service handles what reaches it.  Tickets need    *)
(* not be raised and nothing has to fail; faults are MaxFaults at most.     *)
FairSpec ==
  /\ Spec
  /\ WF_vars(Dispatch)
  /\ \A w \in Slots : WF_vars(\E j \in JobIds : Take(w, j))
  /\ \A w \in Slots : WF_vars(CallAI(w))
  /\ \A w \in Slots : WF_vars(TimesOut(w) /\ Pending(w) = {})
  /\ \A j \in JobIds : WF_vars(BackoffElapses(j))
  /\ \A j \in JobIds :
       WF_vars(~(\E w \in Slots : Runs(w, j)) /\ Stalls(j))
  /\ WF_vars(CoreStep)

-----------------------------------------------------------------------------
(* Properties.                                                              *)

Promise == INSTANCE AppliedOnce WITH
  result <- [e \in Events |-> IF Terminal(e) THEN execution[e].status ELSE "none"],
  told <- audit

(* The pipeline implements AppliedOnce: however jobs are duplicated, retried *)
(* or delayed, an event gets one result, for good, and one audit row        *)
(* (claimExecution and completeExecution).                                  *)
PromiseKept == Promise!AppliedSpec

JobsOf(e) == {j \in JobIds : EventOf(j) = e /\ jobs[j].state # "none"}

(* A row is stamped only after a job for it is safely in the queue, so no    *)
(* crash of the dispatcher loses an event.                                  *)
StampedMeansQueued == \A e \in published : JobsOf(e) # {}

GivenUp(e) == JobsOf(e) # {} /\ \A j \in JobsOf(e) : jobs[j].state = "failed"

(* Every eligible event is decided in the end, or all its jobs have used up  *)
(* their attempts: none is forgotten in the outbox, in the queue or in a    *)
(* worker that stopped.                                                     *)
EventSettles ==
  \A e \in Events \ Historic : (e \in raised) ~> (Terminal(e) \/ GivenUp(e))
=============================================================================
