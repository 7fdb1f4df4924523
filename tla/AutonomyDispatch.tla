-------------------------- MODULE AutonomyDispatch --------------------------
(***************************************************************************)
(* The durable task and dispatch protocol of the autonomous agent, for one *)
(* owner: every row it touches is scoped to an owner, and no transaction   *)
(* below spans two of them.                                                *)
(*                                                                         *)
(* A control scan creates tasks, RQ workers lease and run them, a permit   *)
(* transaction keeps the authorisation rows locked while the external      *)
(* provider is called, and a reaper closes dispatches whose worker was     *)
(* lost.  One database transaction is one action, except the permit        *)
(* transaction, which spans actions: while holder = w, every transaction   *)
(* that needs one of the rows it locked waits.                             *)
(*                                                                         *)
(* Time is not a number.  timer says whether the one deadline a task waits *)
(* for in its status has passed: not_before while queued or deferred,      *)
(* lease_until while leased or generating, the 600 s after                 *)
(* dispatch_started_at while dispatching.                                  *)
(***************************************************************************)
EXTENDS Integers, FiniteSets

CONSTANTS
    Tasks,          \* identities of the tasks the scans may create
    Workers,        \* RQ worker processes
    NoTask, NoWorker,
    TaskType,       \* the task_type of each task
    MaxAttempts,    \* MAX_AUTONOMY_TASK_ATTEMPTS
    FailureLimit,   \* consecutive_failure_limit of the autonomy setting
    TotalLimit,     \* daily_total_limit of each version of the setting
    CategoryLimit,  \* daily limit of each category in each version
    MaxVersion,     \* bound on the versions of the settings
    MaxDay,         \* bound on the number of budget days
    MaxClaims,      \* bound on the claims of one task
    MaxCrashes,     \* bound on the crashes of workers
    LateLeases,     \* may lease_until overtake the worker that holds it?
    LateDispatches  \* may the reaper's deadline overtake a live worker?

TaskTypes == {"reply_to_message", "proactive_message", "scheduled_post",
              "follow_target", "unfollow_target", "follow_discovered",
              "browse_online", "request_match", "request_friend"}
Categories == {"reply", "outreach", "post", "relationship", "browse", "match"}
Versions == 1..MaxVersion
Days == 1..MaxDay

ASSUME ConstantsAssumption ==
    /\ NoTask \notin Tasks /\ NoWorker \notin Workers
    /\ IsFiniteSet(Tasks)
    /\ TaskType \in [Tasks -> TaskTypes]
    /\ MaxVersion \in Nat \ {0} /\ MaxDay \in Nat \ {0}
    /\ MaxAttempts \in Nat /\ MaxClaims \in Nat /\ MaxCrashes \in Nat
    /\ FailureLimit \in Nat \ {0}
    /\ TotalLimit \in [Versions -> Nat \ {0}]
    /\ CategoryLimit \in [Versions -> [Categories -> Nat]]
    /\ LateLeases \in BOOLEAN /\ LateDispatches \in BOOLEAN

VARIABLES
    task,       \* ai_agent_autonomy_tasks, one record per task
    execution,  \* status of the ai_agent_action_executions row of a task
    setting,    \* the autonomy setting and the switches it depends on
    usage,      \* ai_agent_autonomy_daily_usage, per budget day
    day,        \* the current budget day
    queue,      \* task ids waiting in the RQ queue "agent"
    worker,     \* local state of each worker's run_once
    holder,     \* the worker whose permit transaction is open
    inflight,   \* the provider may still apply the request of this task
    applied,    \* the provider applied the action of this task
    invoked,    \* how often the provider was called for this task
    acknowledged, \* tasks closed as unknown that the user resumed after
    crashes     \* worker crashes so far

observed == <<applied, inflight, invoked>>
vars == <<task, execution, setting, usage, day, queue, worker, holder,
          inflight, applied, invoked, acknowledged, crashes>>

-----------------------------------------------------------------------------
(* Statuses, tokens and categories *)

NotStarted == {"queued", "deferred", "leased", "generating"}
Terminal == {"succeeded", "failed", "cancelled", "stale", "manual_review"}
Statuses == {"absent", "dispatching"} \cup NotStarted \cup Terminal
Open == NotStarted \cup {"dispatching"}
Leased == {"leased", "generating"}

\* "unavailable" is a failed row whose stable_error_code is the retryable one.
ExecutionStatuses == {"none", "running", "succeeded", "failed", "unavailable",
                      "manual_review"}

\* The claim number n yields the lease token n, the permit issued under it -n:
\* secrets.token_urlsafe never repeats a token.
NoToken == 0
LeaseToken(n) == n
PermitToken(lease) == -lease
NoDay == 0

NeedsModel(t) == TaskType[t] \in {"reply_to_message", "proactive_message",
                                  "scheduled_post", "request_friend"}
\* Tasks bound to a conversation head, and posts, which expire.
MayGoStale(t) == TaskType[t] \in {"reply_to_message", "proactive_message",
                                  "scheduled_post"}
\* Browsing reads the online list; every other action changes the account.
Mutates(t) == TaskType[t] # "browse_online"

Category(t) == CASE TaskType[t] = "reply_to_message"  -> "reply"
                 [] TaskType[t] = "proactive_message" -> "outreach"
                 [] TaskType[t] = "browse_online"     -> "browse"
                 [] TaskType[t] = "request_match"     -> "match"
                 [] TaskType[t] = "scheduled_post"    -> "post"
                 [] OTHER                             -> "relationship"

WithinBudget(t, v, d) ==
    /\ usage[d].total < TotalLimit[v]
    /\ usage[d].by[Category(t)] < CategoryLimit[v][Category(t)]

Reserve(t, d) ==
    usage' = [usage EXCEPT ![d].total = @ + 1, ![d].by[Category(t)] = @ + 1]

-----------------------------------------------------------------------------
(* Initial state *)

AbsentTask == [status |-> "absent", token |-> NoToken, attempts |-> 0,
               version |-> 1, runner |-> 1, timer |-> "elapsed",
               budgetDay |-> NoDay, refunded |-> FALSE]
IdleWorker == [pc |-> "idle", task |-> NoTask, token |-> NoToken,
               day |-> 1, out |-> "none"]
EmptyUsage == [total |-> 0, by |-> [c \in Categories |-> 0], unknown |-> 0]

Init ==
    /\ task = [t \in Tasks |-> AbsentTask]
    /\ execution = [t \in Tasks |-> "none"]
    /\ setting = [enabled |-> TRUE, halted |-> FALSE, failures |-> 0,
                  version |-> 1, runner |-> 1, access |-> TRUE]
    /\ usage = [d \in Days |-> EmptyUsage]
    /\ day = 1
    /\ queue = {}
    /\ worker = [w \in Workers |-> IdleWorker]
    /\ holder = NoWorker
    /\ inflight = [t \in Tasks |-> FALSE]
    /\ applied = [t \in Tasks |-> FALSE]
    /\ invoked = [t \in Tasks |-> 0]
    /\ acknowledged = {}
    /\ crashes = 0

-----------------------------------------------------------------------------
(* Helpers on rows *)

Halts(s) == s.halted \/ s.failures >= FailureLimit

\* Gate shared by preflight and final dispatch: every switch on, the task's
\* snapshot of the versions still current, the agent not halted.
GateOpen(t) ==
    /\ setting.access /\ setting.enabled
    /\ task[t].version = setting.version
    /\ task[t].runner = setting.runner
    /\ ~Halts(setting)

DueWhenDispatching(t) == task[t].status \in Open /\ task[t].timer = "elapsed"
DueUnleased(t) ==
    task[t].status \in {"queued", "deferred"} /\ task[t].timer = "elapsed"
Due(t) == task[t].status \in NotStarted /\ task[t].timer = "elapsed"

Close(row, status) ==
    [row EXCEPT !.status = status, !.token = NoToken, !.timer = "elapsed"]

CancelOpen(rows) ==
    [t \in Tasks |-> IF rows[t].status \in Open
                     THEN Close(rows[t], "cancelled") ELSE rows[t]]
CancelNotStarted(rows) ==
    [t \in Tasks |-> IF rows[t].status \in NotStarted
                     THEN Close(rows[t], "cancelled") ELSE rows[t]]

HasOpenButDispatching(rows) == \E t \in Tasks : rows[t].status \in NotStarted
HasOpenButDeferred(rows) ==
    \E t \in Tasks : rows[t].status \in Open \ {"deferred"}
HasOpenTask(rows) == \E t \in Tasks : rows[t].status \in Open

\* The lease or permit the worker carries is still the one in the row.
TokenMatches(w) == task[worker[w].task].token = worker[w].token

WorkerAt(w, pc) == worker[w].pc = pc
Goto(w, pc) == worker' = [worker EXCEPT ![w].pc = pc]
Conclude(w, out) == worker' = [worker EXCEPT ![w].pc = "finish", ![w].out = out]
Leave(w) == worker' = [worker EXCEPT ![w] = IdleWorker]

-----------------------------------------------------------------------------
(* The scheduler: control scan, queueing, the passing of time *)

\* Replies a newer message may have superseded.
Supersedable ==
    {t \in Tasks : /\ TaskType[t] = "reply_to_message"
                   /\ task[t].status \in {"queued", "deferred"}}

\* The rows after the scan dropped superseded replies and tasks whose budget
\* of the day is spent.
Swept(superseded) ==
    [t \in Tasks |->
       IF t \in superseded THEN Close(task[t], "stale")
       ELSE IF /\ task[t].status \in {"queued", "deferred"}
               /\ ~WithinBudget(t, setting.version, day)
            THEN Close(task[t], "cancelled")
            ELSE task[t]]

Created(row, timer) ==
    [row EXCEPT !.status = "queued", !.version = setting.version,
                !.runner = setting.runner, !.timer = timer]

\* One scan of the owner creates at most one task, and only if none is open.
ControlScan ==
    /\ holder = NoWorker
    /\ setting.access /\ setting.enabled /\ ~Halts(setting)
    /\ \E superseded \in SUBSET Supersedable :
         \/ task' = Swept(superseded)
         \/ /\ ~HasOpenTask(Swept(superseded))
            /\ \E t \in Tasks, timer \in {"running", "elapsed"} :
                 /\ task[t].status = "absent"
                 /\ WithinBudget(t, setting.version, day)
                 /\ task' = [Swept(superseded) EXCEPT ![t] = Created(@, timer)]
    /\ UNCHANGED <<execution, setting, usage, day, queue, worker, holder,
                   observed, acknowledged, crashes>>

EnqueueJob(t) ==
    /\ t \notin queue
    /\ Due(t)
    /\ setting.enabled /\ ~setting.halted
    /\ WithinBudget(t, setting.version, day)
    /\ queue' = queue \cup {t}
    /\ UNCHANGED <<task, execution, setting, usage, day, worker, holder,
                   observed, acknowledged, crashes>>

PermitPCs == {"prepare", "lock", "act", "provider", "record"}
Holds(w, t) == worker[w].task = t /\ TokenMatches(w)

\* RQ ends a job after job_timeout=300, at the latest 60 s later: about when
\* the lease of 300 s expires, and well before the 600 s of the reaper.
TimePasses(t) ==
    /\ task[t].status \in Open /\ task[t].timer = "running"
    /\ \/ task[t].status \in {"queued", "deferred"}
       \/ task[t].status \in Leased /\ LateLeases
       \/ task[t].status = "dispatching" /\ LateDispatches
       \/ \A w \in Workers : ~Holds(w, t)
    /\ task' = [task EXCEPT ![t].timer = "elapsed"]
    /\ UNCHANGED <<execution, setting, usage, day, queue, worker, holder,
                   observed, acknowledged, crashes>>

NextDay ==
    /\ day < MaxDay
    /\ day' = day + 1
    /\ UNCHANGED <<task, execution, setting, usage, queue, worker, holder,
                   observed, acknowledged, crashes>>

-----------------------------------------------------------------------------
(* A worker before dispatch: run_once up to begin_dispatch *)

\* The job starts and claim_task leases the row if it is due.
TakeJob(w, t) ==
    /\ WorkerAt(w, "idle") /\ t \in queue
    /\ queue' = queue \ {t}
    /\ \/ /\ Due(t)
          /\ task[t].attempts < MaxClaims
          /\ LET n == task[t].attempts + 1
             IN  /\ task' = [task EXCEPT ![t] =
                       [@ EXCEPT !.status = "leased", !.attempts = n,
                                 !.token = LeaseToken(n), !.timer = "running"]]
                 /\ worker' = [worker EXCEPT ![w] =
                       [pc |-> "preflight", task |-> t, token |-> LeaseToken(n),
                        day |-> day, out |-> "none"]]
       \/ /\ ~Due(t)
          /\ UNCHANGED <<task, worker>>
    /\ UNCHANGED <<execution, setting, usage, day, holder, observed,
                   acknowledged, crashes>>

\* The lease token is the attempt_count the claim returned.
AttemptsExhausted(w) == worker[w].token > MaxAttempts

\* Attempts, policy and quiet hours, then the head of the conversation.  The
\* window and the head are inputs the model leaves open.
Preflight(w) ==
    LET t == worker[w].task IN
    /\ WorkerAt(w, "preflight")
    /\ IF AttemptsExhausted(w)
       THEN Conclude(w, "failed")
       ELSE IF ~GateOpen(t)
       THEN Conclude(w, "cancelled")
       ELSE \/ Goto(w, "defer")
            \/ MayGoStale(t) /\ Conclude(w, "stale")
            \/ Goto(w, IF NeedsModel(t) THEN "generate" ELSE "reserve")
    /\ UNCHANGED <<task, execution, setting, usage, day, queue, holder,
                   observed, acknowledged, crashes>>

BeginGeneration(w) ==
    LET t == worker[w].task IN
    /\ WorkerAt(w, "generate")
    /\ IF task[t].status = "leased" /\ TokenMatches(w)
       THEN /\ task' = [task EXCEPT ![t].status = "generating",
                                    ![t].timer = "running"]
            /\ Goto(w, "model")
       ELSE Leave(w) /\ UNCHANGED task
    /\ UNCHANGED <<execution, setting, usage, day, queue, holder, observed,
                   acknowledged, crashes>>

\* A model error ends the attempt: a safe skip is stale, the rest a failure.
ModelReturns(w) ==
    /\ WorkerAt(w, "model")
    /\ \/ Goto(w, "renew")
       \/ Conclude(w, "failed")
       \/ Conclude(w, "stale")
    /\ UNCHANGED <<task, execution, setting, usage, day, queue, holder,
                   observed, acknowledged, crashes>>

\* now is read before the row is, so an expired lease may still be renewed if
\* nobody claimed the task; the budget day is taken from the same now.
RenewLease(w) ==
    LET t == worker[w].task IN
    /\ WorkerAt(w, "renew")
    /\ \/ /\ task[t].status \in Leased /\ TokenMatches(w)
          /\ task' = [task EXCEPT ![t].timer = "running"]
          /\ worker' = [worker EXCEPT ![w].pc = "recheck", ![w].day = day]
       \/ /\ ~(task[t].status \in Leased /\ TokenMatches(w))
             \/ task[t].timer = "elapsed"
          /\ Leave(w) /\ UNCHANGED task
    /\ UNCHANGED <<execution, setting, usage, day, queue, holder, observed,
                   acknowledged, crashes>>

Recheck(w) ==
    LET t == worker[w].task IN
    /\ WorkerAt(w, "recheck")
    /\ \/ Goto(w, "defer")
       \/ MayGoStale(t) /\ Conclude(w, "stale")
       \/ Goto(w, "reserve")
    /\ UNCHANGED <<task, execution, setting, usage, day, queue, holder,
                   observed, acknowledged, crashes>>

\* The reservation: lease, gate, source, budget and interval in that order, then
\* the budget, the permit and the dispatching status in one transaction.  A lease
\* that has ended is seen unless the clock was read before, as in RenewLease.
BeginDispatch(w) ==
    LET t == worker[w].task
        d == worker[w].day
    IN
    /\ WorkerAt(w, "reserve")
    /\ holder = NoWorker
    /\ \/ task[t].timer = "elapsed" /\ Leave(w) /\ UNCHANGED <<task, usage>>
       \/ IF ~(task[t].status \in Leased /\ TokenMatches(w))
          THEN Leave(w) /\ UNCHANGED <<task, usage>>
          ELSE IF ~GateOpen(t)
          THEN Conclude(w, "cancelled") /\ UNCHANGED <<task, usage>>
          ELSE \/ /\ TaskType[t] = "reply_to_message"
                  /\ Conclude(w, "stale") /\ UNCHANGED <<task, usage>>
               \/ /\ ~WithinBudget(t, task[t].version, d)
                  /\ Conclude(w, "cancelled") /\ UNCHANGED <<task, usage>>
               \/ /\ WithinBudget(t, task[t].version, d)
                  /\ Goto(w, "defer") /\ UNCHANGED <<task, usage>>
               \/ /\ WithinBudget(t, task[t].version, d)
                  /\ Reserve(t, d)
                  /\ LET permit == PermitToken(worker[w].token)
                     IN  /\ task' = [task EXCEPT ![t] =
                               [@ EXCEPT !.status = "dispatching",
                                         !.token = permit, !.timer = "running",
                                         !.budgetDay = d]]
                         /\ worker' = [worker EXCEPT ![w].pc = "prepare",
                                                     ![w].token = permit]
    /\ UNCHANGED <<execution, setting, day, queue, holder, observed,
                   acknowledged, crashes>>

DeferTask(w) ==
    LET t == worker[w].task IN
    /\ WorkerAt(w, "defer")
    /\ task' = IF task[t].status \in Leased /\ TokenMatches(w)
               THEN [task EXCEPT ![t].status = "deferred",
                                 ![t].token = NoToken,
                                 ![t].timer = "running"]
               ELSE task
    /\ Leave(w)
    /\ UNCHANGED <<execution, setting, usage, day, queue, holder, observed,
                   acknowledged, crashes>>

-----------------------------------------------------------------------------
(* A worker on its permit: prepare, lock, act, record *)

\* The audit row is created, linked and started in one transaction; its
\* foreign keys wait for the user row a permit transaction holds.  The commit
\* may be lost, or go through without the worker learning of it.
PrepareExecution(w) ==
    LET t == worker[w].task
        started == [execution EXCEPT ![t] = "running"]
    IN
    /\ WorkerAt(w, "prepare")
    /\ holder = NoWorker
    /\ IF task[t].status = "dispatching" /\ TokenMatches(w)
       THEN \/ execution' = started /\ Goto(w, "lock")
            \/ execution' = started /\ Conclude(w, "failed")
            \/ execution' = execution /\ Conclude(w, "failed")
       ELSE execution' = execution /\ Conclude(w, "failed")
    /\ UNCHANGED <<task, setting, usage, day, queue, holder, observed,
                   acknowledged, crashes>>

\* Every authorisation row is locked again and the gate evaluated on the
\* locked rows; the transaction then stays open.
LockDispatchPermitNoGate(w) ==
    LET t == worker[w].task IN
    /\ WorkerAt(w, "lock")
    /\ holder = NoWorker
    /\ task[t].status = "dispatching" /\ TokenMatches(w)
    /\ execution[t] = "running"
    /\ holder' = w
    /\ Goto(w, "act")
    /\ UNCHANGED <<task, execution, setting, usage, day, queue, observed,
                   acknowledged, crashes>>
LockDispatchPermit(w) ==
    LET t == worker[w].task IN
    /\ WorkerAt(w, "lock")
    /\ holder = NoWorker
    /\ task[t].status = "dispatching" /\ TokenMatches(w)
    /\ execution[t] = "running"
    /\ GateOpen(t)
    /\ holder' = w
    /\ Goto(w, "act")
    /\ UNCHANGED <<task, execution, setting, usage, day, queue, observed,
                   acknowledged, crashes>>

\* A closed gate, the active window, a new head, a duplicate post or an error
\* of the database refuse the permit; the audit row fails, unless that write
\* is lost as well.
RefusePermit(w) ==
    LET t == worker[w].task IN
    /\ WorkerAt(w, "lock")
    /\ holder = NoWorker
    /\ \/ UNCHANGED execution
       \/ /\ execution[t] = "running"
          /\ execution' = [execution EXCEPT ![t] = "failed"]
    /\ Conclude(w, "failed")
    /\ UNCHANGED <<task, setting, usage, day, queue, holder, observed,
                   acknowledged, crashes>>

\* A policy check before the provider ends the action with a stable code, any
\* other error there leaves the outcome unknown.
RefuseAction(w) ==
    /\ WorkerAt(w, "act")
    /\ \E out \in {"failed", "unknown"} :
         worker' = [worker EXCEPT ![w].pc = "record", ![w].out = out]
    /\ UNCHANGED <<task, execution, setting, usage, day, queue, holder,
                   observed, acknowledged, crashes>>

CallProvider(w) ==
    LET t == worker[w].task IN
    /\ WorkerAt(w, "act")
    /\ invoked' = [invoked EXCEPT ![t] = @ + 1]
    /\ inflight' = [inflight EXCEPT ![t] = TRUE]
    /\ Goto(w, "provider")
    /\ UNCHANGED <<task, execution, setting, usage, day, queue, holder,
                   applied, acknowledged, crashes>>

\* The provider works on the request on its own, also after the worker died.
ProviderApplies(t) ==
    /\ inflight[t] /\ ~applied[t]
    /\ applied' = [applied EXCEPT ![t] = TRUE]
    /\ UNCHANGED <<task, execution, setting, usage, day, queue, worker, holder,
                   inflight, invoked, acknowledged, crashes>>

\* What the worker makes of a failure of its own bookkeeping once the provider
\* has accepted.  The match grants message peers in a session of its own and
\* does not wrap the error: one with a code counts as a definite failure.
BookkeepingFailure(t) ==
    CASE TaskType[t] = "scheduled_post" -> {}
      [] TaskType[t] = "request_match"  -> {"unknown", "failed"}
      [] OTHER                          -> {"unknown"}

\* An answer is reliable; no answer leaves a mutation unknown, while the
\* online list counts as unavailable and is asked for again later.
ProviderAnswers(w) ==
    LET t == worker[w].task IN
    /\ WorkerAt(w, "provider")
    /\ \/ /\ applied[t]
          /\ \E out \in {"succeeded"} \cup BookkeepingFailure(t) :
               worker' = [worker EXCEPT ![w].pc = "record", ![w].out = out]
          /\ inflight' = [inflight EXCEPT ![t] = FALSE]
       \/ /\ ~applied[t]
          /\ \E out \in {"failed"} \cup
                        (IF Mutates(t) THEN {} ELSE {"retryable"}) :
               worker' = [worker EXCEPT ![w].pc = "record", ![w].out = out]
          /\ inflight' = [inflight EXCEPT ![t] = FALSE]
       \/ /\ worker' = [worker EXCEPT ![w].pc = "record",
                ![w].out = IF Mutates(t) THEN "unknown" ELSE "retryable"]
          /\ UNCHANGED inflight
    /\ UNCHANGED <<task, execution, setting, usage, day, queue, holder,
                   applied, invoked, acknowledged, crashes>>

ExecutionStatus(out) == CASE out = "succeeded" -> "succeeded"
                          [] out = "failed"    -> "failed"
                          [] out = "retryable" -> "unavailable"
                          [] OTHER             -> "manual_review"

\* The audit row is written in the permit transaction and committed.  If the
\* transaction is gone, a second one marks the row unknown, or fails too.
RecordOutcome(w) ==
    LET t == worker[w].task
        Written(status) == [execution EXCEPT ![t] = status]
    IN
    /\ WorkerAt(w, "record")
    /\ \/ /\ holder = w
          /\ execution' = Written(ExecutionStatus(worker[w].out))
          /\ Goto(w, "finish")
       \/ /\ holder = w
          /\ execution' = Written(ExecutionStatus(worker[w].out))
          /\ Conclude(w, "unknown")
       \/ /\ execution' = IF execution[t] = "running"
                          THEN Written("manual_review") ELSE execution
          /\ Conclude(w, "unknown")
       \/ /\ UNCHANGED execution
          /\ Conclude(w, "unknown")
    /\ holder' = IF holder = w THEN NoWorker ELSE holder
    /\ UNCHANGED <<task, setting, usage, day, queue, observed, acknowledged,
                   crashes>>

\* idle_in_transaction_session_timeout closes a permit transaction that waits
\* for the provider; the worker learns of it only at its next statement.
LoseTransaction(w) ==
    /\ holder = w
    /\ holder' = NoWorker
    /\ UNCHANGED <<task, execution, setting, usage, day, queue, worker,
                   observed, acknowledged, crashes>>

-----------------------------------------------------------------------------
(* Closing a task: finish_task and the reaper *)

\* How a task closes: its status, the audit row after it, and what the close
\* does to the failure streak, the halt and the reserved budget.
VerdictWithoutHalt(status, exec, retry) ==
    [status    |-> status,
     execution |-> exec,
     reset     |-> status = "succeeded",
     count     |-> status \in {"failed", "manual_review"} /\ ~retry,
     halt      |-> FALSE,
     refund    |-> retry]
Verdict(status, exec, retry) ==
    [status    |-> status,
     execution |-> exec,
     reset     |-> status = "succeeded",
     count     |-> status \in {"failed", "manual_review"} /\ ~retry,
     halt      |-> status = "manual_review",
     refund    |-> retry]

\* finish_task reconciles what the worker concluded with the audit row.  A
\* running row takes the conclusion over; a closed one must agree with it.
Reconcile(t, out) ==
    IF execution[t] = "none"
    THEN IF task[t].status = "dispatching"
         THEN Verdict("failed", "none", out = "retryable")
         ELSE Verdict(CASE out = "retryable" -> "failed"
                        [] out = "unknown"   -> "manual_review"
                        [] OTHER             -> out,
                      "none", out = "retryable")
    ELSE IF execution[t] = "running"
    THEN CASE out = "succeeded" -> Verdict("succeeded", "succeeded", FALSE)
           [] out = "failed"    -> Verdict("failed", "failed", FALSE)
           [] out = "retryable" -> Verdict("failed", "unavailable", TRUE)
           [] OTHER             -> Verdict("manual_review", "manual_review", FALSE)
    ELSE CASE out = "succeeded" /\ execution[t] = "succeeded" ->
                Verdict("succeeded", execution[t], FALSE)
           [] out \in {"failed", "retryable"}
              /\ execution[t] \in {"failed", "unavailable"} ->
                Verdict("failed", execution[t],
                        out = "retryable" /\ execution[t] = "unavailable")
           [] OTHER -> Verdict("manual_review", execution[t], FALSE)

\* The reaper has only the audit row to go by.
ReapVerdictFailsRunning(t) ==
    CASE execution[t] = "succeeded" -> Verdict("succeeded", "succeeded", FALSE)
      [] execution[t] = "manual_review" ->
           Verdict("manual_review", "manual_review", FALSE)
      [] OTHER -> Verdict("failed", "failed", FALSE)
ReapVerdict(t) ==
    CASE execution[t] = "none"      -> Verdict("failed", "none", FALSE)
      [] execution[t] = "succeeded" -> Verdict("succeeded", "succeeded", FALSE)
      [] execution[t] \in {"failed", "unavailable"} ->
           Verdict("failed", execution[t], FALSE)
      [] OTHER -> Verdict("manual_review", "manual_review", FALSE)

\* Budget and unknown outcome are booked on the day of the reservation.
BookedToday(t) == IF task[t].budgetDay = NoDay THEN NoDay ELSE day
BookedOn(t) == task[t].budgetDay

\* The rows both write in one transaction.
Settle(t, v) ==
    LET d == BookedOn(t)
        failures == (IF v.reset THEN 0 ELSE setting.failures)
                    + (IF v.count THEN 1 ELSE 0)
        back == IF v.refund THEN 1 ELSE 0
    IN
    /\ task' = [task EXCEPT ![t] =
                  [Close(@, v.status) EXCEPT !.refunded = v.refund]]
    /\ execution' = [execution EXCEPT ![t] = v.execution]
    /\ setting' = [setting EXCEPT
         !.failures = failures,
         !.halted = @ \/ v.halt \/ (~v.refund /\ failures >= FailureLimit)]
    /\ usage' = IF d = NoDay THEN usage
                ELSE [usage EXCEPT
                  ![d].total = @ - back,
                  ![d].by[Category(t)] = @ - back,
                  ![d].unknown = @ + (IF v.halt THEN 1 ELSE 0)]

FinishTask(w) ==
    LET t == worker[w].task IN
    /\ WorkerAt(w, "finish")
    /\ holder = NoWorker
    /\ IF task[t].status \in Open /\ TokenMatches(w)
       THEN Settle(t, Reconcile(t, worker[w].out))
       ELSE UNCHANGED <<task, execution, setting, usage>>
    /\ Leave(w)
    /\ UNCHANGED <<day, queue, holder, observed, acknowledged, crashes>>

ReapDispatchWithAudit(t) ==
    /\ holder = NoWorker
    /\ task[t].status = "dispatching" /\ task[t].timer = "elapsed"
    /\ execution[t] # "none"
    /\ Settle(t, ReapVerdict(t))
    /\ UNCHANGED <<day, queue, worker, holder, observed, acknowledged, crashes>>
ReapDispatch(t) ==
    /\ holder = NoWorker
    /\ task[t].status = "dispatching" /\ task[t].timer = "elapsed"
    /\ Settle(t, ReapVerdict(t))
    /\ UNCHANGED <<day, queue, worker, holder, observed, acknowledged, crashes>>

\* The daily cleanup closes audit rows that have been running for 15 minutes.
CloseStaleExecution(t) ==
    /\ execution[t] = "running"
    /\ task[t].status = "dispatching" => task[t].timer = "elapsed"
    /\ holder = NoWorker
    /\ execution' = [execution EXCEPT ![t] = "manual_review"]
    /\ UNCHANGED <<task, setting, usage, day, queue, worker, holder, observed,
                   acknowledged, crashes>>

Crash(w) ==
    /\ ~WorkerAt(w, "idle")
    /\ crashes < MaxCrashes
    /\ crashes' = crashes + 1
    /\ Leave(w)
    /\ holder' = IF holder = w THEN NoWorker ELSE holder
    /\ UNCHANGED <<task, execution, setting, usage, day, queue, observed,
                   acknowledged>>

-----------------------------------------------------------------------------
(* The user and the administrator *)

\* Saving the autonomy settings: a new version if the content changed, which
\* also cancels what has not started; a save resumes a halted agent.
Configure(enabled, changed) ==
    /\ holder = NoWorker
    /\ setting.access
    /\ changed \/ setting.halted
    /\ enabled # setting.enabled => changed
    /\ changed => setting.version < MaxVersion
    /\ setting' = [setting EXCEPT
         !.enabled = enabled, !.halted = FALSE, !.failures = 0,
         !.version = IF changed THEN @ + 1 ELSE @]
    /\ task' = IF changed THEN CancelNotStarted(task) ELSE task
    /\ acknowledged' = acknowledged \cup
         {t \in Tasks : task[t].status = "manual_review"}
    /\ UNCHANGED <<execution, usage, day, queue, worker, holder, observed,
                   crashes>>

\* Every cascade that disables the agent: a switch or grant revoked, the
\* account suspended, the connection or runner switched off (revoke), or new
\* execution settings, which leave the switches on but change their version.
DisableAutonomy(revoke) ==
    /\ holder = NoWorker
    /\ setting.access
    /\ setting.enabled => setting.version < MaxVersion
    /\ ~revoke => setting.runner < MaxVersion
    /\ setting' = [setting EXCEPT
         !.access = ~revoke,
         !.runner = IF revoke THEN @ ELSE @ + 1,
         !.halted = @ \/ setting.enabled,
         !.version = IF setting.enabled THEN @ + 1 ELSE @,
         !.enabled = FALSE]
    /\ task' = CancelNotStarted(task)
    /\ UNCHANGED <<execution, usage, day, queue, worker, holder, observed,
                   acknowledged, crashes>>

RestoreAccess ==
    /\ holder = NoWorker
    /\ ~setting.access
    /\ setting' = [setting EXCEPT !.access = TRUE]
    /\ UNCHANGED <<task, execution, usage, day, queue, worker, holder, observed,
                   acknowledged, crashes>>

\* Saving the runner settings while the runner stays on bumps their version
\* and cancels nothing: the gates see the tasks' snapshot is old.
SaveRunnerSettings ==
    /\ holder = NoWorker
    /\ setting.access
    /\ setting.runner < MaxVersion
    /\ setting' = [setting EXCEPT !.runner = @ + 1]
    /\ UNCHANGED <<task, execution, usage, day, queue, worker, holder, observed,
                   acknowledged, crashes>>

-----------------------------------------------------------------------------
(* Next-state relation *)

WorkerStep(w) ==
    \/ \E t \in Tasks : TakeJob(w, t)
    \/ Preflight(w) \/ BeginGeneration(w) \/ ModelReturns(w)
    \/ RenewLease(w) \/ Recheck(w) \/ BeginDispatch(w) \/ DeferTask(w)
    \/ PrepareExecution(w) \/ LockDispatchPermit(w) \/ RefusePermit(w)
    \/ RefuseAction(w) \/ CallProvider(w) \/ ProviderAnswers(w)
    \/ RecordOutcome(w) \/ FinishTask(w)

Environment ==
    \/ NextDay
    \/ \E w \in Workers : Crash(w) \/ LoseTransaction(w)
    \/ \E enabled, changed \in BOOLEAN : Configure(enabled, changed)
    \/ \E revoke \in BOOLEAN : DisableAutonomy(revoke)
    \/ RestoreAccess
    \/ SaveRunnerSettings

Next ==
    \/ \E w \in Workers : WorkerStep(w)
    \/ ControlScan
    \/ \E t \in Tasks : \/ EnqueueJob(t) \/ TimePasses(t) \/ ProviderApplies(t)
                        \/ ReapDispatch(t) \/ CloseStaleExecution(t)
    \/ Environment

Spec == Init /\ [][Next]_vars

\* Workers and the scheduler keep running and time passes; crashes, users and
\* the provider owe nothing.
Fairness ==
    /\ \A w \in Workers : WF_vars(WorkerStep(w))
    /\ WF_vars(ControlScan)
    /\ \A t \in Tasks : /\ WF_vars(EnqueueJob(t))
                        /\ WF_vars(TimePasses(t))
                        /\ WF_vars(ReapDispatch(t))

FairSpec == Spec /\ Fairness

-----------------------------------------------------------------------------
(* Type invariant *)

PCs == {"idle", "preflight", "generate", "model", "renew", "recheck",
        "reserve", "defer", "finish"} \cup PermitPCs
Outs == {"none", "succeeded", "failed", "retryable", "unknown", "stale",
         "cancelled"}

TaskRow == [status : Statuses, token : Int, attempts : Nat, version : Versions,
            runner : Versions, timer : {"running", "elapsed"},
            budgetDay : Days \cup {NoDay}, refunded : BOOLEAN]
SettingRow == [enabled : BOOLEAN, halted : BOOLEAN, failures : Nat,
               version : Versions, runner : Versions, access : BOOLEAN]
UsageRow == [total : Int, by : [Categories -> Int], unknown : Nat]
WorkerState == [pc : PCs, task : Tasks \cup {NoTask}, token : Int,
                day : Days, out : Outs]

\* Every variable has its type: the columns and local variables of the code.
TypeOK ==
    /\ task \in [Tasks -> TaskRow]
    /\ execution \in [Tasks -> ExecutionStatuses]
    /\ setting \in SettingRow
    /\ usage \in [Days -> UsageRow]
    /\ day \in Days
    /\ queue \subseteq Tasks
    /\ worker \in [Workers -> WorkerState]
    /\ \A w \in Workers : worker[w].pc # "idle" => worker[w].task \in Tasks
    /\ holder \in Workers \cup {NoWorker}
    /\ inflight \in [Tasks -> BOOLEAN]
    /\ applied \in [Tasks -> BOOLEAN]
    /\ invoked \in [Tasks -> Nat]
    /\ acknowledged \subseteq Tasks
    /\ crashes \in Nat

-----------------------------------------------------------------------------
(* Safety *)

\* The provider is called at most once for a task, whatever expires, is
\* claimed again, crashes or is reaped meanwhile (docs/18, 6.6: a dispatched
\* action is never retried blindly).
AtMostOneInvocation == \A t \in Tasks : invoked[t] <= 1

\* The scan creates no task while another of the owner is open, and nothing
\* reopens a closed one, so the owner never has two.
OneOpenTask ==
    \A t, u \in Tasks :
        task[t].status \in Open /\ task[u].status \in Open => t = u

\* What the worker reports as a definite failure is one: all actions but the match
\* take an error after the provider accepted for an unknown outcome.
FailsTruly(t) == "failed" \notin BookkeepingFailure(t)

\* A task closed as succeeded had its action applied; one closed as cancelled or
\* stale did not, nor can it still take effect, and no more does a failed one unless
\* it is a match: an uncertain effect is never reported as none.  No audit row is
\* left running behind a closed task.
OutcomeIsTruthful ==
    \A t \in Tasks :
        /\ Mutates(t) =>
             /\ task[t].status = "succeeded" => applied[t]
             /\ \/ task[t].status \in {"cancelled", "stale"}
                \/ task[t].status = "failed" /\ FailsTruly(t)
                => ~applied[t] /\ ~inflight[t]
        /\ execution[t] = "running" => task[t].status = "dispatching"

\* While a permit transaction is open, the authorisation it was granted on is
\* still in force: no switch, version or halt changed, the task still holds
\* the permit and its audit row is still running.
PermitStaysAuthorised ==
    \A w \in Workers : holder = w =>
        LET t == worker[w].task IN
        /\ worker[w].pc \in {"act", "provider", "record"}
        /\ GateOpen(t)
        /\ task[t].status = "dispatching" /\ TokenMatches(w)
        /\ execution[t] = "running"

\* The counters of each day are the dispatches reserved on it less those
\* refunded, in total and per category, and the unknown outcomes among them.
UsageIsExact ==
    \A d \in Days :
        LET spent == {t \in Tasks : task[t].budgetDay = d /\ ~task[t].refunded}
        IN  /\ usage[d].total = Cardinality(spent)
            /\ \A c \in Categories :
                 usage[d].by[c] = Cardinality({t \in spent : Category(t) = c})
            /\ usage[d].unknown =
                 Cardinality({t \in spent : task[t].status = "manual_review"})

\* An outcome nobody could confirm keeps the agent halted until the user saves
\* the settings again.
UnknownOutcomeHalts ==
    \A t \in Tasks \ acknowledged :
        task[t].status = "manual_review" => setting.halted

-----------------------------------------------------------------------------
(* Action properties *)

\* A dispatching task is never claimed again, deferred or cancelled by a
\* switch: it stays dispatching or closes with what its audit row says.
KeepsDispatching(t) ==
    task[t].status = "dispatching" =>
       \/ task'[t] \in {task[t], [task[t] EXCEPT !.timer = "elapsed"]}
       \/ task'[t].status \in {"succeeded", "failed", "manual_review"}
DispatchingIsFinal == [][\A t \in Tasks : KeepsDispatching(t)]_vars

\* The outcome of another action of the owner is still open.
Unresolved(u) ==
    /\ u \notin acknowledged
    /\ \/ execution[u] \in {"running", "manual_review"}
       \/ task[u].status = "manual_review"

\* No account action is sent while the outcome of another one is open or
\* awaits the user.
NoActionWhileUnresolved ==
    [][\A t, u \in Tasks :
         invoked'[t] # invoked[t] /\ u # t => ~Unresolved(u)]_vars

-----------------------------------------------------------------------------
(* The promise to the owner *)

\* Every task that acts on the account, a match aside, is one action of OnceAction:
\* it is sent at most once, its report is true for good, and a closed task is never
\* reopened.
Acting == {t \in Tasks : Mutates(t) /\ FailsTruly(t)}
ReportOf(status) ==
    CASE status \in {"absent"} \cup NotStarted       -> "planned"
      [] status = "dispatching"                      -> "dispatched"
      [] status = "succeeded"                        -> "done"
      [] status \in {"failed", "cancelled", "stale"} -> "void"
      [] status = "manual_review"                    -> "review"
Once == INSTANCE OnceAction WITH
    Actions <- Acting,
    report <- [t \in Acting |-> ReportOf(task[t].status)],
    sent <- [t \in Acting |-> invoked[t]],
    effect <- [t \in Acting |-> applied[t]]
ActsOnce == Once!OnceSpec

-----------------------------------------------------------------------------
(* Liveness *)

\* Every dispatch is eventually closed, by its worker or by the reaper.
DispatchSettles ==
    \A t \in Tasks :
        task[t].status = "dispatching" ~> task[t].status \in Terminal

\* The model grants no further claim, while the code would grant one.
OutOfClaims(t) ==
    /\ task[t].status \in Leased /\ task[t].timer = "elapsed"
    /\ task[t].attempts = MaxClaims

\* While the user leaves the agent on and it does not halt, every open task
\* is eventually closed: retries, deferrals and leases lost by slow workers
\* are bounded.
OpenTaskResolves ==
    <>[](setting.enabled /\ setting.access /\ ~setting.halted) =>
        \A t \in Tasks :
            task[t].status \in Open ~> task[t].status \in Terminal \/ OutOfClaims(t)
=============================================================================
