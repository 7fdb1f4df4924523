---------------------- MODULE AutonomyDispatchProofs ----------------------
(***************************************************************************)
(* Theorems about AutonomyDispatch, for every set of tasks and workers and *)
(* every value of the limits and bounds.                                   *)
(***************************************************************************)
EXTENDS AutonomyDispatch, TLAPS, FiniteSetTheorems

-----------------------------------------------------------------------------
(* Types: the workers *)

\* A worker off its idle state works on a task, and one that is about to
\* record or to finish has reached a conclusion.
WorkersOK ==
    /\ worker \in [Workers -> WorkerState]
    /\ \A w \in Workers :
         /\ worker[w].pc # "idle" => worker[w].task \in Tasks
         /\ worker[w].pc \in {"record", "finish"} => worker[w].out # "none"

TypeInv == TypeOK /\ WorkersOK

LEMMA SetWorkerOK ==
    ASSUME WorkersOK, NEW w \in Workers, NEW s \in WorkerState,
           s.pc # "idle" => s.task \in Tasks,
           s.pc \in {"record", "finish"} => s.out # "none",
           worker' = [worker EXCEPT ![w] = s]
    PROVE  WorkersOK'
BY DEF WorkersOK

LEMMA GotoOK ==
    ASSUME WorkersOK, NEW w \in Workers, NEW pc \in PCs,
           worker[w].pc # "idle",
           pc \in {"record", "finish"} => worker[w].out # "none",
           Goto(w, pc)
    PROVE  WorkersOK'
<1> DEFINE s == [worker[w] EXCEPT !.pc = pc]
<1>1. worker' = [worker EXCEPT ![w] = s]
  BY DEF Goto, WorkersOK
<1>2. s \in WorkerState /\ s.task = worker[w].task /\ s.out = worker[w].out
      /\ s.pc = pc
  BY DEF WorkersOK, WorkerState
<1> QED
  BY <1>1, <1>2, SetWorkerOK DEF WorkersOK

LEMMA ConcludeOK ==
    ASSUME WorkersOK, NEW w \in Workers, NEW out \in Outs \ {"none"},
           worker[w].pc # "idle", Conclude(w, out)
    PROVE  WorkersOK'
<1> DEFINE s == [worker[w] EXCEPT !.pc = "finish", !.out = out]
<1>1. worker' = [worker EXCEPT ![w] = s]
  BY DEF Conclude, WorkersOK
<1>2. s \in WorkerState /\ s.task = worker[w].task /\ s.out = out
      /\ s.pc = "finish"
  BY DEF WorkersOK, WorkerState, PCs
<1> QED
  BY <1>1, <1>2, SetWorkerOK DEF WorkersOK

LEMMA LeaveOK ==
    ASSUME WorkersOK, NEW w \in Workers, Leave(w)
    PROVE  WorkersOK'
<1>1. IdleWorker \in WorkerState /\ IdleWorker.pc = "idle"
  BY ConstantsAssumption
     DEF IdleWorker, WorkerState, PCs, Outs, Days, NoToken
<1> QED
  BY <1>1, SetWorkerOK DEF Leave

-----------------------------------------------------------------------------
(* Types: the task rows *)

TasksOK == task \in [Tasks -> TaskRow]

Timers == {"running", "elapsed"}

\* What every update of a row needs of the values it writes.
LEMMA StatusesOK ==
    /\ Terminal \subseteq Statuses /\ NotStarted \subseteq Statuses
    /\ "dispatching" \in Statuses /\ NoToken \in Int
BY DEF Terminal, NotStarted, Statuses, NoToken

LEMMA CloseOK ==
    ASSUME NEW row \in TaskRow, NEW status \in Terminal
    PROVE  Close(row, status) \in TaskRow
<1>1. status \in Statuses /\ NoToken \in Int
  BY StatusesOK
<1> QED
  BY <1>1, Zenon DEF Close, TaskRow

LEMMA CancelNotStartedOK ==
    ASSUME TasksOK
    PROVE  CancelNotStarted(task) \in [Tasks -> TaskRow]
BY CloseOK DEF TasksOK, CancelNotStarted, Terminal

LEMMA SetTaskOK ==
    ASSUME TasksOK, NEW t \in Tasks, NEW row \in TaskRow,
           task' = [task EXCEPT ![t] = row]
    PROVE  TasksOK'
BY DEF TasksOK

LEMMA TakeJobTasks ==
    ASSUME TasksOK, NEW w \in Workers, NEW t \in Tasks, TakeJob(w, t)
    PROVE  TasksOK'
<1> DEFINE n == task[t].attempts + 1
           row == [task[t] EXCEPT !.status = "leased", !.attempts = n,
                                  !.token = LeaseToken(n), !.timer = "running"]
<1>1. /\ task[t] \in TaskRow /\ "leased" \in Statuses
      /\ n \in Nat /\ LeaseToken(n) \in Int
  BY StatusesOK DEF TasksOK, TaskRow, NotStarted, LeaseToken
<1>2. row \in TaskRow
  BY <1>1, Zenon DEF TaskRow
<1>3. CASE UNCHANGED task
  BY <1>3 DEF TasksOK
<1>4. CASE task' = [task EXCEPT ![t] = row]
  BY <1>2, <1>4, SetTaskOK
<1> QED
  BY <1>3, <1>4 DEF TakeJob, TasksOK

LEMMA TimePassesTasks ==
    ASSUME TasksOK, NEW t \in Tasks, TimePasses(t)
    PROVE  TasksOK'
<1> DEFINE row == [task[t] EXCEPT !.timer = "elapsed"]
<1>1. row \in TaskRow
  BY DEF TasksOK, TaskRow
<1>2. task' = [task EXCEPT ![t] = row]
  BY DEF TasksOK, TimePasses
<1> QED
  BY <1>1, <1>2, SetTaskOK

LEMMA BeginGenerationTasks ==
    ASSUME TasksOK, NEW w \in Workers, worker[w].task \in Tasks, BeginGeneration(w)
    PROVE  TasksOK'
<1> DEFINE t == worker[w].task
           row == [task[t] EXCEPT !.status = "generating", !.timer = "running"]
<1>1. task[t] \in TaskRow /\ "generating" \in Statuses
  BY StatusesOK DEF TasksOK, NotStarted
<1>2. row \in TaskRow
  BY <1>1, Zenon DEF TaskRow
<1>3. UNCHANGED task \/ task' = [task EXCEPT ![t] = row]
  BY DEF TasksOK, BeginGeneration
<1> QED
  BY <1>2, <1>3, SetTaskOK DEF TasksOK

LEMMA RenewLeaseTasks ==
    ASSUME TasksOK, NEW w \in Workers, worker[w].task \in Tasks, RenewLease(w)
    PROVE  TasksOK'
<1> DEFINE t == worker[w].task
           row == [task[t] EXCEPT !.timer = "running"]
<1>1. row \in TaskRow
  BY DEF TasksOK, TaskRow
<1>2. UNCHANGED task \/ task' = [task EXCEPT ![t] = row]
  BY DEF TasksOK, RenewLease
<1> QED
  BY <1>1, <1>2, SetTaskOK DEF TasksOK

LEMMA BeginDispatchTasks ==
    ASSUME TasksOK, WorkersOK, NEW w \in Workers, worker[w].task \in Tasks,
           BeginDispatch(w)
    PROVE  TasksOK'
<1> DEFINE t == worker[w].task
           k == PermitToken(worker[w].token)
           d == worker[w].day
           row == [task[t] EXCEPT !.status = "dispatching", !.token = k,
                                  !.timer = "running", !.budgetDay = d]
<1>1. /\ task[t] \in TaskRow /\ "dispatching" \in Statuses
      /\ k \in Int /\ d \in Days \cup {NoDay}
  BY StatusesOK DEF TasksOK, WorkersOK, WorkerState, PermitToken
<1>2. row \in TaskRow
  BY <1>1, Zenon DEF TaskRow
<1>3. UNCHANGED task \/ task' = [task EXCEPT ![t] = row]
  BY DEF BeginDispatch
<1> QED
  BY <1>2, <1>3, SetTaskOK DEF TasksOK

LEMMA DeferTaskTasks ==
    ASSUME TasksOK, NEW w \in Workers, worker[w].task \in Tasks, DeferTask(w)
    PROVE  TasksOK'
<1> DEFINE t == worker[w].task
           row == [task[t] EXCEPT !.status = "deferred", !.token = NoToken,
                                  !.timer = "running"]
<1>1. task[t] \in TaskRow /\ "deferred" \in Statuses /\ NoToken \in Int
  BY StatusesOK DEF TasksOK, NotStarted
<1>2. row \in TaskRow
  BY <1>1, Zenon DEF TaskRow
<1>3. UNCHANGED task \/ task' = [task EXCEPT ![t] = row]
  BY DEF TasksOK, DeferTask
<1> QED
  BY <1>2, <1>3, SetTaskOK DEF TasksOK

LEMMA SweptOK ==
    ASSUME TasksOK, NEW superseded
    PROVE  Swept(superseded) \in [Tasks -> TaskRow]
BY CloseOK DEF TasksOK, Swept, Terminal

LEMMA ControlScanTasks ==
    ASSUME TasksOK, setting \in SettingRow, ControlScan
    PROVE  TasksOK'
<1>1. ASSUME NEW superseded, task' = Swept(superseded)
      PROVE  TasksOK'
  BY <1>1, SweptOK DEF TasksOK
<1>2. ASSUME NEW superseded, NEW t \in Tasks, NEW timer \in Timers,
             task' = [Swept(superseded) EXCEPT ![t] = Created(@, timer)]
      PROVE  TasksOK'
  <2> DEFINE row == Swept(superseded)[t]
  <2>1. /\ row \in TaskRow /\ "queued" \in Statuses
        /\ setting.version \in Versions /\ setting.runner \in Versions
    BY SweptOK, StatusesOK DEF SettingRow, NotStarted
  <2> HIDE DEF row
  <2>2. Created(row, timer) \in TaskRow
    BY <2>1, Zenon DEF TaskRow, Timers, Created
  <2> QED
    BY <1>2, <2>2, SweptOK DEF TasksOK, row
<1> QED
  BY <1>1, <1>2 DEF ControlScan, Timers

-----------------------------------------------------------------------------
(* Types: closing a task *)

VerdictOK(v) ==
    /\ v.status \in Terminal /\ v.execution \in ExecutionStatuses
    /\ v.reset \in BOOLEAN /\ v.count \in BOOLEAN
    /\ v.halt \in BOOLEAN /\ v.refund \in BOOLEAN

LEMMA VerdictIsOK ==
    ASSUME NEW status \in Terminal, NEW exec \in ExecutionStatuses,
           NEW retry \in BOOLEAN
    PROVE  VerdictOK(Verdict(status, exec, retry))
BY DEF VerdictOK, Verdict

LEMMA ReconcileIsOK ==
    ASSUME NEW t \in Tasks, NEW out \in Outs \ {"none"},
           execution[t] \in ExecutionStatuses
    PROVE  VerdictOK(Reconcile(t, out))
<1>1. CASE execution[t] = "none"
  BY <1>1, VerdictIsOK DEF Reconcile, Terminal, Outs, ExecutionStatuses
<1>2. CASE execution[t] = "running"
  BY <1>2, VerdictIsOK DEF Reconcile, Terminal, Outs, ExecutionStatuses
<1>3. CASE execution[t] \notin {"none", "running"}
  BY <1>3, VerdictIsOK DEF Reconcile, Terminal, Outs, ExecutionStatuses
<1> QED
  BY <1>1, <1>2, <1>3

LEMMA ReapVerdictIsOK ==
    ASSUME NEW t \in Tasks, execution[t] \in ExecutionStatuses
    PROVE  VerdictOK(ReapVerdict(t))
BY VerdictIsOK DEF ReapVerdict, Terminal, ExecutionStatuses

LEMMA CategoryOK == ASSUME NEW t \in Tasks PROVE Category(t) \in Categories
BY DEF Category, Categories

LEMMA SettleOK ==
    ASSUME TypeOK, NEW t \in Tasks, NEW v, VerdictOK(v), Settle(t, v)
    PROVE  /\ TasksOK'
           /\ execution' \in [Tasks -> ExecutionStatuses]
           /\ setting' \in SettingRow
           /\ usage' \in [Days -> UsageRow]
<1>1. TasksOK'
  <2> DEFINE closed == Close(task[t], v.status)
             b == v.refund
             row == [closed EXCEPT !.refunded = b]
  <2>1. closed \in TaskRow /\ b \in BOOLEAN
    BY CloseOK DEF TypeOK, VerdictOK
  <2>2. task' = [task EXCEPT ![t] = row]
    BY DEF Settle
  <2> HIDE DEF closed
  <2>3. row \in TaskRow
    BY <2>1, Zenon DEF TaskRow
  <2> QED
    BY <2>2, <2>3, SetTaskOK DEF TypeOK, TasksOK
<1>2. execution' \in [Tasks -> ExecutionStatuses]
  BY DEF Settle, TypeOK, VerdictOK
<1>3. setting' \in SettingRow
  <2> DEFINE f == (IF v.reset THEN 0 ELSE setting.failures)
                  + (IF v.count THEN 1 ELSE 0)
             h == \/ setting.halted
                  \/ v.halt
                  \/ ~v.refund /\ f >= FailureLimit
  <2>1. f \in Nat /\ setting \in SettingRow
    BY DEF TypeOK, SettingRow, VerdictOK
  <2>2. h \in BOOLEAN
    OBVIOUS
  <2>3. setting' = [setting EXCEPT !.failures = f, !.halted = h]
    BY DEF Settle
  <2> HIDE DEF f, h
  <2> QED
    BY <2>1, <2>2, <2>3, Zenon DEF SettingRow
<1>4. usage' \in [Days -> UsageRow]
  <2> DEFINE d == BookedOn(t)
             c == Category(t)
             back == IF v.refund THEN 1 ELSE 0
             total == usage[d].total - back
             by == [usage[d].by EXCEPT ![c] = @ - back]
             unknown == usage[d].unknown + (IF v.halt THEN 1 ELSE 0)
             row == [usage[d] EXCEPT !.total = total, !.by = by,
                                     !.unknown = unknown]
  <2>1. CASE d = NoDay
    BY <2>1 DEF Settle, TypeOK
  <2>2. CASE d # NoDay
    <3>1. d \in Days /\ usage[d] \in UsageRow /\ c \in Categories
      BY <2>2, CategoryOK DEF TypeOK, TaskRow, BookedOn
    <3>2. total \in Int /\ by \in [Categories -> Int] /\ unknown \in Nat
      BY <3>1 DEF UsageRow
    <3>3. usage' = [usage EXCEPT ![d] = row]
      BY <2>2, <3>1 DEF Settle, UsageRow
    <3> HIDE DEF total, by, unknown
    <3>4. row \in UsageRow
      BY <3>1, <3>2, Zenon DEF UsageRow
    <3> QED
      BY <3>3, <3>4 DEF TypeOK
  <2> QED
    BY <2>1, <2>2
<1> QED
  BY <1>1, <1>2, <1>3, <1>4

-----------------------------------------------------------------------------
(* Types: every step *)

LEMMA TypeInit == Init => TypeInv
<1> SUFFICES ASSUME Init PROVE TypeInv
  OBVIOUS
<1>1. TasksOK
  BY ConstantsAssumption DEF Init, TasksOK, TaskRow, AbsentTask, Statuses,
     Versions, NoToken, NoDay
<1>2. WorkersOK
  BY ConstantsAssumption DEF Init, WorkersOK, WorkerState, IdleWorker, PCs,
     Outs, Days, NoToken
<1>3. usage \in [Days -> UsageRow]
  BY DEF Init, UsageRow, EmptyUsage
<1>4. setting \in SettingRow /\ day \in Days
  BY ConstantsAssumption DEF Init, SettingRow, Versions, Days
<1> QED
  BY <1>1, <1>2, <1>3, <1>4
     DEF Init, TypeInv, TypeOK, TasksOK, WorkersOK, ExecutionStatuses

LEMMA BusyWorker ==
    ASSUME TypeInv, NEW w \in Workers, worker[w].pc # "idle"
    PROVE  worker[w].task \in Tasks /\ worker[w].token \in Int
           /\ worker[w].day \in Days
BY DEF TypeInv, WorkersOK, WorkerState

LEMMA TypePreflight ==
    ASSUME TypeInv, NEW w \in Workers, Preflight(w)
    PROVE  TypeInv'
<1>1. worker[w].pc # "idle" /\ worker[w].task \in Tasks
  BY BusyWorker DEF Preflight, WorkerAt
<1>2. WorkersOK'
  BY <1>1, GotoOK, ConcludeOK DEF Preflight, WorkerAt, TypeInv, PCs, Outs, PermitPCs
<1>3. TasksOK'
  BY <1>1 DEF Preflight, TypeInv, TypeOK, TasksOK
<1> QED
  BY <1>1, <1>2, <1>3 DEF Preflight, TypeInv, TypeOK, TasksOK, WorkersOK, observed

LEMMA TypeBeginGeneration ==
    ASSUME TypeInv, NEW w \in Workers, BeginGeneration(w)
    PROVE  TypeInv'
<1>1. worker[w].pc # "idle" /\ worker[w].task \in Tasks
  BY BusyWorker DEF BeginGeneration, WorkerAt
<1>2. WorkersOK'
  BY <1>1, GotoOK, LeaveOK DEF BeginGeneration, WorkerAt, TypeInv, PCs, Outs, PermitPCs
<1>3. TasksOK'
  BY <1>1, BeginGenerationTasks DEF BeginGeneration, TypeInv, TypeOK, TasksOK
<1> QED
  BY <1>1, <1>2, <1>3 DEF BeginGeneration, TypeInv, TypeOK, TasksOK, WorkersOK, observed

LEMMA TypeModelReturns ==
    ASSUME TypeInv, NEW w \in Workers, ModelReturns(w)
    PROVE  TypeInv'
<1>1. worker[w].pc # "idle" /\ worker[w].task \in Tasks
  BY BusyWorker DEF ModelReturns, WorkerAt
<1>2. WorkersOK'
  BY <1>1, GotoOK, ConcludeOK DEF ModelReturns, WorkerAt, TypeInv, PCs, Outs, PermitPCs
<1>3. TasksOK'
  BY <1>1 DEF ModelReturns, TypeInv, TypeOK, TasksOK
<1> QED
  BY <1>1, <1>2, <1>3 DEF ModelReturns, TypeInv, TypeOK, TasksOK, WorkersOK, observed

LEMMA TypeRecheck ==
    ASSUME TypeInv, NEW w \in Workers, Recheck(w)
    PROVE  TypeInv'
<1>1. worker[w].pc # "idle" /\ worker[w].task \in Tasks
  BY BusyWorker DEF Recheck, WorkerAt
<1>2. WorkersOK'
  BY <1>1, GotoOK, ConcludeOK DEF Recheck, WorkerAt, TypeInv, PCs, Outs, PermitPCs
<1>3. TasksOK'
  BY <1>1 DEF Recheck, TypeInv, TypeOK, TasksOK
<1> QED
  BY <1>1, <1>2, <1>3 DEF Recheck, TypeInv, TypeOK, TasksOK, WorkersOK, observed

LEMMA TypeDeferTask ==
    ASSUME TypeInv, NEW w \in Workers, DeferTask(w)
    PROVE  TypeInv'
<1>1. worker[w].pc # "idle" /\ worker[w].task \in Tasks
  BY BusyWorker DEF DeferTask, WorkerAt
<1>2. WorkersOK'
  BY <1>1, LeaveOK DEF DeferTask, WorkerAt, TypeInv, PCs, Outs, PermitPCs
<1>3. TasksOK'
  BY <1>1, DeferTaskTasks DEF DeferTask, TypeInv, TypeOK, TasksOK
<1> QED
  BY <1>1, <1>2, <1>3 DEF DeferTask, TypeInv, TypeOK, TasksOK, WorkersOK, observed

LEMMA TypePrepareExecution ==
    ASSUME TypeInv, NEW w \in Workers, PrepareExecution(w)
    PROVE  TypeInv'
<1>1. worker[w].pc # "idle" /\ worker[w].task \in Tasks
  BY BusyWorker DEF PrepareExecution, WorkerAt
<1>2. WorkersOK'
  BY <1>1, GotoOK, ConcludeOK DEF PrepareExecution, WorkerAt, TypeInv, PCs, Outs, PermitPCs
<1>3. TasksOK'
  BY <1>1 DEF PrepareExecution, TypeInv, TypeOK, TasksOK
<1> QED
  BY <1>1, <1>2, <1>3 DEF PrepareExecution, TypeInv, TypeOK, TasksOK, WorkersOK, observed, ExecutionStatuses

LEMMA TypeLockDispatchPermit ==
    ASSUME TypeInv, NEW w \in Workers, LockDispatchPermit(w)
    PROVE  TypeInv'
<1>1. worker[w].pc # "idle" /\ worker[w].task \in Tasks
  BY BusyWorker DEF LockDispatchPermit, WorkerAt
<1>2. WorkersOK'
  BY <1>1, GotoOK DEF LockDispatchPermit, WorkerAt, TypeInv, PCs, Outs, PermitPCs
<1>3. TasksOK'
  BY <1>1 DEF LockDispatchPermit, TypeInv, TypeOK, TasksOK
<1> QED
  BY <1>1, <1>2, <1>3 DEF LockDispatchPermit, TypeInv, TypeOK, TasksOK, WorkersOK, observed

LEMMA TypeRefusePermit ==
    ASSUME TypeInv, NEW w \in Workers, RefusePermit(w)
    PROVE  TypeInv'
<1>1. worker[w].pc # "idle" /\ worker[w].task \in Tasks
  BY BusyWorker DEF RefusePermit, WorkerAt
<1>2. WorkersOK'
  BY <1>1, ConcludeOK DEF RefusePermit, WorkerAt, TypeInv, PCs, Outs, PermitPCs
<1>3. TasksOK'
  BY <1>1 DEF RefusePermit, TypeInv, TypeOK, TasksOK
<1> QED
  BY <1>1, <1>2, <1>3 DEF RefusePermit, TypeInv, TypeOK, TasksOK, WorkersOK, observed, ExecutionStatuses

LEMMA TypeCallProvider ==
    ASSUME TypeInv, NEW w \in Workers, CallProvider(w)
    PROVE  TypeInv'
<1>1. worker[w].pc # "idle" /\ worker[w].task \in Tasks
  BY BusyWorker DEF CallProvider, WorkerAt
<1>2. WorkersOK'
  BY <1>1, GotoOK DEF CallProvider, WorkerAt, TypeInv, PCs, Outs, PermitPCs
<1>3. TasksOK'
  BY <1>1 DEF CallProvider, TypeInv, TypeOK, TasksOK
<1> QED
  BY <1>1, <1>2, <1>3 DEF CallProvider, TypeInv, TypeOK, TasksOK, WorkersOK, observed

LEMMA TypeTakeJob ==
    ASSUME TypeInv, NEW w \in Workers, NEW t \in Tasks, TakeJob(w, t)
    PROVE  TypeInv'
<1> DEFINE n == task[t].attempts + 1
           s == [pc |-> "preflight", task |-> t, token |-> LeaseToken(n),
                 day |-> day, out |-> "none"]
<1>1. s \in WorkerState
  BY DEF TypeInv, TypeOK, TaskRow, WorkerState, PCs, Outs, LeaseToken
<1>2. UNCHANGED worker \/ worker' = [worker EXCEPT ![w] = s]
  BY DEF TakeJob
<1>3. WorkersOK'
  BY <1>1, <1>2, SetWorkerOK DEF TypeInv, WorkersOK
<1>4. TasksOK'
  BY TakeJobTasks DEF TypeInv, TypeOK, TasksOK
<1> QED
  BY <1>3, <1>4 DEF TakeJob, TypeInv, TypeOK, TasksOK, WorkersOK, observed

LEMMA TypeRenewLease ==
    ASSUME TypeInv, NEW w \in Workers, RenewLease(w)
    PROVE  TypeInv'
<1> DEFINE s == [worker[w] EXCEPT !.pc = "recheck", !.day = day]
<1>1. worker[w].pc # "idle" /\ worker[w].task \in Tasks
  BY BusyWorker DEF RenewLease, WorkerAt
<1>2. s \in WorkerState /\ s.task = worker[w].task /\ s.pc = "recheck"
  BY DEF TypeInv, TypeOK, WorkersOK, WorkerState, PCs
<1>3. Leave(w) \/ worker' = [worker EXCEPT ![w] = s]
  BY DEF RenewLease, TypeInv, WorkersOK
<1>4. WorkersOK'
  BY <1>1, <1>2, <1>3, LeaveOK, SetWorkerOK DEF TypeInv
<1>5. TasksOK'
  BY <1>1, RenewLeaseTasks DEF TypeInv, TypeOK, TasksOK
<1> QED
  BY <1>4, <1>5 DEF RenewLease, TypeInv, TypeOK, TasksOK, WorkersOK, observed

LEMMA ReserveOK ==
    ASSUME usage \in [Days -> UsageRow], NEW t \in Tasks, NEW d \in Days,
           Reserve(t, d)
    PROVE  usage' \in [Days -> UsageRow]
<1> DEFINE c == Category(t)
           total == usage[d].total + 1
           by == [usage[d].by EXCEPT ![c] = @ + 1]
           row == [usage[d] EXCEPT !.total = total, !.by = by]
<1>1. usage[d] \in UsageRow /\ c \in Categories
  BY CategoryOK
<1>2. total \in Int /\ by \in [Categories -> Int]
  BY <1>1 DEF UsageRow
<1>3. usage' = [usage EXCEPT ![d] = row]
  BY <1>1 DEF Reserve, UsageRow
<1> HIDE DEF total, by
<1>4. row \in UsageRow
  BY <1>1, <1>2, Zenon DEF UsageRow
<1> QED
  BY <1>3, <1>4

LEMMA TypeBeginDispatch ==
    ASSUME TypeInv, NEW w \in Workers, BeginDispatch(w)
    PROVE  TypeInv'
<1> DEFINE permit == PermitToken(worker[w].token)
           s == [worker[w] EXCEPT !.pc = "prepare", !.token = permit]
<1>1. worker[w].pc # "idle" /\ worker[w].task \in Tasks /\ worker[w].day \in Days
  BY BusyWorker DEF BeginDispatch, WorkerAt
<1>2. worker[w] \in WorkerState /\ permit \in Int
  BY DEF TypeInv, WorkersOK, WorkerState, PermitToken
<1> HIDE DEF permit
<1>3. s \in WorkerState /\ s.task = worker[w].task /\ s.pc = "prepare"
  BY <1>2 DEF WorkerState, PCs, PermitPCs
<1>4. \/ Leave(w) \/ Goto(w, "defer")
      \/ \E out \in {"cancelled", "stale"} : Conclude(w, out)
      \/ worker' = [worker EXCEPT ![w] = s]
  BY DEF BeginDispatch, permit
<1>5. WorkersOK'
  BY <1>1, <1>3, <1>4, LeaveOK, GotoOK, ConcludeOK, SetWorkerOK
     DEF TypeInv, PCs, Outs
<1>6. TasksOK'
  BY <1>1, BeginDispatchTasks DEF TypeInv, TypeOK, TasksOK
<1>7. usage' \in [Days -> UsageRow]
  BY <1>1, ReserveOK DEF BeginDispatch, TypeInv, TypeOK
<1> QED
  BY <1>5, <1>6, <1>7
     DEF BeginDispatch, TypeInv, TypeOK, TasksOK, WorkersOK, observed

LEMMA RecordingOK ==
    ASSUME WorkersOK, NEW w \in Workers, NEW out \in Outs \ {"none"},
           worker[w].pc # "idle",
           worker' = [worker EXCEPT ![w].pc = "record", ![w].out = out]
    PROVE  WorkersOK'
<1> DEFINE s == [worker[w] EXCEPT !.pc = "record", !.out = out]
<1>1. worker' = [worker EXCEPT ![w] = s]
  BY DEF WorkersOK
<1>2. s \in WorkerState /\ s.task = worker[w].task /\ s.out = out
      /\ s.pc = "record"
  BY DEF WorkersOK, WorkerState, PCs, PermitPCs
<1> QED
  BY <1>1, <1>2, SetWorkerOK DEF WorkersOK

LEMMA TypeRefuseAction ==
    ASSUME TypeInv, NEW w \in Workers, RefuseAction(w)
    PROVE  TypeInv'
<1>1. worker[w].pc # "idle" /\ worker[w].task \in Tasks
  BY BusyWorker DEF RefuseAction, WorkerAt
<1>2. WorkersOK'
  BY <1>1, RecordingOK DEF RefuseAction, WorkerAt, TypeInv, PCs, Outs, PermitPCs
<1>3. TasksOK'
  BY <1>1 DEF RefuseAction, TypeInv, TypeOK, TasksOK
<1> QED
  BY <1>1, <1>2, <1>3 DEF RefuseAction, TypeInv, TypeOK, TasksOK, WorkersOK, observed

LEMMA TypeProviderAnswers ==
    ASSUME TypeInv, NEW w \in Workers, ProviderAnswers(w)
    PROVE  TypeInv'
<1>1. worker[w].pc # "idle" /\ worker[w].task \in Tasks
  BY BusyWorker DEF ProviderAnswers, WorkerAt
<1>2. \E out \in Outs \ {"none"} :
        worker' = [worker EXCEPT ![w].pc = "record", ![w].out = out]
  BY <1>1 DEF ProviderAnswers, BookkeepingFailure, Outs
<1>3. WorkersOK'
  BY <1>1, <1>2, RecordingOK DEF TypeInv
<1>4. inflight' \in [Tasks -> BOOLEAN]
  BY <1>1 DEF ProviderAnswers, TypeInv, TypeOK
<1> QED
  BY <1>3, <1>4 DEF ProviderAnswers, TypeInv, TypeOK, WorkersOK

LEMMA TypeRecordOutcome ==
    ASSUME TypeInv, NEW w \in Workers, RecordOutcome(w)
    PROVE  TypeInv'
<1>1. worker[w].pc # "idle" /\ worker[w].task \in Tasks /\ worker[w].out # "none"
  BY BusyWorker DEF RecordOutcome, WorkerAt, TypeInv, WorkersOK
<1>2. WorkersOK'
  BY <1>1, GotoOK, ConcludeOK DEF RecordOutcome, TypeInv, PCs, Outs
<1>3. execution' \in [Tasks -> ExecutionStatuses]
  BY <1>1 DEF RecordOutcome, TypeInv, TypeOK, ExecutionStatus, ExecutionStatuses
<1> QED
  BY <1>2, <1>3 DEF RecordOutcome, TypeInv, TypeOK, WorkersOK, observed

LEMMA TypeFinishTask ==
    ASSUME TypeInv, NEW w \in Workers, FinishTask(w)
    PROVE  TypeInv'
<1> DEFINE t == worker[w].task
           out == worker[w].out
<1>1. t \in Tasks /\ out \in Outs \ {"none"}
  BY DEF FinishTask, WorkerAt, TypeInv, WorkersOK, WorkerState
<1>2. WorkersOK'
  BY LeaveOK DEF FinishTask, TypeInv
<1>3. CASE UNCHANGED <<task, execution, setting, usage>>
  BY <1>2, <1>3 DEF FinishTask, TypeInv, TypeOK, WorkersOK, observed
<1>4. CASE Settle(t, Reconcile(t, out))
  <2>1. VerdictOK(Reconcile(t, out))
    BY <1>1, ReconcileIsOK DEF TypeInv, TypeOK
  <2>2. /\ TasksOK' /\ execution' \in [Tasks -> ExecutionStatuses]
        /\ setting' \in SettingRow /\ usage' \in [Days -> UsageRow]
    BY <1>1, <1>4, <2>1, SettleOK DEF TypeInv
  <2> QED
    BY <1>2, <2>2 DEF FinishTask, TypeInv, TypeOK, TasksOK, WorkersOK, observed
<1> QED
  BY <1>3, <1>4 DEF FinishTask

LEMMA TypeReapDispatch ==
    ASSUME TypeInv, NEW t \in Tasks, ReapDispatch(t)
    PROVE  TypeInv'
<1>1. VerdictOK(ReapVerdict(t))
  BY ReapVerdictIsOK DEF TypeInv, TypeOK
<1>2. /\ TasksOK' /\ execution' \in [Tasks -> ExecutionStatuses]
      /\ setting' \in SettingRow /\ usage' \in [Days -> UsageRow]
  BY <1>1, SettleOK DEF ReapDispatch, TypeInv
<1> QED
  BY <1>2 DEF ReapDispatch, TypeInv, TypeOK, TasksOK, WorkersOK, observed

LEMMA TypeCrash ==
    ASSUME TypeInv, NEW w \in Workers, Crash(w)
    PROVE  TypeInv'
<1>1. WorkersOK'
  BY LeaveOK DEF Crash, TypeInv
<1> QED
  BY <1>1 DEF Crash, TypeInv, TypeOK, WorkersOK, observed

LEMMA TypeScheduler ==
    ASSUME TypeInv,
           ControlScan \/ NextDay \/ (\E t \in Tasks : EnqueueJob(t) \/ TimePasses(t))
    PROVE  TypeInv'
<1>1. CASE ControlScan
  <2>1. TasksOK'
    BY <1>1, ControlScanTasks DEF TypeInv, TypeOK, TasksOK
  <2> QED
    BY <1>1, <2>1 DEF ControlScan, TypeInv, TypeOK, TasksOK, WorkersOK, observed
<1>2. CASE NextDay
  BY <1>2, ConstantsAssumption
     DEF NextDay, TypeInv, TypeOK, WorkersOK, observed, Days
<1>3. ASSUME NEW t \in Tasks, EnqueueJob(t) PROVE TypeInv'
  BY <1>3 DEF EnqueueJob, TypeInv, TypeOK, WorkersOK, observed
<1>4. ASSUME NEW t \in Tasks, TimePasses(t) PROVE TypeInv'
  <2>1. TasksOK'
    BY <1>4, TimePassesTasks DEF TypeInv, TypeOK, TasksOK
  <2> QED
    BY <1>4, <2>1 DEF TimePasses, TypeInv, TypeOK, TasksOK, WorkersOK, observed
<1> QED
  BY <1>1, <1>2, <1>3, <1>4

LEMMA TypeProvider ==
    ASSUME TypeInv, NEW t \in Tasks, ProviderApplies(t) \/ CloseStaleExecution(t)
    PROVE  TypeInv'
<1>1. CASE ProviderApplies(t)
  BY <1>1 DEF ProviderApplies, TypeInv, TypeOK, WorkersOK
<1>2. CASE CloseStaleExecution(t)
  BY <1>2 DEF CloseStaleExecution, TypeInv, TypeOK, WorkersOK, observed,
              ExecutionStatuses
<1> QED
  BY <1>1, <1>2

LEMMA TypeConfigure ==
    ASSUME TypeInv, NEW enabled \in BOOLEAN, NEW changed \in BOOLEAN,
           Configure(enabled, changed)
    PROVE  TypeInv'
<1>1. TasksOK'
  BY CancelNotStartedOK DEF Configure, TypeInv, TypeOK, TasksOK
<1>2. setting' \in SettingRow
  <2> DEFINE v == IF changed THEN setting.version + 1 ELSE setting.version
  <2>1. v \in Versions /\ setting \in SettingRow
    BY ConstantsAssumption
       DEF Configure, TypeInv, TypeOK, SettingRow, Versions
  <2>2. setting' = [setting EXCEPT !.enabled = enabled, !.halted = FALSE,
                                   !.failures = 0, !.version = v]
    BY DEF Configure
  <2> HIDE DEF v
  <2>3. 0 \in Nat /\ FALSE \in BOOLEAN
    OBVIOUS
  <2> QED
    BY <2>1, <2>2, <2>3, Zenon DEF SettingRow
<1> QED
  BY <1>1, <1>2 DEF Configure, TypeInv, TypeOK, TasksOK, WorkersOK, observed

LEMMA TypeDisableAutonomy ==
    ASSUME TypeInv, NEW revoke \in BOOLEAN, DisableAutonomy(revoke)
    PROVE  TypeInv'
<1>1. TasksOK'
  BY CancelNotStartedOK DEF DisableAutonomy, TypeInv, TypeOK, TasksOK
<1>2. setting' \in SettingRow
  <2> DEFINE v == IF setting.enabled THEN setting.version + 1 ELSE setting.version
             r == IF revoke THEN setting.runner ELSE setting.runner + 1
             h == setting.halted \/ setting.enabled
             a == ~revoke
  <2>1. /\ v \in Versions /\ r \in Versions /\ setting \in SettingRow
        /\ h \in BOOLEAN /\ a \in BOOLEAN
    BY ConstantsAssumption
       DEF DisableAutonomy, TypeInv, TypeOK, SettingRow, Versions
  <2>2. setting' = [setting EXCEPT !.access = a, !.runner = r, !.halted = h,
                                   !.version = v, !.enabled = FALSE]
    BY DEF DisableAutonomy
  <2> HIDE DEF v, r, h, a
  <2>3. FALSE \in BOOLEAN
    OBVIOUS
  <2> QED
    BY <2>1, <2>2, <2>3, Zenon DEF SettingRow
<1> QED
  BY <1>1, <1>2 DEF DisableAutonomy, TypeInv, TypeOK, TasksOK, WorkersOK, observed

LEMMA TypeEnvironment ==
    ASSUME TypeInv, Environment
    PROVE  TypeInv'
<1>1. ASSUME NEW w \in Workers, LoseTransaction(w) PROVE TypeInv'
  BY <1>1 DEF LoseTransaction, TypeInv, TypeOK, WorkersOK, observed
<1>2. CASE RestoreAccess
  BY <1>2 DEF RestoreAccess, TypeInv, TypeOK, WorkersOK, observed, SettingRow
<1>3. CASE SaveRunnerSettings
  <2>1. setting' \in SettingRow
    <3> DEFINE r == setting.runner + 1
    <3>1. setting \in SettingRow /\ r \in Versions
      BY <1>3, ConstantsAssumption
         DEF SaveRunnerSettings, TypeInv, TypeOK, SettingRow, Versions
    <3>2. setting' = [setting EXCEPT !.runner = r]
      BY <1>3 DEF SaveRunnerSettings
    <3> HIDE DEF r
    <3> QED
      BY <3>1, <3>2, Zenon DEF SettingRow
  <2> QED
    BY <1>3, <2>1 DEF SaveRunnerSettings, TypeInv, TypeOK, WorkersOK, observed
<1> QED
  BY <1>1, <1>2, <1>3, TypeCrash, TypeConfigure, TypeDisableAutonomy,
     TypeScheduler DEF Environment

LEMMA TypeWorkerStep ==
    ASSUME TypeInv, NEW w \in Workers, WorkerStep(w)
    PROVE  TypeInv'
BY TypeTakeJob, TypePreflight, TypeBeginGeneration, TypeModelReturns,
   TypeRenewLease, TypeRecheck, TypeBeginDispatch, TypeDeferTask,
   TypePrepareExecution, TypeLockDispatchPermit, TypeRefusePermit,
   TypeRefuseAction, TypeCallProvider, TypeProviderAnswers, TypeRecordOutcome,
   TypeFinishTask DEF WorkerStep

LEMMA TypeStep == TypeInv /\ [Next]_vars => TypeInv'
<1> SUFFICES ASSUME TypeInv, [Next]_vars PROVE TypeInv'
  OBVIOUS
<1>1. CASE UNCHANGED vars
  BY <1>1 DEF vars, TypeInv, TypeOK, WorkersOK
<1>2. CASE Next
  BY <1>2, TypeWorkerStep, TypeScheduler, TypeProvider, TypeReapDispatch,
     TypeEnvironment DEF Next
<1> QED
  BY <1>1, <1>2

\* Every reachable state is well typed, and a worker that closes a task always
\* brings a conclusion, so Reconcile never meets a missing one.
THEOREM TypeCorrect == Spec => [](TypeOK /\ WorkersOK)
<1>1. Spec => []TypeInv
  BY TypeInit, TypeStep, PTL DEF Spec
<1> QED
  BY <1>1, PTL DEF TypeInv

-----------------------------------------------------------------------------
(* How a row may change *)

\* A dispatched task closes with one of these.
Answers == {"succeeded", "failed", "manual_review"}

\* What one step may do to the row of a task: nothing, open it in
\* a scan, move it among the states before dispatch, close it there,
\* dispatch it, and from dispatch only let its deadline pass or close it with
\* an answer.
RowStep(t) ==
    LET old == task[t]
        new == task'[t]
    IN  \/ new = old
        \/ /\ ControlScan
           /\ old.status = "absent" /\ new.status = "queued"
           /\ new.budgetDay = old.budgetDay
        \/ /\ old.status \in NotStarted
           /\ new.status \in NotStarted \cup Terminal
           /\ new.budgetDay = old.budgetDay
        \/ /\ old.status \in NotStarted /\ new.status = "dispatching"
           /\ new.budgetDay \in Days
        \/ /\ old.status = "dispatching"
           /\ new = [old EXCEPT !.timer = "elapsed"]
        \/ /\ old.status = "dispatching" /\ new.status \in Answers
           /\ new.budgetDay = old.budgetDay

LEMMA CloseFields ==
    ASSUME NEW row \in TaskRow, NEW status
    PROVE  /\ Close(row, status).status = status
           /\ Close(row, status).budgetDay = row.budgetDay
BY DEF Close, TaskRow

LEMMA SettleFields ==
    ASSUME TypeInv, NEW t \in Tasks, NEW v, Settle(t, v)
    PROVE  /\ task'[t].status = v.status
           /\ task'[t].budgetDay = task[t].budgetDay
           /\ \A u \in Tasks \ {t} : task'[u] = task[u]
<1> DEFINE closed == Close(task[t], v.status)
<1>1. task[t] \in TaskRow
  BY DEF TypeInv, TypeOK
<1>2. task' = [task EXCEPT ![t] = [closed EXCEPT !.refunded = v.refund]]
  BY DEF Settle
<1>3. [closed EXCEPT !.refunded = v.refund].status = closed.status
      /\ [closed EXCEPT !.refunded = v.refund].budgetDay = closed.budgetDay
  BY DEF Close
<1> QED
  BY <1>1, <1>2, <1>3, CloseFields DEF TypeInv, TypeOK

LEMMA ReconcileAnswers ==
    ASSUME NEW t \in Tasks, NEW out, task[t].status = "dispatching"
    PROVE  Reconcile(t, out).status \in Answers
BY DEF Reconcile, Verdict, Answers

LEMMA ReapAnswers ==
    ASSUME NEW t \in Tasks
    PROVE  ReapVerdict(t).status \in Answers
BY DEF ReapVerdict, Verdict, Answers

LEMMA FinishRow ==
    ASSUME TypeInv, NEW w \in Workers, FinishTask(w), NEW u \in Tasks
    PROVE  RowStep(u)
<1> DEFINE t == worker[w].task
           out == worker[w].out
<1>1. t \in Tasks /\ out \in Outs \ {"none"}
  BY DEF FinishTask, WorkerAt, TypeInv, WorkersOK, WorkerState
<1>2. CASE UNCHANGED task
  BY <1>2 DEF RowStep
<1>3. CASE task[t].status \in Open /\ Settle(t, Reconcile(t, out))
  <2>1. VerdictOK(Reconcile(t, out))
    BY <1>1, ReconcileIsOK DEF TypeInv, TypeOK
  <2>2. task[t].status = "dispatching" => task'[t].status \in Answers
    BY <1>1, <1>3, ReconcileAnswers, SettleFields
  <2>3. task'[t].status \in Terminal
    BY <1>1, <1>3, <2>1, SettleFields DEF VerdictOK
  <2>4. /\ task'[t].budgetDay = task[t].budgetDay
        /\ u # t => task'[u] = task[u]
    BY <1>1, <1>3, SettleFields
  <2> QED
    BY <1>3, <2>2, <2>3, <2>4 DEF RowStep, Open
<1> QED
  BY <1>2, <1>3 DEF FinishTask

LEMMA ReapRow ==
    ASSUME TypeInv, NEW t \in Tasks, ReapDispatch(t), NEW u \in Tasks
    PROVE  RowStep(u)
BY ReapAnswers, SettleFields DEF ReapDispatch, RowStep

LEMMA CancelRow ==
    ASSUME TypeInv, task' = CancelNotStarted(task), NEW u \in Tasks
    PROVE  RowStep(u)
<1>1. task'[u] = task[u] \/ (task[u].status \in NotStarted
                             /\ task'[u] = Close(task[u], "cancelled"))
  BY DEF CancelNotStarted
<1>2. task[u] \in TaskRow
  BY DEF TypeInv, TypeOK
<1> QED
  BY <1>1, <1>2, CloseFields DEF RowStep, Terminal

LEMMA SweptRow ==
    ASSUME TypeInv, NEW superseded \in SUBSET Supersedable, NEW u \in Tasks
    PROVE  /\ \/ Swept(superseded)[u] = task[u]
              \/ /\ task[u].status \in NotStarted
                 /\ Swept(superseded)[u].status \in Terminal
                 /\ Swept(superseded)[u].budgetDay = task[u].budgetDay
           /\ Swept(superseded)[u] \in TaskRow
<1>1. task[u] \in TaskRow /\ Swept(superseded)[u] \in TaskRow
  BY SweptOK DEF TypeInv, TypeOK, TasksOK
<1> QED
  BY <1>1, CloseFields DEF Swept, Supersedable, NotStarted, Terminal

LEMMA CreatedFields ==
    ASSUME NEW row \in TaskRow, NEW timer
    PROVE  /\ Created(row, timer).status = "queued"
           /\ Created(row, timer).budgetDay = row.budgetDay
BY DEF Created, TaskRow

LEMMA ScanRow ==
    ASSUME TypeInv, ControlScan, NEW u \in Tasks
    PROVE  RowStep(u)
<1> PICK superseded \in SUBSET Supersedable :
       \/ task' = Swept(superseded)
       \/ \E t \in Tasks, timer \in Timers :
            /\ task[t].status = "absent"
            /\ task' = [Swept(superseded) EXCEPT ![t] = Created(@, timer)]
  BY DEF ControlScan, Timers
<1>1. CASE task' = Swept(superseded)
  BY <1>1, SweptRow DEF RowStep
<1>2. ASSUME NEW t \in Tasks, NEW timer \in Timers, task[t].status = "absent",
             task' = [Swept(superseded) EXCEPT ![t] = Created(@, timer)]
      PROVE  RowStep(u)
  <2>1. u # t => task'[u] = Swept(superseded)[u]
    BY <1>2 DEF Swept
  <2>2. task'[t] = Created(Swept(superseded)[t], timer)
    BY <1>2 DEF Swept
  <2>3. Swept(superseded)[t] = task[t]
    BY <1>2, SweptRow DEF NotStarted
  <2> QED
    BY <1>2, <2>1, <2>2, <2>3, SweptRow, CreatedFields DEF RowStep
<1> QED
  BY <1>1, <1>2

LEMMA RunRow ==
    ASSUME TypeInv, NEW w \in Workers, NEW u \in Tasks,
           \/ \E t \in Tasks : TakeJob(w, t)
           \/ BeginGeneration(w) \/ RenewLease(w) \/ DeferTask(w)
           \/ BeginDispatch(w)
    PROVE  RowStep(u)
<1>0. task \in [Tasks -> TaskRow]
  BY DEF TypeInv, TypeOK
<1>1. ASSUME NEW t \in Tasks, TakeJob(w, t) PROVE RowStep(u)
  <2> DEFINE n == task[t].attempts + 1
             row == [task[t] EXCEPT !.status = "leased", !.attempts = n,
                                    !.token = LeaseToken(n),
                                    !.timer = "running"]
  <2>1. row.status = "leased" /\ row.budgetDay = task[t].budgetDay
    BY <1>0 DEF TaskRow
  <2>2. \/ UNCHANGED task
        \/ task[t].status \in NotStarted /\ task' = [task EXCEPT ![t] = row]
    BY <1>1 DEF TakeJob, Due
  <2> HIDE DEF row
  <2> QED
    BY <1>0, <2>1, <2>2 DEF RowStep, NotStarted
<1>2. ASSUME BeginGeneration(w) PROVE RowStep(u)
  BY <1>0, <1>2, BusyWorker
     DEF BeginGeneration, WorkerAt, RowStep, TaskRow, NotStarted
<1>3. ASSUME RenewLease(w) PROVE RowStep(u)
  BY <1>0, <1>3, BusyWorker
     DEF RenewLease, WorkerAt, RowStep, TaskRow, NotStarted, Leased
<1>4. ASSUME DeferTask(w) PROVE RowStep(u)
  BY <1>0, <1>4, BusyWorker
     DEF DeferTask, WorkerAt, RowStep, TaskRow, NotStarted, Leased
<1>5. ASSUME BeginDispatch(w) PROVE RowStep(u)
  <2> DEFINE t == worker[w].task
             row == [task[t] EXCEPT !.status = "dispatching",
                                    !.token = PermitToken(worker[w].token),
                                    !.timer = "running",
                                    !.budgetDay = worker[w].day]
  <2>1. t \in Tasks /\ worker[w].day \in Days
    BY <1>5, BusyWorker DEF BeginDispatch, WorkerAt
  <2>2. row.status = "dispatching" /\ row.budgetDay = worker[w].day
    BY <1>0, <2>1 DEF TaskRow
  <2>3. \/ UNCHANGED task
        \/ task[t].status \in Leased /\ task' = [task EXCEPT ![t] = row]
    BY <1>5 DEF BeginDispatch
  <2> HIDE DEF row
  <2> QED
    BY <1>0, <2>1, <2>2, <2>3 DEF RowStep, NotStarted, Leased
<1> QED
  BY <1>1, <1>2, <1>3, <1>4, <1>5

LEMMA RowSteps == TypeInv /\ [Next]_vars => \A u \in Tasks : RowStep(u)
<1> SUFFICES ASSUME TypeInv, [Next]_vars, NEW u \in Tasks PROVE RowStep(u)
  OBVIOUS
<1>1. CASE UNCHANGED task
  BY <1>1 DEF RowStep
<1>2. ASSUME NEW w \in Workers, WorkerStep(w) PROVE RowStep(u)
  BY <1>1, <1>2, RunRow, FinishRow
     DEF WorkerStep, Preflight, ModelReturns, Recheck, PrepareExecution,
         LockDispatchPermit, RefusePermit, RefuseAction, CallProvider,
         ProviderAnswers, RecordOutcome
<1>3. ASSUME NEW t \in Tasks, TimePasses(t) PROVE RowStep(u)
  <2>1. task \in [Tasks -> TaskRow]
    BY DEF TypeInv, TypeOK
  <2> QED
    BY <1>3, <2>1 DEF TimePasses, RowStep, Open, TaskRow
<1>4. ASSUME NEW t \in Tasks,
             EnqueueJob(t) \/ ProviderApplies(t) \/ CloseStaleExecution(t)
      PROVE  RowStep(u)
  BY <1>1, <1>4 DEF EnqueueJob, ProviderApplies, CloseStaleExecution
<1>5. CASE Environment
  BY <1>1, <1>5, CancelRow
     DEF Environment, NextDay, Crash, LoseTransaction, Configure,
         DisableAutonomy, RestoreAccess, SaveRunnerSettings
<1> QED
  BY <1>1, <1>2, <1>3, <1>4, <1>5, ScanRow, ReapRow DEF Next, vars

-----------------------------------------------------------------------------
(* At most one invocation *)

PreCallPCs == {"prepare", "lock", "act"}

\* A budget day marks a task that was dispatched, and it is never cleared.
ReservedOnce ==
    \A t \in Tasks : task[t].budgetDay # NoDay =>
                       task[t].status \notin NotStarted \cup {"absent"}

\* Only the worker that made the reservation works on the permit.
OneDispatcher ==
    /\ \A w \in Workers : worker[w].pc \in PermitPCs =>
                            task[worker[w].task].budgetDay # NoDay
    /\ \A w, x \in Workers :
         /\ worker[w].pc \in PermitPCs /\ worker[x].pc \in PermitPCs
         /\ worker[w].task = worker[x].task
         => w = x

\* Once the provider was called for a task, no worker is on its way there.
CalledOnce ==
    \A t \in Tasks :
        /\ invoked[t] <= 1
        /\ invoked[t] = 1 =>
             /\ task[t].budgetDay # NoDay
             /\ \A w \in Workers : worker[w].task = t =>
                                     worker[w].pc \notin PreCallPCs

InvocationInv == TypeInv /\ ReservedOnce /\ OneDispatcher /\ CalledOnce

\* A step in which no worker enters the permit states, none of those in them
\* goes back towards the call, and the provider is not called.
Quiet ==
    /\ invoked' = invoked
    /\ \A w \in Workers : worker'[w].pc \in PermitPCs =>
         /\ worker[w].pc \in PermitPCs /\ worker'[w].task = worker[w].task
         /\ worker'[w].pc \in PreCallPCs => worker[w].pc \in PreCallPCs

LEMMA InvocationInit == Init => InvocationInv
<1> SUFFICES ASSUME Init PROVE InvocationInv
  OBVIOUS
<1>1. TypeInv
  BY TypeInit
<1> QED
  BY <1>1 DEF Init, InvocationInv, ReservedOnce, OneDispatcher, CalledOnce,
     AbsentTask, IdleWorker, NoDay, PermitPCs

LEMMA ReservedStep ==
    ASSUME InvocationInv, [Next]_vars
    PROVE  /\ ReservedOnce'
           /\ \A t \in Tasks :
                task[t].budgetDay # NoDay => task'[t].budgetDay # NoDay
<1> SUFFICES ASSUME NEW t \in Tasks
             PROVE  /\ task'[t].budgetDay # NoDay =>
                         task'[t].status \notin NotStarted \cup {"absent"}
                    /\ task[t].budgetDay # NoDay => task'[t].budgetDay # NoDay
  BY DEF ReservedOnce
<1>1. RowStep(t) /\ task[t] \in TaskRow
  BY RowSteps DEF InvocationInv, TypeInv, TypeOK
<1>2. task[t].budgetDay # NoDay =>
        task[t].status \notin NotStarted \cup {"absent"}
  BY DEF InvocationInv, ReservedOnce
<1>3. NoDay \notin Days
  BY DEF NoDay, Days
<1>4. [task[t] EXCEPT !.timer = "elapsed"].budgetDay = task[t].budgetDay
      /\ [task[t] EXCEPT !.timer = "elapsed"].status = task[t].status
  BY <1>1 DEF TaskRow
<1> QED
  BY <1>1, <1>2, <1>3, <1>4 DEF RowStep, NotStarted, Terminal, Answers

LEMMA QuietStep ==
    ASSUME InvocationInv, [Next]_vars, Quiet
    PROVE  InvocationInv'
<1>1. TypeInv' /\ ReservedOnce'
  BY TypeStep, ReservedStep DEF InvocationInv
<1>2. OneDispatcher'
  <2>1. ASSUME NEW w \in Workers, worker'[w].pc \in PermitPCs
        PROVE  task'[worker'[w].task].budgetDay # NoDay
    <3>1. /\ worker[w].pc \in PermitPCs /\ worker'[w].task = worker[w].task
          /\ worker[w].task \in Tasks
      BY <2>1, BusyWorker DEF Quiet, InvocationInv, PermitPCs
    <3> QED
      BY <3>1, ReservedStep DEF InvocationInv, OneDispatcher
  <2>2. ASSUME NEW w \in Workers, NEW x \in Workers,
               worker'[w].pc \in PermitPCs, worker'[x].pc \in PermitPCs,
               worker'[w].task = worker'[x].task
        PROVE  w = x
    BY <2>2 DEF Quiet, InvocationInv, OneDispatcher
  <2> QED
    BY <2>1, <2>2 DEF OneDispatcher
<1>3. CalledOnce'
  BY ReservedStep DEF CalledOnce, InvocationInv, Quiet, PreCallPCs, PermitPCs
<1> QED
  BY <1>1, <1>2, <1>3 DEF InvocationInv

LEMMA DispatchStep ==
    ASSUME InvocationInv, NEW w \in Workers, BeginDispatch(w)
    PROVE  InvocationInv'
<1> DEFINE t == worker[w].task
<1>0. [Next]_vars
  BY DEF Next, WorkerStep
<1>1. worker \in [Workers -> WorkerState] /\ t \in Tasks
      /\ worker[w].pc = "reserve"
  BY BusyWorker
     DEF BeginDispatch, WorkerAt, InvocationInv, TypeInv, WorkersOK
<1>2. CASE worker'[w].pc \notin PermitPCs
  <2>1. \A x \in Workers \ {w} : worker'[x] = worker[x]
    BY <1>1 DEF BeginDispatch, Goto, Conclude, Leave
  <2>2. Quiet
    BY <1>2, <2>1 DEF Quiet, BeginDispatch, observed
  <2> QED
    BY <1>0, <2>2, QuietStep
<1>3. CASE worker'[w].pc \in PermitPCs
  <2> DEFINE row == [task[t] EXCEPT !.status = "dispatching",
                         !.token = PermitToken(worker[w].token),
                         !.timer = "running", !.budgetDay = worker[w].day]
  <2>0. ~Leave(w) /\ ~Goto(w, "defer")
        /\ \A out \in Outs : ~Conclude(w, out)
    BY <1>1, <1>3 DEF Goto, Conclude, Leave, IdleWorker, PermitPCs,
       WorkerState
  <2>1. /\ task[t].status \in Leased
        /\ worker' = [worker EXCEPT ![w].pc = "prepare",
                        ![w].token = PermitToken(worker[w].token)]
        /\ task' = [task EXCEPT ![t] = row]
        /\ invoked' = invoked
    BY <2>0 DEF BeginDispatch, Outs, observed
  <2>2. task[t].budgetDay = NoDay
    BY <1>1, <2>1 DEF InvocationInv, ReservedOnce, NotStarted, Leased
  <2>3. \A x \in Workers : worker[x].task = t => worker[x].pc \notin PermitPCs
    BY <2>2 DEF InvocationInv, OneDispatcher
  <2>4. /\ worker'[w].pc = "prepare" /\ worker'[w].task = t
        /\ \A x \in Workers \ {w} : worker'[x] = worker[x]
    BY <1>1, <2>1 DEF WorkerState
  <2>5. task'[t].budgetDay # NoDay
    <3>1. task[t] \in TaskRow /\ task \in [Tasks -> TaskRow]
          /\ worker[w].day \in Days
      BY <1>1 DEF InvocationInv, TypeInv, TypeOK, WorkerState
    <3>2. task'[t].budgetDay = worker[w].day
      BY <1>1, <2>1, <3>1 DEF TaskRow
    <3> QED
      BY <3>1, <3>2 DEF NoDay, Days
  <2>6. OneDispatcher'
    <3>1. ASSUME NEW x \in Workers, worker'[x].pc \in PermitPCs
          PROVE  task'[worker'[x].task].budgetDay # NoDay
      <4>1. CASE x = w
        BY <2>4, <2>5, <4>1
      <4>2. CASE x # w
        <5>1. worker[x].pc \in PermitPCs /\ worker[x].task \in Tasks
          BY <2>4, <3>1, <4>2, BusyWorker DEF InvocationInv, PermitPCs
        <5> QED
          BY <1>0, <2>4, <4>2, <5>1, ReservedStep
             DEF InvocationInv, OneDispatcher
      <4> QED
        BY <4>1, <4>2
    <3> QED
      BY <2>3, <2>4, <3>1 DEF OneDispatcher, InvocationInv
  <2>7. CalledOnce'
    <3>1. invoked[t] # 1
      BY <1>1, <2>2 DEF InvocationInv, CalledOnce
    <3> QED
      BY <1>0, <2>1, <2>4, <3>1, ReservedStep DEF InvocationInv, CalledOnce
  <2> QED
    BY <1>0, <2>6, <2>7, TypeStep, ReservedStep DEF InvocationInv
<1> QED
  BY <1>2, <1>3

LEMMA CallStep ==
    ASSUME InvocationInv, NEW w \in Workers, CallProvider(w)
    PROVE  InvocationInv'
<1> DEFINE t == worker[w].task
<1>0. [Next]_vars
  BY DEF Next, WorkerStep
<1>1. worker \in [Workers -> WorkerState] /\ t \in Tasks
      /\ worker[w].pc = "act" /\ invoked \in [Tasks -> Nat]
  BY BusyWorker DEF CallProvider, WorkerAt, InvocationInv, TypeInv,
     TypeOK, WorkersOK
<1>2. /\ worker'[w].pc = "provider" /\ worker'[w].task = t
      /\ \A x \in Workers \ {w} : worker'[x] = worker[x]
      /\ task' = task
  BY <1>1 DEF CallProvider, Goto, WorkerState
<1>3. /\ invoked'[t] = invoked[t] + 1
      /\ \A u \in Tasks \ {t} : invoked'[u] = invoked[u]
  BY <1>1 DEF CallProvider
<1>4. invoked[t] = 0
  BY <1>1 DEF InvocationInv, CalledOnce, PreCallPCs
<1>5. OneDispatcher'
  BY <1>1, <1>2 DEF InvocationInv, OneDispatcher, PermitPCs
<1>6. CalledOnce'
  <2> SUFFICES ASSUME NEW u \in Tasks
               PROVE  /\ invoked'[u] <= 1
                      /\ invoked'[u] = 1 =>
                           /\ task'[u].budgetDay # NoDay
                           /\ \A x \in Workers : worker'[x].task = u =>
                                worker'[x].pc \notin PreCallPCs
    BY DEF CalledOnce
  <2>1. CASE u = t
    <3>1. invoked'[u] = 1
      BY <1>3, <1>4, <2>1
    <3>2. task'[u].budgetDay # NoDay
      BY <1>1, <1>2, <2>1 DEF InvocationInv, OneDispatcher, PermitPCs
    <3>3. \A x \in Workers : worker'[x].task = u => worker'[x].pc \notin PreCallPCs
      BY <1>1, <1>2, <2>1
         DEF InvocationInv, OneDispatcher, PermitPCs, PreCallPCs
    <3> QED
      BY <3>1, <3>2, <3>3
  <2>2. CASE u # t
    BY <1>2, <1>3, <2>2 DEF InvocationInv, CalledOnce, PreCallPCs
  <2> QED
    BY <2>1, <2>2
<1> QED
  BY <1>0, <1>5, <1>6, TypeStep, ReservedStep DEF InvocationInv

\* Every step but these two is quiet.
LEMMA WorkerQuiet ==
    ASSUME InvocationInv, NEW w \in Workers, WorkerStep(w),
           ~BeginDispatch(w), ~CallProvider(w)
    PROVE  Quiet
<1>0. worker \in [Workers -> WorkerState]
  BY DEF InvocationInv, TypeInv, WorkersOK
<1>1. ASSUME NEW t \in Tasks, TakeJob(w, t) PROVE Quiet
  BY <1>0, <1>1 DEF TakeJob, Quiet, PermitPCs, observed
<1>2. CASE Preflight(w) \/ ModelReturns(w) \/ Recheck(w)
  BY <1>0, <1>2 DEF Preflight, ModelReturns, Recheck, Goto, Conclude, Quiet,
     PermitPCs, WorkerState, observed
<1>3. CASE BeginGeneration(w) \/ RenewLease(w) \/ DeferTask(w)
  BY <1>0, <1>3 DEF BeginGeneration, RenewLease, DeferTask, Goto, Leave,
     IdleWorker, Quiet, PermitPCs, WorkerState, observed
<1>4. CASE PrepareExecution(w) \/ LockDispatchPermit(w) \/ RefusePermit(w)
  BY <1>0, <1>4 DEF PrepareExecution, LockDispatchPermit, RefusePermit,
     WorkerAt, Goto, Conclude, Quiet, PermitPCs, PreCallPCs, WorkerState,
     observed
<1>5. CASE RefuseAction(w) \/ ProviderAnswers(w)
  <2>1. /\ worker[w].pc \in {"act", "provider"} /\ invoked' = invoked
        /\ \E out : worker' = [worker EXCEPT ![w].pc = "record", ![w].out = out]
    BY <1>5 DEF RefuseAction, ProviderAnswers, WorkerAt, observed
  <2> QED
    BY <1>0, <2>1 DEF Quiet, PermitPCs, PreCallPCs, WorkerState
<1>6. CASE RecordOutcome(w)
  <2>1. invoked' = invoked
        /\ (Goto(w, "finish") \/ \E out : Conclude(w, out))
    BY <1>6 DEF RecordOutcome, observed
  <2> QED
    BY <1>0, <2>1 DEF Goto, Conclude, Quiet, PermitPCs, WorkerState
<1>7. CASE FinishTask(w)
  BY <1>0, <1>7 DEF FinishTask, Leave, IdleWorker, Quiet, PermitPCs, observed
<1> QED
  BY <1>1, <1>2, <1>3, <1>4, <1>5, <1>6, <1>7 DEF WorkerStep

LEMMA OtherQuiet ==
    ASSUME InvocationInv,
           \/ ControlScan \/ Environment \/ UNCHANGED vars
           \/ \E t \in Tasks : \/ EnqueueJob(t) \/ TimePasses(t)
                               \/ ProviderApplies(t) \/ ReapDispatch(t)
                               \/ CloseStaleExecution(t)
    PROVE  Quiet
<1>1. CASE worker' = worker /\ invoked' = invoked
  BY <1>1 DEF Quiet
<1>2. ASSUME NEW w \in Workers, Crash(w) PROVE Quiet
  <2>1. worker \in [Workers -> WorkerState]
    BY DEF InvocationInv, TypeInv, WorkersOK
  <2> QED
    BY <1>2, <2>1 DEF Crash, Leave, IdleWorker, Quiet, PermitPCs, observed
<1> QED
  BY <1>1, <1>2 DEF ControlScan, Environment, NextDay, LoseTransaction,
     Configure, DisableAutonomy, RestoreAccess, SaveRunnerSettings, EnqueueJob,
     TimePasses, ProviderApplies, ReapDispatch, CloseStaleExecution, vars,
     observed

LEMMA InvocationStep == InvocationInv /\ [Next]_vars => InvocationInv'
<1> SUFFICES ASSUME InvocationInv, [Next]_vars PROVE InvocationInv'
  OBVIOUS
<1>1. ASSUME NEW w \in Workers, WorkerStep(w) PROVE InvocationInv'
  BY <1>1, WorkerQuiet, QuietStep, DispatchStep, CallStep
<1>2. CASE \/ ControlScan \/ Environment \/ UNCHANGED vars
           \/ \E t \in Tasks : \/ EnqueueJob(t) \/ TimePasses(t)
                               \/ ProviderApplies(t) \/ ReapDispatch(t)
                               \/ CloseStaleExecution(t)
  BY <1>2, OtherQuiet, QuietStep
<1> QED
  BY <1>1, <1>2 DEF Next

\* The provider is called at most once for each task, for any number of tasks
\* and workers, crashes, expired leases and lost transactions.
THEOREM NeverCalledTwice == Spec => []AtMostOneInvocation
<1>1. Spec => []InvocationInv
  BY InvocationInit, InvocationStep, PTL DEF Spec
<1>2. InvocationInv => AtMostOneInvocation
  BY DEF InvocationInv, CalledOnce, AtMostOneInvocation
<1> QED
  BY <1>1, <1>2, PTL

-----------------------------------------------------------------------------
(* A dispatch is final *)

\* From dispatching a task only closes with an answer: no claim, deferral or
\* cancellation reaches it, for every number of workers and tasks.
THEOREM DispatchIsNeverRetried == Spec => DispatchingIsFinal
<1>1. TypeInv /\ [Next]_vars => [\A t \in Tasks : KeepsDispatching(t)]_vars
  BY RowSteps DEF RowStep, NotStarted, Answers, KeepsDispatching
<1> QED
  BY <1>1, TypeInit, TypeStep, PTL DEF Spec, DispatchingIsFinal

-----------------------------------------------------------------------------
(* At most one open task *)

LEMMA OneOpenStep ==
    ASSUME TypeInv, OneOpenTask, [Next]_vars
    PROVE  OneOpenTask'
<1> SUFFICES ASSUME NEW t \in Tasks, NEW u \in Tasks,
                    task'[t].status \in Open, task'[u].status \in Open
             PROVE  t = u
  BY DEF OneOpenTask
<1>0. \A x \in Tasks : task[x] \in TaskRow
  BY DEF TypeInv, TypeOK
<1>2. CASE ControlScan
  <2> PICK superseded \in SUBSET Supersedable :
         \/ task' = Swept(superseded)
         \/ /\ ~HasOpenTask(Swept(superseded))
            /\ \E x \in Tasks, timer \in Timers :
                 /\ task[x].status = "absent"
                 /\ task' = [Swept(superseded) EXCEPT ![x] = Created(@, timer)]
    BY <1>2 DEF ControlScan, Timers
  <2>1. CASE task' = Swept(superseded)
    BY <2>1, SweptRow DEF OneOpenTask, Open, NotStarted, Terminal
  <2>2. ASSUME NEW x \in Tasks, NEW timer \in Timers,
               ~HasOpenTask(Swept(superseded)),
               task' = [Swept(superseded) EXCEPT ![x] = Created(@, timer)]
        PROVE  t = u
    BY <2>2 DEF HasOpenTask, Swept
  <2> QED
    BY <2>1, <2>2
<1>3. CASE ~ControlScan
  <2>2. \A x \in Tasks : task'[x].status \in Open => task[x].status \in Open
    BY <1>0, <1>3, RowSteps
       DEF RowStep, Open, NotStarted, Terminal, Answers, TaskRow
  <2> QED
    BY <2>2 DEF OneOpenTask
<1> QED
  BY <1>2, <1>3


LEMMA OneOpenInit == Init => OneOpenTask
BY DEF Init, OneOpenTask, AbsentTask, Open, NotStarted

\* An owner never has two open tasks, however many tasks there are, whoever
\* claims them and whatever the settings do.
THEOREM NeverTwoOpenTasks == Spec => []OneOpenTask
<1>1. TypeInv /\ OneOpenTask /\ [Next]_vars => (TypeInv /\ OneOpenTask)'
  BY TypeStep, OneOpenStep
<1> QED
  BY <1>1, TypeInit, OneOpenInit, PTL DEF Spec

-----------------------------------------------------------------------------
(* An unknown outcome halts the agent *)

\* A verdict of manual review always halts.
LEMMA SettleHalts ==
    ASSUME TypeInv, UnknownOutcomeHalts, NEW t \in Tasks, NEW v,
           VerdictOK(v), v.halt = (v.status = "manual_review"), Settle(t, v),
           UNCHANGED acknowledged
    PROVE  UnknownOutcomeHalts'
<1>1. setting'.halted = (\/ setting.halted \/ v.halt
                         \/ ~v.refund /\ setting'.failures >= FailureLimit)
  BY DEF Settle, TypeInv, TypeOK, SettingRow
<1>2. ASSUME NEW u \in Tasks \ acknowledged, task'[u].status = "manual_review"
      PROVE  setting'.halted
  BY <1>1, <1>2, SettleFields DEF UnknownOutcomeHalts, VerdictOK
<1> QED
  BY <1>2 DEF UnknownOutcomeHalts

LEMMA VerdictHalts ==
    ASSUME NEW t \in Tasks, NEW out
    PROVE  /\ Reconcile(t, out).halt = (Reconcile(t, out).status = "manual_review")
           /\ ReapVerdict(t).halt = (ReapVerdict(t).status = "manual_review")
<1>1. \A s, e, r : Verdict(s, e, r).halt = (Verdict(s, e, r).status = "manual_review")
  BY DEF Verdict
<1>2. \E s, e, r : Reconcile(t, out) = Verdict(s, e, r)
  BY DEF Reconcile
<1>3. \E s, e, r : ReapVerdict(t) = Verdict(s, e, r)
  BY DEF ReapVerdict
<1> QED
  BY <1>1, <1>2, <1>3

\* A step that leaves halted alone or sets it, and reviews no task.
Harmless ==
    /\ acknowledged' = acknowledged
    /\ setting.halted => setting'.halted
    /\ \A t \in Tasks : task'[t].status = "manual_review" =>
                           task[t].status = "manual_review"

LEMMA HarmlessStep ==
    ASSUME UnknownOutcomeHalts, Harmless
    PROVE  UnknownOutcomeHalts'
BY DEF UnknownOutcomeHalts, Harmless

LEMMA CancelHarmless ==
    ASSUME TypeInv, task' = CancelNotStarted(task), NEW t \in Tasks,
           task'[t].status = "manual_review"
    PROVE  task[t].status = "manual_review"
<1>1. task[t] \in TaskRow
  BY DEF TypeInv, TypeOK
<1> QED
  BY <1>1, CloseFields DEF CancelNotStarted

LEMMA HaltsStep ==
    ASSUME TypeInv, UnknownOutcomeHalts, [Next]_vars
    PROVE  UnknownOutcomeHalts'
<1>0. task \in [Tasks -> TaskRow] /\ setting \in SettingRow
  BY DEF TypeInv, TypeOK
<1>1. CASE UNCHANGED <<task, setting, acknowledged>>
  BY <1>1 DEF UnknownOutcomeHalts
<1>2. ASSUME NEW w \in Workers, FinishTask(w) PROVE UnknownOutcomeHalts'
  <2> DEFINE t == worker[w].task
             out == worker[w].out
  <2>1. t \in Tasks /\ out \in Outs \ {"none"}
    BY <1>2 DEF FinishTask, WorkerAt, TypeInv, WorkersOK, WorkerState
  <2>2. VerdictOK(Reconcile(t, out))
    BY <2>1, ReconcileIsOK DEF TypeInv, TypeOK
  <2>3. CASE Settle(t, Reconcile(t, out))
    BY <1>2, <2>1, <2>2, <2>3, SettleHalts, VerdictHalts DEF FinishTask
  <2> QED
    BY <1>1, <1>2, <2>3 DEF FinishTask
<1>3. ASSUME NEW t \in Tasks, ReapDispatch(t) PROVE UnknownOutcomeHalts'
  <2>1. VerdictOK(ReapVerdict(t))
    BY ReapVerdictIsOK DEF TypeInv, TypeOK
  <2> QED
    BY <1>3, <2>1, SettleHalts, VerdictHalts DEF ReapDispatch
<1>4. ASSUME NEW w \in Workers,
             \/ \E t \in Tasks : TakeJob(w, t)
             \/ BeginGeneration(w) \/ RenewLease(w) \/ DeferTask(w)
             \/ BeginDispatch(w)
      PROVE  UnknownOutcomeHalts'
  <2>1. /\ UNCHANGED <<setting, acknowledged>>
        /\ \A t \in Tasks : task'[t].status = "manual_review" =>
                               task[t].status = "manual_review"
    <3>1. ASSUME NEW t \in Tasks, TakeJob(w, t)
          PROVE \A u \in Tasks : task'[u].status = "manual_review" =>
                               task[u].status = "manual_review"
      <4> DEFINE n == task[t].attempts + 1
      <4>1. \/ UNCHANGED task
            \/ task' = [task EXCEPT ![t] =
                  [@ EXCEPT !.status = "leased", !.attempts = n,
                            !.token = LeaseToken(n), !.timer = "running"]]
        BY <3>1 DEF TakeJob
      <4>2. [task[t] EXCEPT !.status = "leased", !.attempts = n,
               !.token = LeaseToken(n), !.timer = "running"].status = "leased"
        BY <1>0 DEF TaskRow
      <4> QED
        BY <1>0, <4>1, <4>2
    <3>2. ASSUME BeginGeneration(w) \/ RenewLease(w) \/ DeferTask(w)
          PROVE \A u \in Tasks : task'[u].status = "manual_review" =>
                               task[u].status = "manual_review"
      BY <1>0, <3>2, BusyWorker DEF BeginGeneration, RenewLease, DeferTask,
         WorkerAt, TaskRow
    <3>3. ASSUME BeginDispatch(w)
          PROVE \A u \in Tasks : task'[u].status = "manual_review" =>
                               task[u].status = "manual_review"
      <4> DEFINE t == worker[w].task
                 k == PermitToken(worker[w].token)
      <4>1. \/ UNCHANGED task
            \/ task' = [task EXCEPT ![t] =
                  [@ EXCEPT !.status = "dispatching", !.token = k,
                            !.timer = "running", !.budgetDay = worker[w].day]]
        BY <3>3 DEF BeginDispatch
      <4>2. t \in Tasks
        BY <3>3, BusyWorker DEF BeginDispatch, WorkerAt
      <4>3. [task[t] EXCEPT !.status = "dispatching", !.token = k,
               !.timer = "running", !.budgetDay = worker[w].day].status
              = "dispatching"
        BY <1>0, <4>2 DEF TaskRow
      <4> QED
        BY <1>0, <4>1, <4>2, <4>3
    <3> QED
      BY <1>4, <3>1, <3>2, <3>3 DEF TakeJob, BeginGeneration, RenewLease,
         DeferTask, BeginDispatch
  <2> QED
    BY <2>1, HarmlessStep DEF Harmless
<1>5. ASSUME NEW t \in Tasks, TimePasses(t) PROVE UnknownOutcomeHalts'
  <2>1. Harmless
    BY <1>0, <1>5 DEF TimePasses, Harmless, TaskRow
  <2> QED
    BY <2>1, HarmlessStep
<1>6. CASE ControlScan
  <2>1. \A t \in Tasks : task'[t].status = "manual_review" =>
                           task[t].status = "manual_review"
    <3> TAKE t \in Tasks
    <3> PICK superseded \in SUBSET Supersedable :
           \/ task' = Swept(superseded)
           \/ \E x \in Tasks, timer \in Timers :
                task' = [Swept(superseded) EXCEPT ![x] = Created(@, timer)]
      BY <1>6 DEF ControlScan, Timers
    <3>1. Swept(superseded)[t].status = "manual_review" =>
            task[t].status = "manual_review"
      BY <1>0, CloseFields DEF Swept
    <3>2. ASSUME NEW x \in Tasks, NEW timer \in Timers,
                 task' = [Swept(superseded) EXCEPT ![x] = Created(@, timer)]
          PROVE  task'[t].status = "manual_review" =>
                   task[t].status = "manual_review"
      <4>1. task'[t] = IF t = x THEN Created(Swept(superseded)[t], timer)
                       ELSE Swept(superseded)[t]
        BY <3>2 DEF Swept
      <4> QED
        BY <3>1, <4>1, SweptRow, CreatedFields
    <3> QED
      BY <3>1, <3>2
  <2> QED
    BY <1>6, <2>1, HarmlessStep DEF ControlScan, Harmless
<1>7. CASE Environment
  <2>1. ASSUME NEW enabled \in BOOLEAN, NEW changed \in BOOLEAN,
               Configure(enabled, changed)
        PROVE  UnknownOutcomeHalts'
    <3>1. \A t \in Tasks : task'[t].status = "manual_review" =>
                             task[t].status = "manual_review"
      BY <2>1, CancelHarmless DEF Configure
    <3> QED
      BY <2>1, <3>1 DEF Configure, UnknownOutcomeHalts
  <2>2. ASSUME NEW revoke \in BOOLEAN, DisableAutonomy(revoke)
        PROVE  UnknownOutcomeHalts'
    <3>1. \A t \in Tasks : task'[t].status = "manual_review" =>
                             task[t].status = "manual_review"
      BY <2>2, CancelHarmless DEF DisableAutonomy
    <3>2. setting.halted => setting'.halted
      BY <1>0, <2>2 DEF DisableAutonomy, SettingRow
    <3> QED
      BY <2>2, <3>1, <3>2, HarmlessStep DEF DisableAutonomy, Harmless
  <2>3. CASE RestoreAccess \/ SaveRunnerSettings
    BY <1>0, <2>3, HarmlessStep
       DEF RestoreAccess, SaveRunnerSettings, Harmless, SettingRow
  <2> QED
    BY <1>1, <1>7, <2>1, <2>2, <2>3
       DEF Environment, NextDay, Crash, LoseTransaction
<1> QED
  BY <1>1, <1>2, <1>3, <1>4, <1>5, <1>6, <1>7
     DEF Next, WorkerStep, vars, Preflight, ModelReturns, Recheck,
         PrepareExecution, LockDispatchPermit, RefusePermit, RefuseAction,
         CallProvider, ProviderAnswers, RecordOutcome, EnqueueJob,
         ProviderApplies, CloseStaleExecution

\* Until the user saves the settings again, an outcome nobody could confirm
\* keeps the agent halted, whatever else closes, fails or is switched meanwhile.
THEOREM UnknownOutcomeKeepsHalted == Spec => []UnknownOutcomeHalts
<1>1. Init => UnknownOutcomeHalts
  BY DEF Init, UnknownOutcomeHalts, AbsentTask
<1>2. TypeInv /\ UnknownOutcomeHalts /\ [Next]_vars
        => (TypeInv /\ UnknownOutcomeHalts)'
  BY TypeStep, HaltsStep
<1> QED
  BY <1>1, <1>2, TypeInit, PTL DEF Spec

-----------------------------------------------------------------------------
(* Leases and permits are never shared *)

EarlyPCs == {"preflight", "generate", "model", "renew", "recheck", "reserve",
             "defer"}
Busy(w) == worker[w].pc # "idle"

\* A dispatching task carries a permit, any other at most a lease.
RowTokens ==
    \A t \in Tasks :
        /\ task[t].status = "dispatching" =>
             task[t].token < 0 /\ task[t].budgetDay # NoDay
        /\ task[t].status # "dispatching" => task[t].token >= 0

\* A worker carries the lease of its claim, later the permit issued under it, and
\* the row of a dispatching task has the permit of the worker on its way.
WorkerTokens ==
    \A w \in Workers : Busy(w) =>
        LET t == worker[w].task
            n == worker[w].token
        IN  /\ n # 0 /\ n <= task[t].attempts /\ -n <= task[t].attempts
            /\ worker[w].pc \in EarlyPCs => n > 0
            /\ worker[w].pc \in PermitPCs => n < 0
            /\ worker[w].pc \in PermitPCs /\ task[t].status = "dispatching" =>
                 task[t].token = n

\* Two workers on one task come from two claims.
TokensApart ==
    \A w, x \in Workers :
        Busy(w) /\ Busy(x) /\ w # x /\ worker[w].task = worker[x].task =>
            /\ worker[w].token # worker[x].token
            /\ worker[w].token # -worker[x].token

TokenInv == InvocationInv /\ RowTokens /\ WorkerTokens /\ TokensApart

-----------------------------------------------------------------------------
(* The audit row and the report tell what happened *)

Untouched(t) == ~applied[t] /\ ~inflight[t]
Truly(t) == Mutates(t) /\ FailsTruly(t)

\* Nothing happens before the call, there is no call without an audit row and no
\* audit row without a reservation; the audit row and the status tell what happened.
TaskTruth(t) ==
    /\ invoked[t] = 0 => Untouched(t)
    /\ execution[t] = "none" => invoked[t] = 0
    /\ task[t].budgetDay = NoDay => execution[t] = "none"
    /\ execution[t] = "running" => task[t].status = "dispatching"
    /\ Mutates(t) =>
         /\ execution[t] = "succeeded" => applied[t]
         /\ task[t].status = "succeeded" => applied[t]
         /\ task[t].status \in {"cancelled", "stale"} => Untouched(t)
    /\ Truly(t) =>
         /\ execution[t] \in {"failed", "unavailable"} => Untouched(t)
         /\ task[t].status = "failed" => Untouched(t)

\* What a worker is about to report is true; the one about to call the provider works
\* on a task that is neither closed with a definite answer nor about to be.
WorkerTruth(w) ==
    LET t == worker[w].task
        out == worker[w].out
    IN  /\ worker[w].pc = "act" =>
             /\ execution[t] \in {"running", "manual_review"}
             /\ task[t].status \in {"dispatching", "manual_review"}
        /\ worker[w].pc \in {"record", "finish"} /\ Mutates(t) =>
             out # "retryable" /\ (out = "succeeded" => applied[t])
        /\ worker[w].pc = "record" /\ out = "failed" /\ Truly(t) => Untouched(t)
        /\ /\ worker[w].pc = "finish" /\ out = "failed" /\ Truly(t)
           /\ task[t].status = "dispatching" /\ task[t].token = worker[w].token
           => Untouched(t)
        /\ worker[w].pc = "finish" /\ out \notin {"failed", "stale", "cancelled"}
             => worker[w].token < 0

TruthInv ==
    /\ TokenInv
    /\ \A t \in Tasks : TaskTruth(t)
    /\ \A w \in Workers : WorkerTruth(w)

PermitInv == InvocationInv /\ PermitStaysAuthorised
RefundedIsClosed ==
    \A t \in Tasks : task[t].refunded => task[t].status \in Terminal
UsageInv == TokenInv /\ RefundedIsClosed /\ UsageIsExact

-----------------------------------------------------------------------------
(* The fields of a row after a step *)

\* A step that moves a task at most among the states before dispatch, or drops it
\* there.
CalmRow(t) ==
    LET old == task[t]
        new == task'[t]
    IN  /\ new.attempts = old.attempts
        /\ new.budgetDay = old.budgetDay /\ new.refunded = old.refunded
        /\ \/ new.status = old.status /\ new.token = old.token
           \/ /\ old.status = "absent" /\ new.status = "queued"
              /\ new.token = old.token
           \/ /\ old.status \in NotStarted
              /\ new.status \in NotStarted \cup {"cancelled", "stale"}
              /\ new.token \in {old.token, NoToken}

LEMMA CloseRow ==
    ASSUME NEW row \in TaskRow, NEW status
    PROVE  LET new == Close(row, status) IN
           /\ new.status = status /\ new.token = NoToken
           /\ new.attempts = row.attempts /\ new.budgetDay = row.budgetDay
           /\ new.refunded = row.refunded
BY DEF Close, TaskRow

LEMMA CancelCalm ==
    ASSUME TypeInv, task' = CancelNotStarted(task), NEW u \in Tasks
    PROVE  CalmRow(u)
<1>1. task'[u] = task[u] \/ (task[u].status \in NotStarted
                             /\ task'[u] = Close(task[u], "cancelled"))
  BY DEF CancelNotStarted
<1>2. task[u] \in TaskRow
  BY DEF TypeInv, TypeOK
<1> QED
  BY <1>1, <1>2, CloseRow DEF CalmRow

LEMMA ScanCalm ==
    ASSUME TypeInv, ControlScan, NEW u \in Tasks
    PROVE  CalmRow(u)
<1> PICK superseded \in SUBSET Supersedable :
       \/ task' = Swept(superseded)
       \/ \E t \in Tasks, timer \in Timers :
            /\ task[t].status = "absent"
            /\ task' = [Swept(superseded) EXCEPT ![t] = Created(@, timer)]
  BY DEF ControlScan, Timers
<1> DEFINE swept == Swept(superseded)[u]
<1>1. /\ task[u] \in TaskRow /\ swept \in TaskRow
      /\ \/ swept = task[u]
         \/ /\ task[u].status \in {"queued", "deferred"}
            /\ \E status \in {"stale", "cancelled"} :
                 swept = Close(task[u], status)
  BY SweptOK DEF TypeInv, TypeOK, TasksOK, Swept, Supersedable
<1>2. CASE task' = Swept(superseded)
  BY <1>1, <1>2, CloseRow DEF CalmRow, NotStarted
<1>3. ASSUME NEW t \in Tasks, NEW timer \in Timers, task[t].status = "absent",
             task' = [Swept(superseded) EXCEPT ![t] = Created(@, timer)]
      PROVE  CalmRow(u)
  <2>1. CASE u # t
    <3>1. task'[u] = swept
      BY <1>3, <2>1 DEF Swept
    <3> QED
      BY <1>1, <3>1, CloseRow DEF CalmRow, NotStarted
  <2>2. CASE u = t
    <3>1. task'[u] = Created(swept, timer) /\ swept = task[u]
      BY <1>1, <1>3, <2>2 DEF Swept
    <3>2. LET new == Created(task[u], timer) IN
          /\ new.status = "queued" /\ new.token = task[u].token
          /\ new.attempts = task[u].attempts
          /\ new.budgetDay = task[u].budgetDay
          /\ new.refunded = task[u].refunded
      BY <1>1 DEF Created, TaskRow
    <3> QED
      BY <1>3, <2>2, <3>1, <3>2 DEF CalmRow
  <2> QED
    BY <2>1, <2>2
<1> QED
  BY <1>2, <1>3

LEMMA RunCalm ==
    ASSUME TypeInv, NEW w \in Workers, NEW u \in Tasks,
           BeginGeneration(w) \/ RenewLease(w) \/ DeferTask(w)
    PROVE  CalmRow(u)
<1>0. task \in [Tasks -> TaskRow]
  BY DEF TypeInv, TypeOK
<1>1. CASE BeginGeneration(w)
  BY <1>0, <1>1, BusyWorker
     DEF BeginGeneration, WorkerAt, CalmRow, TaskRow, NotStarted
<1>2. CASE RenewLease(w)
  BY <1>0, <1>2, BusyWorker
     DEF RenewLease, WorkerAt, CalmRow, TaskRow, NotStarted, Leased
<1>3. CASE DeferTask(w)
  BY <1>0, <1>3, BusyWorker
     DEF DeferTask, WorkerAt, CalmRow, TaskRow, NotStarted, Leased
<1> QED
  BY <1>1, <1>2, <1>3

LEMMA TimeCalm ==
    ASSUME TypeInv, NEW t \in Tasks, TimePasses(t), NEW u \in Tasks
    PROVE  CalmRow(u)
<1>1. task \in [Tasks -> TaskRow]
  BY DEF TypeInv, TypeOK
<1> QED
  BY <1>1 DEF TimePasses, CalmRow, TaskRow

\* What TakeJob writes: nothing, or the next claim of a task that is due.
LEMMA TakeJobRow ==
    ASSUME TypeInv, NEW w \in Workers, NEW t \in Tasks, TakeJob(w, t)
    PROVE  /\ \A u \in Tasks \ {t} : task'[u] = task[u]
           /\ \/ UNCHANGED <<task, worker>>
              \/ /\ task[t].status \in NotStarted
                 /\ task'[t].status = "leased"
                 /\ task'[t].attempts = task[t].attempts + 1
                 /\ task'[t].token = task[t].attempts + 1
                 /\ task'[t].budgetDay = task[t].budgetDay
                 /\ task'[t].refunded = task[t].refunded
                 /\ \A x \in Workers \ {w} : worker'[x] = worker[x]
                 /\ worker[w].pc = "idle"
                 /\ worker'[w].pc = "preflight" /\ worker'[w].task = t
                 /\ worker'[w].token = task[t].attempts + 1
                 /\ worker'[w].out = "none"
<1> DEFINE n == task[t].attempts + 1
           row == [task[t] EXCEPT !.status = "leased", !.attempts = n,
                                  !.token = LeaseToken(n), !.timer = "running"]
<1>0. /\ task \in [Tasks -> TaskRow] /\ task[t] \in TaskRow
      /\ worker \in [Workers -> WorkerState]
  BY DEF TypeInv, TypeOK, WorkersOK
<1>1. CASE UNCHANGED <<task, worker>>
  BY <1>1
<1>2. CASE /\ Due(t)
           /\ task' = [task EXCEPT ![t] = row]
           /\ worker' = [worker EXCEPT ![w] =
                 [pc |-> "preflight", task |-> t, token |-> LeaseToken(n),
                  day |-> day, out |-> "none"]]
  <2>1. /\ row.status = "leased" /\ row.attempts = n /\ row.token = n
        /\ row.budgetDay = task[t].budgetDay
        /\ row.refunded = task[t].refunded
    BY <1>0 DEF TaskRow, LeaseToken
  <2> HIDE DEF row
  <2>2. /\ task'[t] = row /\ \A u \in Tasks \ {t} : task'[u] = task[u]
        /\ \A x \in Workers \ {w} : worker'[x] = worker[x]
        /\ worker'[w] = [pc |-> "preflight", task |-> t, token |-> LeaseToken(n),
                  day |-> day, out |-> "none"]
    BY <1>0, <1>2
  <2> QED
    BY <1>2, <2>1, <2>2 DEF TakeJob, Due, WorkerAt, LeaseToken
<1> QED
  BY <1>1, <1>2 DEF TakeJob

\* What BeginDispatch writes: the reservation and the permit, or nothing.
Dispatched(w, t) ==
    /\ task[t].status \in Leased /\ task[t].token = worker[w].token
    /\ GateOpen(t)
    /\ Reserve(t, worker[w].day)
    /\ task'[t].status = "dispatching"
    /\ task'[t].token = -worker[w].token
    /\ task'[t].attempts = task[t].attempts
    /\ task'[t].budgetDay = worker[w].day
    /\ task'[t].refunded = task[t].refunded
    /\ \A u \in Tasks \ {t} : task'[u] = task[u]
    /\ worker'[w].pc = "prepare" /\ worker'[w].task = t
    /\ worker'[w].token = -worker[w].token
    /\ worker'[w].out = worker[w].out
    /\ \A x \in Workers \ {w} : worker'[x] = worker[x]

LEMMA BeginDispatchRow ==
    ASSUME TypeInv, NEW w \in Workers, BeginDispatch(w)
    PROVE  \/ /\ UNCHANGED <<task, usage>>
              /\ \/ Leave(w) \/ Goto(w, "defer")
                 \/ \E out \in {"stale", "cancelled"} : Conclude(w, out)
           \/ Dispatched(w, worker[w].task)
<1> DEFINE t == worker[w].task
           permit == PermitToken(worker[w].token)
           row == [task[t] EXCEPT !.status = "dispatching", !.token = permit,
                        !.timer = "running", !.budgetDay = worker[w].day]
           moved == [worker[w] EXCEPT !.pc = "prepare", !.token = permit]
<1>0. /\ task \in [Tasks -> TaskRow] /\ worker \in [Workers -> WorkerState]
      /\ t \in Tasks /\ worker[w].pc = "reserve"
  BY BusyWorker DEF TypeInv, TypeOK, WorkersOK, BeginDispatch, WorkerAt
<1>1. /\ row.status = "dispatching" /\ row.token = -worker[w].token
      /\ row.attempts = task[t].attempts /\ row.budgetDay = worker[w].day
      /\ row.refunded = task[t].refunded
      /\ moved.pc = "prepare" /\ moved.task = t
      /\ moved.token = -worker[w].token /\ moved.out = worker[w].out
  BY <1>0 DEF TaskRow, WorkerState, PermitToken
<1>2. CASE /\ task[t].status \in Leased /\ TokenMatches(w)
           /\ GateOpen(t) /\ Reserve(t, worker[w].day)
           /\ task' = [task EXCEPT ![t] = row]
           /\ worker' = [worker EXCEPT ![w] = moved]
  <2> HIDE DEF row, moved
  <2>1. /\ task'[t] = row /\ \A u \in Tasks \ {t} : task'[u] = task[u]
        /\ worker'[w] = moved
        /\ \A x \in Workers \ {w} : worker'[x] = worker[x]
    BY <1>0, <1>2
  <2> QED
    BY <1>1, <1>2, <2>1 DEF TokenMatches, Dispatched
<1>3. CASE /\ UNCHANGED <<task, usage>>
           /\ \/ Leave(w) \/ Goto(w, "defer")
              \/ \E out \in {"stale", "cancelled"} : Conclude(w, out)
  BY <1>3
<1> QED
  BY <1>0, <1>2, <1>3 DEF BeginDispatch

\* What closing a task writes.
LEMMA SettleRow ==
    ASSUME TypeInv, NEW t \in Tasks, NEW v, Settle(t, v)
    PROVE  /\ task'[t].status = v.status /\ task'[t].token = NoToken
           /\ task'[t].attempts = task[t].attempts
           /\ task'[t].budgetDay = task[t].budgetDay
           /\ task'[t].refunded = v.refund
           /\ \A u \in Tasks \ {t} : task'[u] = task[u]
           /\ execution'[t] = v.execution
           /\ \A u \in Tasks \ {t} : execution'[u] = execution[u]
<1> DEFINE closed == Close(task[t], v.status)
<1>1. task[t] \in TaskRow /\ task \in [Tasks -> TaskRow]
      /\ execution \in [Tasks -> ExecutionStatuses]
  BY DEF TypeInv, TypeOK
<1>2. task' = [task EXCEPT ![t] = [closed EXCEPT !.refunded = v.refund]]
      /\ execution' = [execution EXCEPT ![t] = v.execution]
  BY DEF Settle
<1>3. LET new == [closed EXCEPT !.refunded = v.refund] IN
      /\ new.status = closed.status /\ new.token = closed.token
      /\ new.attempts = closed.attempts
      /\ new.budgetDay = closed.budgetDay /\ new.refunded = v.refund
  BY <1>1 DEF Close, TaskRow
<1> HIDE DEF closed
<1>4. /\ task'[t] = [closed EXCEPT !.refunded = v.refund]
      /\ \A u \in Tasks \ {t} : task'[u] = task[u]
      /\ execution'[t] = v.execution
      /\ \A u \in Tasks \ {t} : execution'[u] = execution[u]
  BY <1>1, <1>2
<1> QED
  BY <1>1, <1>3, <1>4, CloseRow DEF closed

\* FinishTask leaves the rows alone or closes a task whose token it holds.
LEMMA FinishCases ==
    ASSUME TypeInv, NEW w \in Workers, FinishTask(w)
    PROVE  LET t == worker[w].task
               out == worker[w].out
           IN  /\ t \in Tasks /\ worker[w].pc = "finish" /\ out \in Outs \ {"none"}
               /\ holder = NoWorker
               /\ \/ UNCHANGED <<task, execution, setting, usage>>
                  \/ /\ task[t].status \in Open /\ TokenMatches(w)
                     /\ Settle(t, Reconcile(t, out))
                     /\ VerdictOK(Reconcile(t, out))
<1>1. worker[w].task \in Tasks /\ worker[w].out \in Outs \ {"none"}
  BY DEF FinishTask, WorkerAt, TypeInv, WorkersOK, WorkerState
<1>2. VerdictOK(Reconcile(worker[w].task, worker[w].out))
  BY <1>1, ReconcileIsOK DEF TypeInv, TypeOK
<1> QED
  BY <1>1, <1>2 DEF FinishTask, WorkerAt

LEMMA ReapCases ==
    ASSUME TypeInv, NEW t \in Tasks, ReapDispatch(t)
    PROVE  /\ task[t].status = "dispatching" /\ holder = NoWorker
           /\ Settle(t, ReapVerdict(t)) /\ VerdictOK(ReapVerdict(t))
BY ReapVerdictIsOK DEF ReapDispatch, TypeInv, TypeOK

\* Every step but a claim, a dispatch and a close leaves the rows calm.
CloseStep ==
    \/ \E w \in Workers : FinishTask(w)
    \/ \E t \in Tasks : ReapDispatch(t)

LEMMA CalmRows ==
    ASSUME TypeInv, [Next]_vars, ~CloseStep,
           \A w \in Workers : ~BeginDispatch(w),
           \A w \in Workers, t \in Tasks : ~TakeJob(w, t), NEW u \in Tasks
    PROVE  CalmRow(u)
<1>1. CASE UNCHANGED task
  BY <1>1 DEF CalmRow
<1>2. ASSUME NEW w \in Workers, WorkerStep(w) PROVE CalmRow(u)
  BY <1>1, <1>2, RunCalm
     DEF WorkerStep, Preflight, ModelReturns, Recheck, PrepareExecution,
         LockDispatchPermit, RefusePermit, RefuseAction, CallProvider,
         ProviderAnswers, RecordOutcome, CloseStep
<1>3. ASSUME NEW t \in Tasks,
             EnqueueJob(t) \/ ProviderApplies(t) \/ CloseStaleExecution(t)
      PROVE  CalmRow(u)
  BY <1>1, <1>3 DEF EnqueueJob, ProviderApplies, CloseStaleExecution
<1>4. CASE Environment
  BY <1>1, <1>4, CancelCalm
     DEF Environment, NextDay, Crash, LoseTransaction, Configure,
         DisableAutonomy, RestoreAccess, SaveRunnerSettings
<1> QED
  BY <1>1, <1>2, <1>3, <1>4, ScanCalm, TimeCalm DEF Next, vars, CloseStep

-----------------------------------------------------------------------------
(* The token invariant *)

LEMMA TokenInit == Init => TokenInv
BY InvocationInit
   DEF Init, TokenInv, RowTokens, WorkerTokens, TokensApart, Busy, AbsentTask,
       IdleWorker, NoToken

\* Where a worker may go without a new claim or permit.
CalmWorker(w) ==
    worker'[w].pc # "idle" =>
        /\ worker[w].pc # "idle"
        /\ worker'[w].task = worker[w].task
        /\ worker'[w].token = worker[w].token
        /\ worker'[w].pc \in EarlyPCs => worker[w].pc \in EarlyPCs
        /\ worker'[w].pc \in PermitPCs => worker[w].pc \in PermitPCs

LEMMA CalmWorkers ==
    ASSUME TypeInv, [Next]_vars,
           \A w \in Workers : ~BeginDispatch(w),
           \A w \in Workers, t \in Tasks : ~TakeJob(w, t), NEW x \in Workers
    PROVE  CalmWorker(x)
<1>0. worker \in [Workers -> WorkerState]
  BY DEF TypeInv, WorkersOK
<1>1. CASE worker' = worker
  BY <1>1 DEF CalmWorker
<1>2. ASSUME NEW w \in Workers, NEW pc \in PCs, Goto(w, pc),
             worker[w].pc # "idle",
             pc \in EarlyPCs => worker[w].pc \in EarlyPCs,
             pc \in PermitPCs => worker[w].pc \in PermitPCs
      PROVE  CalmWorker(x)
  BY <1>0, <1>2 DEF CalmWorker, Goto, WorkerState
<1>3. ASSUME NEW w \in Workers, NEW out, Conclude(w, out), worker[w].pc # "idle"
      PROVE  CalmWorker(x)
  BY <1>0, <1>3 DEF CalmWorker, Conclude, WorkerState, EarlyPCs, PermitPCs
<1>4. ASSUME NEW w \in Workers, Leave(w) PROVE CalmWorker(x)
  BY <1>0, <1>4 DEF CalmWorker, Leave, IdleWorker
<1>5. ASSUME NEW w \in Workers, NEW out, worker[w].pc \in PermitPCs,
             worker' = [worker EXCEPT ![w].pc = "record", ![w].out = out]
      PROVE  CalmWorker(x)
  BY <1>0, <1>5 DEF CalmWorker, WorkerState, EarlyPCs, PermitPCs
<1>6. ASSUME NEW w \in Workers, WorkerStep(w) PROVE CalmWorker(x)
  <2>1. CASE Preflight(w) \/ ModelReturns(w) \/ Recheck(w) \/ BeginGeneration(w)
             \/ DeferTask(w)
    BY <1>1, <1>2, <1>3, <1>4, <2>1
       DEF Preflight, ModelReturns, Recheck, BeginGeneration, DeferTask, WorkerAt,
           PCs, EarlyPCs, PermitPCs
  <2>2. CASE RenewLease(w)
    <3>1. CASE worker' = [worker EXCEPT ![w].pc = "recheck", ![w].day = day]
      BY <1>0, <2>2, <3>1
         DEF RenewLease, WorkerAt, CalmWorker, WorkerState, EarlyPCs, PermitPCs
    <3> QED
      BY <1>4, <2>2, <3>1 DEF RenewLease
  <2>3. CASE PrepareExecution(w) \/ LockDispatchPermit(w) \/ RefusePermit(w)
             \/ CallProvider(w)
    BY <1>1, <1>2, <1>3, <2>3
       DEF PrepareExecution, LockDispatchPermit, RefusePermit, CallProvider,
           WorkerAt, PCs, EarlyPCs, PermitPCs
  <2>4. CASE RefuseAction(w) \/ ProviderAnswers(w)
    BY <1>5, <2>4 DEF RefuseAction, ProviderAnswers, WorkerAt, PermitPCs
  <2>5. CASE RecordOutcome(w)
    BY <1>2, <1>3, <2>5 DEF RecordOutcome, WorkerAt, PCs, EarlyPCs, PermitPCs
  <2>6. CASE FinishTask(w)
    BY <1>4, <2>6 DEF FinishTask
  <2> QED
    BY <1>6, <2>1, <2>2, <2>3, <2>4, <2>5, <2>6 DEF WorkerStep
<1>7. CASE Environment
  BY <1>1, <1>4, <1>7
     DEF Environment, NextDay, Crash, LoseTransaction, Configure,
         DisableAutonomy, RestoreAccess, SaveRunnerSettings
<1>8. ASSUME NEW t \in Tasks, \/ EnqueueJob(t) \/ TimePasses(t)
                              \/ ProviderApplies(t) \/ ReapDispatch(t)
                              \/ CloseStaleExecution(t)
      PROVE  CalmWorker(x)
  BY <1>1, <1>8 DEF EnqueueJob, TimePasses, ProviderApplies, ReapDispatch,
     CloseStaleExecution
<1> QED
  BY <1>1, <1>6, <1>7, <1>8 DEF Next, vars, ControlScan

\* A close takes the token away.
LEMMA CloseTokens ==
    ASSUME TypeInv, CloseStep, NEW u \in Tasks
    PROVE  /\ task'[u].attempts = task[u].attempts
           /\ task'[u].budgetDay = task[u].budgetDay
           /\ \/ task'[u] = task[u]
              \/ /\ task[u].status \in Open /\ task'[u].status \in Terminal
                 /\ task'[u].token = NoToken
<1>1. ASSUME NEW t \in Tasks, NEW v, VerdictOK(v), task[t].status \in Open,
             Settle(t, v)
      PROVE  /\ task'[u].attempts = task[u].attempts
             /\ task'[u].budgetDay = task[u].budgetDay
             /\ \/ task'[u] = task[u]
                \/ /\ task[u].status \in Open /\ task'[u].status \in Terminal
                   /\ task'[u].token = NoToken
  BY <1>1, SettleRow DEF VerdictOK
<1> QED
  BY <1>1, FinishCases, ReapCases DEF CloseStep, Open

LEMMA CalmTokens ==
    ASSUME TokenInv, [Next]_vars,
           \A w \in Workers : ~BeginDispatch(w),
           \A w \in Workers, t \in Tasks : ~TakeJob(w, t)
    PROVE  RowTokens' /\ WorkerTokens' /\ TokensApart'
<1>0. TypeInv /\ InvocationInv
  BY DEF TokenInv, InvocationInv
<1>1. \A u \in Tasks :
        /\ task'[u].attempts = task[u].attempts
        /\ task'[u].budgetDay = task[u].budgetDay
        /\ task'[u].status = "dispatching" =>
             task[u].status = "dispatching" /\ task'[u].token = task[u].token
        /\ \/ task'[u].token = task[u].token /\ task'[u].status = task[u].status
           \/ /\ task[u].status # "dispatching" /\ task'[u].token = task[u].token
              /\ task'[u].status # "dispatching"
           \/ task'[u].token = 0 /\ task'[u].status # "dispatching"
  BY <1>0, CalmRows, CloseTokens DEF CalmRow, NotStarted, Terminal, NoToken
<1>2. \A x \in Workers : CalmWorker(x)
  BY <1>0, CalmWorkers
<1>3. RowTokens'
  BY <1>1 DEF TokenInv, RowTokens
<1>4. \A x \in Workers : worker[x].pc # "idle" => worker[x].task \in Tasks
  BY <1>0 DEF TypeInv, WorkersOK
<1>5. WorkerTokens'
  BY <1>1, <1>2, <1>4 DEF TokenInv, WorkerTokens, CalmWorker, Busy
<1>6. TokensApart'
  BY <1>2 DEF TokenInv, TokensApart, CalmWorker, Busy
<1> QED
  BY <1>3, <1>5, <1>6

LEMMA ClaimTokens ==
    ASSUME TokenInv, NEW w \in Workers, NEW t \in Tasks, TakeJob(w, t)
    PROVE  RowTokens' /\ WorkerTokens' /\ TokensApart'
<1>0. /\ TypeInv /\ task[t].attempts \in Nat
      /\ \A x \in Workers : worker[x].token \in Int
      /\ \A x \in Workers : Busy(x) => worker[x].task \in Tasks
  BY DEF TokenInv, InvocationInv, TypeInv, TypeOK, TaskRow, WorkersOK, WorkerState,
         Busy
<1>1. CASE UNCHANGED <<task, worker>>
  BY <1>1 DEF TokenInv, RowTokens, WorkerTokens, TokensApart, Busy
<1>2. CASE ~UNCHANGED <<task, worker>>
  <2> DEFINE n == task[t].attempts + 1
  <2>1. /\ \A u \in Tasks \ {t} : task'[u] = task[u]
        /\ task[t].status \in NotStarted /\ task'[t].status = "leased"
        /\ task'[t].attempts = n /\ task'[t].token = n
        /\ \A x \in Workers \ {w} : worker'[x] = worker[x]
        /\ worker'[w].pc = "preflight" /\ worker'[w].task = t
        /\ worker'[w].token = n
    BY <1>0, <1>2, TakeJobRow
  <2>2. RowTokens'
    BY <1>0, <2>1 DEF TokenInv, RowTokens
  <2>3. WorkerTokens'
    <3> SUFFICES ASSUME NEW x \in Workers, Busy(x)'
                 PROVE  LET u == worker'[x].task
                            k == worker'[x].token
                        IN  /\ k # 0 /\ k <= task'[u].attempts
                            /\ -k <= task'[u].attempts
                            /\ worker'[x].pc \in EarlyPCs => k > 0
                            /\ worker'[x].pc \in PermitPCs => k < 0
                            /\ worker'[x].pc \in PermitPCs
                               /\ task'[u].status = "dispatching" =>
                                 task'[u].token = k
      BY DEF WorkerTokens
    <3>1. CASE x = w
      BY <1>0, <2>1, <3>1 DEF PermitPCs
    <3>2. CASE x # w
      BY <1>0, <2>1, <3>2 DEF TokenInv, WorkerTokens, Busy, NotStarted
    <3> QED
      BY <3>1, <3>2
  <2>4. TokensApart'
    <3>1. \A x \in Workers : Busy(x) /\ worker[x].task = t =>
            worker[x].token # n /\ worker[x].token # -n
      BY <1>0 DEF TokenInv, WorkerTokens
    <3>2. ASSUME NEW x \in Workers, NEW y \in Workers, Busy(x)', Busy(y)', x # y,
                 worker'[x].task = worker'[y].task
          PROVE  worker'[x].token # worker'[y].token
                 /\ worker'[x].token # -worker'[y].token
      <4>1. CASE x # w /\ y # w
        BY <2>1, <3>2, <4>1 DEF TokenInv, TokensApart, Busy
      <4>2. CASE x = w
        BY <1>0, <2>1, <3>1, <3>2, <4>2 DEF Busy
      <4>3. CASE y = w
        BY <1>0, <2>1, <3>1, <3>2, <4>3 DEF Busy
      <4> QED
        BY <4>1, <4>2, <4>3
    <3> QED
      BY <3>2 DEF TokensApart
  <2> QED
    BY <2>2, <2>3, <2>4
<1> QED
  BY <1>1, <1>2

LEMMA DispatchTokens ==
    ASSUME TokenInv, NEW w \in Workers, BeginDispatch(w)
    PROVE  RowTokens' /\ WorkerTokens' /\ TokensApart'
<1> DEFINE t == worker[w].task
<1>0. /\ TypeInv /\ t \in Tasks /\ worker[w].pc = "reserve"
      /\ worker \in [Workers -> WorkerState]
      /\ \A x \in Workers : worker[x].token \in Int
      /\ \A x \in Workers : Busy(x) => worker[x].task \in Tasks
  BY BusyWorker DEF TokenInv, InvocationInv, TypeInv, TypeOK, WorkersOK,
     WorkerState, Busy, BeginDispatch, WorkerAt
<1>1. CASE UNCHANGED task /\ (\/ Leave(w) \/ Goto(w, "defer")
                              \/ \E out : Conclude(w, out))
  <2>1. \A x \in Workers : CalmWorker(x)
    BY <1>0, <1>1 DEF Leave, IdleWorker, Goto, Conclude, CalmWorker, WorkerState,
       EarlyPCs, PermitPCs
  <2> QED
    BY <1>0, <1>1, <2>1 DEF TokenInv, RowTokens, WorkerTokens, TokensApart, Busy,
       CalmWorker
<1>2. CASE Dispatched(w, t)
  <2>1. worker[w].token > 0 /\ Busy(w)
    BY <1>0 DEF TokenInv, WorkerTokens, EarlyPCs, Busy
  <2>2. \A x \in Workers : worker[x].task = t => worker[x].pc \notin PermitPCs
    BY <1>0, <1>2 DEF TokenInv, InvocationInv, ReservedOnce, OneDispatcher,
       Dispatched, Leased, NotStarted
  <2>3. worker[w].day # NoDay
    BY <1>0 DEF WorkerState, Days, NoDay
  <2>4. RowTokens'
    BY <1>0, <1>2, <2>1, <2>3 DEF TokenInv, RowTokens, Dispatched
  <2>5. WorkerTokens'
    <3> SUFFICES ASSUME NEW x \in Workers, Busy(x)'
                 PROVE  LET u == worker'[x].task
                            k == worker'[x].token
                        IN  /\ k # 0 /\ k <= task'[u].attempts
                            /\ -k <= task'[u].attempts
                            /\ worker'[x].pc \in EarlyPCs => k > 0
                            /\ worker'[x].pc \in PermitPCs => k < 0
                            /\ worker'[x].pc \in PermitPCs
                               /\ task'[u].status = "dispatching" =>
                                 task'[u].token = k
      BY DEF WorkerTokens
    <3>1. CASE x = w
      <4>1. worker[w].token <= task[t].attempts /\ -worker[w].token <= task[t].attempts
        BY <2>1 DEF TokenInv, WorkerTokens
      <4> QED
        BY <1>0, <1>2, <2>1, <3>1, <4>1 DEF Dispatched, EarlyPCs
    <3>2. CASE x # w
      <4>1. worker'[x] = worker[x] /\ Busy(x) /\ worker[x].task \in Tasks
            /\ task'[worker[x].task].attempts = task[worker[x].task].attempts
        BY <1>0, <1>2, <3>2 DEF Dispatched, Busy
      <4>2. CASE worker[x].task = t
        BY <2>2, <4>1, <4>2 DEF TokenInv, WorkerTokens
      <4>3. CASE worker[x].task # t
        BY <1>2, <4>1, <4>3 DEF TokenInv, WorkerTokens, Dispatched
      <4> QED
        BY <4>2, <4>3
    <3> QED
      BY <3>1, <3>2
  <2>6. TokensApart'
    BY <1>0, <1>2, <2>1 DEF TokenInv, TokensApart, Dispatched, Busy
  <2> QED
    BY <2>4, <2>5, <2>6
<1> QED
  BY <1>0, <1>1, <1>2, BeginDispatchRow

LEMMA TokenStep == TokenInv /\ [Next]_vars => TokenInv'
<1> SUFFICES ASSUME TokenInv, [Next]_vars PROVE TokenInv'
  OBVIOUS
<1>1. InvocationInv'
  BY InvocationStep DEF TokenInv
<1> QED
  BY <1>1, CalmTokens, ClaimTokens, DispatchTokens DEF TokenInv

-----------------------------------------------------------------------------
(* The permit stays authorised *)

\* A step that keeps the permit of w: its worker, its audit row, the setting and
\* the columns of its task the gate reads.
PermitKept(w) ==
    LET t == worker[w].task IN
    /\ setting' = setting
    /\ worker'[w].pc \in {"act", "provider", "record"}
    /\ worker'[w].task = t /\ worker'[w].token = worker[w].token
    /\ execution'[t] = execution[t]
    /\ task'[t] \in {task[t], [task[t] EXCEPT !.timer = "elapsed"]}

LEMMA PermitKeptStep ==
    ASSUME PermitInv, NEW w \in Workers, holder = w, holder' = w, PermitKept(w)
    PROVE  PermitStaysAuthorised'
<1> DEFINE t == worker[w].task
<1>1. /\ worker[w].pc \in {"act", "provider", "record"}
      /\ GateOpen(t) /\ task[t].status = "dispatching" /\ TokenMatches(w)
      /\ execution[t] = "running"
  BY DEF PermitInv, PermitStaysAuthorised
<1>2. t \in Tasks /\ task[t] \in TaskRow
  BY <1>1, BusyWorker DEF PermitInv, InvocationInv, TypeInv, TypeOK
<1>3. /\ task'[t].status = task[t].status /\ task'[t].token = task[t].token
      /\ task'[t].version = task[t].version /\ task'[t].runner = task[t].runner
  BY <1>2 DEF PermitKept, TaskRow
<1> QED
  BY <1>1, <1>3
     DEF PermitKept, PermitStaysAuthorised, GateOpen, Halts, TokenMatches

\* While a permit transaction is open, these are the only steps.
LEMMA PermitStepCases ==
    ASSUME PermitInv, [Next]_vars, NEW w \in Workers, holder = w, holder' = w
    PROVE  PermitKept(w)
<1> DEFINE t == worker[w].task
<1>0. /\ TypeInv /\ worker \in [Workers -> WorkerState]
      /\ worker[w].pc \in {"act", "provider", "record"}
      /\ worker[w].pc \in PermitPCs
      /\ task[t].status = "dispatching" /\ t \in Tasks
      /\ task \in [Tasks -> TaskRow]
      /\ holder # NoWorker
  BY ConstantsAssumption, BusyWorker
     DEF PermitInv, PermitStaysAuthorised, InvocationInv, TypeInv, TypeOK,
         WorkersOK, PermitPCs
<1>1. CASE UNCHANGED <<task, execution, setting, worker>>
  BY <1>0, <1>1 DEF PermitKept
<1>2. ASSUME NEW x \in Workers, WorkerStep(x) PROVE PermitKept(w)
  <2>1. ASSUME NEW u \in Tasks, TakeJob(x, u) PROVE PermitKept(w)
    BY <1>0, <2>1, TakeJobRow DEF PermitKept, TakeJob, NotStarted
  <2>2. CASE \/ Preflight(x) \/ BeginGeneration(x) \/ ModelReturns(x)
             \/ RenewLease(x) \/ Recheck(x) \/ DeferTask(x)
    <3>1. /\ x # w /\ worker'[w] = worker[w]
          /\ UNCHANGED <<setting, execution>>
      BY <1>0, <2>2
         DEF Preflight, BeginGeneration, ModelReturns, RenewLease, Recheck,
             DeferTask, WorkerAt, Goto, Conclude, Leave
    <3>2. task'[t] = task[t]
      BY <1>0, <2>2
         DEF Preflight, BeginGeneration, ModelReturns, RenewLease, Recheck,
             DeferTask, Leased
    <3> QED
      BY <1>0, <3>1, <3>2 DEF PermitKept
  <2>3. CASE RefuseAction(x) \/ ProviderAnswers(x)
    <3>1. /\ UNCHANGED <<task, setting, execution>>
          /\ \E out : worker' = [worker EXCEPT ![x].pc = "record", ![x].out = out]
      BY <2>3 DEF RefuseAction, ProviderAnswers
    <3> QED
      BY <1>0, <3>1 DEF PermitKept, WorkerState
  <2>4. CASE CallProvider(x)
    BY <1>0, <2>4 DEF CallProvider, Goto, PermitKept, WorkerState
  <2>5. CASE RecordOutcome(x)
    <3>1. x # w /\ worker[x].pc \in PermitPCs /\ UNCHANGED <<task, setting>>
      BY <1>0, <2>5 DEF RecordOutcome, WorkerAt, PermitPCs
    <3>2. worker[x].task # t
      BY <1>0, <3>1 DEF PermitInv, InvocationInv, OneDispatcher
    <3>3. execution'[t] = execution[t] /\ worker'[w] = worker[w]
      BY <1>0, <2>5, <3>1, <3>2
         DEF RecordOutcome, Goto, Conclude, TypeInv, TypeOK
    <3> QED
      BY <1>0, <3>1, <3>3 DEF PermitKept
  <2> QED
    BY <1>0, <1>2, <2>1, <2>2, <2>3, <2>4, <2>5
       DEF WorkerStep, BeginDispatch, PrepareExecution, LockDispatchPermit,
           RefusePermit, FinishTask
<1>3. ASSUME NEW u \in Tasks, TimePasses(u) PROVE PermitKept(w)
  BY <1>0, <1>3 DEF TimePasses, PermitKept
<1>4. CASE Environment
  <2>1. ASSUME NEW x \in Workers, Crash(x) PROVE PermitKept(w)
    BY <1>0, <2>1 DEF Crash, Leave, PermitKept
  <2> QED
    BY <1>0, <1>1, <1>4, <2>1
       DEF Environment, NextDay, LoseTransaction, Configure, DisableAutonomy,
           RestoreAccess, SaveRunnerSettings
<1> QED
  BY <1>0, <1>1, <1>2, <1>3, <1>4
     DEF Next, vars, ControlScan, EnqueueJob, ProviderApplies, ReapDispatch,
         CloseStaleExecution

LEMMA PermitStep == PermitInv /\ [Next]_vars => PermitInv'
<1> SUFFICES ASSUME PermitInv, [Next]_vars PROVE PermitStaysAuthorised'
  BY InvocationStep DEF PermitInv
<1>1. ASSUME NEW w \in Workers, holder = w, holder' = w
      PROVE  PermitStaysAuthorised'
  BY <1>1, PermitStepCases, PermitKeptStep
<1>2. ASSUME NEW w \in Workers, holder # w, holder' = w
      PROVE  PermitStaysAuthorised'
  <2>1. LockDispatchPermit(w)
    BY <1>2, ConstantsAssumption
       DEF Next, WorkerStep, Environment, vars, TakeJob, Preflight,
           BeginGeneration, ModelReturns, RenewLease, Recheck, BeginDispatch,
           DeferTask, PrepareExecution, LockDispatchPermit, RefusePermit,
           RefuseAction, CallProvider, ProviderAnswers, RecordOutcome,
           FinishTask, NextDay, Crash, LoseTransaction, Configure,
           DisableAutonomy, RestoreAccess, SaveRunnerSettings, ControlScan,
           EnqueueJob, TimePasses, ProviderApplies, ReapDispatch,
           CloseStaleExecution
  <2>2. worker \in [Workers -> WorkerState]
    BY DEF PermitInv, InvocationInv, TypeInv, WorkersOK
  <2>3. /\ worker'[w].pc = "act" /\ worker'[w].task = worker[w].task
        /\ worker'[w].token = worker[w].token
    BY <2>1, <2>2 DEF LockDispatchPermit, Goto, WorkerState
  <2> QED
    BY <1>2, <2>1, <2>3
       DEF LockDispatchPermit, PermitStaysAuthorised, GateOpen, TokenMatches, Halts
<1> QED
  BY <1>1, <1>2 DEF PermitStaysAuthorised

\* While the permit transaction of a worker is open, no switch, version or halt
\* changes, and its task and audit row stay as it locked them, however many tasks
\* and workers there are and whoever is reaped, crashes or is late.
THEOREM PermitAuthorised == Spec => []PermitStaysAuthorised
<1>1. Init => PermitInv
  BY InvocationInit, ConstantsAssumption
     DEF Init, PermitInv, PermitStaysAuthorised
<1> QED
  BY <1>1, PermitStep, PTL DEF Spec, PermitInv

-----------------------------------------------------------------------------
(* The report is true *)

LEMMA TruthInit == Init => TruthInv
BY TokenInit
   DEF Init, TruthInv, TaskTruth, WorkerTruth, Untouched, AbsentTask, IdleWorker

\* What the lemmas below read of a task and of a worker.
LEMMA TaskFacts ==
    ASSUME TruthInv, NEW t \in Tasks
    PROVE  /\ TaskTruth(t)
           /\ task[t] \in TaskRow /\ execution[t] \in ExecutionStatuses
           /\ invoked[t] \in Nat
           /\ task[t].status \in NotStarted \cup {"absent"} =>
                /\ task[t].budgetDay = NoDay
                /\ execution[t] = "none" /\ Untouched(t)
           /\ task[t].status = "dispatching" =>
                task[t].token < 0 /\ task[t].budgetDay # NoDay
           /\ task[t].status # "dispatching" => task[t].token >= 0
<1>1. task[t].status \in NotStarted \cup {"absent"} => task[t].budgetDay = NoDay
  BY DEF TruthInv, TokenInv, InvocationInv, ReservedOnce
<1> QED
  BY <1>1 DEF TruthInv, TaskTruth, TokenInv, RowTokens, InvocationInv, TypeInv, TypeOK

LEMMA WorkerFacts ==
    ASSUME TruthInv, NEW w \in Workers, Busy(w)
    PROVE  LET t == worker[w].task IN
           /\ t \in Tasks /\ WorkerTruth(w) /\ worker[w] \in WorkerState
           /\ worker[w].pc \in EarlyPCs => worker[w].token > 0
           /\ worker[w].pc \in PermitPCs =>
                /\ worker[w].token < 0 /\ task[t].budgetDay # NoDay
                /\ execution[t] = "none" => invoked[t] = 0
                /\ task[t].status = "dispatching" => task[t].token = worker[w].token
           /\ worker[w].pc \in PreCallPCs => invoked[t] = 0 /\ Untouched(t)
<1>1. worker[w].task \in Tasks /\ worker[w] \in WorkerState
  BY DEF TruthInv, TokenInv, InvocationInv, TypeInv, WorkersOK, Busy
<1>2. worker[w].pc \in PreCallPCs => invoked[worker[w].task] = 0
  <2>1. CalledOnce /\ invoked[worker[w].task] \in Nat
    BY <1>1, TaskFacts DEF TruthInv, TokenInv, InvocationInv
  <2> QED
    BY <1>1, <2>1 DEF CalledOnce
<1> QED
  BY <1>1, <1>2 DEF TruthInv, TaskTruth, TokenInv, InvocationInv, OneDispatcher,
     WorkerTokens

\* Two workers on one task: at most one is on its permit, and their tokens differ.
LEMMA TwoWorkers ==
    ASSUME TruthInv, NEW w \in Workers, NEW x \in Workers, w # x,
           Busy(w), Busy(x), worker[w].task = worker[x].task
    PROVE  /\ ~(worker[w].pc \in PermitPCs /\ worker[x].pc \in PermitPCs)
           /\ worker[w].token # worker[x].token
           /\ worker[w].token # -worker[x].token
BY DEF TruthInv, TokenInv, TokensApart, InvocationInv, OneDispatcher

\* Nobody reaches the call for a task another worker closes.
LEMMA NobodyActs ==
    ASSUME TruthInv, NEW w \in Workers, NEW x \in Workers, w # x,
           Busy(w), worker[w].task = worker[x].task,
           task[worker[w].task].status \in Open,
           task[worker[w].task].token = worker[w].token
    PROVE  worker[x].pc \notin PermitPCs
<1> SUFFICES ASSUME worker[x].pc \in PermitPCs PROVE FALSE
  OBVIOUS
<1>1. Busy(x)
  BY DEF Busy, PermitPCs
<1>2. task[worker[w].task].budgetDay # NoDay
      /\ worker[w].token # worker[x].token
  BY <1>1, WorkerFacts, TwoWorkers
<1>3. task[worker[w].task].status = "dispatching"
  BY <1>2, TaskFacts, WorkerFacts DEF Open
<1> QED
  BY <1>1, <1>2, <1>3, WorkerFacts

LEMMA SameTask ==
    ASSUME NEW t \in Tasks, TaskTruth(t),
           task'[t] = task[t], execution'[t] = execution[t],
           invoked'[t] = invoked[t], applied'[t] = applied[t],
           inflight'[t] = inflight[t]
    PROVE  TaskTruth(t)'
BY DEF TaskTruth, Untouched

LEMMA SameWorker ==
    ASSUME NEW w \in Workers, WorkerTruth(w), worker'[w] = worker[w],
           Busy(w) =>
             LET t == worker[w].task IN
             /\ task'[t] = task[t] /\ execution'[t] = execution[t]
             /\ applied'[t] = applied[t] /\ inflight'[t] = inflight[t]
    PROVE  WorkerTruth(w)'
BY DEF WorkerTruth, Untouched, Busy

\* A step that touches at most one task and one worker.
Only(t, w) ==
    /\ \A u \in Tasks \ {t} :
         /\ task'[u] = task[u] /\ execution'[u] = execution[u]
         /\ invoked'[u] = invoked[u] /\ applied'[u] = applied[u]
         /\ inflight'[u] = inflight[u]
    /\ \A x \in Workers \ {w} : worker'[x] = worker[x]

LEMMA OnlyStep ==
    ASSUME TruthInv, TokenInv', NEW t \in Tasks, NEW w, Only(t, w),
           TaskTruth(t)', w \in Workers => WorkerTruth(w)',
           \A x \in Workers \ {w} :
             Busy(x) /\ worker[x].task = t => WorkerTruth(x)'
    PROVE  TruthInv'
<1>1. \A u \in Tasks : TaskTruth(u)'
  BY SameTask DEF TruthInv, Only
<1>2. ASSUME NEW x \in Workers \ {w} PROVE WorkerTruth(x)'
  <2>1. CASE Busy(x) /\ worker[x].task = t
    BY <2>1
  <2>2. CASE ~(Busy(x) /\ worker[x].task = t)
    BY <2>2, SameWorker, WorkerFacts DEF TruthInv, Only
  <2> QED
    BY <2>1, <2>2
<1> QED
  BY <1>1, <1>2 DEF TruthInv

-----------------------------------------------------------------------------
(* Steps before the permit and of the surroundings *)

\* The row moves among the states before dispatch or is dropped there, and nothing
\* is sent or written to the audit row.
TruthCalmRow(t) ==
    /\ task'[t].budgetDay = task[t].budgetDay
    /\ \/ task'[t].status = task[t].status /\ task'[t].token = task[t].token
       \/ /\ task[t].status \in NotStarted \cup {"absent"}
          /\ task'[t].status \in NotStarted \cup {"cancelled", "stale"}

\* The worker stays where it is, gives up, or drops its claim with a conclusion that
\* no provider was needed for.
TruthCalmWorker(w) ==
    /\ worker'[w].pc \in {"act", "record"} => worker'[w] = worker[w]
    /\ worker'[w].pc = "finish" =>
         \/ worker'[w] = worker[w]
         \/ /\ worker[w].pc \in EarlyPCs
            /\ worker'[w].task = worker[w].task
            /\ worker'[w].token = worker[w].token
            /\ worker'[w].out \in {"failed", "stale", "cancelled"}

LEMMA CalmTruth ==
    ASSUME TruthInv, TokenInv', UNCHANGED <<execution, applied, inflight, invoked>>,
           \A t \in Tasks : TruthCalmRow(t),
           \A w \in Workers : TruthCalmWorker(w)
    PROVE  TruthInv'
<1>1. ASSUME NEW t \in Tasks PROVE TaskTruth(t)'
  BY TaskFacts DEF TaskTruth, TruthCalmRow, Untouched, NotStarted
<1>2. ASSUME NEW w \in Workers PROVE WorkerTruth(w)'
  <2> DEFINE t == worker[w].task
  <2>1. CASE worker'[w].pc \notin {"act", "record", "finish"}
    BY <2>1 DEF WorkerTruth
  <2>2. CASE worker'[w] = worker[w] /\ worker[w].pc \in {"act", "record", "finish"}
    <3>1. Busy(w) /\ WorkerTruth(w) /\ t \in Tasks
      BY <2>2, WorkerFacts DEF Busy
    <3>2. task[t].status \in {"dispatching", "manual_review"} =>
            task'[t].status = task[t].status
      BY <3>1 DEF TruthCalmRow, NotStarted
    <3>3. task'[t].status = "dispatching" =>
            task[t].status = "dispatching" /\ task'[t].token = task[t].token
      BY <3>1 DEF TruthCalmRow, NotStarted
    <3> QED
      BY <2>2, <3>1, <3>2, <3>3 DEF WorkerTruth, Untouched
  <2>3. CASE /\ worker'[w].pc = "finish" /\ worker[w].pc \in EarlyPCs
             /\ worker'[w].task = t /\ worker'[w].token = worker[w].token
             /\ worker'[w].out \in {"failed", "stale", "cancelled"}
    <3>1. Busy(w)
      BY <2>3 DEF Busy, EarlyPCs
    <3>2. worker[w].token > 0 /\ t \in Tasks
      BY <2>3, <3>1, WorkerFacts
    <3>3. task'[t].status = "dispatching" => task'[t].token < 0
      BY <3>2 DEF TokenInv, RowTokens
    <3>4. worker[w].token \in Int
      BY <3>1, WorkerFacts DEF WorkerState
    <3>5. task'[t].token \in Int
      BY <3>2 DEF TokenInv, InvocationInv, TypeInv, TypeOK, TaskRow
    <3>6. task'[t].status = "dispatching" => task'[t].token # worker[w].token
      BY <3>2, <3>3, <3>4, <3>5
    <3> QED
      BY <2>3, <3>6 DEF WorkerTruth
  <2> QED
    BY <2>1, <2>2, <2>3 DEF TruthCalmWorker
<1> QED
  BY <1>1, <1>2 DEF TruthInv

LEMMA TruthTypes ==
    ASSUME TruthInv
    PROVE  /\ TypeInv /\ InvocationInv /\ TokenInv
           /\ worker \in [Workers -> WorkerState] /\ task \in [Tasks -> TaskRow]
           /\ execution \in [Tasks -> ExecutionStatuses]
           /\ invoked \in [Tasks -> Nat] /\ applied \in [Tasks -> BOOLEAN]
           /\ inflight \in [Tasks -> BOOLEAN]
BY DEF TruthInv, TokenInv, InvocationInv, TypeInv, TypeOK, WorkersOK

LEMMA EarlyTruth ==
    ASSUME TruthInv, NEW w \in Workers, [Next]_vars,
           \/ \E t \in Tasks : TakeJob(w, t)
           \/ Preflight(w) \/ BeginGeneration(w) \/ ModelReturns(w)
           \/ RenewLease(w) \/ Recheck(w) \/ DeferTask(w)
    PROVE  TruthInv'
<1>0. /\ TypeInv /\ TokenInv' /\ worker \in [Workers -> WorkerState]
  BY TruthTypes, TokenStep
<1>1. UNCHANGED <<execution, applied, inflight, invoked>>
  BY DEF TakeJob, Preflight, BeginGeneration, ModelReturns, RenewLease, Recheck,
     DeferTask, observed
<1>2. ASSUME NEW u \in Tasks PROVE TruthCalmRow(u)
  <2>1. CASE UNCHANGED task
    BY <2>1 DEF TruthCalmRow
  <2>2. ASSUME NEW t \in Tasks, TakeJob(w, t) PROVE TruthCalmRow(u)
    BY <1>0, <2>2, TakeJobRow DEF TruthCalmRow, NotStarted
  <2>3. CASE BeginGeneration(w) \/ RenewLease(w) \/ DeferTask(w)
    BY <1>0, <2>3, RunCalm DEF CalmRow, TruthCalmRow, NotStarted
  <2> QED
    BY <2>1, <2>2, <2>3 DEF Preflight, ModelReturns, Recheck
<1>3. ASSUME NEW x \in Workers PROVE TruthCalmWorker(x)
  <2>1. CASE worker' = worker
    BY <2>1 DEF TruthCalmWorker
  <2>2. ASSUME NEW pc \in EarlyPCs, Goto(w, pc) PROVE TruthCalmWorker(x)
    BY <1>0, <2>2 DEF Goto, TruthCalmWorker, EarlyPCs
  <2>3. ASSUME NEW out \in {"failed", "stale", "cancelled"}, Conclude(w, out),
               worker[w].pc \in EarlyPCs
        PROVE  TruthCalmWorker(x)
    BY <1>0, <2>3 DEF Conclude, TruthCalmWorker, WorkerState
  <2>4. CASE Leave(w)
    BY <1>0, <2>4 DEF Leave, IdleWorker, TruthCalmWorker
  <2>5. ASSUME NEW t \in Tasks, TakeJob(w, t) PROVE TruthCalmWorker(x)
    BY <1>0, <2>5, TakeJobRow DEF TruthCalmWorker
  <2>6. CASE RenewLease(w) /\ ~Leave(w)
    BY <1>0, <2>6 DEF RenewLease, TruthCalmWorker, WorkerState
  <2> QED
    BY <2>1, <2>2, <2>3, <2>4, <2>5, <2>6
       DEF Preflight, BeginGeneration, ModelReturns, Recheck, DeferTask, WorkerAt,
           EarlyPCs
<1> QED
  BY <1>0, <1>1, <1>2, <1>3, CalmTruth

LEMMA AroundTruth ==
    ASSUME TruthInv, [Next]_vars,
           \/ ControlScan \/ Environment \/ UNCHANGED vars
           \/ \E t \in Tasks : EnqueueJob(t) \/ TimePasses(t)
    PROVE  TruthInv'
<1>0. /\ TypeInv /\ TokenInv' /\ worker \in [Workers -> WorkerState]
  BY TruthTypes, TokenStep
<1>1. UNCHANGED <<execution, applied, inflight, invoked>>
  BY DEF ControlScan, Environment, NextDay, Crash, LoseTransaction, Configure,
     DisableAutonomy, RestoreAccess, SaveRunnerSettings, EnqueueJob, TimePasses,
     observed, vars
<1>2. ASSUME NEW u \in Tasks PROVE TruthCalmRow(u)
  <2>1. CASE UNCHANGED task
    BY <2>1 DEF TruthCalmRow
  <2>3. CASE CalmRow(u)
    BY <2>3 DEF CalmRow, TruthCalmRow, NotStarted
  <2>2. CASE Environment
    <3>1. UNCHANGED task \/ task' = CancelNotStarted(task)
      BY <2>2 DEF Environment, NextDay, Crash, LoseTransaction, Configure,
         DisableAutonomy, RestoreAccess, SaveRunnerSettings
    <3> QED
      BY <1>0, <2>1, <2>3, <3>1, CancelCalm
  <2> QED
    BY <1>0, <2>1, <2>2, <2>3, ScanCalm, TimeCalm DEF EnqueueJob, vars
<1>3. ASSUME NEW x \in Workers PROVE TruthCalmWorker(x)
  <2>1. CASE worker' = worker
    BY <2>1 DEF TruthCalmWorker
  <2>2. ASSUME NEW w \in Workers, Leave(w) PROVE TruthCalmWorker(x)
    BY <1>0, <2>2 DEF Leave, IdleWorker, TruthCalmWorker
  <2> QED
    BY <2>1, <2>2
       DEF ControlScan, Environment, NextDay, Crash, LoseTransaction, Configure,
           DisableAutonomy, RestoreAccess, SaveRunnerSettings, EnqueueJob,
           TimePasses, vars
<1> QED
  BY <1>0, <1>1, <1>2, <1>3, CalmTruth

-----------------------------------------------------------------------------
(* Steps on the permit *)

LEMMA DispatchTruth ==
    ASSUME TruthInv, NEW w \in Workers, [Next]_vars, BeginDispatch(w)
    PROVE  TruthInv'
<1> PICK t \in Tasks : t = worker[w].task
  BY WorkerFacts DEF BeginDispatch, WorkerAt, Busy
<1>0. /\ TypeInv /\ TokenInv' /\ worker \in [Workers -> WorkerState]
      /\ worker[w].pc = "reserve" /\ Busy(w) /\ worker[w].pc \in EarlyPCs
      /\ UNCHANGED <<execution, applied, inflight, invoked>>
  BY TruthTypes, TokenStep DEF BeginDispatch, WorkerAt, Busy, observed, EarlyPCs
<1>1. CASE UNCHANGED task /\ (\/ Leave(w) \/ Goto(w, "defer")
                              \/ \E out \in {"stale", "cancelled"} : Conclude(w, out))
  <2>1. \A u \in Tasks : TruthCalmRow(u)
    BY <1>1 DEF TruthCalmRow
  <2>2. \A x \in Workers : TruthCalmWorker(x)
    BY <1>0, <1>1 DEF Leave, IdleWorker, Goto, Conclude, TruthCalmWorker, WorkerState
  <2> QED
    BY <1>0, <2>1, <2>2, CalmTruth
<1>2. CASE Dispatched(w, t)
  <2>1. t \in Tasks /\ worker[w].token > 0 /\ worker[w] \in WorkerState
    BY <1>0, WorkerFacts
  <2>2. Only(t, w)
    BY <1>0, <1>2 DEF Dispatched, Only
  <2>3. TaskTruth(t)'
    <3>1. execution[t] = "none" /\ TaskTruth(t)
      BY <1>2, <2>1, TaskFacts DEF Dispatched, Leased, NotStarted
    <3> QED
      BY <1>0, <1>2, <3>1 DEF Dispatched, TaskTruth, Untouched
  <2>4. WorkerTruth(w)'
    BY <1>2 DEF Dispatched, WorkerTruth
  <2>5. ASSUME NEW x \in Workers \ {w}, Busy(x), worker[x].task = t
        PROVE  WorkerTruth(x)'
    <3>1. /\ worker'[x] = worker[x] /\ WorkerTruth(x)
          /\ worker[x] \in WorkerState
      BY <2>2, <2>5, WorkerFacts DEF Only
    <3>2. worker[x].pc \notin PermitPCs
      BY <1>0, <1>2, <2>1, <2>5, NobodyActs DEF Dispatched, Open, Leased, NotStarted
    <3>3. worker[x].token # -worker[w].token
      BY <1>0, <2>1, <2>5, <3>1, TwoWorkers DEF WorkerState
    <3> QED
      BY <1>0, <1>2, <2>5, <3>1, <3>2, <3>3
         DEF WorkerTruth, Dispatched, PermitPCs, Untouched
  <2> QED
    BY <1>0, <2>1, <2>2, <2>3, <2>4, <2>5, OnlyStep
<1> QED
  BY <1>0, <1>1, <1>2, BeginDispatchRow

LEMMA PrepareTruth ==
    ASSUME TruthInv, NEW w \in Workers, [Next]_vars, PrepareExecution(w)
    PROVE  TruthInv'
<1> PICK t \in Tasks : t = worker[w].task
  BY WorkerFacts DEF PrepareExecution, WorkerAt, Busy
<1>0. /\ TypeInv /\ TokenInv' /\ worker \in [Workers -> WorkerState]
      /\ execution \in [Tasks -> ExecutionStatuses]
      /\ worker[w].pc = "prepare" /\ Busy(w)
      /\ UNCHANGED <<task, applied, inflight, invoked>>
  BY TruthTypes, TokenStep DEF PrepareExecution, WorkerAt, Busy, observed
<1>1. /\ t \in Tasks /\ invoked[t] = 0 /\ Untouched(t) /\ TaskTruth(t)
      /\ task[t].budgetDay # NoDay
  BY <1>0, WorkerFacts, TaskFacts DEF PreCallPCs, PermitPCs
<1>2. \/ execution'[t] = execution[t]
      \/ execution'[t] = "running" /\ task[t].status = "dispatching"
  BY <1>0, <1>1 DEF PrepareExecution
<1>3. Only(t, w)
  BY <1>0, <1>1 DEF PrepareExecution, Only, Goto, Conclude
<1>4. TaskTruth(t)'
  BY <1>0, <1>1, <1>2 DEF TaskTruth, Untouched
<1>5. WorkerTruth(w)'
  <2>1. \/ worker'[w].pc = "lock"
        \/ /\ worker'[w].pc = "finish" /\ worker'[w].task = t
           /\ worker'[w].out = "failed"
    BY <1>0 DEF PrepareExecution, Goto, Conclude, WorkerState
  <2> QED
    BY <1>0, <1>1, <2>1 DEF WorkerTruth, Untouched
<1>6. ASSUME NEW x \in Workers \ {w}, Busy(x), worker[x].task = t
      PROVE  WorkerTruth(x)'
  <2>1. worker'[x] = worker[x] /\ WorkerTruth(x) /\ worker[x].pc \notin PermitPCs
    BY <1>0, <1>3, <1>6, WorkerFacts, TwoWorkers DEF Only, PermitPCs
  <2> QED
    BY <1>0, <1>6, <2>1 DEF WorkerTruth, Untouched, PermitPCs
<1> QED
  BY <1>0, <1>1, <1>3, <1>4, <1>5, <1>6, OnlyStep

LEMMA LockTruth ==
    ASSUME TruthInv, NEW w \in Workers, [Next]_vars, LockDispatchPermit(w)
    PROVE  TruthInv'
<1> PICK t \in Tasks : t = worker[w].task
  BY WorkerFacts DEF LockDispatchPermit, WorkerAt, Busy
<1>0. /\ TokenInv' /\ worker \in [Workers -> WorkerState]
      /\ worker[w].pc = "lock" /\ Busy(w)
      /\ UNCHANGED <<task, execution, applied, inflight, invoked>>
  BY TruthTypes, TokenStep DEF LockDispatchPermit, WorkerAt, Busy, observed
<1>1. t \in Tasks /\ TaskTruth(t)
  BY <1>0, WorkerFacts, TaskFacts
<1>2. Only(t, w)
  BY <1>0 DEF LockDispatchPermit, Only, Goto
<1>3. TaskTruth(t)'
  BY <1>0, <1>1, SameTask
<1>4. WorkerTruth(w)'
  BY <1>0 DEF LockDispatchPermit, Goto, WorkerState, WorkerTruth
<1>5. \A x \in Workers \ {w} : WorkerTruth(x)'
  BY <1>0, <1>2, SameWorker DEF TruthInv, Only
<1> QED
  BY <1>0, <1>1, <1>2, <1>3, <1>4, <1>5, OnlyStep

LEMMA RefusePermitTruth ==
    ASSUME TruthInv, NEW w \in Workers, [Next]_vars, RefusePermit(w)
    PROVE  TruthInv'
<1> PICK t \in Tasks : t = worker[w].task
  BY WorkerFacts DEF RefusePermit, WorkerAt, Busy
<1>0. /\ TokenInv' /\ worker \in [Workers -> WorkerState]
      /\ execution \in [Tasks -> ExecutionStatuses]
      /\ worker[w].pc = "lock" /\ Busy(w)
      /\ UNCHANGED <<task, applied, inflight, invoked>>
  BY TruthTypes, TokenStep DEF RefusePermit, WorkerAt, Busy, observed
<1>1. t \in Tasks /\ Untouched(t) /\ TaskTruth(t) /\ task[t].budgetDay # NoDay
  BY <1>0, WorkerFacts, TaskFacts DEF PreCallPCs, PermitPCs
<1>2. execution'[t] \in {execution[t], "failed"} /\ Only(t, w)
      /\ (execution'[t] # execution[t] => execution[t] = "running")
  BY <1>0, <1>1 DEF RefusePermit, Only, Conclude
<1>3. TaskTruth(t)'
  BY <1>0, <1>1, <1>2 DEF TaskTruth, Untouched, RefusePermit
<1>4. WorkerTruth(w)'
  <2>1. worker'[w].pc = "finish" /\ worker'[w].task = t /\ worker'[w].out = "failed"
    BY <1>0 DEF RefusePermit, Conclude, WorkerState
  <2> QED
    BY <1>0, <1>1, <2>1 DEF WorkerTruth, Untouched
<1>5. ASSUME NEW x \in Workers \ {w}, Busy(x), worker[x].task = t
      PROVE  WorkerTruth(x)'
  <2>1. worker'[x] = worker[x] /\ WorkerTruth(x) /\ worker[x].pc \notin PermitPCs
    BY <1>0, <1>2, <1>5, WorkerFacts, TwoWorkers DEF Only, PermitPCs
  <2> QED
    BY <1>0, <1>5, <2>1 DEF WorkerTruth, Untouched, PermitPCs
<1> QED
  BY <1>0, <1>1, <1>2, <1>3, <1>4, <1>5, OnlyStep

LEMMA RefuseActionTruth ==
    ASSUME TruthInv, NEW w \in Workers, [Next]_vars, RefuseAction(w)
    PROVE  TruthInv'
<1> PICK t \in Tasks : t = worker[w].task
  BY WorkerFacts DEF RefuseAction, WorkerAt, Busy
<1>0. /\ TokenInv' /\ worker \in [Workers -> WorkerState]
      /\ worker[w].pc = "act" /\ Busy(w)
      /\ UNCHANGED <<task, execution, applied, inflight, invoked>>
  BY TruthTypes, TokenStep DEF RefuseAction, WorkerAt, Busy, observed
<1>1. t \in Tasks /\ Untouched(t) /\ TaskTruth(t)
  BY <1>0, WorkerFacts, TaskFacts DEF PreCallPCs
<1>2. Only(t, w)
  BY <1>0 DEF RefuseAction, Only
<1>3. TaskTruth(t)'
  BY <1>0, <1>1, SameTask
<1>4. WorkerTruth(w)'
  <2>1. /\ worker'[w].pc = "record" /\ worker'[w].task = t
        /\ worker'[w].out \in {"failed", "unknown"}
    BY <1>0 DEF RefuseAction, WorkerState
  <2> QED
    BY <1>0, <1>1, <2>1 DEF WorkerTruth, Untouched
<1>5. \A x \in Workers \ {w} : WorkerTruth(x)'
  BY <1>0, <1>2, SameWorker DEF TruthInv, Only
<1> QED
  BY <1>0, <1>1, <1>2, <1>3, <1>4, <1>5, OnlyStep

LEMMA CallTruth ==
    ASSUME TruthInv, NEW w \in Workers, [Next]_vars, CallProvider(w)
    PROVE  TruthInv'
<1> PICK t \in Tasks : t = worker[w].task
  BY WorkerFacts DEF CallProvider, WorkerAt, Busy
<1>0. /\ TokenInv' /\ worker \in [Workers -> WorkerState]
      /\ worker[w].pc = "act" /\ Busy(w)
      /\ invoked \in [Tasks -> Nat] /\ inflight \in [Tasks -> BOOLEAN]
      /\ UNCHANGED <<task, execution, applied>>
  BY TruthTypes, TokenStep DEF CallProvider, WorkerAt, Busy
<1>1. t \in Tasks /\ TaskTruth(t) /\ WorkerTruth(w) /\ invoked[t] = 0
  BY <1>0, WorkerFacts, TaskFacts DEF PreCallPCs
<1>2. /\ execution[t] \in {"running", "manual_review"}
      /\ task[t].status \in {"dispatching", "manual_review"}
  BY <1>0, <1>1 DEF WorkerTruth
<1>3. Only(t, w) /\ invoked'[t] = 1
  <2>1. /\ invoked' = [invoked EXCEPT ![t] = @ + 1]
        /\ inflight' = [inflight EXCEPT ![t] = TRUE]
        /\ worker' = [worker EXCEPT ![w].pc = "provider"]
    BY DEF CallProvider, Goto
  <2>2. invoked'[t] = 1
    BY <1>0, <1>1, <2>1
  <2> QED
    BY <1>0, <2>1, <2>2 DEF Only
<1>4. TaskTruth(t)'
  BY <1>0, <1>1, <1>2, <1>3 DEF TaskTruth
<1>5. WorkerTruth(w)'
  BY <1>0 DEF CallProvider, Goto, WorkerState, WorkerTruth
<1>6. ASSUME NEW x \in Workers \ {w}, Busy(x), worker[x].task = t
      PROVE  WorkerTruth(x)'
  <2>1. /\ worker'[x] = worker[x] /\ WorkerTruth(x)
        /\ worker[x].pc \notin PermitPCs /\ worker[x].token # worker[w].token
    BY <1>0, <1>3, <1>6, WorkerFacts, TwoWorkers DEF Only, PermitPCs
  <2>2. task[t].status = "dispatching" => task[t].token # worker[x].token
    BY <1>0, <2>1, WorkerFacts DEF PermitPCs
  <2> QED
    BY <1>0, <1>6, <2>1, <2>2 DEF WorkerTruth, PermitPCs
<1> QED
  BY <1>0, <1>1, <1>3, <1>4, <1>5, <1>6, OnlyStep

LEMMA AppliesTruth ==
    ASSUME TruthInv, NEW t \in Tasks, [Next]_vars, ProviderApplies(t)
    PROVE  TruthInv'
<1>0. /\ TokenInv' /\ inflight[t] /\ applied \in [Tasks -> BOOLEAN]
      /\ UNCHANGED <<task, execution, inflight, invoked, worker>>
      /\ TaskTruth(t)
  BY TruthTypes, TokenStep, TaskFacts DEF ProviderApplies
<1>1. Only(t, NoWorker) /\ applied'[t] = TRUE
  BY <1>0 DEF ProviderApplies, Only
<1>2. TaskTruth(t)'
  BY <1>0, <1>1 DEF TaskTruth, Untouched
<1>3. ASSUME NEW x \in Workers, Busy(x), worker[x].task = t
      PROVE  WorkerTruth(x)'
  BY <1>0, <1>1, <1>3, WorkerFacts DEF WorkerTruth, Untouched
<1> QED
  BY <1>0, <1>1, <1>2, <1>3, ConstantsAssumption, OnlyStep

LEMMA AnswerTruth ==
    ASSUME TruthInv, NEW w \in Workers, [Next]_vars, ProviderAnswers(w)
    PROVE  TruthInv'
<1> PICK t \in Tasks : t = worker[w].task
  BY WorkerFacts DEF ProviderAnswers, WorkerAt, Busy
<1> DEFINE out == worker'[w].out
<1>0. /\ TokenInv' /\ worker \in [Workers -> WorkerState]
      /\ worker[w].pc = "provider" /\ Busy(w)
      /\ inflight \in [Tasks -> BOOLEAN]
      /\ UNCHANGED <<task, execution, applied, invoked>>
  BY TruthTypes, TokenStep DEF ProviderAnswers, WorkerAt, Busy
<1>1. t \in Tasks /\ TaskTruth(t)
  BY <1>0, WorkerFacts, TaskFacts
<1>2. inflight'[t] \in {inflight[t], FALSE} /\ Only(t, w)
  BY <1>0, <1>1 DEF ProviderAnswers, Only
<1>3. TaskTruth(t)'
  BY <1>0, <1>1, <1>2 DEF TaskTruth, Untouched
<1>4. WorkerTruth(w)'
  <2>1. worker'[w].pc = "record" /\ worker'[w].task = t
    BY <1>0 DEF ProviderAnswers, WorkerState
  <2>2. \/ /\ applied[t] /\ out \in {"succeeded"} \cup BookkeepingFailure(t)
        \/ /\ ~applied[t] /\ ~inflight'[t]
           /\ out = "failed" \/ (~Mutates(t) /\ out = "retryable")
        \/ out = IF Mutates(t) THEN "unknown" ELSE "retryable"
    BY <1>0, <1>1 DEF ProviderAnswers, WorkerState
  <2> HIDE DEF out
  <2>3. Mutates(t) => out # "retryable" /\ (out = "succeeded" => applied[t])
    BY <2>2 DEF BookkeepingFailure
  <2>4. out = "failed" /\ Truly(t) => ~applied[t] /\ ~inflight'[t]
    BY <2>2 DEF Truly, FailsTruly
  <2> USE DEF out
  <2> QED
    BY <1>0, <2>1, <2>3, <2>4 DEF WorkerTruth, Untouched
<1>5. ASSUME NEW x \in Workers \ {w}, Busy(x), worker[x].task = t
      PROVE  WorkerTruth(x)'
  <2>1. worker'[x] = worker[x] /\ WorkerTruth(x) /\ (Untouched(t) => Untouched(t)')
    BY <1>0, <1>2, <1>5, WorkerFacts DEF Untouched, Only
  <2> QED
    BY <1>0, <1>5, <2>1 DEF WorkerTruth
<1> QED
  BY <1>0, <1>1, <1>2, <1>3, <1>4, <1>5, OnlyStep

LEMMA RecordTruth ==
    ASSUME TruthInv, NEW w \in Workers, [Next]_vars, RecordOutcome(w)
    PROVE  TruthInv'
<1> PICK t \in Tasks : t = worker[w].task
  BY WorkerFacts DEF RecordOutcome, WorkerAt, Busy
<1> DEFINE out == worker[w].out
<1>0. /\ TokenInv' /\ worker \in [Workers -> WorkerState]
      /\ execution \in [Tasks -> ExecutionStatuses]
      /\ worker[w].pc = "record" /\ Busy(w)
      /\ UNCHANGED <<task, applied, inflight, invoked>>
  BY TruthTypes, TokenStep DEF RecordOutcome, WorkerAt, Busy, observed
<1>1. /\ t \in Tasks /\ TaskTruth(t) /\ WorkerTruth(w)
      /\ task[t].budgetDay # NoDay /\ worker[w].token < 0
  BY <1>0, WorkerFacts, TaskFacts DEF PermitPCs
<1>2. /\ Only(t, w)
      /\ execution'[t] \in {execution[t], ExecutionStatus(out), "manual_review"}
  BY <1>0, <1>1 DEF RecordOutcome, Only, Goto, Conclude
<1>3. /\ worker'[w].pc = "finish" /\ worker'[w].task = t
      /\ worker'[w].token = worker[w].token
      /\ worker'[w].out \in {out, "unknown"}
  BY <1>0 DEF RecordOutcome, Goto, Conclude, WorkerState
<1>4. /\ Mutates(t) => out # "retryable" /\ (out = "succeeded" => applied[t])
      /\ out = "failed" /\ Truly(t) => Untouched(t)
  BY <1>0, <1>1 DEF WorkerTruth
<1>5. TaskTruth(t)'
  <2>1. /\ Mutates(t) => (ExecutionStatus(out) = "succeeded" => applied[t])
        /\ Truly(t) => (ExecutionStatus(out) \in {"failed", "unavailable"} =>
                          Untouched(t))
        /\ ExecutionStatus(out) \notin {"none", "running"}
    BY <1>4 DEF ExecutionStatus, Truly
  <2> HIDE DEF out
  <2> QED
    BY <1>0, <1>1, <1>2, <2>1 DEF TaskTruth, Untouched
<1>6. WorkerTruth(w)'
  BY <1>0, <1>1, <1>3, <1>4 DEF WorkerTruth, Untouched
<1>7. ASSUME NEW x \in Workers \ {w}, Busy(x), worker[x].task = t
      PROVE  WorkerTruth(x)'
  <2>1. worker'[x] = worker[x] /\ WorkerTruth(x) /\ worker[x].pc \notin PermitPCs
    BY <1>0, <1>2, <1>7, WorkerFacts, TwoWorkers DEF Only, PermitPCs
  <2> QED
    BY <1>0, <1>7, <2>1 DEF WorkerTruth, Untouched, PermitPCs
<1> QED
  BY <1>0, <1>1, <1>2, <1>5, <1>6, <1>7, OnlyStep

LEMMA CloseAuditTruth ==
    ASSUME TruthInv, NEW t \in Tasks, [Next]_vars, CloseStaleExecution(t)
    PROVE  TruthInv'
<1>0. /\ TokenInv' /\ execution \in [Tasks -> ExecutionStatuses]
      /\ UNCHANGED <<task, applied, inflight, invoked, worker>>
      /\ TaskTruth(t)
  BY TruthTypes, TokenStep, TaskFacts DEF CloseStaleExecution, observed
<1>1. Only(t, NoWorker) /\ execution'[t] = "manual_review" /\ execution[t] = "running"
  BY <1>0 DEF CloseStaleExecution, Only
<1>2. TaskTruth(t)'
  BY <1>0, <1>1 DEF TaskTruth, Untouched
<1>3. ASSUME NEW x \in Workers, Busy(x), worker[x].task = t
      PROVE  WorkerTruth(x)'
  BY <1>0, <1>1, <1>3, WorkerFacts DEF WorkerTruth, Untouched
<1> QED
  BY <1>0, <1>1, <1>2, <1>3, ConstantsAssumption, OnlyStep

-----------------------------------------------------------------------------
(* Closing *)

\* How finish_task reconciles, case by case.
LEMMA ReconcileCases ==
    ASSUME NEW t \in Tasks, NEW out \in Outs \ {"none"},
           execution[t] \in ExecutionStatuses
    PROVE  LET v == Reconcile(t, out)
               e == execution[t]
           IN  \/ /\ e = "none" /\ task[t].status = "dispatching"
                  /\ v.status = "failed" /\ v.execution = "none"
               \/ /\ e = "none" /\ task[t].status # "dispatching"
                  /\ v.execution = "none"
                  /\ \/ out = "retryable" /\ v.status = "failed"
                     \/ out = "unknown" /\ v.status = "manual_review"
                     \/ out \notin {"retryable", "unknown"} /\ v.status = out
               \/ /\ e = "running"
                  /\ \/ /\ out = "succeeded" /\ v.status = "succeeded"
                        /\ v.execution = "succeeded"
                     \/ out = "failed" /\ v.status = "failed" /\ v.execution = "failed"
                     \/ /\ out = "retryable" /\ v.status = "failed"
                        /\ v.execution = "unavailable"
                     \/ v.status = "manual_review" /\ v.execution = "manual_review"
               \/ /\ e \notin {"none", "running"} /\ v.execution = e
                  /\ \/ v.status = "succeeded" /\ e = "succeeded"
                     \/ v.status = "failed" /\ e \in {"failed", "unavailable"}
                     \/ v.status = "manual_review"
<1>1. CASE execution[t] = "none"
  BY <1>1 DEF Reconcile, Verdict, Outs
<1>2. CASE execution[t] = "running"
  BY <1>2 DEF Reconcile, Verdict, Outs
<1>3. CASE execution[t] \notin {"none", "running"}
  BY <1>3 DEF Reconcile, Verdict, Outs
<1> QED
  BY <1>1, <1>2, <1>3

LEMMA FinishTruth ==
    ASSUME TruthInv, NEW w \in Workers, [Next]_vars, FinishTask(w)
    PROVE  TruthInv'
<1> PICK t \in Tasks : t = worker[w].task
  BY WorkerFacts DEF FinishTask, WorkerAt, Busy
<1> DEFINE out == worker[w].out
           v == Reconcile(t, out)
<1>0. /\ TypeInv /\ TokenInv' /\ worker \in [Workers -> WorkerState]
      /\ worker[w].pc = "finish" /\ Busy(w) /\ t \in Tasks
      /\ out \in Outs \ {"none"}
      /\ UNCHANGED <<applied, inflight, invoked>>
      /\ \A x \in Workers \ {w} : worker'[x] = worker[x]
      /\ worker'[w].pc = "idle"
  BY TruthTypes, TokenStep, FinishCases
     DEF FinishTask, Busy, observed, Leave, IdleWorker
<1>1. TaskTruth(t) /\ WorkerTruth(w) /\ execution[t] \in ExecutionStatuses
  BY <1>0, WorkerFacts, TaskFacts
<1>2. WorkerTruth(w)'
  BY <1>0 DEF WorkerTruth
<1>3. CASE UNCHANGED <<task, execution>>
  <2>1. Only(t, w)
    BY <1>0, <1>3 DEF Only
  <2>2. TaskTruth(t)'
    BY <1>0, <1>1, <1>3, SameTask
  <2>3. \A x \in Workers \ {w} : WorkerTruth(x)'
    BY <1>0, <1>3, SameWorker DEF TruthInv
  <2> QED
    BY <1>0, <1>2, <2>1, <2>2, <2>3, OnlyStep
<1>4. CASE /\ task[t].status \in Open /\ TokenMatches(w)
           /\ Settle(t, v)
           /\ VerdictOK(v)
  <2> HIDE DEF v
  <2>0. /\ task'[t].status = v.status /\ execution'[t] = v.execution
        /\ task'[t].budgetDay = task[t].budgetDay
        /\ v.status \in Terminal
        /\ task[t].token = worker[w].token
    BY <1>0, <1>4, SettleRow DEF VerdictOK, TokenMatches
  <2>1. Only(t, w)
    BY <1>0, <1>4, SettleRow DEF Only
  <2>2. /\ Mutates(t) => out # "retryable" /\ (out = "succeeded" => applied[t])
        /\ out = "failed" /\ Truly(t) /\ task[t].status = "dispatching" =>
             Untouched(t)
        /\ out \notin {"failed", "stale", "cancelled"} => worker[w].token < 0
    BY <1>0, <1>1, <2>0 DEF WorkerTruth
  <2>3. \/ task[t].status = "dispatching"
        \/ /\ task[t].status \in NotStarted /\ task[t].token >= 0
           /\ execution[t] = "none" /\ Untouched(t)
           /\ out \in {"failed", "stale", "cancelled"}
    <3>1. CASE task[t].status \in NotStarted
      <4>1. /\ task[t].token >= 0 /\ execution[t] = "none" /\ Untouched(t)
            /\ worker[w].token \in Int
        BY <1>0, <3>1, TaskFacts, WorkerFacts DEF NotStarted, WorkerState
      <4> QED
        BY <2>0, <2>2, <3>1, <4>1
    <3> QED
      BY <1>4, <3>1 DEF Open
  <2>4. TaskTruth(t)'
    <3>1. \/ /\ execution[t] = "none"
             /\ v.execution = "none" /\ v.status # "succeeded"
             /\ v.status \in {"cancelled", "stale", "failed"} =>
                  invoked[t] = 0 /\ Untouched(t)
          \/ /\ execution[t] = "running" /\ task[t].status = "dispatching"
             /\ \/ /\ out = "succeeded" /\ v.status = "succeeded"
                   /\ v.execution = "succeeded"
                \/ out = "failed" /\ v.status = "failed" /\ v.execution = "failed"
                \/ /\ out = "retryable" /\ v.status = "failed"
                   /\ v.execution = "unavailable"
                \/ v.status = "manual_review" /\ v.execution = "manual_review"
          \/ /\ execution[t] \notin {"none", "running"}
             /\ v.execution = execution[t]
             /\ \/ v.status = "succeeded" /\ v.execution = "succeeded"
                \/ v.status = "failed" /\ v.execution \in {"failed", "unavailable"}
                \/ v.status = "manual_review"
      BY <1>0, <1>1, <2>3, ReconcileCases DEF v, TaskTruth
    <3>2. Truly(t) => Mutates(t)
      BY DEF Truly
    <3> HIDE DEF out
    <3> QED
      BY <1>0, <1>1, <2>0, <2>2, <3>1, <3>2 DEF TaskTruth, Untouched
  <2>5. ASSUME NEW x \in Workers \ {w}, Busy(x), worker[x].task = t
        PROVE  WorkerTruth(x)'
    <3>1. worker'[x] = worker[x] /\ WorkerTruth(x) /\ worker[x].pc \notin PermitPCs
      BY <1>0, <1>4, <2>0, <2>5, WorkerFacts, NobodyActs DEF PermitPCs
    <3> QED
      BY <1>0, <2>0, <2>5, <3>1 DEF WorkerTruth, Untouched, PermitPCs, Terminal
  <2> QED
    BY <1>0, <1>2, <2>1, <2>4, <2>5, OnlyStep
<1> QED
  BY <1>0, <1>3, <1>4, FinishCases

LEMMA ReapTruth ==
    ASSUME TruthInv, NEW t \in Tasks, [Next]_vars, ReapDispatch(t)
    PROVE  TruthInv'
<1> DEFINE v == ReapVerdict(t)
<1>0. /\ TypeInv /\ TokenInv'
      /\ UNCHANGED <<applied, inflight, invoked, worker>>
      /\ TaskTruth(t) /\ execution[t] \in ExecutionStatuses
      /\ task[t].status = "dispatching" /\ Settle(t, v) /\ VerdictOK(v)
  BY TruthTypes, TokenStep, TaskFacts, ReapCases DEF ReapDispatch, observed
<1>1. \/ execution[t] = "none" /\ v.status = "failed" /\ v.execution = "none"
      \/ /\ execution[t] = "succeeded" /\ v.status = "succeeded"
         /\ v.execution = "succeeded"
      \/ /\ execution[t] \in {"failed", "unavailable"} /\ v.status = "failed"
         /\ v.execution = execution[t]
      \/ /\ execution[t] \in {"running", "manual_review"}
         /\ v.status = "manual_review" /\ v.execution = "manual_review"
  BY <1>0 DEF ReapVerdict, Verdict, ExecutionStatuses
<1> HIDE DEF v
<1>2. /\ task'[t].status = v.status /\ execution'[t] = v.execution
      /\ task'[t].budgetDay = task[t].budgetDay
  BY <1>0, SettleRow
<1>3. Only(t, NoWorker)
  BY <1>0, SettleRow DEF Only
<1>4. TaskTruth(t)'
  BY <1>0, <1>1, <1>2 DEF TaskTruth, Untouched
<1>5. ASSUME NEW x \in Workers, Busy(x), worker[x].task = t
      PROVE  WorkerTruth(x)'
  BY <1>0, <1>1, <1>2, <1>5, WorkerFacts DEF WorkerTruth, Untouched
<1> QED
  BY <1>0, <1>3, <1>4, <1>5, ConstantsAssumption, OnlyStep

LEMMA TruthStep == TruthInv /\ [Next]_vars => TruthInv'
<1> SUFFICES ASSUME TruthInv, [Next]_vars PROVE TruthInv'
  OBVIOUS
<1>1. ASSUME NEW w \in Workers, WorkerStep(w) PROVE TruthInv'
  BY <1>1, EarlyTruth, DispatchTruth, PrepareTruth, LockTruth, RefusePermitTruth,
     RefuseActionTruth, CallTruth, AnswerTruth, RecordTruth, FinishTruth
     DEF WorkerStep
<1> QED
  BY <1>1, AroundTruth, AppliesTruth, ReapTruth, CloseAuditTruth DEF Next

LEMMA TruthAlways == Spec => []TruthInv
BY TruthInit, TruthStep, PTL DEF Spec

\* What the row of a closed task and its audit row say is what happened at the
\* provider, whoever closed it: its worker, a late one or the reaper.
THEOREM OutcomesAreTrue == Spec => []OutcomeIsTruthful
<1>1. TruthInv => OutcomeIsTruthful
  BY DEF TruthInv, TaskTruth, OutcomeIsTruthful, Untouched, Truly
<1> QED
  BY <1>1, TruthAlways, PTL

-----------------------------------------------------------------------------
(* The refinement of OnceAction *)

\* No task is closed as unknown before it was dispatched.
LEMMA NoEarlyReview ==
    ASSUME TruthInv, [Next]_vars, NEW t \in Tasks,
           task[t].status \in NotStarted \cup {"absent"}
    PROVE  task'[t].status # "manual_review"
<1>0. TypeInv /\ task[t].token >= 0 /\ execution[t] = "none"
      /\ task[t].status # "dispatching"
  BY TruthTypes, TaskFacts DEF NotStarted
<1>1. ASSUME NEW w \in Workers, FinishTask(w)
      PROVE  task'[t].status # "manual_review"
  <2> PICK u \in Tasks : u = worker[w].task
    BY <1>0, <1>1, FinishCases
  <2>1. CASE UNCHANGED task
    BY <2>1, <1>0 DEF NotStarted
  <2>2. CASE TokenMatches(w) /\ Settle(u, Reconcile(u, worker[w].out)) /\ u # t
    BY <2>2, <1>0, SettleRow DEF NotStarted
  <2>3. CASE TokenMatches(w) /\ Settle(u, Reconcile(u, worker[w].out)) /\ u = t
    <3>1. worker[w].pc = "finish" /\ Busy(w) /\ worker[w].token >= 0
      BY <1>0, <1>1, <2>3 DEF FinishTask, WorkerAt, Busy, TokenMatches
    <3>2. worker[w].out \in {"failed", "stale", "cancelled"}
      <4>1. WorkerTruth(w) /\ worker[w].token \in Int
        BY <3>1, WorkerFacts DEF WorkerState
      <4>2. ~(worker[w].token < 0)
        BY <3>1, <4>1
      <4> QED
        BY <3>1, <4>1, <4>2 DEF WorkerTruth
    <3>3. Reconcile(t, worker[w].out).status = worker[w].out
      BY <1>0, <3>2 DEF Reconcile, Verdict
    <3> QED
      BY <1>0, <2>3, <3>2, <3>3, SettleRow
  <2> QED
    BY <1>0, <1>1, <2>1, <2>2, <2>3, FinishCases
<1>2. ASSUME NEW u \in Tasks, ReapDispatch(u)
      PROVE  task'[t].status # "manual_review"
  BY <1>0, <1>2, ReapCases, SettleRow DEF NotStarted
<1>3. ASSUME NEW w \in Workers, BeginDispatch(w)
      PROVE  task'[t].status # "manual_review"
  BY <1>0, <1>3, BeginDispatchRow DEF Dispatched, NotStarted
<1>4. ASSUME NEW w \in Workers, NEW u \in Tasks, TakeJob(w, u)
      PROVE  task'[t].status # "manual_review"
  BY <1>0, <1>4, TakeJobRow DEF NotStarted
<1>5. CASE CalmRow(t)
  BY <1>0, <1>5 DEF CalmRow, NotStarted
<1> QED
  BY <1>0, <1>1, <1>2, <1>3, <1>4, <1>5, CalmRows DEF CloseStep

\* How the report of a task may change in one step.
ReportStep(t) ==
    LET old == ReportOf(task[t].status)
        new == ReportOf(task'[t].status)
    IN  \/ new = old
        \/ old = "planned" /\ new = "dispatched"
        \/ old = "planned" /\ new = "void"
        \/ old = "dispatched" /\ new = "review"
        \/ old = "dispatched" /\ new = "done" /\ applied'[t]
        \/ old = "dispatched" /\ new = "void" /\ ~applied'[t]

\* What the sides of the refinement map mean.
LEMMA ReportIs ==
    ASSUME NEW status \in Statuses
    PROVE  /\ ReportOf(status) = "planned" <=> status \in NotStarted \cup {"absent"}
           /\ ReportOf(status) = "dispatched" <=> status = "dispatching"
           /\ ReportOf(status) = "done" <=> status = "succeeded"
           /\ ReportOf(status) = "void" <=> status \in {"failed", "cancelled", "stale"}
           /\ ReportOf(status) = "review" <=> status = "manual_review"
           /\ ReportOf(status) \in {"planned", "dispatched", "done", "void", "review"}
BY DEF ReportOf, Statuses, NotStarted, Terminal

LEMMA ReportSteps ==
    ASSUME TruthInv, TruthInv', [Next]_vars, NEW t \in Acting,
           applied'[t] = applied[t]
    PROVE  ReportStep(t)
<1> DEFINE old == task[t].status
           new == task'[t].status
<1>0. /\ t \in Tasks /\ Truly(t) /\ TypeInv
      /\ old \in Statuses /\ new \in Statuses
      /\ TaskTruth(t) /\ TaskTruth(t)' /\ RowStep(t)
  BY TruthTypes, TaskFacts, RowSteps
     DEF Acting, Truly, TruthInv, TokenInv, InvocationInv, TypeInv, TypeOK, TaskRow
<1>1. CASE new = old
  BY <1>1 DEF ReportStep
<1>2. CASE old \in NotStarted \cup {"absent"}
           /\ new \in NotStarted \cup {"absent", "dispatching"} \cup Terminal
  <2>1. ~applied[t] /\ new # "manual_review"
    BY <1>0, <1>2, TaskFacts, NoEarlyReview DEF Untouched
  <2>2. new # "succeeded"
    BY <1>0, <2>1 DEF TaskTruth, Truly
  <2> QED
    BY <1>0, <1>2, <2>1, <2>2, ReportIs DEF ReportStep, Terminal
<1>3. CASE old = "dispatching" /\ new \in Answers
  <2>1. /\ new = "succeeded" => applied'[t]
        /\ new = "failed" => ~applied'[t]
    BY <1>0 DEF TaskTruth, Truly, Untouched
  <2> QED
    BY <1>0, <1>3, <2>1, ReportIs DEF ReportStep, Answers
<1>4. \/ new = old
      \/ /\ old \in NotStarted \cup {"absent"}
         /\ new \in NotStarted \cup {"absent", "dispatching"} \cup Terminal
      \/ old = "dispatching" /\ new \in Answers
  <2>1. task[t] \in TaskRow
    BY <1>0, TaskFacts
  <2> QED
    BY <1>0, <2>1 DEF RowStep, NotStarted, TaskRow
<1> QED
  BY <1>1, <1>2, <1>3, <1>4

\* The provider is called, or applies an action, only while the task is undecided.
LEMMA SendStep ==
    ASSUME TruthInv, [Next]_vars, NEW t \in Tasks
    PROVE  \/ invoked'[t] = invoked[t]
           \/ /\ task'[t] = task[t] /\ applied'[t] = applied[t]
              /\ task[t].status \in {"dispatching", "manual_review"}
              /\ invoked[t] = 0 /\ invoked'[t] = 1
<1>1. ASSUME NEW w \in Workers, CallProvider(w), worker[w].task = t
      PROVE  /\ UNCHANGED <<task, applied>>
             /\ task[t].status \in {"dispatching", "manual_review"}
             /\ invoked[t] = 0 /\ invoked'[t] = 1
  <2>1. Busy(w) /\ worker[w].pc = "act" /\ UNCHANGED <<task, applied>>
        /\ invoked' = [invoked EXCEPT ![t] = @ + 1]
    BY <1>1 DEF CallProvider, WorkerAt, Busy
  <2>2. invoked[t] = 0 /\ WorkerTruth(w) /\ invoked \in [Tasks -> Nat]
    BY <1>1, <2>1, WorkerFacts, TruthTypes DEF PreCallPCs
  <2>3. task[t].status \in {"dispatching", "manual_review"}
    BY <1>1, <2>1, <2>2 DEF WorkerTruth
  <2>4. invoked'[t] = 1
    BY <2>1, <2>2
  <2> QED
    BY <2>1, <2>2, <2>3, <2>4
<1>2. ASSUME NEW w \in Workers, CallProvider(w), worker[w].task # t
      PROVE  invoked'[t] = invoked[t]
  BY <1>2, TruthTypes DEF CallProvider
<1>3. ASSUME \A w \in Workers : ~CallProvider(w)
      PROVE  invoked' = invoked
  BY <1>3
     DEF Next, WorkerStep, Environment, vars, observed, TakeJob, Preflight,
         BeginGeneration, ModelReturns, RenewLease, Recheck, BeginDispatch,
         DeferTask, PrepareExecution, LockDispatchPermit, RefusePermit,
         RefuseAction, ProviderAnswers, RecordOutcome, FinishTask, ControlScan,
         EnqueueJob, TimePasses, ProviderApplies, ReapDispatch,
         CloseStaleExecution, NextDay, Crash, LoseTransaction, Configure,
         DisableAutonomy, RestoreAccess, SaveRunnerSettings
<1> QED
  BY <1>1, <1>2, <1>3

LEMMA HappenStep ==
    ASSUME TruthInv, [Next]_vars, NEW t \in Acting
    PROVE  \/ applied'[t] = applied[t]
           \/ /\ task'[t] = task[t] /\ invoked'[t] = invoked[t]
              /\ task[t].status \in {"dispatching", "manual_review"}
              /\ invoked[t] = 1 /\ ~applied[t] /\ applied'[t] = TRUE
<1>0. t \in Tasks /\ Truly(t) /\ applied \in [Tasks -> BOOLEAN]
  BY TruthTypes DEF Acting, Truly
<1>1. ASSUME ProviderApplies(t)
      PROVE  /\ UNCHANGED <<task, invoked>>
             /\ task[t].status \in {"dispatching", "manual_review"}
             /\ invoked[t] = 1 /\ ~applied[t] /\ applied'[t] = TRUE
  <2>1. /\ UNCHANGED <<task, invoked>> /\ inflight[t] /\ ~applied[t]
        /\ applied'[t] = TRUE
    BY <1>0, <1>1 DEF ProviderApplies
  <2>2. TaskTruth(t) /\ task[t] \in TaskRow /\ invoked[t] \in Nat /\ invoked[t] <= 1
    BY <1>0, TaskFacts, TruthTypes DEF InvocationInv, CalledOnce
  <2>3. invoked[t] = 1
    BY <2>1, <2>2 DEF TaskTruth, Untouched
  <2>4. task[t].status \notin NotStarted \cup {"absent"}
    BY <1>0, <2>1, TaskFacts DEF Untouched
  <2>5. task[t].status \notin {"succeeded", "failed", "cancelled", "stale"}
    BY <1>0, <2>1, <2>2 DEF TaskTruth, Truly, Untouched
  <2> QED
    BY <2>1, <2>2, <2>3, <2>4, <2>5 DEF TaskRow, Statuses, Terminal, NotStarted
<1>2. ASSUME NEW u \in Tasks, ProviderApplies(u), u # t
      PROVE  applied'[t] = applied[t]
  BY <1>0, <1>2 DEF ProviderApplies
<1>3. ASSUME \A u \in Tasks : ~ProviderApplies(u)
      PROVE  applied' = applied
  BY <1>3
     DEF Next, WorkerStep, Environment, vars, observed, TakeJob, Preflight,
         BeginGeneration, ModelReturns, RenewLease, Recheck, BeginDispatch,
         DeferTask, PrepareExecution, LockDispatchPermit, RefusePermit,
         RefuseAction, CallProvider, ProviderAnswers, RecordOutcome, FinishTask,
         ControlScan, EnqueueJob, TimePasses, ReapDispatch,
         CloseStaleExecution, NextDay, Crash, LoseTransaction, Configure,
         DisableAutonomy, RestoreAccess, SaveRunnerSettings
<1> QED
  BY <1>0, <1>1, <1>2, <1>3

LEMMA OnceInitial == Init => Once!OnceInit
BY DEF Init, Once!OnceInit, AbsentTask, ReportOf, Acting

LEMMA OnceStep ==
    ASSUME TruthInv, TruthInv', [Next]_vars
    PROVE  Once!OnceNext
<1> SUFFICES ASSUME NEW t \in Acting PROVE Once!Step(t)
  BY DEF Once!OnceNext
<1>0. t \in Tasks /\ task[t].status \in Statuses
  BY TaskFacts DEF Acting, TaskRow
<1>1. CASE invoked'[t] # invoked[t]
  BY <1>0, <1>1, SendStep, ReportIs
     DEF Once!Step, Once!Send, Once!Undecided
<1>2. CASE applied'[t] # applied[t]
  BY <1>0, <1>2, HappenStep, ReportIs
     DEF Once!Step, Once!Happen, Once!Undecided
<1>3. CASE invoked'[t] = invoked[t] /\ applied'[t] = applied[t]
  <2>1. ReportStep(t)
    BY <1>3, ReportSteps
  <2> QED
    BY <1>3, <2>1
       DEF ReportStep, Once!Step, Once!Keep, Once!Dispatch, Once!Drop, Once!Report
<1> QED
  BY <1>1, <1>2, <1>3

\* Every account action but the match implements OnceAction: whatever crashes,
\* expires, is claimed again or is switched off, it is sent at most once, takes
\* effect only after that, and the report the owner reads is true and final.
THEOREM ActionsHappenOnce == Spec => ActsOnce
BY OnceInitial, OnceStep, TruthAlways, PTL DEF Spec, ActsOnce, Once!OnceSpec

-----------------------------------------------------------------------------
(* The books of the daily budget *)

\* The dispatches a budget day pays for, in all, in one category, and those whose
\* outcome is unknown.
Spent(d) == {t \in Tasks : task[t].budgetDay = d /\ ~task[t].refunded}
SpentOn(d, c) == {t \in Spent(d) : Category(t) = c}
Unknown(d) == {t \in Spent(d) : task[t].status = "manual_review"}
Exact(d) ==
    /\ usage[d].total = Cardinality(Spent(d))
    /\ \A c \in Categories : usage[d].by[c] = Cardinality(SpentOn(d, c))
    /\ usage[d].unknown = Cardinality(Unknown(d))

LEMMA ExactIs == UsageIsExact <=> \A d \in Days : Exact(d)
BY DEF UsageIsExact, Exact, Spent, SpentOn, Unknown

LEMMA ExactNext ==
    ASSUME \A d \in Days : Exact(d)'
    PROVE  UsageIsExact'
BY DEF UsageIsExact, Exact, Spent, SpentOn, Unknown

LEMMA SpentFinite ==
    ASSUME NEW d
    PROVE  /\ IsFiniteSet(Spent(d)) /\ IsFiniteSet(Unknown(d))
           /\ \A c \in Categories : IsFiniteSet(SpentOn(d, c))
<1>1. IsFiniteSet(Tasks)
  BY ConstantsAssumption
<1>2. Spent(d) \in SUBSET Tasks /\ Unknown(d) \in SUBSET Tasks
      /\ \A c \in Categories : SpentOn(d, c) \in SUBSET Tasks
  BY DEF Spent, Unknown, SpentOn
<1> QED
  BY <1>1, <1>2, FS_Subset

\* One more in a finite set, one less, or none.
LEMMA CountOneMore ==
    ASSUME NEW S, IsFiniteSet(S), NEW t, t \notin S
    PROVE  /\ Cardinality(S \cup {t}) = Cardinality(S) + 1
           /\ Cardinality(S) \in Nat
BY FS_AddElement, FS_CardinalityType

LEMMA CountOneLess ==
    ASSUME NEW S, IsFiniteSet(S), NEW t \in S
    PROVE  Cardinality(S \ {t}) = Cardinality(S) - 1
BY FS_RemoveElement

\* A row whose reservation, refund and unknown outcome stay as they are.
SameBooks(t) ==
    /\ task'[t].budgetDay = task[t].budgetDay
    /\ task'[t].refunded = task[t].refunded
    /\ task[t].budgetDay \in Days =>
         (task'[t].status = "manual_review" <=> task[t].status = "manual_review")

LEMMA SameBooksStep ==
    ASSUME UsageIsExact, UNCHANGED usage, \A t \in Tasks : SameBooks(t)
    PROVE  UsageIsExact'
<1>1. ASSUME NEW d \in Days PROVE Exact(d)'
  <2>1. Spent(d)' = Spent(d)
    BY DEF Spent, SameBooks
  <2>2. Unknown(d)' = Unknown(d)
    BY <2>1 DEF Unknown, Spent, SameBooks
  <2>3. \A c \in Categories : SpentOn(d, c)' = SpentOn(d, c)
    BY <2>1 DEF SpentOn
  <2>4. Exact(d)
    BY ExactIs
  <2> QED
    BY <2>1, <2>2, <2>3, <2>4 DEF Exact
<1> QED
  BY <1>1, ExactNext

LEMMA CalmBooks ==
    ASSUME TokenInv, NEW t \in Tasks, CalmRow(t)
    PROVE  SameBooks(t)
<1>1. task[t].status \in NotStarted \cup {"absent"} => task[t].budgetDay = NoDay
  BY DEF TokenInv, InvocationInv, ReservedOnce
<1>2. NoDay \notin Days
  BY DEF NoDay, Days
<1> QED
  BY <1>1, <1>2 DEF CalmRow, SameBooks, NotStarted

\* A dispatch is booked on the day of its reservation.
LEMMA DispatchBooks ==
    ASSUME UsageInv, NEW w \in Workers, NEW t \in Tasks, worker[w].day \in Days,
           Dispatched(w, t)
    PROVE  UsageIsExact'
<1> PICK day0 \in Days : day0 = worker[w].day
  OBVIOUS
<1>0. usage \in [Days -> UsageRow] /\ Category(t) \in Categories
  BY CategoryOK DEF UsageInv, TokenInv, InvocationInv, TypeInv, TypeOK
<1>1. /\ task[t].status \in NotStarted /\ task[t].budgetDay = NoDay
      /\ ~task[t].refunded /\ NoDay \notin Days
      /\ task[t].status # "manual_review"
  BY DEF Dispatched, Leased, NotStarted, Terminal, UsageInv, RefundedIsClosed,
     TokenInv, InvocationInv, ReservedOnce, NoDay, Days
<1>2. /\ task'[t].budgetDay = day0 /\ ~task'[t].refunded
      /\ task'[t].status = "dispatching"
      /\ \A u \in Tasks \ {t} : task'[u] = task[u]
      /\ Reserve(t, day0)
  BY <1>1 DEF Dispatched
<1>3. ASSUME NEW d \in Days PROVE Exact(d)'
  <2>1. Exact(d) /\ t \notin Spent(d) /\ Unknown(d)' = Unknown(d)
    BY <1>1, <1>2, ExactIs DEF UsageInv, Spent, Unknown
  <2>2. CASE d # day0
    <3>1. Spent(d)' = Spent(d) /\ usage'[d] = usage[d]
      BY <1>0, <1>1, <1>2, <2>2 DEF Spent, Reserve
    <3>2. \A c \in Categories : SpentOn(d, c)' = SpentOn(d, c)
      BY <3>1 DEF SpentOn
    <3> QED
      BY <2>1, <3>1, <3>2 DEF Exact
  <2>3. CASE d = day0
    <3>1. Spent(d)' = Spent(d) \cup {t}
      BY <1>1, <1>2, <2>3 DEF Spent
    <3>2. ASSUME NEW c \in Categories
          PROVE  SpentOn(d, c)' = IF c = Category(t) THEN SpentOn(d, c) \cup {t}
                                  ELSE SpentOn(d, c)
      BY <3>1 DEF SpentOn
    <3>3. /\ usage'[d].total = usage[d].total + 1
          /\ usage'[d].unknown = usage[d].unknown
          /\ \A c \in Categories :
               usage'[d].by[c] = IF c = Category(t) THEN usage[d].by[c] + 1
                                 ELSE usage[d].by[c]
      BY <1>0, <1>2, <2>3 DEF Reserve, UsageRow
    <3>4. Cardinality(Spent(d) \cup {t}) = Cardinality(Spent(d)) + 1
      BY <2>1, SpentFinite, CountOneMore
    <3>5. ASSUME NEW c \in Categories
          PROVE  Cardinality(SpentOn(d, c) \cup {t}) = Cardinality(SpentOn(d, c)) + 1
      BY <2>1, SpentFinite, CountOneMore DEF SpentOn
    <3>6. usage'[d].total = Cardinality(Spent(d)')
      BY <2>1, <3>1, <3>3, <3>4 DEF Exact
    <3>7. ASSUME NEW c \in Categories
          PROVE  usage'[d].by[c] = Cardinality(SpentOn(d, c)')
      BY <2>1, <3>2, <3>3, <3>5 DEF Exact
    <3>8. usage'[d].unknown = Cardinality(Unknown(d)')
      BY <2>1, <3>3 DEF Exact
    <3> QED
      BY <3>6, <3>7, <3>8 DEF Exact
  <2> QED
    BY <2>2, <2>3
<1> QED
  BY <1>3, ExactNext

\* Only a failed dispatch is refunded, and only an unknown one halts.
VerdictBooks(v) ==
    /\ v.refund \in BOOLEAN /\ v.halt \in BOOLEAN
    /\ v.halt <=> v.status = "manual_review"
    /\ v.refund => ~v.halt

LEMMA ReconcileBooks ==
    ASSUME NEW t \in Tasks, NEW out \in Outs \ {"none"},
           execution[t] \in ExecutionStatuses
    PROVE  VerdictBooks(Reconcile(t, out))
BY DEF VerdictBooks, Reconcile, Verdict, Outs

LEMMA ReapBooks ==
    ASSUME NEW t \in Tasks
    PROVE  VerdictBooks(ReapVerdict(t))
BY DEF VerdictBooks, ReapVerdict, Verdict

\* Closing gives a refunded reservation back and counts an unknown outcome, both on
\* the day of the reservation.
LEMMA SettleBooks ==
    ASSUME UsageInv, NEW t \in Tasks, NEW v, task[t].status \in Open,
           Settle(t, v), VerdictBooks(v)
    PROVE  UsageIsExact'
<1> PICK day0 : day0 = task[t].budgetDay
  OBVIOUS
<1>0. /\ usage \in [Days -> UsageRow] /\ Category(t) \in Categories
      /\ TypeInv /\ day0 \in Days \cup {NoDay} /\ NoDay \notin Days
      /\ ~task[t].refunded /\ task[t].status # "manual_review"
  <2>1. TypeInv /\ RefundedIsClosed
    BY DEF UsageInv, TokenInv, InvocationInv
  <2>2. task[t] \in TaskRow /\ usage \in [Days -> UsageRow]
    BY <2>1 DEF TypeInv, TypeOK
  <2>3. task[t].status \notin Terminal
    BY DEF Open, NotStarted, Terminal
  <2>4. ~task[t].refunded /\ task[t].status # "manual_review"
    BY <2>1, <2>3 DEF RefundedIsClosed, Terminal
  <2> QED
    BY <2>1, <2>2, <2>4, CategoryOK DEF TaskRow, NoDay, Days
<1>1. /\ task'[t].status = v.status /\ task'[t].budgetDay = day0
      /\ task'[t].refunded = v.refund
      /\ \A u \in Tasks \ {t} : task'[u] = task[u]
  BY <1>0, SettleRow
<1>2. CASE day0 = NoDay
  <2>1. UNCHANGED usage
    BY <1>2 DEF Settle, BookedOn
  <2>2. ASSUME NEW d \in Days
        PROVE  /\ Spent(d)' = Spent(d) /\ Unknown(d)' = Unknown(d)
               /\ \A c \in Categories : SpentOn(d, c)' = SpentOn(d, c)
    <3>1. Spent(d)' = Spent(d) /\ t \notin Spent(d)
      BY <1>0, <1>1, <1>2 DEF Spent
    <3> QED
      BY <1>1, <3>1 DEF Unknown, SpentOn, Spent
  <2>3. \A d \in Days : Exact(d)
    BY ExactIs DEF UsageInv
  <2>4. \A d \in Days : Exact(d)'
    BY <2>1, <2>2, <2>3 DEF Exact
  <2> QED
    BY <2>4, ExactNext
<1>3. CASE day0 \in Days
  <2> DEFINE back == IF v.refund THEN 1 ELSE 0
             more == IF v.halt THEN 1 ELSE 0
  <2>1. usage' = [usage EXCEPT ![day0].total = @ - back,
                               ![day0].by[Category(t)] = @ - back,
                               ![day0].unknown = @ + more]
    BY <1>0, <1>3 DEF Settle, BookedOn
  <2>2. back \in {0, 1} /\ more \in {0, 1}
    OBVIOUS
  <2>3. ASSUME NEW d \in Days PROVE Exact(d)'
    <3>1. Exact(d)
      BY ExactIs DEF UsageInv
    <3>2. CASE d # day0
      <4>1. Spent(d)' = Spent(d) /\ t \notin Spent(d)
        BY <1>1, <3>2 DEF Spent
      <4>2. /\ Unknown(d)' = Unknown(d)
            /\ \A c \in Categories : SpentOn(d, c)' = SpentOn(d, c)
        BY <1>1, <4>1 DEF Unknown, SpentOn, Spent
      <4>3. usage'[d] = usage[d]
        BY <1>0, <1>3, <2>1, <3>2
      <4> QED
        BY <3>1, <4>1, <4>2, <4>3 DEF Exact
    <3>3. CASE d = day0
      <4> HIDE DEF back, more
      <4>1. /\ usage'[d].total = usage[d].total - back
            /\ usage'[d].unknown = usage[d].unknown + more
            /\ \A c \in Categories :
                 usage'[d].by[c] = IF c = Category(t) THEN usage[d].by[c] - back
                                   ELSE usage[d].by[c]
        BY <1>0, <2>1, <2>2, <3>3 DEF UsageRow
      <4>2. t \in Spent(d) /\ t \notin Unknown(d)
        BY <1>0, <3>3 DEF Spent, Unknown
      <4>3. CASE v.refund
        <5>1. back = 1 /\ more = 0
          BY <4>3 DEF VerdictBooks, back, more
        <5>2. Spent(d)' = Spent(d) \ {t} /\ Unknown(d)' = Unknown(d)
          BY <1>1, <3>3, <4>2, <4>3 DEF Spent, Unknown
        <5>3. ASSUME NEW c \in Categories
              PROVE  /\ SpentOn(d, c)' = IF c = Category(t) THEN SpentOn(d, c) \ {t}
                                         ELSE SpentOn(d, c)
                     /\ c = Category(t) => t \in SpentOn(d, c)
          BY <4>2, <5>2 DEF SpentOn
        <5>4. usage'[d].total = Cardinality(Spent(d)')
          BY <3>1, <4>1, <4>2, <5>1, <5>2, SpentFinite, CountOneLess DEF Exact
        <5>5. ASSUME NEW c \in Categories
              PROVE  usage'[d].by[c] = Cardinality(SpentOn(d, c)')
          BY <3>1, <4>1, <5>1, <5>3, SpentFinite, CountOneLess DEF Exact
        <5>6. usage'[d].unknown = Cardinality(Unknown(d)')
          BY <1>0, <3>1, <4>1, <5>1, <5>2 DEF Exact, UsageRow
        <5> QED
          BY <5>4, <5>5, <5>6 DEF Exact
      <4>4. CASE ~v.refund
        <5>1. back = 0
          BY <4>4 DEF back
        <5>2. Spent(d)' = Spent(d)
              /\ \A c \in Categories : SpentOn(d, c)' = SpentOn(d, c)
          <6>1. Spent(d)' = Spent(d)
            BY <1>0, <1>1, <3>3, <4>4 DEF Spent
          <6> QED
            BY <6>1 DEF SpentOn
        <5>3. Unknown(d)' = IF v.halt THEN Unknown(d) \cup {t} ELSE Unknown(d)
          BY <1>1, <4>2, <5>2 DEF Unknown, VerdictBooks, Spent
        <5>4. usage'[d].unknown = Cardinality(Unknown(d)')
          <6>1. CASE v.halt
            BY <3>1, <4>1, <4>2, <5>3, <6>1, SpentFinite, CountOneMore
               DEF Exact, more
          <6>2. CASE ~v.halt
            BY <1>0, <3>1, <4>1, <5>3, <6>2 DEF Exact, more, UsageRow
          <6> QED
            BY <6>1, <6>2
        <5>5. /\ usage'[d].total = usage[d].total
              /\ \A c \in Categories : usage'[d].by[c] = usage[d].by[c]
          BY <1>0, <4>1, <5>1 DEF UsageRow
        <5> QED
          BY <3>1, <5>2, <5>4, <5>5 DEF Exact
      <4> QED
        BY <4>3, <4>4
    <3> QED
      BY <3>2, <3>3
  <2> QED
    BY <2>3, ExactNext
<1> QED
  BY <1>0, <1>2, <1>3

\* What else is open was not refunded.
LEMMA RefundStep ==
    ASSUME UsageInv, [Next]_vars
    PROVE  RefundedIsClosed'
<1>0. TypeInv
  BY DEF UsageInv, TokenInv, InvocationInv
<1> SUFFICES ASSUME NEW t \in Tasks, task'[t].refunded
             PROVE  task'[t].status \in Terminal
  BY DEF RefundedIsClosed
<1>1. CASE task'[t] = task[t]
  BY <1>1 DEF UsageInv, RefundedIsClosed
<1>2. CASE CalmRow(t)
  BY <1>2 DEF CalmRow, UsageInv, RefundedIsClosed, NotStarted, Terminal
<1>3. ASSUME NEW u \in Tasks, NEW v, VerdictOK(v), Settle(u, v)
      PROVE  task'[t].status \in Terminal
  BY <1>0, <1>1, <1>3, SettleRow DEF VerdictOK
<1>4. CASE CloseStep
  BY <1>0, <1>1, <1>3, <1>4, FinishCases, ReapCases DEF CloseStep
<1>5. ASSUME NEW w \in Workers, BeginDispatch(w)
      PROVE  task'[t].status \in Terminal
  <2>1. worker[w].task \in Tasks
    BY <1>0, <1>5, BusyWorker DEF BeginDispatch, WorkerAt
  <2> QED
    BY <1>0, <1>1, <1>5, <2>1, BeginDispatchRow
       DEF Dispatched, UsageInv, RefundedIsClosed, Leased, Terminal
<1>6. ASSUME NEW w \in Workers, NEW u \in Tasks, TakeJob(w, u)
      PROVE  task'[t].status \in Terminal
  BY <1>0, <1>1, <1>6, TakeJobRow
     DEF UsageInv, RefundedIsClosed, NotStarted, Terminal
<1> QED
  BY <1>0, <1>2, <1>4, <1>5, <1>6, CalmRows

LEMMA UsageStep == UsageInv /\ [Next]_vars => UsageInv'
<1> SUFFICES ASSUME UsageInv, [Next]_vars PROVE UsageIsExact'
  BY TokenStep, RefundStep DEF UsageInv
<1>0. TypeInv /\ TokenInv /\ UsageIsExact
  BY DEF UsageInv, TokenInv, InvocationInv
<1>1. ASSUME NEW w \in Workers, FinishTask(w) PROVE UsageIsExact'
  <2>1. CASE UNCHANGED <<task, usage>>
    BY <1>0, <2>1, SameBooksStep DEF SameBooks
  <2>2. execution \in [Tasks -> ExecutionStatuses]
    BY <1>0 DEF TypeInv, TypeOK
  <2> QED
    BY <1>0, <1>1, <2>1, <2>2, FinishCases, ReconcileBooks, SettleBooks
<1>2. ASSUME NEW t \in Tasks, ReapDispatch(t) PROVE UsageIsExact'
  BY <1>0, <1>2, ReapCases, ReapBooks, SettleBooks DEF Open
<1>3. ASSUME NEW w \in Workers, BeginDispatch(w) PROVE UsageIsExact'
  <2>1. CASE UNCHANGED <<task, usage>>
    BY <1>0, <2>1, SameBooksStep DEF SameBooks
  <2>2. worker[w].task \in Tasks /\ worker[w].day \in Days
    BY <1>0, <1>3, BusyWorker DEF BeginDispatch, WorkerAt
  <2> QED
    BY <1>0, <1>3, <2>1, <2>2, BeginDispatchRow, DispatchBooks
<1>4. ASSUME NEW w \in Workers, NEW t \in Tasks, TakeJob(w, t) PROVE UsageIsExact'
  <2>1. UNCHANGED usage
    BY <1>4 DEF TakeJob
  <2>2. ASSUME NEW u \in Tasks PROVE SameBooks(u)
    <3>1. CASE task'[u] = task[u]
      BY <3>1 DEF SameBooks
    <3>2. CASE /\ task[u].status \in NotStarted
               /\ task'[u].budgetDay = task[u].budgetDay
               /\ task'[u].refunded = task[u].refunded
      BY <1>0, <3>2 DEF SameBooks, TokenInv, InvocationInv, ReservedOnce, NoDay, Days
    <3> QED
      BY <1>0, <1>4, <3>1, <3>2, TakeJobRow
  <2> QED
    BY <1>0, <2>1, <2>2, SameBooksStep
<1>5. CASE /\ ~CloseStep /\ \A w \in Workers : ~BeginDispatch(w)
           /\ \A w \in Workers, t \in Tasks : ~TakeJob(w, t)
  <2>1. \A t \in Tasks : SameBooks(t)
    BY <1>0, <1>5, CalmRows, CalmBooks
  <2>2. UNCHANGED usage
    BY <1>5
       DEF Next, WorkerStep, Environment, vars, observed, Preflight,
           BeginGeneration, ModelReturns, RenewLease, Recheck, DeferTask,
           PrepareExecution, LockDispatchPermit, RefusePermit, RefuseAction,
           CallProvider, ProviderAnswers, RecordOutcome, ControlScan, EnqueueJob,
           TimePasses, ProviderApplies, CloseStaleExecution, NextDay, Crash,
           LoseTransaction, Configure, DisableAutonomy, RestoreAccess,
           SaveRunnerSettings, CloseStep
  <2> QED
    BY <1>0, <2>1, <2>2, SameBooksStep
<1> QED
  BY <1>1, <1>2, <1>3, <1>4, <1>5 DEF CloseStep

LEMMA UsageInit == Init => UsageInv
<1> SUFFICES ASSUME Init PROVE UsageInv
  OBVIOUS
<1>1. TokenInv /\ RefundedIsClosed
  BY TokenInit DEF Init, RefundedIsClosed, AbsentTask
<1>2. ASSUME NEW d \in Days PROVE Exact(d)
  <2>1. Spent(d) = {}
    BY DEF Init, Spent, AbsentTask, NoDay, Days
  <2>2. Unknown(d) = {} /\ \A c \in Categories : SpentOn(d, c) = {}
    BY <2>1 DEF Unknown, SpentOn
  <2>3. usage[d].total = 0 /\ usage[d].unknown = 0
        /\ \A c \in Categories : usage[d].by[c] = 0
    BY DEF Init, EmptyUsage
  <2> QED
    BY <2>1, <2>2, <2>3, FS_EmptySet DEF Exact
<1> QED
  BY <1>1, <1>2, ExactIs DEF UsageInv

\* The daily counters are the reservations of the day less those refunded, in all and
\* per category, and its unknown outcomes: nothing that fails, is retried, crosses
\* midnight or is closed twice makes the budget drift.
THEOREM BudgetIsExact == Spec => []UsageIsExact
<1>1. UsageInv => UsageIsExact
  BY DEF UsageInv
<1> QED
  BY <1>1, UsageInit, UsageStep, PTL DEF Spec

-----------------------------------------------------------------------------
(* One action at a time *)

\* While the reaper's deadline does not overtake a live worker, a worker on its
\* permit has the task to itself.
PermitHeld ==
    \A w \in Workers : worker[w].pc \in PermitPCs =>
        LET t == worker[w].task IN
        task[t].status = "dispatching" /\ TokenMatches(w) /\ task[t].timer = "running"

\* An unknown audit row is the row of a task under review, or about to be.
ReviewedAudit ==
    \A t \in Tasks : execution[t] = "manual_review" =>
                       task[t].status \in {"dispatching", "manual_review"}

\* Nobody is about to act while the user has an outcome to review.
NothingToReview ==
    \A w \in Workers : worker[w].pc = "act" =>
        \A u \in Tasks \ acknowledged : task[u].status # "manual_review"

AloneInv ==
    /\ TruthInv /\ OneOpenTask /\ UnknownOutcomeHalts
    /\ PermitHeld /\ ReviewedAudit /\ NothingToReview

LEMMA AloneInit == Init => AloneInv
BY TruthInit, OneOpenInit
   DEF Init, AloneInv, UnknownOutcomeHalts, PermitHeld, ReviewedAudit,
       NothingToReview, AbsentTask, IdleWorker, PermitPCs

\* What may happen to the row of a dispatching task.
LEMMA DispatchingStays ==
    ASSUME TypeInv, [Next]_vars, NEW t \in Tasks, task[t].status = "dispatching"
    PROVE  \/ task'[t] = task[t]
           \/ TimePasses(t)
           \/ ReapDispatch(t)
           \/ \E w \in Workers : /\ FinishTask(w) /\ worker[w].task = t
                                 /\ TokenMatches(w)
<1>0. /\ task \in [Tasks -> TaskRow]
      /\ \A status \in NotStarted \cup Leased \cup {"queued", "deferred", "absent"} :
           task[t].status # status
  BY DEF TypeInv, TypeOK, NotStarted, Leased
<1>1. CASE ControlScan
  <2> PICK superseded \in SUBSET Supersedable :
         \/ task' = Swept(superseded)
         \/ \E x \in Tasks, timer \in Timers :
              /\ task[x].status = "absent"
              /\ task' = [Swept(superseded) EXCEPT ![x] = Created(@, timer)]
    BY <1>1 DEF ControlScan, Timers
  <2>1. Swept(superseded)[t] = task[t]
    BY <1>0 DEF Swept, Supersedable
  <2>2. ASSUME NEW x \in Tasks, NEW timer \in Timers, task[x].status = "absent",
               task' = [Swept(superseded) EXCEPT ![x] = Created(@, timer)]
        PROVE  task'[t] = task[t]
    <3>1. x # t /\ DOMAIN Swept(superseded) = Tasks
      BY <1>0, <2>2 DEF Swept
    <3> QED
      BY <2>1, <2>2, <3>1
  <2> QED
    BY <2>1, <2>2
<1>2. CASE task' = CancelNotStarted(task)
  BY <1>0, <1>2 DEF CancelNotStarted
<1>3. ASSUME NEW w \in Workers, NEW u \in Tasks, TakeJob(w, u)
      PROVE  task'[t] = task[t]
  BY <1>0, <1>3, TakeJobRow
<1>4. ASSUME NEW w \in Workers, BeginGeneration(w) \/ RenewLease(w) \/ DeferTask(w)
      PROVE  task'[t] = task[t]
  <2>1. worker[w].task \in Tasks
    BY <1>4, BusyWorker DEF BeginGeneration, RenewLease, DeferTask, WorkerAt
  <2>2. \/ UNCHANGED task
        \/ /\ task[worker[w].task].status \in Leased
           /\ \A u \in Tasks \ {worker[w].task} : task'[u] = task[u]
    BY <1>0, <1>4, <2>1 DEF BeginGeneration, RenewLease, DeferTask, Leased
  <2> QED
    BY <1>0, <2>2
<1>5. ASSUME NEW w \in Workers, BeginDispatch(w) PROVE task'[t] = task[t]
  BY <1>0, <1>5, BeginDispatchRow DEF Dispatched
<1>6. ASSUME NEW u \in Tasks, TimePasses(u), u # t PROVE task'[t] = task[t]
  BY <1>0, <1>6 DEF TimePasses
<1>7. ASSUME NEW u \in Tasks, ReapDispatch(u), u # t PROVE task'[t] = task[t]
  BY <1>7, ReapCases, SettleRow
<1>8. ASSUME NEW w \in Workers, FinishTask(w),
             ~(worker[w].task = t /\ TokenMatches(w))
      PROVE  task'[t] = task[t]
  BY <1>8, FinishCases, SettleRow
<1>9. CASE Environment
  BY <1>2, <1>9 DEF Environment, NextDay, Crash, LoseTransaction, Configure,
     DisableAutonomy, RestoreAccess, SaveRunnerSettings
<1>10. ASSUME NEW w \in Workers, WorkerStep(w),
              ~(FinishTask(w) /\ worker[w].task = t /\ TokenMatches(w))
       PROVE  task'[t] = task[t]
  BY <1>3, <1>4, <1>5, <1>8, <1>10
     DEF WorkerStep, Preflight, ModelReturns, Recheck, PrepareExecution,
         LockDispatchPermit, RefusePermit, RefuseAction, CallProvider,
         ProviderAnswers, RecordOutcome
<1> QED
  BY <1>1, <1>6, <1>7, <1>9, <1>10
     DEF Next, vars, EnqueueJob, ProviderApplies, CloseStaleExecution

\* Nothing happens to the row of a worker on its permit.
LEMMA HeldRow ==
    ASSUME LateDispatches = FALSE, TruthInv, PermitHeld, [Next]_vars,
           NEW w \in Workers, worker[w].pc \in PermitPCs
    PROVE  task'[worker[w].task] = task[worker[w].task]
<1> PICK t \in Tasks : t = worker[w].task
  BY WorkerFacts DEF Busy, PermitPCs
<1>0. /\ TypeInv /\ Busy(w) /\ task[t].status = "dispatching"
      /\ task[t].token = worker[w].token /\ task[t].timer = "running"
  BY TruthTypes DEF PermitHeld, TokenMatches, Busy, PermitPCs
<1>1. ~TimePasses(t)
  BY <1>0 DEF TimePasses, Holds, TokenMatches, Leased
<1>2. ~ReapDispatch(t)
  BY <1>0 DEF ReapDispatch
<1>3. ASSUME NEW x \in Workers, FinishTask(x), worker[x].task = t, TokenMatches(x)
      PROVE  FALSE
  <2>1. x # w /\ Busy(x) /\ worker[x].token = worker[w].token
    BY <1>0, <1>3 DEF FinishTask, WorkerAt, Busy, PermitPCs, TokenMatches
  <2> QED
    BY <1>0, <1>3, <2>1, TwoWorkers
<1> QED
  BY <1>0, <1>1, <1>2, <1>3, DispatchingStays

\* A worker enters its permit only with BeginDispatch and keeps task and token.
LEMMA PermitEntered ==
    ASSUME TypeInv, [Next]_vars, NEW w \in Workers, worker'[w].pc \in PermitPCs
    PROVE  \/ /\ BeginDispatch(w) /\ Dispatched(w, worker[w].task)
              /\ worker[w].task \in Tasks
              /\ task'[worker[w].task].timer = "running"
           \/ /\ worker[w].pc \in PermitPCs
              /\ worker'[w].task = worker[w].task
              /\ worker'[w].token = worker[w].token
<1>0. task \in [Tasks -> TaskRow] /\ worker \in [Workers -> WorkerState]
  BY DEF TypeInv, TypeOK, WorkersOK
<1>1. ASSUME NEW x \in Workers, BeginDispatch(x), x # w PROVE worker'[w] = worker[w]
  BY <1>0, <1>1, BeginDispatchRow DEF Dispatched, Leave, Goto, Conclude
<1>2. CASE BeginDispatch(w)
  <2>1. worker[w].task \in Tasks
    BY <1>2, BusyWorker DEF BeginDispatch, WorkerAt
  <2>2. worker'[w].pc \notin {"idle", "defer", "finish"}
    BY DEF PermitPCs
  <2>3. ~Leave(w) /\ ~Goto(w, "defer") /\ \A out : ~Conclude(w, out)
    BY <1>0, <2>2 DEF Leave, IdleWorker, Goto, Conclude, WorkerState
  <2>4. Dispatched(w, worker[w].task)
    BY <1>2, <2>3, BeginDispatchRow
  <2>5. task'[worker[w].task].timer = "running"
    <3> DEFINE t == worker[w].task
               permit == PermitToken(worker[w].token)
    <3>1. task' = [task EXCEPT ![t] = [@ EXCEPT !.status = "dispatching",
                         !.token = permit, !.timer = "running",
                         !.budgetDay = worker[w].day]]
      BY <1>2, <2>3 DEF BeginDispatch
    <3> HIDE DEF permit
    <3> QED
      BY <1>0, <2>1, <3>1 DEF TaskRow
  <2> QED
    BY <1>2, <2>1, <2>4, <2>5
<1>3. ASSUME NEW x \in Workers, NEW t \in Tasks, TakeJob(x, t)
      PROVE  worker'[w] = worker[w]
  BY <1>3, TakeJobRow DEF PermitPCs
<1>4. CASE CalmWorker(w)
  BY <1>4 DEF CalmWorker, PermitPCs
<1> QED
  BY <1>1, <1>2, <1>3, <1>4, CalmWorkers

LEMMA PermitHeldStep ==
    ASSUME LateDispatches = FALSE, TruthInv, PermitHeld, [Next]_vars
    PROVE  PermitHeld'
<1> SUFFICES ASSUME NEW w \in Workers, worker'[w].pc \in PermitPCs
             PROVE  LET t == worker'[w].task IN
                    /\ task'[t].status = "dispatching"
                    /\ task'[t].token = worker'[w].token
                    /\ task'[t].timer = "running"
  BY DEF PermitHeld, TokenMatches
<1>1. CASE /\ Dispatched(w, worker[w].task)
           /\ task'[worker[w].task].timer = "running"
  BY <1>1 DEF Dispatched
<1>2. CASE /\ worker[w].pc \in PermitPCs /\ worker'[w].task = worker[w].task
           /\ worker'[w].token = worker[w].token
  BY <1>2, HeldRow DEF PermitHeld, TokenMatches
<1> QED
  BY <1>1, <1>2, PermitEntered, TruthTypes

\* Who writes the audit row of a task to be reviewed.
LEMMA ReviewStep ==
    ASSUME LateDispatches = FALSE, TruthInv, PermitHeld, ReviewedAudit, [Next]_vars
    PROVE  ReviewedAudit'
<1> SUFFICES ASSUME NEW t \in Tasks, execution'[t] = "manual_review"
             PROVE  task'[t].status \in {"dispatching", "manual_review"}
  BY DEF ReviewedAudit
<1>0. /\ TypeInv /\ RowStep(t) /\ task[t] \in TaskRow
      /\ execution \in [Tasks -> ExecutionStatuses]
      /\ execution[t] = "running" => task[t].status = "dispatching"
  BY TruthTypes, TaskFacts, RowSteps DEF TaskTruth
<1>1. ASSUME NEW u \in Tasks, NEW v, VerdictOK(v), Settle(u, v),
             v.execution = "manual_review" => v.status = "manual_review"
      PROVE  task'[t].status \in {"dispatching", "manual_review"}
  BY <1>0, <1>1, SettleRow DEF ReviewedAudit
<1>2. ASSUME NEW w \in Workers, FinishTask(w)
      PROVE  task'[t].status \in {"dispatching", "manual_review"}
  <2>1. CASE UNCHANGED <<task, execution>>
    BY <2>1 DEF ReviewedAudit
  <2>2. LET v == Reconcile(worker[w].task, worker[w].out) IN
        v.execution = "manual_review" => v.status = "manual_review"
    BY DEF Reconcile, Verdict
  <2> QED
    BY <1>0, <1>1, <1>2, <2>1, <2>2, FinishCases
<1>3. ASSUME NEW u \in Tasks, ReapDispatch(u)
      PROVE  task'[t].status \in {"dispatching", "manual_review"}
  <2>1. ReapVerdict(u).execution = "manual_review" =>
          ReapVerdict(u).status = "manual_review"
    BY DEF ReapVerdict, Verdict
  <2> QED
    BY <1>0, <1>1, <1>3, <2>1, ReapCases
<1>4. ASSUME NEW w \in Workers, RecordOutcome(w)
      PROVE  task'[t].status \in {"dispatching", "manual_review"}
  <2>1. /\ UNCHANGED task /\ worker[w].pc \in PermitPCs
        /\ \/ execution'[t] = execution[t]
           \/ worker[w].task = t
    BY <1>0, <1>4 DEF RecordOutcome, WorkerAt, PermitPCs
  <2> QED
    BY <2>1 DEF PermitHeld, ReviewedAudit
<1>5. ASSUME NEW u \in Tasks, CloseStaleExecution(u)
      PROVE  task'[t].status \in {"dispatching", "manual_review"}
  BY <1>0, <1>5 DEF CloseStaleExecution, ReviewedAudit
<1>6. ASSUME NEW w \in Workers, PrepareExecution(w) \/ RefusePermit(w)
      PROVE  task'[t].status \in {"dispatching", "manual_review"}
  <2>1. UNCHANGED task /\ execution'[t] \in {execution[t], "running", "failed"}
    BY <1>0, <1>6 DEF PrepareExecution, RefusePermit
  <2> QED
    BY <2>1 DEF ReviewedAudit
<1>7. CASE UNCHANGED execution
  <2>1. task[t].status \in {"dispatching", "manual_review"}
    BY <1>7 DEF ReviewedAudit
  <2>2. CASE \E w \in Workers : FinishTask(w)
    BY <1>2, <2>2
  <2>3. CASE \E u \in Tasks : ReapDispatch(u)
    BY <1>3, <2>3
  <2>4. CASE task'[t] = task[t]
    BY <2>1, <2>4
  <2>5. CASE TimePasses(t)
    BY <1>0, <2>1, <2>5 DEF TimePasses, TypeInv, TypeOK, TaskRow
  <2>6. CASE task[t].status = "manual_review"
    BY <1>0, <2>6 DEF RowStep, NotStarted
  <2> QED
    BY <1>0, <2>1, <2>2, <2>3, <2>4, <2>5, <2>6, DispatchingStays
<1>8. \/ UNCHANGED execution
      \/ \E w \in Workers : \/ FinishTask(w) \/ RecordOutcome(w)
                            \/ PrepareExecution(w) \/ RefusePermit(w)
      \/ \E u \in Tasks : ReapDispatch(u) \/ CloseStaleExecution(u)
  BY DEF Next, WorkerStep, Environment, vars, TakeJob, Preflight, BeginGeneration,
     ModelReturns, RenewLease, Recheck, BeginDispatch, DeferTask,
     LockDispatchPermit, RefuseAction, CallProvider, ProviderAnswers,
     ControlScan, EnqueueJob, TimePasses, ProviderApplies, NextDay, Crash,
     LoseTransaction, Configure, DisableAutonomy, RestoreAccess,
     SaveRunnerSettings
<1> QED
  BY <1>2, <1>3, <1>4, <1>5, <1>6, <1>7, <1>8

LEMMA ReviewFreeStep ==
    ASSUME LateDispatches = FALSE, AloneInv, [Next]_vars
    PROVE  NothingToReview'
<1> SUFFICES ASSUME NEW w \in Workers, worker'[w].pc = "act",
                    NEW u \in Tasks \ acknowledged',
                    task'[u].status = "manual_review"
             PROVE  FALSE
  BY DEF NothingToReview
<1>0. /\ TypeInv /\ TruthInv /\ worker \in [Workers -> WorkerState]
      /\ task[u] \in TaskRow /\ RowStep(u) /\ PermitHeld
  BY TruthTypes, TaskFacts, RowSteps DEF AloneInv
<1>1. u \notin acknowledged
  BY DEF Next, WorkerStep, Environment, vars, observed, TakeJob, Preflight,
     BeginGeneration, ModelReturns, RenewLease, Recheck, BeginDispatch, DeferTask,
     PrepareExecution, LockDispatchPermit, RefusePermit, RefuseAction,
     CallProvider, ProviderAnswers, RecordOutcome, FinishTask, ReapDispatch,
     ControlScan, EnqueueJob, TimePasses, ProviderApplies, CloseStaleExecution,
     NextDay, Crash, LoseTransaction, Configure, DisableAutonomy, RestoreAccess,
     SaveRunnerSettings
<1>2. CASE LockDispatchPermit(w)
  <2>1. ~setting.halted /\ UNCHANGED task
    BY <1>2 DEF LockDispatchPermit, GateOpen, Halts
  <2> QED
    BY <1>1, <2>1 DEF AloneInv, UnknownOutcomeHalts
<1>3. CASE worker[w].pc = "act"
  <2>1. task[u].status # "manual_review"
    BY <1>1, <1>3 DEF AloneInv, NothingToReview
  <2>2. task[u].status \in Open
    BY <1>0, <2>1 DEF RowStep, Open, NotStarted, TaskRow
  <2>3. worker[w].task \in Tasks /\ task[worker[w].task].status \in Open
    BY <1>0, <1>3, WorkerFacts DEF PermitHeld, PermitPCs, Open, Busy
  <2>4. u = worker[w].task
    BY <2>2, <2>3 DEF AloneInv, OneOpenTask
  <2> QED
    BY <1>0, <1>3, <2>1, <2>4, HeldRow DEF PermitPCs
<1>4. worker[w].pc = "act" \/ LockDispatchPermit(w)
  <2>1. ASSUME NEW x \in Workers, NEW pc \in PCs \ {"act"}, Goto(x, pc)
        PROVE  worker[w].pc = "act"
    BY <1>0, <2>1 DEF Goto, WorkerState
  <2>2. ASSUME NEW x \in Workers, NEW out, Conclude(x, out)
        PROVE  worker[w].pc = "act"
    BY <1>0, <2>2 DEF Conclude, WorkerState
  <2>3. ASSUME NEW x \in Workers, Leave(x) PROVE worker[w].pc = "act"
    BY <1>0, <2>3 DEF Leave, IdleWorker
  <2>4. ASSUME NEW x \in Workers, NEW out,
               worker' = [worker EXCEPT ![x].pc = "record", ![x].out = out]
        PROVE  worker[w].pc = "act"
    BY <1>0, <2>4 DEF WorkerState
  <2>5. CASE worker' = worker
    BY <2>5
  <2>6. ASSUME NEW x \in Workers, NEW t \in Tasks, TakeJob(x, t)
        PROVE  worker[w].pc = "act"
    BY <1>0, <2>6, TakeJobRow
  <2>7. ASSUME NEW x \in Workers, BeginDispatch(x) PROVE worker[w].pc = "act"
    BY <1>0, <2>1, <2>2, <2>3, <2>7, BeginDispatchRow DEF Dispatched, PCs
  <2>8. ASSUME NEW x \in Workers, RenewLease(x) PROVE worker[w].pc = "act"
    <3>1. CASE worker' = [worker EXCEPT ![x].pc = "recheck", ![x].day = day]
      BY <1>0, <3>1 DEF WorkerState
    <3> QED
      BY <2>3, <2>8, <3>1 DEF RenewLease
  <2>9. ASSUME NEW x \in Workers, LockDispatchPermit(x), x # w
        PROVE  worker[w].pc = "act"
    BY <1>0, <2>9 DEF LockDispatchPermit, Goto
  <2>10. ASSUME NEW x \in Workers, WorkerStep(x), ~LockDispatchPermit(w)
         PROVE  worker[w].pc = "act"
    <3>1. CASE Preflight(x) \/ ModelReturns(x) \/ Recheck(x) \/ BeginGeneration(x)
               \/ DeferTask(x) \/ FinishTask(x)
      BY <2>1, <2>2, <2>3, <2>5, <3>1
         DEF Preflight, ModelReturns, Recheck, BeginGeneration, DeferTask,
             FinishTask, PCs
    <3>2. CASE PrepareExecution(x) \/ RefusePermit(x) \/ CallProvider(x)
               \/ RecordOutcome(x)
      BY <2>1, <2>2, <3>2
         DEF PrepareExecution, RefusePermit, CallProvider, RecordOutcome, PCs,
             PermitPCs
    <3>3. CASE RefuseAction(x) \/ ProviderAnswers(x)
      BY <2>4, <3>3 DEF RefuseAction, ProviderAnswers
    <3> QED
      BY <2>6, <2>7, <2>8, <2>9, <2>10, <3>1, <3>2, <3>3 DEF WorkerStep
  <2> QED
    BY <2>3, <2>5, <2>10
       DEF Next, vars, ControlScan, EnqueueJob, TimePasses, ProviderApplies,
           ReapDispatch, CloseStaleExecution, Environment, NextDay, Crash,
           LoseTransaction, Configure, DisableAutonomy, RestoreAccess,
           SaveRunnerSettings
<1> QED
  BY <1>2, <1>3, <1>4

\* No account action is sent while the outcome of another is open or waits for the
\* user.  That the reaper's deadline does not overtake a live worker is what the job
\* timeout guarantees; without it a worker given up as lost may act beside the next.
THEOREM ActionsAreAlone ==
    ASSUME LateDispatches = FALSE
    PROVE  Spec => NoActionWhileUnresolved
<1>1. AloneInv /\ [Next]_vars => AloneInv'
  BY TruthStep, TruthTypes, OneOpenStep, HaltsStep, PermitHeldStep, ReviewStep,
     ReviewFreeStep DEF AloneInv
<1>2. ASSUME AloneInv, [Next]_vars, NEW t \in Tasks, NEW u \in Tasks,
             invoked'[t] # invoked[t], u # t
      PROVE  ~Unresolved(u)
  <2>1. PICK w \in Workers : CallProvider(w) /\ worker[w].task = t
    <3>1. invoked \in [Tasks -> Nat]
      BY <1>2, TruthTypes DEF AloneInv
    <3>2. ASSUME NEW w \in Workers, CallProvider(w), worker[w].task # t
          PROVE  FALSE
      BY <1>2, <3>1, <3>2 DEF CallProvider
    <3>3. \E w \in Workers : CallProvider(w)
      BY <1>2
         DEF Next, WorkerStep, Environment, vars, observed, TakeJob, Preflight,
             BeginGeneration, ModelReturns, RenewLease, Recheck, BeginDispatch,
             DeferTask, PrepareExecution, LockDispatchPermit, RefusePermit,
             RefuseAction, ProviderAnswers, RecordOutcome, FinishTask,
             ControlScan, EnqueueJob, TimePasses, ProviderApplies, ReapDispatch,
             CloseStaleExecution, NextDay, Crash, LoseTransaction, Configure,
             DisableAutonomy, RestoreAccess, SaveRunnerSettings
    <3> QED
      BY <3>2, <3>3
  <2>2. worker[w].pc = "act"
    BY <2>1 DEF CallProvider, WorkerAt
  <2>3. task[t].status = "dispatching" /\ task[u].status \notin Open
    BY <1>2, <2>1, <2>2 DEF AloneInv, PermitHeld, PermitPCs, OneOpenTask, Open
  <2>4. u \notin acknowledged => task[u].status # "manual_review"
    BY <1>2, <2>2 DEF AloneInv, NothingToReview
  <2>5. execution[u] = "running" => task[u].status = "dispatching"
    BY <1>2 DEF AloneInv, TruthInv, TaskTruth
  <2>6. execution[u] = "manual_review" =>
          task[u].status \in {"dispatching", "manual_review"}
    BY <1>2 DEF AloneInv, ReviewedAudit
  <2> QED
    BY <2>3, <2>4, <2>5, <2>6 DEF Unresolved, Open
<1>3. AloneInv /\ [Next]_vars =>
        \A t, u \in Tasks : invoked'[t] # invoked[t] /\ u # t => ~Unresolved(u)
  BY <1>2
<1> QED
  BY <1>1, <1>3, AloneInit, PTL DEF Spec, NoActionWhileUnresolved
=============================================================================
