---------------------------- MODULE PermitLocks ----------------------------
(***************************************************************************)
(* The row locks around the permit transaction.                            *)
(*                                                                         *)
(* Before the agent calls the provider it opens a transaction that locks   *)
(* every row the authorisation rests on, and keeps it open during the call *)
(* (bbw_agent/runtime.py 1523-1568).  Log-ins, settings, administration,   *)
(* sweeps and other users' actions lock the same rows in transactions of   *)
(* their own, and the worker itself writes through a second connection     *)
(* while the first one waits for it.  Deadlock freedom rests on an order   *)
(* that is stated in comments only (repositories.py 2083-2087,             *)
(* services.py 1180-1183, 1541-1546).                                      *)
(*                                                                         *)
(* A transaction is the sequence of row locks its code asks for; what it   *)
(* reads and writes is the subject of AutonomyDispatch.  There are two     *)
(* owners: the worker acts for owner 1 and its target is owner 2.  Rows    *)
(* that are only ever locked behind a row of the list below are left out   *)
(* (match preference, usage, queued audit rows, invites, web sessions).     *)
(***************************************************************************)
EXTENDS Naturals, Sequences, FiniteSets

CONSTANT Others      \* database sessions of other processes

ASSUME OthersAssumption == /\ IsFiniteSet(Others)
                           /\ Others \cap {"main", "second"} = {}

VARIABLES session,   \* the transaction of each database session
          phase,     \* where the worker stands
          report     \* the outcome the worker reports

vars == <<session, phase, report>>

(***************************************************************************)
(* The worker's connections: "main" runs its transactions one after the    *)
(* other, the permit among them; "second" is opened while that is open.    *)
(***************************************************************************)
Sessions == {"main", "second"} \cup Others
Owners == {1, 2}

Tables == {"system", "account", "user", "agent", "execution", "connection",
           "autonomy", "contact", "task", "audit", "conversation"}
Modes == {"update", "key", "skip", "cancel"}

-----------------------------------------------------------------------------
(***************************************************************************)
(* Statements.  Lock is SELECT ... FOR UPDATE, or the update of a row; Key *)
(* the FOR KEY SHARE that PostgreSQL takes on the row a foreign key of an  *)
(* inserted row points to; Skip is FOR UPDATE SKIP LOCKED; Cancel the      *)
(* update of an owner's tasks that have not started.                       *)
(***************************************************************************)
Statement(table, o, mode) == [row |-> <<table, o>>, mode |-> mode]
Lock(table, o) == Statement(table, o, "update")
Key(table, o) == Statement(table, o, "key")
Skip(table, o) == Statement(table, o, "skip")
Cancel(o) == Statement("task", o, "cancel")
System == Lock("system", 1)

\* The rows of two users, in the order of their ids.
Pair(table) == <<Lock(table, 1), Lock(table, 2)>>

-----------------------------------------------------------------------------
(***************************************************************************)
(* Transactions of the worker.                                             *)
(***************************************************************************)

\* The rows an authorisation rests on; a target adds its account and user.
Gates(o) == <<Lock("agent", o), Lock("execution", o), Lock("connection", o)>>

SnapshotOfOwnerOnly(o) ==
  <<System, Lock("account", o), Lock("user", o)>> \o Gates(o)
    \o <<Lock("autonomy", o), Lock("contact", o)>>
PolicySnapshot(o) ==
  <<System>> \o Pair("account") \o Pair("user") \o Gates(o)
    \o <<Lock("autonomy", o), Lock("contact", o)>>

BeginDispatch(o) == PolicySnapshot(o) \o <<Lock("task", o)>>

\* The audit row is inserted here; it refers to the account and its user.
PrepareExecution(o) == <<Lock("task", o), Key("account", o), Key("user", o)>>

LockPermit(o) == PolicySnapshot(o) \o <<Lock("task", o), Lock("audit", o)>>

FinishTask(o) == <<Lock("autonomy", o), Lock("task", o), Lock("audit", o)>>

\* Through the second connection.
FinalizePrepared(o) == <<Lock("audit", o)>>

\* A match with a new peer inserts a relationship of its owner; that of a peer
\* met before is only updated, and nobody else locks it.
GrantPeers(o) == <<Key("user", o)>>
RenewGrant(o) == <<>>

\* A message the provider took is stored in its conversation, in the permit.
StoreMessage(o) == <<Lock("conversation", o)>>

(***************************************************************************)
(* Transactions of everybody else.                                         *)
(***************************************************************************)

\* One control scan: no target, hence only the owner's account and user.
ControlScan(o) ==
  <<System, Lock("account", o), Lock("user", o)>> \o Gates(o)
    \o <<Lock("autonomy", o), Cancel(o), Lock("contact", o)>>

\* One transaction for all lapsed dispatches, in no particular order.
ReapOwner(o) == <<Lock("autonomy", o), Skip("task", o), Lock("audit", o)>>
Reap(o) == ReapOwner(o) \o ReapOwner(3 - o)

\* The switch of the administrator disables every setting, in no particular
\* order, then cancels what has not started.
SystemSwitch(o) ==
  <<System, Lock("autonomy", o), Lock("autonomy", 3 - o), Cancel(o),
    Cancel(3 - o)>>

\* What every withdrawal of a right ends with.
Withdraw(o) == <<Lock("execution", o), Lock("autonomy", o), Cancel(o)>>

SuspendUserFirst(o) ==
  <<Lock("user", o), Lock("account", o), Lock("agent", o)>> \o Withdraw(o)

\* A log-in has the same order; the reverse deadlocks.
Suspend(o) ==
  <<Lock("account", o), Lock("user", o), Lock("agent", o)>> \o Withdraw(o)

\* The runner's grant.  The route for the account actions' grant asks for the same
\* rows but the agent's, so it meets no other session this one does not.
RevokeGrant(o) == <<Lock("user", o), Lock("agent", o)>> \o Withdraw(o)

SaveAutonomySettings(o) ==
  <<System, Lock("account", o), Lock("user", o)>> \o Gates(o)
    \o <<Lock("autonomy", o)>>

SaveExecutionSettings(o) ==
  <<System, Lock("account", o), Lock("user", o)>> \o Gates(o)
    \o <<Lock("autonomy", o), Cancel(o)>>

SaveAgentSettings(o) ==
  <<System, Lock("user", o), Lock("agent", o)>> \o Withdraw(o)

SaveConnection(o) ==
  <<System, Lock("user", o), Lock("agent", o), Lock("connection", o)>>
    \o Withdraw(o)

Login(o) == <<Lock("account", o), Lock("user", o)>>

\* The outbox row of the change points to its owner, whose row is locked here.
ChangeRelation(o) == Pair("user")

\* The owner edits the policy of one contact: the row, the replies that have not
\* started, then an audit log.
EditContact(o) == <<Lock("contact", o), Cancel(o), Key("user", o)>>

\* A report of the browser: the conversation, then an order for its media.
ArchiveMessage(o) == <<Lock("conversation", o), Key("user", o)>>

\* An action of the user, kept locked during the call.
ManualAction(o) ==
  <<System, Lock("account", o), Lock("user", o)>> \o Gates(o)

\* If it follows somebody, both users are locked first.
FollowAction(o) == <<System>> \o Pair("account") \o Pair("user") \o Gates(o)

\* A draft that is sent at once: the agent row, then the same gate.
DraftAndSend(o) == <<Lock("agent", o)>> \o ManualAction(o)

(***************************************************************************)
(* The worker handles the open task of owner 1.  An expired lease may have *)
(* brought a second one as far as its own reservation.                     *)
(***************************************************************************)
Programs(o) ==
  [begin |-> BeginDispatch(o), prepare |-> PrepareExecution(o),
   permit |-> LockPermit(o), finish |-> FinishTask(o),
   finalize |-> FinalizePrepared(o), grant |-> GrantPeers(o),
   renew |-> RenewGrant(o),
   scan |-> ControlScan(o), reap |-> Reap(o), switch |-> SystemSwitch(o),
   suspend |-> Suspend(o), revoke |-> RevokeGrant(o),
   configure |-> SaveAutonomySettings(o),
   actions |-> SaveExecutionSettings(o), runner |-> SaveAgentSettings(o),
   connect |-> SaveConnection(o), login |-> Login(o),
   relation |-> ChangeRelation(o), contact |-> EditContact(o),
   archive |-> ArchiveMessage(o), manual |-> ManualAction(o),
   follow |-> FollowAction(o), draft |-> DraftAndSend(o)]
Kinds == DOMAIN Programs(1)
OfDispatch == {"prepare", "permit", "finish"}

-----------------------------------------------------------------------------
NoTransaction == [kind |-> "none", owner |-> 1, todo |-> <<>>, held |-> {}]

Transaction(kind, o) ==
  [kind |-> kind, owner |-> o, todo |-> Programs(o)[kind], held |-> {}]

Finished == [NoTransaction EXCEPT !.kind = "over"]

Active(s) == session[s].kind \notin {"none", "over"}
Locked(s) == Active(s) /\ session[s].todo = <<>>   \* asks for nothing more

\* Two locks on one row exclude each other unless both only share its key.
Conflict(a, b) == a.row = b.row /\ ~(a.mode = "key" /\ b.mode = "key")

\* A dispatching task is not among those that have not started.
Cancels(t) == session[t].kind \notin OfDispatch \cup {"reap"}

\* s waits in the database for a row that t has locked.
Waits(s, t) ==
  /\ s # t
  /\ session[s].todo # <<>>
  /\ LET wanted == Head(session[s].todo)
     IN  /\ \E lock \in session[t].held : Conflict(wanted, lock)
         /\ wanted.mode # "skip"
         /\ wanted.mode = "cancel" => Cancels(t)

Blocked(s) == \E t \in Sessions : Waits(s, t)

\* The worker's code waits for its second connection while the permit is open.
OwnProcess(s, t) == s = "main" /\ t = "second" /\ Active("main") /\ Active("second")

WaitsFor == {w \in Sessions \X Sessions :
               Waits(w[1], w[2]) \/ OwnProcess(w[1], w[2])}

\* Everybody in S waits for somebody in S, and no smaller part of S does.
Closed(S, waits) == \A s \in S : \E t \in S : <<s, t>> \in waits
Circles(waits) ==
  LET stuck == {S \in SUBSET Sessions : S # {} /\ Closed(S, waits)}
  IN  {S \in stuck : \A T \in stuck : T \subseteq S => T = S}

\* The waits PostgreSQL sees and breaks; it knows nothing of processes.
Detected(s) ==
  \E S \in Circles({w \in WaitsFor : Waits(w[1], w[2])}) : s \in S

\* The limits of compose.yaml, a minute each.
NoLimits == {}
Limits == {"statement", "idle"}

TypeOK ==
  /\ \A s \in Sessions :
        /\ session[s].kind \in Kinds \cup {"none", "over"}
        /\ session[s].owner \in Owners
  /\ phase \in {"begin", "prepare", "permit", "refused", "calling", "granting",
                "recording", "recorded", "finalizing", "finish", "done"}
  /\ report \in {"none", "succeeded", "failed", "unknown"}

Init ==
  /\ session = [s \in Sessions |->
                   IF s = "main" THEN Transaction("begin", 1) ELSE NoTransaction]
  /\ phase = "begin"
  /\ report = "none"

-----------------------------------------------------------------------------
(***************************************************************************)
(* Any transaction.                                                        *)
(***************************************************************************)
Free(s, lock) ==
  \A t \in Sessions \ {s} : \A other \in session[t].held : ~Conflict(lock, other)

Moved(r, todo, held) == [r EXCEPT !.todo = todo, !.held = held]
Goes(s, todo, held) ==
  session' = [session EXCEPT ![s] = Moved(session[s], todo, held)]

\* The worker's task has left the tasks that have not started.
Dispatching(o) == o = 1 /\ phase # "begin"

TakeLock(s) ==
  /\ session[s].todo # <<>>
  /\ LET wanted == Head(session[s].todo)
     IN  /\ Free(s, wanted)
         /\ wanted.mode = "cancel" => ~Dispatching(wanted.row[2])
         /\ Goes(s, Tail(session[s].todo), session[s].held \cup {wanted})
  /\ UNCHANGED <<phase, report>>

\* The sweep leaves an owner whose task is locked for the next time.
SkipOwner(s) ==
  /\ session[s].todo # <<>>
  /\ LET wanted == Head(session[s].todo)
         left == Len(session[s].todo)
     IN  /\ wanted.mode = "skip"
         /\ ~Free(s, wanted)
         /\ Goes(s, SubSeq(session[s].todo, 3, left), session[s].held)
  /\ UNCHANGED <<phase, report>>

CancelNothing(s) ==
  /\ session[s].todo # <<>>
  /\ ~Blocked(s)
  /\ LET wanted == Head(session[s].todo)
     IN  /\ wanted.mode = "cancel"
         /\ Free(s, wanted) => Dispatching(wanted.row[2])
  /\ Goes(s, Tail(session[s].todo), session[s].held)
  /\ UNCHANGED <<phase, report>>

Fails(s) == Blocked(s) /\ ("statement" \in Limits \/ Detected(s))

\* Only the holder of the permit of a task goes on after the reservation.
ByOthers(kind, o) ==
  /\ kind \notin {"finalize", "grant", "renew"}
  /\ kind \in OfDispatch =>
       o = 2 /\ \A t \in Others : session[t].kind \notin OfDispatch

Start(s) ==
  /\ session[s].kind = "none"
  /\ \E kind \in Kinds, o \in Owners :
        /\ ByOthers(kind, o)
        /\ session' = [session EXCEPT ![s] = Transaction(kind, o)]
  /\ UNCHANGED <<phase, report>>

End(s) ==
  /\ Locked(s) \/ Fails(s)
  /\ session' = [session EXCEPT ![s] = Finished]
  /\ UNCHANGED <<phase, report>>

-----------------------------------------------------------------------------
(***************************************************************************)
(* The worker.                                                             *)
(***************************************************************************)
Continue(next) ==
  /\ phase' = next
  /\ session' = [session EXCEPT !["main"] = Transaction(next, 1),
                               !["second"] = NoTransaction]

\* Whatever became of the permit, the audit row is closed through "second".
Finalize(outcome) ==
  /\ phase' = "finalizing"
  /\ report' = outcome
  /\ session' = [session EXCEPT !["main"] = NoTransaction,
                               !["second"] = Transaction("finalize", 1)]

Stop == phase' = "done" /\ session' = [session EXCEPT !["main"] = NoTransaction]

CommitBegin ==
  /\ phase \in {"begin", "prepare"}
  /\ Locked("main")
  /\ Continue(IF phase = "begin" THEN "prepare" ELSE "permit")
  /\ UNCHANGED report

\* The refusal is written in the permit, and again through "second".
RefusePermit ==
  /\ phase = "permit"
  /\ Locked("main")
  /\ phase' = "refused"
  /\ report' = "failed"
  /\ session' = [session EXCEPT !["second"] = Transaction("finalize", 1)]

CallProvider ==
  /\ phase = "permit"
  /\ Locked("main")
  /\ phase' = "calling"
  /\ UNCHANGED <<session, report>>

\* Nothing can be written in a permit the database has ended meanwhile.
AnswerTooLate ==
  /\ phase = "calling"
  /\ ~Active("main")
  /\ Finalize("unknown")

Answer ==
  /\ phase = "calling"
  /\ Active("main")
  /\ phase' = "recorded"
  /\ report' \in {"succeeded", "failed", "unknown"}
  /\ UNCHANGED session

MessageAccepted ==
  /\ phase = "calling"
  /\ Active("main")
  /\ phase' = "recording"
  /\ report' = "succeeded"
  /\ Goes("main", StoreMessage(1), session["main"].held)

MatchAccepted ==
  /\ phase = "calling"
  /\ Active("main")
  /\ phase' = "granting"
  /\ \E kind \in {"grant", "renew"} :
        session' = [session EXCEPT !["second"] = Transaction(kind, 1)]
  /\ UNCHANGED report

Record(outcome) ==
  /\ phase' = "recorded"
  /\ report' = outcome
  /\ session' = [session EXCEPT !["second"] = NoTransaction]

\* An error of the grant carries a code, hence a definite failure.
EndGrant ==
  /\ phase = "granting"
  /\ \/ Locked("second") /\ Active("main") /\ Record("succeeded")
     \/ Fails("second") /\ Active("main") /\ Record("failed")
     \/ (Locked("second") \/ Fails("second")) /\ ~Active("main") /\ Finalize("unknown")

EndRefusal ==
  /\ phase = "refused"
  /\ Locked("second") \/ Fails("second")
  /\ IF Active("main") THEN Record("failed") ELSE Finalize("failed")

EndFinalize ==
  /\ phase = "finalizing"
  /\ Locked("second") \/ Fails("second")
  /\ Continue("finish")
  /\ UNCHANGED report

CommitPermit ==
  /\ phase \in {"recording", "recorded"}
  /\ Locked("main")
  /\ Continue("finish")
  /\ UNCHANGED report

CommitFinish == phase = "finish" /\ Locked("main") /\ Stop /\ UNCHANGED report

\* A statement of the worker is aborted, and its transaction with it.
WorkerFails ==
  /\ Fails("main")
  /\ \/ phase \in {"begin", "finish"} /\ Stop /\ UNCHANGED report
     \/ phase = "prepare" /\ Continue("finish") /\ report' = "failed"
     \/ phase = "permit" /\ Finalize("failed")
     \/ phase = "recording" /\ Finalize("unknown")

\* The database ends a permit that asks for nothing.
IdleTimeout ==
  /\ "idle" \in Limits
  /\ phase \in {"calling", "refused", "granting"}
  /\ Active("main")
  /\ session' = [session EXCEPT !["main"] = NoTransaction]
  /\ UNCHANGED <<phase, report>>

Locks(s) == TakeLock(s) \/ SkipOwner(s) \/ CancelNothing(s)

MainStep ==
  \/ Locks("main") \/ CommitBegin \/ RefusePermit \/ CallProvider
  \/ AnswerTooLate \/ Answer \/ MessageAccepted \/ MatchAccepted
  \/ CommitPermit \/ CommitFinish \/ WorkerFails \/ IdleTimeout

SecondStep == Locks("second") \/ EndGrant \/ EndRefusal \/ EndFinalize

Progress == MainStep \/ SecondStep \/ \E s \in Others : Locks(s) \/ End(s)

Next == Progress \/ \E s \in Others : Start(s)

(***************************************************************************)
(* A statement ends by its lock or by a limit, a call by its answer or its *)
(* own time-out: if anything can go on, something does.  Nobody has to     *)
(* start a transaction.                                                    *)
(***************************************************************************)
Fairness == WF_vars(Progress)

Spec == Init /\ [][Next]_vars /\ Fairness

-----------------------------------------------------------------------------
Runs(S, kind) == \E s \in S : session[s].kind = kind
Sweeps(S) == {s \in S : session[s].kind \in {"reap", "switch"}}

(***************************************************************************)
(* Whoever waits in a circle is one of these: the worker for its own       *)
(* permit; a draft, which locks the agent row before the rows the order    *)
(* puts first; the insertion of an audit row under a task lock against a   *)
(* late reservation; two sweeps over the owners; a conversation or a       *)
(* contact policy locked before the user.  All other transactions of the   *)
(* agent, its owner and the administrators respect one order.              *)
(***************************************************************************)
KnownDeadlocksOnly ==
  \A S \in Circles(WaitsFor) :
       \/ S = {"main", "second"}
       \/ Runs(S, "draft")
       \/ Runs(S, "prepare") /\ Runs(S, "begin")
       \/ Cardinality(Sweeps(S)) > 1
       \/ Runs(S, "archive") /\ phase = "recording" /\ "main" \in S
       \/ Runs(S, "contact")

(***************************************************************************)
(* While the provider is asked under a permit that stands, no transaction  *)
(* gets through that takes a right the action rests on away from owner 1,  *)
(* or changes its target: each of them needs a row the permit has locked.  *)
(* AutonomyDispatch takes this for granted (PermitStaysAuthorised).        *)
(***************************************************************************)
Withdraws(s) ==
  \/ /\ session[s].kind \in {"suspend", "revoke", "configure", "actions",
                              "runner", "connect", "contact"}
     /\ session[s].owner = 1
  \/ session[s].kind \in {"switch", "relation", "suspend"}

RightsStandDuringCall ==
  phase \in {"calling", "granting", "recording", "recorded"} /\ Active("main") =>
    \A s \in Others : Withdraws(s) => ~Locked(s)

(***************************************************************************)
(* Every transaction ends, whatever it waits for: the circles are broken   *)
(* by PostgreSQL, the worker's wait for itself by the limits of            *)
(* compose.yaml alone.                                                     *)
(***************************************************************************)
EveryTransactionEnds == []<>(\A s \in Sessions : ~Active(s))

(***************************************************************************)
(* A match the provider accepted is a success of the agent (docs/18 line   *)
(* 182).  Violated: the grant of the new peer is written through "second", *)
(* behind the user row the permit has locked.                              *)
(***************************************************************************)
AcceptedMatchSucceeds ==
  [][phase = "granting" /\ phase' # "granting" =>
       report' = "succeeded"]_vars
=============================================================================
