------------------------- MODULE CompatibilityOutbox -------------------------
(***************************************************************************)
(* The compatibility outbox: rows of operation_outbox that mirror a local  *)
(* change to the legacy provider.  A dispatch claims a batch of due rows   *)
(* under one lease, then prepares, calls and finalises them one by one,    *)
(* each in transactions of its own.  A claim is fenced: the result is      *)
(* written back only while the row is processing under that dispatch.      *)
(***************************************************************************)
EXTENDS Integers, FiniteSets

CONSTANTS
    Ops,           \* rows of the outbox
    Workers,       \* dispatches that may run at the same time
    NoOp,
    ReplaySafe,    \* operations that may be repeated
    Creates,       \* operations that create an entity and bind its id
    Needs,         \* [Ops -> SUBSET Creates]: entities whose ids are needed
    MaxAttempts,   \* max_attempts of a row
    ServerErrors,  \* may the provider fail with 5xx or 408 what it has applied?
    Overrun,       \* may a dispatch outlast the time limit of its job?
    MaxCrashes     \* bound on the dispatches that die

ASSUME OutboxAssumption ==
    /\ NoOp \notin Ops
    /\ ReplaySafe \subseteq Ops /\ Creates \subseteq Ops \ ReplaySafe
    /\ Needs \in [Ops -> SUBSET Creates]
    /\ MaxAttempts \in Nat \ {0}
    /\ ServerErrors \in BOOLEAN /\ Overrun \in BOOLEAN
    /\ MaxCrashes \in Nat

VARIABLES
    row,      \* the rows of operation_outbox
    request,  \* what became of the call of each attempt of an operation
    binding,  \* the attempt whose entity LegacySocialBinding binds, or 0
    worker,   \* local state of each dispatch
    mode,     \* BBW_COMPATIBILITY_MODE
    crashes

vars == <<row, request, binding, worker, mode, crashes>>

Attempts == 1..MaxAttempts

-----------------------------------------------------------------------------
(* Types and initial state *)

Statuses == {"absent", "pending", "processing", "retry", "completed", "failed",
             "cancelled"}
\* due: available_at, or locked_until while processing, has passed.
OutboxRow == [status : Statuses, attempts : Nat, due : BOOLEAN]
Fates == {"none", "sent", "applied", "rejected"}
PCs == {"idle", "prepare", "check", "call", "answer", "bind", "finalize"}
Verdicts == {"ok", "retry", "fail"}
\* claim: the attempt under which a row of the batch was claimed, 0 when it is
\* not in the batch.  A dispatch claims a row once, so the attempt identifies the
\* locked_by of the claim.
Dispatch == [pc : PCs, claim : [Ops -> Nat], op : Ops \cup {NoOp},
             verdict : Verdicts]
Modes == {"enabled", "paused", "retired"}

NoClaim == [o \in Ops |-> 0]
IdleDispatch == [pc |-> "idle", claim |-> NoClaim, op |-> NoOp, verdict |-> "ok"]

Init ==
    /\ row = [o \in Ops |-> [status |-> "absent", attempts |-> 0, due |-> FALSE]]
    /\ request = [o \in Ops |-> [n \in Attempts |-> "none"]]
    /\ binding = [o \in Creates |-> 0]
    /\ worker = [w \in Workers |-> IdleDispatch]
    /\ mode = "enabled"
    /\ crashes = 0

-----------------------------------------------------------------------------
(* Helpers *)

DueWaiting(o) == row[o].status \in {"pending", "retry"} /\ row[o].due
Due(o) == row[o].status \in {"pending", "retry", "processing"} /\ row[o].due

Exhausted(o) == row[o].attempts >= MaxAttempts

At(w, pc) == worker[w].pc = pc
Current(w) == worker[w].op
Attempt(w) == worker[w].claim[Current(w)]

HoldsByStatus(w) == row[Current(w)].status = "processing"
\* The row is processing and locked by this dispatch.
Holds(w) ==
    /\ row[Current(w)].status = "processing"
    /\ row[Current(w)].attempts = Attempt(w)

Handle(w, o, pc, verdict) ==
    worker' = [worker EXCEPT ![w] = [pc |-> pc, claim |-> worker[w].claim,
                                     op |-> o, verdict |-> verdict]]
Conclude(w, verdict) == Handle(w, Current(w), "finalize", verdict)

-----------------------------------------------------------------------------
(* Enqueueing and claiming *)

\* With the local change, in its transaction; what cannot be mirrored, and what
\* comes after retirement, is born cancelled.
Enqueue(o, mappable) ==
    /\ row[o].status = "absent"
    /\ row' = [row EXCEPT ![o] =
         IF mappable /\ mode # "retired"
         THEN [status |-> "pending", attempts |-> 0, due |-> TRUE]
         ELSE [status |-> "cancelled", attempts |-> 0, due |-> FALSE]]
    /\ UNCHANGED <<request, binding, worker, mode, crashes>>

BackoffPasses(o) ==
    /\ row[o].status = "retry" /\ ~row[o].due
    /\ row' = [row EXCEPT ![o].due = TRUE]
    /\ UNCHANGED <<request, binding, worker, mode, crashes>>

\* The lease is as long as the job may run.  But the exception that the job's time
\* limit raises is caught like one of the current row, and the batch goes on under
\* a lease that has ended.
LeaseEnds(o) ==
    /\ row[o].status = "processing" /\ ~row[o].due
    /\ Overrun \/ \A w \in Workers : worker[w].claim[o] = 0
    /\ row' = [row EXCEPT ![o].due = TRUE]
    /\ UNCHANGED <<request, binding, worker, mode, crashes>>

ClaimedRow(o) == [status   |-> "processing",
                  attempts |-> row[o].attempts + 1,
                  due      |-> FALSE]

\* The limit, and rows others have locked, may leave out any of the due rows.
Claim(w) ==
    /\ At(w, "idle")
    /\ mode = "enabled"
    /\ \E batch \in SUBSET {o \in Ops : Due(o)} \ {{}} :
         LET taken == {o \in batch : ~Exhausted(o)} IN
         /\ row' = [o \in Ops |->
              IF o \in taken THEN ClaimedRow(o)
              ELSE IF o \in batch THEN [row[o] EXCEPT !.status = "failed"]
              ELSE row[o]]
         /\ worker' = IF taken = {} THEN worker
                      ELSE [worker EXCEPT ![w] =
                        [pc |-> "prepare", op |-> NoOp, verdict |-> "ok",
                         claim |-> [o \in Ops |-> IF o \in taken
                                      THEN row[o].attempts + 1 ELSE 0]]]
    /\ UNCHANGED <<request, binding, mode, crashes>>

-----------------------------------------------------------------------------
(* One row of the batch *)

\* The call is built from the row, the account and the bindings it needs.  The
\* account, its token or the mapping may be missing.
PrepareUnbound(w) ==
    /\ At(w, "prepare")
    /\ \E o \in Ops :
         /\ worker[w].claim[o] # 0
         /\ Handle(w, o, "check", "ok")
    /\ UNCHANGED <<row, request, binding, mode, crashes>>
Prepare(w) ==
    /\ At(w, "prepare")
    /\ \E o \in Ops :
         /\ worker[w].claim[o] # 0
         /\ \/ (\A p \in Needs[o] : binding[p] # 0) /\ Handle(w, o, "check", "ok")
            \/ \E verdict \in {"retry", "fail"} : Handle(w, o, "finalize", verdict)
    /\ UNCHANGED <<row, request, binding, mode, crashes>>

\* The claim is read once more right before the call.
Check(w) ==
    /\ At(w, "check")
    /\ IF Holds(w) THEN worker' = [worker EXCEPT ![w].pc = "call"]
                   ELSE Conclude(w, "fail")
    /\ UNCHANGED <<row, request, binding, mode, crashes>>

\* The request is sent, or a connection error says that it was not.
CallProvider(w) ==
    /\ At(w, "call")
    /\ \/ /\ request' = [request EXCEPT ![Current(w)][Attempt(w)] = "sent"]
          /\ worker' = [worker EXCEPT ![w].pc = "answer"]
       \/ /\ \E verdict \in {"retry", "fail"} : Conclude(w, verdict)
          /\ UNCHANGED request
    /\ UNCHANGED <<row, binding, mode, crashes>>

ProviderHandles(o, n) ==
    /\ request[o][n] = "sent"
    /\ \E fate \in {"applied", "rejected"} :
         request' = [request EXCEPT ![o][n] = fate]
    /\ UNCHANGED <<row, binding, worker, mode, crashes>>

\* What the worker makes of a call without a usable answer.
AmbiguousRetried(o) == "retry"
Ambiguous(o) == IF o \in ReplaySafe THEN "retry" ELSE "fail"

\* A create may succeed without an id; a rejection is final or temporary; no
\* answer is ambiguous, while 408, 425, 429 and 5xx are always retried, and so is
\* a row whose answer was there when the job's time limit struck.
Answer(w) ==
    LET o == Current(w)
        fate == request[o][Attempt(w)]
    IN
    /\ At(w, "answer")
    /\ \/ /\ fate = "applied"
          /\ \/ o \in Creates /\ worker' = [worker EXCEPT ![w].pc = "bind"]
             \/ Conclude(w, "ok")
       \/ /\ fate = "rejected"
          /\ \E verdict \in {"retry", "fail"} : Conclude(w, verdict)
       \/ fate = "applied" /\ ServerErrors /\ Conclude(w, "retry")
       \/ Overrun /\ Conclude(w, "retry")
       \/ Conclude(w, Ambiguous(o))
    /\ UNCHANGED <<row, request, binding, mode, crashes>>

\* An entity is bound once; another id, a missing entity or a failed transaction
\* ends the operation without another call, also when only the answer of its
\* commit was lost.
Bind(w) ==
    LET o == Current(w) IN
    /\ At(w, "bind")
    /\ \/ /\ binding[o] = 0
          /\ binding' = [binding EXCEPT ![o] = Attempt(w)]
          /\ Conclude(w, "ok") \/ Conclude(w, "fail")
       \/ Conclude(w, "fail") /\ UNCHANGED binding
    /\ UNCHANGED <<row, request, mode, crashes>>

\* The batch without the row that is done with.
Leave(w) ==
    LET claim == [worker[w].claim EXCEPT ![Current(w)] = 0] IN
    worker' = [worker EXCEPT ![w] =
      IF claim = NoClaim THEN IdleDispatch
      ELSE [pc |-> "prepare", claim |-> claim, op |-> NoOp, verdict |-> "ok"]]

FinalStatus(w) ==
    CASE worker[w].verdict = "ok" -> "completed"
      [] worker[w].verdict = "retry" /\ ~Exhausted(Current(w)) -> "retry"
      [] OTHER -> "failed"

FinalizeUnfenced(w) ==
    /\ At(w, "finalize")
    /\ row' = [row EXCEPT ![Current(w)] = [status   |-> FinalStatus(w),
                                           attempts |-> @.attempts,
                                           due      |-> FALSE]]
    /\ Leave(w)
    /\ UNCHANGED <<request, binding, mode, crashes>>
Finalize(w) ==
    /\ At(w, "finalize")
    /\ row' = IF Holds(w)
              THEN [row EXCEPT ![Current(w)] = [status   |-> FinalStatus(w),
                                                attempts |-> @.attempts,
                                                due      |-> FALSE]]
              ELSE row
    /\ Leave(w)
    /\ UNCHANGED <<request, binding, mode, crashes>>

Crash(w) ==
    /\ ~At(w, "idle")
    /\ crashes < MaxCrashes
    /\ crashes' = crashes + 1
    /\ worker' = [worker EXCEPT ![w] = IdleDispatch]
    /\ UNCHANGED <<row, request, binding, mode>>

-----------------------------------------------------------------------------
(* The operator *)

SetMode(next) ==
    /\ mode # next
    /\ mode' = next
    /\ UNCHANGED <<row, request, binding, worker, crashes>>

\* archive_retired_work cancels what is not completed or cancelled.
ArchiveRetiredWork ==
    /\ mode = "retired"
    /\ row' = [o \in Ops |->
         IF row[o].status \in {"absent", "completed", "cancelled"} THEN row[o]
         ELSE [status |-> "cancelled", attempts |-> row[o].attempts,
               due |-> FALSE]]
    /\ UNCHANGED <<request, binding, worker, mode, crashes>>

-----------------------------------------------------------------------------
(* Next-state relation *)

DispatchStep(w) ==
    \/ Claim(w) \/ Prepare(w) \/ Check(w) \/ CallProvider(w) \/ Answer(w)
    \/ Bind(w) \/ Finalize(w)

Next ==
    \/ \E w \in Workers : DispatchStep(w) \/ Crash(w)
    \/ \E o \in Ops : \/ \E mappable \in BOOLEAN : Enqueue(o, mappable)
                      \/ BackoffPasses(o) \/ LeaseEnds(o)
                      \/ \E n \in Attempts : ProviderHandles(o, n)
    \/ \E next \in Modes : SetMode(next)
    \/ ArchiveRetiredWork

Spec == Init /\ [][Next]_vars

\* A dispatch is enqueued on every tick of the scheduler and runs; time passes.
Fairness ==
    /\ \A w \in Workers : WF_vars(DispatchStep(w))
    /\ \A o \in Ops : WF_vars(BackoffPasses(o)) /\ WF_vars(LeaseEnds(o))

FairSpec == Spec /\ Fairness

-----------------------------------------------------------------------------
(* Safety *)

\* Every variable has its type, and no row is claimed more often than its
\* max_attempts allows.
TypeOK ==
    /\ row \in [Ops -> OutboxRow]
    /\ \A o \in Ops : row[o].attempts <= MaxAttempts
    /\ request \in [Ops -> [Attempts -> Fates]]
    /\ binding \in [Creates -> Nat]
    /\ worker \in [Workers -> Dispatch]
    /\ \A w \in Workers :
         /\ worker[w].pc = "idle" <=> worker[w].claim = NoClaim
         /\ worker[w].pc \notin {"idle", "prepare"} =>
              Current(w) \in Ops /\ Attempt(w) \in Attempts
    /\ mode \in Modes
    /\ crashes \in Nat

\* The provider never applies an operation twice that is not safe to repeat, as
\* long as no dispatch dies with its result: whatever is ambiguous ends the row.
CreatedOnce == crashes = 0 =>
    \A o \in Ops \ ReplaySafe :
        Cardinality({n \in Attempts : request[o][n] = "applied"}) <= 1

\* A completed row says that the provider applied the very attempt the row
\* counts, however late the answers of earlier attempts came.
CompletedIsTruthful ==
    \A o \in Ops : row[o].status = "completed" =>
        row[o].attempts \in Attempts /\ request[o][row[o].attempts] = "applied"

\* No call names an entity by an id the provider did not give: a binding comes
\* from an applied create, and a call is sent only when all it needs is bound.
UsesRealIds ==
    /\ \A o \in Creates : binding[o] # 0 => request[o][binding[o]] = "applied"
    /\ \A o \in Ops, n \in Attempts : request[o][n] # "none" =>
         \A p \in Needs[o] : binding[p] # 0

\* A completed or cancelled row keeps its status, a failed one is at most
\* cancelled, and an entity once bound stays bound to the same id, although a
\* batch that outlasts its lease writes back what it made of rows that another
\* dispatch has closed or retirement has cancelled.
ClosedStaysClosed ==
    [][/\ \A o \in Ops :
            /\ row[o].status \in {"completed", "cancelled"} =>
                 row'[o].status = row[o].status
            /\ row[o].status = "failed" =>
                 row'[o].status \in {"failed", "cancelled"}
       /\ \A o \in Creates : binding[o] # 0 => binding'[o] = binding[o]]_vars

-----------------------------------------------------------------------------
(* Liveness *)

\* While the mirror stays enabled every row is closed: crashed dispatches,
\* missing bindings and errors of the provider only use up attempts.
RowSettles ==
    <>[](mode = "enabled") =>
        \A o \in Ops :
            row[o].status \in {"pending", "retry", "processing"} ~>
                row[o].status \in {"completed", "failed", "cancelled"}
=============================================================================
