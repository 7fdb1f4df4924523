----------------------------- MODULE TimMirror -----------------------------
(***************************************************************************)
(* The mirror of local messages to Tencent IM.  A local message is         *)
(* authoritative at once; a row of message_deliveries asks a worker to     *)
(* send a copy to TIM, and revoking the message either cancels that row or *)
(* adds a second one that asks TIM to recall the copy.                     *)
(*                                                                         *)
(* A worker claims a row, leaves the transaction, calls TIM and writes the *)
(* result back in another transaction that checks the status of the row    *)
(* but not who claimed it.  TIM handles a request on its own: its answer   *)
(* may be lost although the request was, or will be, handled.              *)
(***************************************************************************)
EXTENDS Integers, FiniteSets

CONSTANTS
    Messages,     \* canonical messages
    Workers,      \* RQ workers of the queues that mirror
    NoDelivery,
    MaxAttempts,  \* max_attempts of a delivery
    MayFail       \* faults that may happen, of FaultKinds

FaultKinds == {"crash", "lost answer"}

ASSUME ConstantsAssumption ==
    /\ MaxAttempts \in Nat \ {0}
    /\ MayFail \subseteq FaultKinds
    /\ NoDelivery \notin Messages \X {"send", "revoke"}

VARIABLES
    message,   \* kind and status of each canonical message
    delivery,  \* the TIM rows of message_deliveries
    request,   \* what became of the call of each attempt of a delivery
    tim,       \* the copy of each message at TIM
    worker,    \* local state of each worker's job
    mode,      \* BBW_COMPATIBILITY_MODE
    faults     \* the kinds of faults that have happened

vars == <<message, delivery, request, tim, worker, mode, faults>>

Deliveries == Messages \X {"send", "revoke"}
Attempts == 1..MaxAttempts
SendOf(m) == <<m, "send">>
RevokeOf(m) == <<m, "revoke">>

-----------------------------------------------------------------------------
(* Types and initial state *)

Kinds == {"text", "media"}
\* Why a delivery was cancelled, as last_error records it.
Reasons == {"none", "retired", "archived", "revoked", "inflight"}
DeliveryStatuses == {"absent", "pending", "processing", "retry", "delivered",
                     "failed", "cancelled"}
\* due: available_at, or locked_until while processing, has passed.  key: the
\* payload holds the upstream_message_id of the copy.
DeliveryRow == [status : DeliveryStatuses, attempts : Nat, due : BOOLEAN,
                key : BOOLEAN, reason : Reasons]
PCs == {"idle", "check", "send", "answer", "ok", "nack", "remember", "key",
        "lookup"}
Job == [pc : PCs, delivery : Deliveries \cup {NoDelivery}, attempt : Nat,
        key : BOOLEAN]
Modes == {"enabled", "paused", "retired"}

AbsentRow == [status |-> "absent", attempts |-> 0, due |-> FALSE,
              key |-> FALSE, reason |-> "none"]
IdleJob == [pc |-> "idle", delivery |-> NoDelivery, attempt |-> 0,
            key |-> FALSE]

Init ==
    /\ message = [m \in Messages |-> [kind |-> "text", status |-> "absent"]]
    /\ delivery = [d \in Deliveries |-> AbsentRow]
    /\ request = [d \in Deliveries |-> [n \in Attempts |-> "none"]]
    /\ tim = [m \in Messages |-> "absent"]
    /\ worker = [w \in Workers |-> IdleJob]
    /\ mode = "enabled"
    /\ faults = {}

-----------------------------------------------------------------------------
(* Helpers *)

\* A new optional row; in retired mode it is born cancelled.
NewRow ==
    IF mode = "retired"
    THEN [AbsentRow EXCEPT !.status = "cancelled", !.reason = "retired"]
    ELSE [AbsentRow EXCEPT !.status = "pending", !.due = TRUE]

CancelledRow(row, reason) ==
    [row EXCEPT !.status = "cancelled", !.due = FALSE, !.reason = reason]

DueUnlocked(d) ==
    \/ delivery[d].status \in {"pending", "retry"} /\ delivery[d].due
    \/ delivery[d].status = "processing"
DueWaiting(d) == delivery[d].status \in {"pending", "retry"} /\ delivery[d].due
Due(d) ==
    delivery[d].status \in {"pending", "retry", "processing"} /\ delivery[d].due

Exhausted(d) == delivery[d].attempts >= MaxAttempts

WorkerAt(w, pc) == worker[w].pc = pc
Goto(w, pc) == worker' = [worker EXCEPT ![w].pc = pc]
Row(w) == delivery[worker[w].delivery]
IsProcessing(w) == Row(w).status = "processing"

Fail(kind) == kind \in MayFail /\ faults' = faults \cup {kind}

-----------------------------------------------------------------------------
(* The user: storing and revoking a message *)

\* store_text and store_attachment: message and send row in one transaction.
StoreMessage(m, kind) ==
    /\ message[m].status = "absent"
    /\ message' = [message EXCEPT ![m] = [kind |-> kind, status |-> "accepted"]]
    /\ delivery' = [delivery EXCEPT ![SendOf(m)] = NewRow]
    /\ UNCHANGED <<request, tim, worker, mode, faults>>

NeedsRecallIfDelivered(m) == delivery[SendOf(m)].status = "delivered"
\* A text cancelled by an operator may have been sent; one cancelled before
\* it was sent needs no recall.  A media message reuses what there is.
NeedsRecall(m) ==
    LET row == delivery[SendOf(m)] IN
    \/ row.status \in {"processing", "delivered"}
    \/ /\ row.status = "cancelled" /\ message[m].kind = "text"
       /\ row.reason \notin {"retired", "revoked"}

\* Revoking cancels the send row unless it is delivered or cancelled already.
CancelledSend(row) ==
    CASE row.status \in {"pending", "retry", "failed"} ->
           CancelledRow(row, "revoked")
      [] row.status = "processing" -> CancelledRow(row, "inflight")
      [] OTHER -> row

\* Repeating the call repeats the reconciliation.
Revoke(m) ==
    LET recall == IF NeedsRecall(m) /\ delivery[RevokeOf(m)].status = "absent"
                  THEN NewRow ELSE delivery[RevokeOf(m)]
    IN
    /\ message[m].status \in {"accepted", "revoked"}
    /\ message' = [message EXCEPT ![m].status = "revoked"]
    /\ delivery' = [delivery EXCEPT ![SendOf(m)] = CancelledSend(@),
                                    ![RevokeOf(m)] = recall]
    /\ UNCHANGED <<request, tim, worker, mode, faults>>

-----------------------------------------------------------------------------
(* Scheduling and claiming *)

\* A backoff or a lock ends.  The job of a worker is killed 60 s after it
\* started, its lock lasts 120 s.
DeadlinePasses(d) ==
    /\ delivery[d].status \in {"retry", "processing"} /\ ~delivery[d].due
    /\ \A w \in Workers : worker[w].delivery # d
    /\ delivery' = [delivery EXCEPT ![d].due = TRUE]
    /\ UNCHANGED <<message, request, tim, worker, mode, faults>>

Claim(w, d) ==
    /\ WorkerAt(w, "idle")
    /\ mode = "enabled"
    /\ Due(d)
    /\ IF Exhausted(d)
       THEN /\ delivery' = [delivery EXCEPT ![d].status = "failed"]
            /\ UNCHANGED worker
       ELSE LET n == delivery[d].attempts + 1 IN
            /\ delivery' = [delivery EXCEPT ![d] =
                 [@ EXCEPT !.status = "processing", !.attempts = n,
                           !.due = FALSE]]
            /\ worker' = [worker EXCEPT ![w] =
                 [pc |-> IF d[2] = "send" THEN "check" ELSE "key",
                  delivery |-> d, attempt |-> n, key |-> FALSE]]
    /\ UNCHANGED <<message, request, tim, mode, faults>>

\* The scheduler fails the rows whose attempts are used up.
FailExhausted(d) ==
    /\ mode = "enabled"
    /\ Due(d) /\ Exhausted(d)
    /\ delivery' = [delivery EXCEPT ![d].status = "failed"]
    /\ UNCHANGED <<message, request, tim, worker, mode, faults>>

-----------------------------------------------------------------------------
(* The job of a worker *)

\* A recall needs the key of the copy: from the send row, else from the
\* roaming history of TIM, which the key is then written back from.
ReadKey(w) ==
    LET m == worker[w].delivery[1] IN
    /\ WorkerAt(w, "key")
    /\ Goto(w, IF ~IsProcessing(w) THEN "nack"
               ELSE IF delivery[SendOf(m)].key THEN "check" ELSE "lookup")
    /\ UNCHANGED <<message, delivery, request, tim, mode, faults>>

Lookup(w) ==
    LET m == worker[w].delivery[1] IN
    /\ WorkerAt(w, "lookup")
    /\ \/ /\ IsProcessing(w) /\ tim[m] # "absent"
          /\ delivery' = [delivery EXCEPT ![SendOf(m)].key = TRUE]
          /\ Goto(w, "check")
       \/ /\ UNCHANGED delivery
          /\ Goto(w, "nack")
    /\ UNCHANGED <<message, request, tim, mode, faults>>

\* The status of the row is read once more before TIM is called; a copy of a
\* media message also needs its asset.
Check(w) ==
    /\ WorkerAt(w, "check")
    /\ \/ IsProcessing(w) /\ Goto(w, "send")
       \/ Goto(w, "nack")
    /\ UNCHANGED <<message, delivery, request, tim, mode, faults>>

CallTim(w) ==
    /\ WorkerAt(w, "send")
    /\ request' = [request EXCEPT ![worker[w].delivery][worker[w].attempt] =
                     "sent"]
    /\ Goto(w, "answer")
    /\ UNCHANGED <<message, delivery, tim, mode, faults>>

\* The MsgSeq and MsgRandom of a copy derive from the message, so TIM takes a
\* repeated send for the first one; recalling what is gone counts as done.
TimHandles(d, n) ==
    LET m == d[1] IN
    /\ request[d][n] = "sent"
    /\ \/ /\ request' = [request EXCEPT ![d][n] = "accepted"]
          /\ tim' = [tim EXCEPT ![m] = IF d[2] = "revoke" \/ @ = "recalled"
                                       THEN "recalled" ELSE "present"]
       \/ /\ request' = [request EXCEPT ![d][n] = "rejected"]
          /\ UNCHANGED tim
    /\ UNCHANGED <<message, delivery, worker, mode, faults>>

\* An accepted send may come without the key of the copy.
AnswerUnread(w) ==
    /\ WorkerAt(w, "answer")
    /\ request[worker[w].delivery][worker[w].attempt] # "sent"
    /\ \E key \in BOOLEAN :
         worker' = [worker EXCEPT ![w].pc = "ok", ![w].key = key]
    /\ UNCHANGED <<message, delivery, request, tim, mode, faults>>
Answer(w) ==
    LET fate == request[worker[w].delivery][worker[w].attempt] IN
    /\ WorkerAt(w, "answer")
    /\ \/ /\ fate = "accepted"
          /\ \E key \in BOOLEAN :
               worker' = [worker EXCEPT ![w].pc = "ok", ![w].key = key]
       \/ fate = "rejected" /\ Goto(w, "nack")
    /\ UNCHANGED <<message, delivery, request, tim, mode, faults>>

\* A timeout or a broken connection; the request may still be handled.
LoseAnswer(w) ==
    /\ WorkerAt(w, "answer")
    /\ Fail("lost answer")
    /\ Goto(w, "nack")
    /\ UNCHANGED <<message, delivery, request, tim, mode>>

\* mark_tim_delivered; a send that was cancelled meanwhile leaves its key.
MarkDelivered(w) ==
    LET d == worker[w].delivery IN
    /\ WorkerAt(w, "ok")
    /\ IF IsProcessing(w)
       THEN /\ delivery' = [delivery EXCEPT ![d] =
                 [@ EXCEPT !.status = "delivered", !.due = FALSE,
                           !.key = Row(w).key \/ worker[w].key]]
            /\ worker' = [worker EXCEPT ![w] = IdleJob]
       ELSE /\ UNCHANGED delivery
            /\ worker' = IF Row(w).status = "cancelled" /\ d[2] = "send"
                            /\ worker[w].key
                         THEN [worker EXCEPT ![w].pc = "remember"]
                         ELSE [worker EXCEPT ![w] = IdleJob]
    /\ UNCHANGED <<message, request, tim, mode, faults>>

RememberKey(w) ==
    /\ WorkerAt(w, "remember")
    /\ delivery' = [delivery EXCEPT ![worker[w].delivery].key =
                      @ \/ Row(w).status = "cancelled"]
    /\ worker' = [worker EXCEPT ![w] = IdleJob]
    /\ UNCHANGED <<message, request, tim, mode, faults>>

\* mark_tim_failed.
MarkFailed(w) ==
    /\ WorkerAt(w, "nack")
    /\ delivery' =
         IF IsProcessing(w)
         THEN [delivery EXCEPT ![worker[w].delivery] =
                 [@ EXCEPT !.status = IF Exhausted(worker[w].delivery)
                                      THEN "failed" ELSE "retry",
                           !.due = FALSE]]
         ELSE delivery
    /\ worker' = [worker EXCEPT ![w] = IdleJob]
    /\ UNCHANGED <<message, request, tim, mode, faults>>

\* The worker dies, or its job is killed outside the handler of the send.
Crash(w) ==
    /\ ~WorkerAt(w, "idle")
    /\ Fail("crash")
    /\ worker' = [worker EXCEPT ![w] = IdleJob]
    /\ UNCHANGED <<message, delivery, request, tim, mode>>

-----------------------------------------------------------------------------
(* The operator *)

SetMode(next) ==
    /\ mode # next
    /\ mode' = next
    /\ UNCHANGED <<message, delivery, request, tim, worker, faults>>

\* archive_retired_work cancels every row that is not delivered or cancelled.
ArchiveRetiredWork ==
    /\ mode = "retired"
    /\ delivery' =
         [d \in Deliveries |->
            IF delivery[d].status \in {"absent", "delivered", "cancelled"}
            THEN delivery[d] ELSE CancelledRow(delivery[d], "archived")]
    /\ UNCHANGED <<message, request, tim, worker, mode, faults>>

-----------------------------------------------------------------------------
(* Next-state relation *)

WorkerStep(w) ==
    \/ \E d \in Deliveries : Claim(w, d)
    \/ ReadKey(w) \/ Lookup(w) \/ Check(w) \/ CallTim(w) \/ Answer(w)
    \/ MarkDelivered(w) \/ RememberKey(w) \/ MarkFailed(w)

Next ==
    \/ \E w \in Workers : WorkerStep(w) \/ LoseAnswer(w) \/ Crash(w)
    \/ \E m \in Messages : Revoke(m) \/ \E kind \in Kinds : StoreMessage(m, kind)
    \/ \E d \in Deliveries : \/ DeadlinePasses(d) \/ FailExhausted(d)
                             \/ \E n \in Attempts : TimHandles(d, n)
    \/ \E next \in Modes : SetMode(next)
    \/ ArchiveRetiredWork

Spec == Init /\ [][Next]_vars

\* Workers run, deadlines pass, and TIM answers, if only with an error; the
\* scheduler redispatches due rows, so a lost RQ job only delays a claim.
Fairness ==
    /\ \A w \in Workers : WF_vars(WorkerStep(w))
    /\ \A d \in Deliveries :
         /\ WF_vars(DeadlinePasses(d))
         /\ WF_vars(FailExhausted(d))
         /\ \A n \in Attempts : WF_vars(TimHandles(d, n))

FairSpec == Spec /\ Fairness

-----------------------------------------------------------------------------
(* Safety *)

\* Every variable has its type, and a delivery is never claimed more often
\* than max_attempts allows.
TypeOK ==
    /\ message \in [Messages -> [kind : Kinds,
                                 status : {"absent", "accepted", "revoked"}]]
    /\ delivery \in [Deliveries -> DeliveryRow]
    /\ \A d \in Deliveries : delivery[d].attempts <= MaxAttempts
    /\ request \in [Deliveries -> [Attempts ->
                      {"none", "sent", "accepted", "rejected"}]]
    /\ tim \in [Messages -> {"absent", "present", "recalled"}]
    /\ worker \in [Workers -> Job]
    /\ \A w \in Workers : worker[w].pc # "idle" =>
         worker[w].delivery \in Deliveries /\ worker[w].attempt \in Attempts
    /\ mode \in Modes
    /\ faults \in SUBSET FaultKinds

\* A row marked delivered tells the truth about TIM: the copy was sent, and a
\* delivered recall removed it for good, whatever is still under way.
DeliveredIsTruthful ==
    \A m \in Messages :
        /\ delivery[SendOf(m)].status = "delivered" => tim[m] # "absent"
        /\ delivery[RevokeOf(m)].status = "delivered" => tim[m] = "recalled"

\* A worker writes its result back by the status of the row alone; still the
\* claim it closes is always its own.
WritesOwnClaim ==
    \A w \in Workers :
        worker[w].pc # "idle" /\ Row(w).status = "processing" =>
            /\ Row(w).attempts = worker[w].attempt
            /\ \A v \in Workers \ {w} :
                 worker[v].delivery # worker[w].delivery

\* No call to TIM for the message is under way or can be handled any more.
Quiet(m) ==
    /\ \A w \in Workers : worker[w].delivery \notin {SendOf(m), RevokeOf(m)}
    /\ \A n \in Attempts : request[SendOf(m)][n] # "sent"

\* "Cancel an unsent text mirror and compensate a possible TIM send": once
\* nothing is under way, a revoked message has no copy at TIM but one whose recall
\* was asked for, or which the operator had archived before.  A send whose answer
\* was lost is cancelled without a recall, so this is asked for only before the
\* first fault.
Compensated(m) ==
    message[m].status = "revoked" /\ Quiet(m) /\ tim[m] = "present" =>
        \/ delivery[RevokeOf(m)].status # "absent"
        \/ delivery[SendOf(m)].reason = "archived"
RevokedIsCompensated == faults = {} => \A m \in Messages : Compensated(m)

\* A delivered or cancelled row never changes its status again and a failed
\* one is never retried.
ClosedStaysClosed ==
    [][\A d \in Deliveries :
         /\ delivery[d].status \in {"delivered", "cancelled"}
              => delivery'[d].status = delivery[d].status
         /\ delivery[d].status = "failed"
              => delivery'[d].status \in {"failed", "cancelled"}]_vars

-----------------------------------------------------------------------------
(* Liveness *)

\* While the mirror stays enabled, every row is eventually closed: lost jobs,
\* crashed workers and errors of TIM only use up attempts.
DeliverySettles ==
    <>[](mode = "enabled") =>
        \A d \in Deliveries :
            delivery[d].status \in {"pending", "retry", "processing"} ~>
                delivery[d].status \in {"delivered", "failed", "cancelled"}
=============================================================================
