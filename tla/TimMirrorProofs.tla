-------------------------- MODULE TimMirrorProofs --------------------------
(***************************************************************************)
(* Theorems about the mirror to Tencent IM, for any number of messages,    *)
(* workers, attempts and crashes.                                          *)
(*                                                                         *)
(* No row records who claimed it in a way the write-back checks.  What     *)
(* keeps two workers apart is that a row somebody works on is never due:   *)
(* OneJob.  On it rests the fact that a delivered row was accepted by TIM  *)
(* (AcceptedInv), and that, before the first fault, a copy at TIM is known *)
(* to the row that asked for it (RecallInv).                               *)
(***************************************************************************)
EXTENDS TimMirror, TLAPS

\* The rows a worker is on: processing or cancelled under it, never due, and
\* of the same attempt; no other worker is on it.
OneJob ==
    \A w \in Workers : worker[w].pc # "idle" =>
        /\ Row(w).status \in {"processing", "cancelled"}
        /\ ~Row(w).due
        /\ Row(w).attempts = worker[w].attempt
        /\ \A v \in Workers \ {w} : worker[v].delivery # worker[w].delivery

\* An idle worker is on no row.
IdleIsFree == \A w \in Workers :
    worker[w].pc = "idle" => worker[w].delivery = NoDelivery

\* Only a stored message has rows.
RowsOfStored == \A m \in Messages : message[m].status = "absent" =>
    /\ delivery[SendOf(m)].status = "absent"
    /\ delivery[RevokeOf(m)].status = "absent"

ClaimInv == TypeOK /\ OneJob /\ IdleIsFree /\ RowsOfStored

LEMMA RowTyped ==
    ASSUME NEW row \in DeliveryRow
    PROVE  /\ \A reason \in Reasons :
                /\ CancelledRow(row, reason) \in DeliveryRow
                /\ CancelledRow(row, reason).attempts = row.attempts
                /\ CancelledRow(row, reason).key = row.key
                /\ CancelledRow(row, reason).status = "cancelled"
                /\ CancelledRow(row, reason).due = FALSE
                /\ CancelledRow(row, reason).reason = reason
           /\ CancelledSend(row) \in DeliveryRow
           /\ CancelledSend(row).attempts = row.attempts
<1>1. "cancelled" \in DeliveryStatuses
  BY DEF DeliveryStatuses
<1>2. ASSUME NEW reason \in Reasons
      PROVE  /\ CancelledRow(row, reason) \in DeliveryRow
             /\ CancelledRow(row, reason).attempts = row.attempts
             /\ CancelledRow(row, reason).key = row.key
             /\ CancelledRow(row, reason).status = "cancelled"
             /\ CancelledRow(row, reason).due = FALSE
             /\ CancelledRow(row, reason).reason = reason
  <2>1. CancelledRow(row, reason) \in DeliveryRow
    BY <1>1, <1>2, Zenon DEF DeliveryRow, CancelledRow
  <2>2. /\ CancelledRow(row, reason).attempts = row.attempts
        /\ CancelledRow(row, reason).key = row.key
        /\ CancelledRow(row, reason).status = "cancelled"
    BY Zenon DEF DeliveryRow, CancelledRow
  <2>3. /\ CancelledRow(row, reason).due = FALSE
        /\ CancelledRow(row, reason).reason = reason
    BY Zenon DEF DeliveryRow, CancelledRow
  <2> QED
    BY <2>1, <2>2, <2>3
<1>3. CancelledSend(row) \in {row, CancelledRow(row, "revoked"),
                               CancelledRow(row, "inflight")}
  BY DEF CancelledSend
<1> QED
  BY <1>2, <1>3 DEF Reasons

LEMMA CancelledKeeps ==
    ASSUME NEW row \in DeliveryRow, NEW reason \in Reasons
    PROVE  /\ CancelledRow(row, reason).status \in {"processing", "cancelled"}
           /\ ~CancelledRow(row, reason).due
           /\ CancelledRow(row, reason).attempts = row.attempts
<1>1. CancelledRow(row, reason).due = FALSE
  BY RowTyped
<1> QED
  BY <1>1, RowTyped

LEMMA NewRowTyped == NewRow \in DeliveryRow /\ NewRow.attempts = 0
BY DEF NewRow, AbsentRow, DeliveryRow, DeliveryStatuses, Reasons

LEMMA DeliveryPairs ==
    /\ \A m \in Messages : /\ SendOf(m) \in Deliveries
                           /\ RevokeOf(m) \in Deliveries
                           /\ SendOf(m) # RevokeOf(m)
    /\ NoDelivery \notin Deliveries
    /\ \A d \in Deliveries : d[1] \in Messages /\ d = <<d[1], d[2]>>
                             /\ d[2] \in {"send", "revoke"}
BY ConstantsAssumption DEF Deliveries, SendOf, RevokeOf

LEMMA InitClaimInv == Init => ClaimInv
BY ConstantsAssumption, DeliveryPairs
   DEF Init, ClaimInv, TypeOK, OneJob, IdleIsFree, RowsOfStored, Row, Deliveries, DeliveryRow,
       Job, PCs, Kinds, Modes, DeliveryStatuses, Reasons, AbsentRow, IdleJob

-----------------------------------------------------------------------------
(* Types *)

WorkersOK ==
    /\ worker \in [Workers -> Job]
    /\ \A w \in Workers : worker[w].pc # "idle" =>
         worker[w].delivery \in Deliveries /\ worker[w].attempt \in Attempts

RowsOK ==
    /\ delivery \in [Deliveries -> DeliveryRow]
    /\ \A d \in Deliveries : delivery[d].attempts <= MaxAttempts

LEMMA SetRowOK ==
    ASSUME RowsOK, NEW d \in Deliveries, NEW row \in DeliveryRow,
           row.attempts <= MaxAttempts, delivery' = [delivery EXCEPT ![d] = row]
    PROVE  RowsOK'
BY DEF RowsOK

LEMMA SetJobOK ==
    ASSUME WorkersOK, NEW w \in Workers, NEW job \in Job,
           job.pc # "idle" => job.delivery \in Deliveries /\ job.attempt \in Attempts,
           worker' = [worker EXCEPT ![w] = job]
    PROVE  WorkersOK'
BY DEF WorkersOK

LEMMA GotoOK ==
    ASSUME WorkersOK, NEW w \in Workers, NEW pc \in PCs,
           worker[w].pc # "idle", Goto(w, pc)
    PROVE  WorkersOK'
<1> DEFINE job == [worker[w] EXCEPT !.pc = pc]
<1>1. job \in Job /\ job.delivery = worker[w].delivery
      /\ job.attempt = worker[w].attempt
  BY DEF WorkersOK, Job
<1>2. worker' = [worker EXCEPT ![w] = job]
  BY DEF Goto, WorkersOK
<1> QED
  BY <1>1, <1>2, SetJobOK DEF WorkersOK

LEMMA LeaveOK ==
    ASSUME WorkersOK, NEW w \in Workers, worker' = [worker EXCEPT ![w] = IdleJob]
    PROVE  WorkersOK'
<1>1. IdleJob \in Job /\ IdleJob.pc = "idle"
  BY DEF IdleJob, Job, PCs
<1> QED
  BY <1>1, SetJobOK

LEMMA ClaimTypes ==
    ASSUME TypeOK, NEW w \in Workers, NEW d \in Deliveries, Claim(w, d)
    PROVE  RowsOK' /\ WorkersOK'
<1> DEFINE n == delivery[d].attempts + 1
<1>0. RowsOK /\ WorkersOK /\ delivery[d] \in DeliveryRow
  BY DEF TypeOK, RowsOK, WorkersOK
<1>1. CASE Exhausted(d)
  <2> DEFINE row == [delivery[d] EXCEPT !.status = "failed"]
  <2>1. row \in DeliveryRow /\ row.attempts <= MaxAttempts
    BY <1>0 DEF DeliveryRow, DeliveryStatuses, RowsOK
  <2>2. delivery' = [delivery EXCEPT ![d] = row] /\ worker' = worker
    BY <1>0, <1>1 DEF Claim, RowsOK
  <2> QED
    BY <1>0, <2>1, <2>2, SetRowOK DEF WorkersOK
<1>2. CASE ~Exhausted(d)
  <2> DEFINE row == [delivery[d] EXCEPT !.status = "processing",
                                        !.attempts = n, !.due = FALSE]
             pc == IF d[2] = "send" THEN "check" ELSE "key"
             job == [pc |-> pc, delivery |-> d, attempt |-> n, key |-> FALSE]
  <2>1. n \in Nat /\ n <= MaxAttempts /\ n \in Attempts
    BY <1>0, <1>2, ConstantsAssumption DEF Exhausted, DeliveryRow, Attempts
  <2>2. "processing" \in DeliveryStatuses /\ pc \in PCs
    BY DEF DeliveryStatuses, PCs
  <2>3. row \in DeliveryRow /\ row.attempts = n
    BY <1>0, <2>1, <2>2, Zenon DEF DeliveryRow
  <2>4. job \in Job /\ job.delivery = d /\ job.attempt = n
    BY <2>1, <2>2 DEF Job
  <2>5. delivery' = [delivery EXCEPT ![d] = row]
        /\ worker' = [worker EXCEPT ![w] = job]
    BY <1>2 DEF Claim
  <2> HIDE DEF row, job, pc, n
  <2> QED
    BY <1>0, <2>1, <2>3, <2>4, <2>5, SetRowOK, SetJobOK
<1> QED
  BY <1>1, <1>2

LEMMA RevokeRows ==
    ASSUME RowsOK, NEW m \in Messages, Revoke(m)
    PROVE  RowsOK'
<1> DEFINE s == CancelledSend(delivery[SendOf(m)])
           r == IF NeedsRecall(m) /\ delivery[RevokeOf(m)].status = "absent"
                THEN NewRow ELSE delivery[RevokeOf(m)]
<1>1. /\ delivery[SendOf(m)] \in DeliveryRow
      /\ delivery[SendOf(m)].attempts <= MaxAttempts
      /\ delivery[RevokeOf(m)] \in DeliveryRow
      /\ delivery[RevokeOf(m)].attempts <= MaxAttempts
  BY DeliveryPairs DEF RowsOK
<1>2. s \in DeliveryRow
  BY <1>1, RowTyped
<1>3. s.attempts = delivery[SendOf(m)].attempts
  BY <1>1, RowTyped
<1>4. r \in DeliveryRow /\ r.attempts <= MaxAttempts
  BY <1>1, NewRowTyped, ConstantsAssumption
<1>5. delivery' = [delivery EXCEPT ![SendOf(m)] = s, ![RevokeOf(m)] = r]
  BY <1>1, DeliveryPairs DEF Revoke, RowsOK
<1> HIDE DEF s, r
<1> QED
  BY <1>1, <1>2, <1>3, <1>4, <1>5 DEF RowsOK

LEMMA ArchiveRows ==
    ASSUME RowsOK, ArchiveRetiredWork
    PROVE  RowsOK'
<1> SUFFICES ASSUME NEW d \in Deliveries
             PROVE  /\ CancelledRow(delivery[d], "archived") \in DeliveryRow
                    /\ CancelledRow(delivery[d], "archived").attempts
                         = delivery[d].attempts
  BY DEF ArchiveRetiredWork, RowsOK
<1> QED
  BY RowTyped DEF RowsOK, Reasons

LEMMA MarkRows ==
    ASSUME RowsOK, WorkersOK, NEW w \in Workers,
           MarkDelivered(w) \/ RememberKey(w) \/ MarkFailed(w) \/ Lookup(w)
    PROVE  RowsOK'
<1> DEFINE d == worker[w].delivery
           row == delivery[d]
<1>1. d \in Deliveries /\ d[1] \in Messages
  BY DeliveryPairs DEF MarkDelivered, RememberKey, MarkFailed, Lookup, WorkerAt,
     WorkersOK
<1>2. row \in DeliveryRow /\ row.attempts <= MaxAttempts
  BY <1>1 DEF RowsOK
<1>3. CASE MarkDelivered(w)
  <2> DEFINE new == [row EXCEPT !.status = "delivered", !.due = FALSE,
                                !.key = row.key \/ worker[w].key]
  <2>1. "delivered" \in DeliveryStatuses /\ (row.key \/ worker[w].key) \in BOOLEAN
    BY DEF DeliveryStatuses
  <2>2. new \in DeliveryRow /\ new.attempts = row.attempts
    BY <1>2, <2>1, Zenon DEF DeliveryRow
  <2>3. UNCHANGED delivery \/ delivery' = [delivery EXCEPT ![d] = new]
    BY <1>1, <1>3, Zenon DEF MarkDelivered, Row
  <2> HIDE DEF new
  <2> QED
    BY <1>1, <1>2, <2>2, <2>3, SetRowOK DEF RowsOK
<1>4. CASE RememberKey(w)
  <2> DEFINE new == [row EXCEPT !.key = @ \/ Row(w).status = "cancelled"]
  <2>1. new \in DeliveryRow /\ new.attempts = row.attempts
    BY <1>2 DEF DeliveryRow
  <2>2. delivery' = [delivery EXCEPT ![d] = new]
    BY <1>1, <1>4 DEF RememberKey, RowsOK
  <2> QED
    BY <1>1, <1>2, <2>1, <2>2, SetRowOK
<1>5. CASE MarkFailed(w)
  <2> DEFINE status == IF Exhausted(d) THEN "failed" ELSE "retry"
             new == [row EXCEPT !.status = status, !.due = FALSE]
  <2>1. status \in DeliveryStatuses
    BY DEF DeliveryStatuses
  <2>2. new \in DeliveryRow /\ new.attempts = row.attempts
    BY <1>2, <2>1 DEF DeliveryRow
  <2>3. UNCHANGED delivery \/ delivery' = [delivery EXCEPT ![d] = new]
    BY <1>1, <1>5 DEF MarkFailed, RowsOK
  <2> HIDE DEF new, status
  <2> QED
    BY <1>1, <1>2, <2>2, <2>3, SetRowOK DEF RowsOK
<1>6. CASE Lookup(w)
  <2> DEFINE s == SendOf(d[1])
             new == [delivery[s] EXCEPT !.key = TRUE]
  <2>1. s \in Deliveries /\ delivery[s] \in DeliveryRow
        /\ delivery[s].attempts <= MaxAttempts
    BY <1>1, DeliveryPairs DEF RowsOK
  <2>2. new \in DeliveryRow /\ new.attempts = delivery[s].attempts
    BY <2>1 DEF DeliveryRow
  <2>3. UNCHANGED delivery \/ delivery' = [delivery EXCEPT ![s] = new]
    BY <1>6, <2>1 DEF Lookup, RowsOK
  <2> HIDE DEF s, new
  <2> QED
    BY <2>1, <2>2, <2>3, SetRowOK DEF RowsOK
<1> QED
  BY <1>3, <1>4, <1>5, <1>6

LEMMA JobSteps ==
    ASSUME WorkersOK, NEW w \in Workers,
           \/ ReadKey(w) \/ Lookup(w) \/ Check(w) \/ CallTim(w) \/ Answer(w)
           \/ MarkDelivered(w) \/ RememberKey(w) \/ MarkFailed(w)
           \/ LoseAnswer(w) \/ Crash(w)
    PROVE  WorkersOK'
<1>1. CASE ReadKey(w) \/ Lookup(w) \/ Check(w) \/ CallTim(w) \/ LoseAnswer(w)
  <2>1. worker[w].pc # "idle"
        /\ \E pc \in {"nack", "check", "lookup", "send", "answer"} : Goto(w, pc)
    BY <1>1 DEF ReadKey, Lookup, Check, CallTim, LoseAnswer, WorkerAt
  <2> QED
    BY <2>1, GotoOK DEF PCs
<1>2. CASE Answer(w)
  <2>1. CASE Goto(w, "nack")
    BY <1>2, <2>1, GotoOK DEF Answer, WorkerAt, PCs
  <2>2. CASE \E key \in BOOLEAN :
               worker' = [worker EXCEPT ![w].pc = "ok", ![w].key = key]
    <3>1. PICK key \in BOOLEAN :
               worker' = [worker EXCEPT ![w].pc = "ok", ![w].key = key]
      BY <2>2
    <3> DEFINE job == [worker[w] EXCEPT !.pc = "ok", !.key = key]
    <3>2. job \in Job /\ job.delivery = worker[w].delivery
          /\ job.attempt = worker[w].attempt
      BY DEF WorkersOK, Job, PCs
    <3>3. worker' = [worker EXCEPT ![w] = job]
      BY <3>1 DEF WorkersOK
    <3>4. job.delivery \in Deliveries /\ job.attempt \in Attempts
      BY <1>2, <3>2 DEF WorkersOK, Answer, WorkerAt
    <3> HIDE DEF job
    <3> QED
      BY <3>2, <3>3, <3>4, SetJobOK
  <2> QED
    BY <1>2, <2>1, <2>2 DEF Answer
<1>3. CASE MarkDelivered(w)
  <2>1. CASE worker' = [worker EXCEPT ![w].pc = "remember"]
    BY <1>3, <2>1, GotoOK DEF MarkDelivered, WorkerAt, PCs, Goto
  <2>2. CASE worker' = [worker EXCEPT ![w] = IdleJob]
    BY <2>2, LeaveOK
  <2> QED
    BY <1>3, <2>1, <2>2 DEF MarkDelivered
<1>4. CASE RememberKey(w) \/ MarkFailed(w) \/ Crash(w)
  BY <1>4, LeaveOK DEF RememberKey, MarkFailed, Crash
<1> QED
  BY <1>1, <1>2, <1>3, <1>4

LEMMA NextRows ==
    ASSUME TypeOK, [Next]_vars
    PROVE  RowsOK' /\ WorkersOK'
<1>0. RowsOK /\ WorkersOK
  BY DEF TypeOK, RowsOK, WorkersOK
<1>1. ASSUME NEW w \in Workers, NEW d \in Deliveries, Claim(w, d)
      PROVE  RowsOK' /\ WorkersOK'
  BY <1>1, ClaimTypes
<1>2. ASSUME NEW w \in Workers,
             \/ ReadKey(w) \/ Lookup(w) \/ Check(w) \/ CallTim(w) \/ Answer(w)
             \/ MarkDelivered(w) \/ RememberKey(w) \/ MarkFailed(w)
             \/ LoseAnswer(w) \/ Crash(w)
      PROVE  RowsOK' /\ WorkersOK'
  <2>1. UNCHANGED delivery => RowsOK'
    BY <1>0 DEF RowsOK
  <2>2. RowsOK'
    BY <1>0, <1>2, <2>1, MarkRows
       DEF ReadKey, Check, CallTim, Answer, LoseAnswer, Crash
  <2> QED
    BY <1>0, <1>2, <2>2, JobSteps
<1>3. ASSUME NEW m \in Messages, NEW kind \in Kinds, StoreMessage(m, kind)
      PROVE  RowsOK' /\ WorkersOK'
  <2>1. NewRow \in DeliveryRow /\ NewRow.attempts <= MaxAttempts
    BY NewRowTyped, ConstantsAssumption
  <2> QED
    BY <1>0, <1>3, <2>1, DeliveryPairs, SetRowOK DEF StoreMessage, WorkersOK
<1>4. ASSUME NEW m \in Messages, Revoke(m)
      PROVE  RowsOK' /\ WorkersOK'
  BY <1>0, <1>4, RevokeRows DEF Revoke, WorkersOK
<1>5. ASSUME NEW d \in Deliveries, DeadlinePasses(d)
      PROVE  RowsOK' /\ WorkersOK'
  <2> DEFINE row == [delivery[d] EXCEPT !.due = TRUE]
  <2>1. row \in DeliveryRow /\ row.attempts <= MaxAttempts
    BY <1>0 DEF RowsOK, DeliveryRow
  <2>2. delivery' = [delivery EXCEPT ![d] = row]
    BY <1>0, <1>5 DEF DeadlinePasses, RowsOK
  <2> QED
    BY <1>0, <1>5, <2>1, <2>2, SetRowOK DEF DeadlinePasses, WorkersOK
<1>6. ASSUME NEW d \in Deliveries, FailExhausted(d)
      PROVE  RowsOK' /\ WorkersOK'
  <2> DEFINE row == [delivery[d] EXCEPT !.status = "failed"]
  <2>1. row \in DeliveryRow /\ row.attempts <= MaxAttempts
    BY <1>0 DEF RowsOK, DeliveryRow, DeliveryStatuses
  <2>2. delivery' = [delivery EXCEPT ![d] = row]
    BY <1>0, <1>6 DEF FailExhausted, RowsOK
  <2> QED
    BY <1>0, <1>6, <2>1, <2>2, SetRowOK DEF FailExhausted, WorkersOK
<1>7. CASE UNCHANGED <<delivery, worker>>
  BY <1>0, <1>7 DEF RowsOK, WorkersOK
<1>8. CASE ArchiveRetiredWork
  BY <1>0, <1>8, ArchiveRows DEF ArchiveRetiredWork, WorkersOK
<1> QED
  BY <1>1, <1>2, <1>3, <1>4, <1>5, <1>6, <1>7, <1>8
     DEF Next, WorkerStep, vars, SetMode, TimHandles

\* Which actions write what.
LEMMA Frames ==
    ASSUME [Next]_vars
    PROVE  /\ \/ UNCHANGED message
              \/ \E m \in Messages : Revoke(m)
              \/ \E m \in Messages, kind \in Kinds : StoreMessage(m, kind)
           /\ \/ UNCHANGED <<request, tim>>
              \/ \E w \in Workers : CallTim(w)
              \/ \E d \in Deliveries, n \in Attempts : TimHandles(d, n)
           /\ \/ mode' = mode \/ mode' \in Modes
           /\ faults' = faults \/ \E kind \in MayFail : faults' = faults \cup {kind}
<1>1. ASSUME NEW w \in Workers, WorkerStep(w) \/ LoseAnswer(w) \/ Crash(w)
      PROVE  /\ UNCHANGED <<message, mode>>
             /\ faults' = faults \/ \E kind \in MayFail : faults' = faults \cup {kind}
             /\ UNCHANGED <<request, tim>> \/ CallTim(w)
  BY <1>1 DEF WorkerStep, Claim, ReadKey, Lookup, Check, CallTim, Answer, LoseAnswer,
     MarkDelivered, RememberKey, MarkFailed, Crash, Fail
<1>2. ASSUME NEW m \in Messages, NEW kind \in Kinds,
             Revoke(m) \/ StoreMessage(m, kind)
      PROVE  UNCHANGED <<request, tim, mode, faults>>
  BY <1>2 DEF Revoke, StoreMessage
<1>3. ASSUME NEW d \in Deliveries, DeadlinePasses(d) \/ FailExhausted(d)
      PROVE  UNCHANGED <<message, request, tim, mode, faults>>
  BY <1>3 DEF DeadlinePasses, FailExhausted
<1>4. ASSUME NEW d \in Deliveries, NEW n \in Attempts, TimHandles(d, n)
      PROVE  UNCHANGED <<message, mode, faults>>
  BY <1>4 DEF TimHandles
<1>5. ASSUME NEW next \in Modes, SetMode(next)
      PROVE  UNCHANGED <<message, request, tim, faults>> /\ mode' \in Modes
  BY <1>5 DEF SetMode
<1>6. CASE ArchiveRetiredWork \/ UNCHANGED vars
  BY <1>6 DEF ArchiveRetiredWork, vars
<1>7. CASE \E w \in Workers : WorkerStep(w) \/ LoseAnswer(w) \/ Crash(w)
  BY <1>1, <1>7
<1>8. CASE \E m \in Messages, kind \in Kinds : Revoke(m) \/ StoreMessage(m, kind)
  BY <1>2, <1>8
<1>9. CASE \E d \in Deliveries : \/ DeadlinePasses(d) \/ FailExhausted(d)
                                \/ \E n \in Attempts : TimHandles(d, n)
  BY <1>3, <1>4, <1>9
<1>10. CASE \E next \in Modes : SetMode(next)
  BY <1>5, <1>10
<1> QED
  BY <1>6, <1>7, <1>8, <1>9, <1>10 DEF Next, Kinds

LEMMA NextRequests ==
    ASSUME TypeOK, [Next]_vars
    PROVE  /\ request' \in [Deliveries -> [Attempts ->
                             {"none", "sent", "accepted", "rejected"}]]
           /\ tim' \in [Messages -> {"absent", "present", "recalled"}]
<1>1. ASSUME NEW w \in Workers, CallTim(w)
      PROVE  request' \in [Deliveries -> [Attempts ->
                             {"none", "sent", "accepted", "rejected"}]]
             /\ tim' = tim
  BY <1>1 DEF CallTim, TypeOK
<1>2. ASSUME NEW d \in Deliveries, NEW n \in Attempts, TimHandles(d, n)
      PROVE  /\ request' \in [Deliveries -> [Attempts ->
                             {"none", "sent", "accepted", "rejected"}]]
             /\ tim' \in [Messages -> {"absent", "present", "recalled"}]
  <2>1. d[1] \in Messages
    BY DeliveryPairs
  <2>2. request' = [request EXCEPT ![d][n] = "accepted"]
        \/ request' = [request EXCEPT ![d][n] = "rejected"]
    BY <1>2 DEF TimHandles
  <2>3. request' \in [Deliveries -> [Attempts ->
                             {"none", "sent", "accepted", "rejected"}]]
    BY <2>2 DEF TypeOK
  <2>4. tim' = tim \/ \E v \in {"recalled", "present", tim[d[1]]} :
                         tim' = [tim EXCEPT ![d[1]] = v]
    BY <1>2 DEF TimHandles
  <2> QED
    BY <2>1, <2>3, <2>4 DEF TypeOK
<1>3. CASE UNCHANGED <<request, tim>>
  BY <1>3 DEF TypeOK
<1> QED
  BY <1>1, <1>2, <1>3, Frames DEF TypeOK

LEMMA NextTypes ==
    ASSUME TypeOK, [Next]_vars
    PROVE  TypeOK'
<1>1. message' \in [Messages -> [kind : Kinds,
                                 status : {"absent", "accepted", "revoked"}]]
  <2>1. ASSUME NEW m \in Messages, NEW kind \in Kinds, StoreMessage(m, kind)
        PROVE  message' = [message EXCEPT ![m] =
                             [kind |-> kind, status |-> "accepted"]]
    BY <2>1 DEF StoreMessage
  <2>2. ASSUME NEW m \in Messages, Revoke(m)
        PROVE  message' = [message EXCEPT ![m].status = "revoked"]
    BY <2>2 DEF Revoke
  <2>3. CASE UNCHANGED message
    BY <2>3 DEF TypeOK
  <2>4. CASE \E m \in Messages : Revoke(m)
    BY <2>2, <2>4 DEF TypeOK
  <2>5. CASE \E m \in Messages, kind \in Kinds : StoreMessage(m, kind)
    BY <2>1, <2>5 DEF TypeOK
  <2> QED
    BY <2>3, <2>4, <2>5, Frames
<1>2. mode' \in Modes /\ faults' \in SUBSET FaultKinds
  BY Frames, ConstantsAssumption DEF TypeOK
<1> QED
  BY <1>1, <1>2, NextRows, NextRequests DEF TypeOK, RowsOK, WorkersOK

\* Every reachable state is well typed, and no delivery is claimed more often
\* than its max_attempts allows.
THEOREM TypeCorrect == Spec => []TypeOK
<1>1. Init => TypeOK
  BY InitClaimInv DEF ClaimInv
<1>2. TypeOK /\ [Next]_vars => TypeOK'
  BY NextTypes
<1> QED
  BY <1>1, <1>2, PTL DEF Spec

-----------------------------------------------------------------------------
(* One job per delivery *)

\* A step that moves no worker and keeps the rows workers are on keeps OneJob.
LEMMA OthersKeepJobs ==
    ASSUME ClaimInv, worker' = worker,
           \A w \in Workers : worker[w].pc # "idle" =>
             LET old == Row(w) new == delivery'[worker[w].delivery] IN
             /\ new.status \in {"processing", "cancelled"}
             /\ ~new.due /\ new.attempts = old.attempts
    PROVE  OneJob' /\ IdleIsFree'
BY DEF ClaimInv, OneJob, IdleIsFree, Row

\* A worker that goes on with its row.
LEMMA JobGoesOn ==
    ASSUME ClaimInv, NEW w \in Workers, worker[w].pc # "idle",
           \A d \in Deliveries : /\ delivery'[d].status = delivery[d].status
                                 /\ delivery'[d].due = delivery[d].due
                                 /\ delivery'[d].attempts = delivery[d].attempts,
           NEW job \in Job, worker' = [worker EXCEPT ![w] = job],
           job.pc # "idle", job.delivery = worker[w].delivery,
           job.attempt = worker[w].attempt
    PROVE  OneJob' /\ IdleIsFree'
<1>1. \A v \in Workers : /\ worker'[v].delivery = worker[v].delivery
                         /\ worker'[v].attempt = worker[v].attempt
                         /\ worker'[v].pc = "idle" <=> worker[v].pc = "idle"
  BY DEF ClaimInv, TypeOK
<1>2. \A v \in Workers : worker[v].pc # "idle" => worker[v].delivery \in Deliveries
  BY DEF ClaimInv, TypeOK
<1> QED
  BY <1>1, <1>2 DEF ClaimInv, OneJob, IdleIsFree, Row

\* A worker that leaves, having written at most its own row.
LEMMA JobEnds ==
    ASSUME ClaimInv, NEW w \in Workers, worker[w].pc # "idle",
           worker' = [worker EXCEPT ![w] = IdleJob],
           \A d \in Deliveries :
             d # worker[w].delivery => delivery'[d] = delivery[d]
    PROVE  OneJob' /\ IdleIsFree'
<1>1. IdleJob.pc = "idle" /\ IdleJob.delivery = NoDelivery
  BY DEF IdleJob
<1>2. worker'[w] = IdleJob /\ \A v \in Workers \ {w} : worker'[v] = worker[v]
  BY DEF ClaimInv, TypeOK
<1>3. \A v \in Workers \ {w} : worker[v].pc # "idle" =>
         /\ worker[v].delivery \in Deliveries
         /\ worker[v].delivery # worker[w].delivery
  BY DEF ClaimInv, TypeOK, OneJob
<1>4. NoDelivery \notin Deliveries
  BY DeliveryPairs
<1> QED
  BY <1>1, <1>2, <1>3, <1>4 DEF ClaimInv, OneJob, IdleIsFree, Row

LEMMA ClaimKeepsJobs ==
    ASSUME ClaimInv, NEW w \in Workers, NEW d \in Deliveries, Claim(w, d)
    PROVE  OneJob' /\ IdleIsFree'
<1>1. \A v \in Workers : worker[v].delivery # d
  <2> SUFFICES ASSUME NEW v \in Workers, worker[v].delivery = d
               PROVE  FALSE
    OBVIOUS
  <2>1. worker[v].pc # "idle"
    BY DeliveryPairs DEF ClaimInv, IdleIsFree
  <2> QED
    BY <2>1 DEF ClaimInv, OneJob, Row, Claim, Due
<1>2. delivery[d] \in DeliveryRow /\ delivery \in [Deliveries -> DeliveryRow]
      /\ worker \in [Workers -> Job]
  BY DEF ClaimInv, TypeOK
<1>3. \A v \in Workers : worker[v].pc # "idle" =>
         /\ worker[v].delivery \in Deliveries
  BY DEF ClaimInv, TypeOK
<1>4. CASE Exhausted(d)
  <2>1. worker' = worker /\ \A e \in Deliveries \ {d} : delivery'[e] = delivery[e]
    BY <1>2, <1>4 DEF Claim
  <2> QED
    BY <1>1, <1>3, <2>1 DEF ClaimInv, OneJob, IdleIsFree, Row
<1>5. CASE ~Exhausted(d)
  <2> DEFINE n == delivery[d].attempts + 1
             row == [delivery[d] EXCEPT !.status = "processing",
                                        !.attempts = n, !.due = FALSE]
             pc == IF d[2] = "send" THEN "check" ELSE "key"
             job == [pc |-> pc, delivery |-> d, attempt |-> n, key |-> FALSE]
  <2>1. delivery' = [delivery EXCEPT ![d] = row]
        /\ worker' = [worker EXCEPT ![w] = job]
    BY <1>5 DEF Claim
  <2>2. job.pc # "idle" /\ job.delivery = d /\ job.attempt = n
    OBVIOUS
  <2>3. row.status = "processing" /\ row.attempts = n /\ row.due = FALSE
    BY <1>2, Zenon DEF DeliveryRow
  <2> HIDE DEF row, job, n, pc
  <2>4. /\ delivery'[d] = row /\ worker'[w] = job
        /\ \A e \in Deliveries \ {d} : delivery'[e] = delivery[e]
        /\ \A v \in Workers \ {w} : worker'[v] = worker[v]
    BY <1>2, <2>1
  <2> QED
    BY <1>1, <1>3, <2>2, <2>3, <2>4 DEF ClaimInv, OneJob, IdleIsFree, Row
<1> QED
  BY <1>4, <1>5

LEMMA StepKeepsJobs ==
    ASSUME ClaimInv, NEW w \in Workers,
           \/ ReadKey(w) \/ Lookup(w) \/ Check(w) \/ CallTim(w) \/ Answer(w)
           \/ MarkDelivered(w) \/ RememberKey(w) \/ MarkFailed(w)
           \/ LoseAnswer(w) \/ Crash(w)
    PROVE  OneJob' /\ IdleIsFree'
<1>0. /\ delivery \in [Deliveries -> DeliveryRow]
      /\ worker \in [Workers -> Job] /\ worker[w] \in Job
      /\ worker[w].pc # "idle"
  BY DEF ClaimInv, TypeOK, ReadKey, Lookup, Check, CallTim, Answer, LoseAnswer,
     MarkDelivered, RememberKey, MarkFailed, Crash, WorkerAt
<1>1. ASSUME NEW pc \in PCs \ {"idle"}, NEW key \in BOOLEAN,
             worker' = [worker EXCEPT ![w].pc = pc, ![w].key = key],
             delivery' = delivery
      PROVE  OneJob' /\ IdleIsFree'
  <2> DEFINE job == [worker[w] EXCEPT !.pc = pc, !.key = key]
  <2>1. /\ job \in Job /\ job.pc = pc /\ job.delivery = worker[w].delivery
        /\ job.attempt = worker[w].attempt
    BY <1>0 DEF Job
  <2>2. worker' = [worker EXCEPT ![w] = job]
    BY <1>0, <1>1
  <2> HIDE DEF job
  <2> QED
    BY <1>0, <1>1, <2>1, <2>2, JobGoesOn
<1>2. ASSUME NEW pc \in PCs \ {"idle"}, Goto(w, pc),
             \A d \in Deliveries : /\ delivery'[d].status = delivery[d].status
                                   /\ delivery'[d].due = delivery[d].due
                                   /\ delivery'[d].attempts = delivery[d].attempts
      PROVE  OneJob' /\ IdleIsFree'
  <2> DEFINE job == [worker[w] EXCEPT !.pc = pc]
  <2>1. /\ job \in Job /\ job.pc = pc /\ job.delivery = worker[w].delivery
        /\ job.attempt = worker[w].attempt
    BY <1>0 DEF Job
  <2>2. worker' = [worker EXCEPT ![w] = job]
    BY <1>0, <1>2 DEF Goto
  <2> HIDE DEF job
  <2> QED
    BY <1>0, <1>2, <2>1, <2>2, JobGoesOn
<1>3. CASE \/ ReadKey(w) \/ Check(w) \/ CallTim(w) \/ LoseAnswer(w)
           \/ Lookup(w) /\ UNCHANGED delivery
  <2>1. delivery' = delivery
        /\ \E pc \in {"nack", "check", "lookup", "send", "answer"} : Goto(w, pc)
    BY <1>3 DEF ReadKey, Lookup, Check, CallTim, LoseAnswer
  <2> QED
    BY <1>2, <2>1 DEF PCs
<1>4. CASE Lookup(w) /\ delivery' # delivery
  <2> DEFINE s == SendOf(worker[w].delivery[1])
             row == [delivery[s] EXCEPT !.key = TRUE]
  <2>1. Goto(w, "check") /\ delivery' = [delivery EXCEPT ![s] = row]
    BY <1>0, <1>4 DEF Lookup
  <2>2. s \in Deliveries
    BY <1>0, DeliveryPairs DEF ClaimInv, TypeOK
  <2>3. /\ row.status = delivery[s].status /\ row.due = delivery[s].due
        /\ row.attempts = delivery[s].attempts
    BY <1>0, <2>2 DEF DeliveryRow
  <2> HIDE DEF row, s
  <2> QED
    BY <1>0, <1>2, <2>1, <2>2, <2>3 DEF PCs
<1>5. CASE Answer(w)
  <2>1. delivery' = delivery
    BY <1>5 DEF Answer
  <2>2. CASE Goto(w, "nack")
    BY <1>2, <2>1, <2>2 DEF PCs
  <2>3. CASE \E key \in BOOLEAN :
               worker' = [worker EXCEPT ![w].pc = "ok", ![w].key = key]
    BY <1>1, <2>1, <2>3 DEF PCs
  <2> QED
    BY <1>5, <2>2, <2>3 DEF Answer
<1>6. CASE MarkDelivered(w) /\ worker' = [worker EXCEPT ![w].pc = "remember"]
  <2>1. delivery' = delivery
    <3>1. IsProcessing(w) => worker' = [worker EXCEPT ![w] = IdleJob]
      BY <1>6 DEF MarkDelivered
    <3>2. IdleJob.pc = "idle"
      BY DEF IdleJob
    <3>3. ~IsProcessing(w)
      <4>1. worker'[w].pc = "remember"
        BY <1>0, <1>6 DEF Job
      <4> QED
        BY <1>0, <3>1, <3>2, <4>1
    <3> QED
      BY <1>6, <3>3 DEF MarkDelivered
  <2> QED
    BY <1>2, <1>6, <2>1 DEF PCs, Goto
<1>7. CASE /\ \/ MarkDelivered(w) \/ RememberKey(w)
              \/ MarkFailed(w) \/ Crash(w)
           /\ worker' = [worker EXCEPT ![w] = IdleJob]
  <2>1. \A d \in Deliveries :
             d # worker[w].delivery => delivery'[d] = delivery[d]
    BY <1>0, <1>7 DEF MarkDelivered, RememberKey, MarkFailed, Crash
  <2> QED
    BY <1>0, <1>7, <2>1, JobEnds
<1>8. CASE MarkDelivered(w) \/ RememberKey(w) \/ MarkFailed(w) \/ Crash(w)
  <2>1. \/ worker' = [worker EXCEPT ![w] = IdleJob]
        \/ MarkDelivered(w) /\ worker' = [worker EXCEPT ![w].pc = "remember"]
    BY <1>8 DEF MarkDelivered, RememberKey, MarkFailed, Crash
  <2> QED
    BY <1>6, <1>7, <1>8, <2>1
<1>9. CASE Lookup(w)
  <2>1. CASE UNCHANGED delivery
    BY <1>3, <1>9, <2>1
  <2>2. CASE ~(UNCHANGED delivery)
    BY <1>4, <1>9, <2>2
  <2> QED
    BY <2>1, <2>2
<1>10. CASE ReadKey(w) \/ Check(w) \/ CallTim(w) \/ LoseAnswer(w)
  BY <1>3, <1>10
<1> QED
  BY <1>5, <1>8, <1>9, <1>10

LEMMA UserKeepsJobs ==
    ASSUME ClaimInv,
           \/ \E m \in Messages : Revoke(m)
           \/ \E m \in Messages, kind \in Kinds : StoreMessage(m, kind)
           \/ ArchiveRetiredWork
    PROVE  OneJob' /\ IdleIsFree'
<1>0. /\ delivery \in [Deliveries -> DeliveryRow]
      /\ \A w \in Workers : worker[w].pc # "idle" =>
           /\ worker[w].delivery \in Deliveries
           /\ Row(w) \in DeliveryRow
           /\ Row(w).status \in {"processing", "cancelled"}
           /\ ~Row(w).due
  BY DEF ClaimInv, TypeOK, OneJob, Row
<1>1. ASSUME NEW m \in Messages, Revoke(m)
      PROVE  OneJob' /\ IdleIsFree'
  <2> DEFINE s == CancelledSend(delivery[SendOf(m)])
             r == IF NeedsRecall(m) /\ delivery[RevokeOf(m)].status = "absent"
                  THEN NewRow ELSE delivery[RevokeOf(m)]
  <2>1. /\ delivery'[SendOf(m)] = s /\ delivery'[RevokeOf(m)] = r
        /\ \A d \in Deliveries \ {SendOf(m), RevokeOf(m)} :
             delivery'[d] = delivery[d]
    BY <1>0, <1>1, DeliveryPairs DEF Revoke
  <2>2. ASSUME NEW w \in Workers, worker[w].pc # "idle",
               worker[w].delivery = SendOf(m)
        PROVE  /\ s.status \in {"processing", "cancelled"}
               /\ ~s.due /\ s.attempts = Row(w).attempts
    <3>1. s = Row(w) \/ s = CancelledRow(Row(w), "inflight")
      BY <1>0, <2>2 DEF CancelledSend, Row
    <3>2. /\ Row(w) \in DeliveryRow /\ "inflight" \in Reasons
          /\ Row(w).status \in {"processing", "cancelled"} /\ ~Row(w).due
      BY <1>0, <2>2 DEF Reasons
    <3> HIDE DEF s
    <3> QED
      BY <3>1, <3>2, CancelledKeeps, Zenon
  <2>3. ASSUME NEW w \in Workers, worker[w].pc # "idle",
               worker[w].delivery = RevokeOf(m)
        PROVE  r = Row(w)
    BY <1>0, <2>3 DEF Row
  <2>4. worker' = worker
    BY <1>1 DEF Revoke
  <2> HIDE DEF s, r
  <2> QED
    BY <1>0, <2>1, <2>2, <2>3, <2>4, OthersKeepJobs DEF Row
<1>2. ASSUME NEW m \in Messages, NEW kind \in Kinds, StoreMessage(m, kind)
      PROVE  OneJob' /\ IdleIsFree'
  <2>1. worker' = worker /\ \A d \in Deliveries \ {SendOf(m)} :
                               delivery'[d] = delivery[d]
    BY <1>0, <1>2 DEF StoreMessage
  <2>2. CASE \A w \in Workers :
               worker[w].pc # "idle" => worker[w].delivery # SendOf(m)
    BY <1>0, <2>1, <2>2, OthersKeepJobs DEF Row
  <2>3. CASE \E w \in Workers :
               worker[w].pc # "idle" /\ worker[w].delivery = SendOf(m)
    <3>1. delivery[SendOf(m)].status # "absent"
      BY <1>0, <2>3 DEF Row
    <3> QED
      BY <1>2, <3>1 DEF StoreMessage, ClaimInv, RowsOfStored
  <2> QED
    BY <2>2, <2>3
<1>3. CASE ArchiveRetiredWork
  <2>1. worker' = worker
    BY <1>3 DEF ArchiveRetiredWork
  <2>2. ASSUME NEW w \in Workers, worker[w].pc # "idle"
        PROVE  /\ delivery'[worker[w].delivery].status = "cancelled"
               /\ ~delivery'[worker[w].delivery].due
               /\ delivery'[worker[w].delivery].attempts = Row(w).attempts
    <3>1. delivery'[worker[w].delivery]
            \in {Row(w), CancelledRow(Row(w), "archived")}
          /\ (Row(w).status = "processing" =>
                delivery'[worker[w].delivery] = CancelledRow(Row(w), "archived"))
      BY <1>0, <1>3, <2>2 DEF ArchiveRetiredWork, Row
    <3>2. /\ Row(w) \in DeliveryRow /\ "archived" \in Reasons
          /\ Row(w).status \in {"processing", "cancelled"} /\ ~Row(w).due
      BY <1>0, <2>2 DEF Reasons
    <3>3. /\ CancelledRow(Row(w), "archived").status = "cancelled"
          /\ ~CancelledRow(Row(w), "archived").due
          /\ CancelledRow(Row(w), "archived").attempts = Row(w).attempts
      BY <3>2, CancelledKeeps, RowTyped
    <3> QED
      BY <3>1, <3>2, <3>3
  <2> QED
    BY <2>1, <2>2, OthersKeepJobs
<1> QED
  BY <1>1, <1>2, <1>3
-----------------------------------------------------------------------------
(* How the status of a row moves *)

Stored(d) == \E m \in Messages, kind \in Kinds :
                 StoreMessage(m, kind) /\ d = SendOf(m)
Revoked(d) == \E m \in Messages : Revoke(m) /\ d = RevokeOf(m)

Marked(d) == \E w \in Workers : MarkDelivered(w) /\ d = worker[w].delivery

\* What a step may do to the status of a row.
StatusStep(d) ==
    LET old == delivery[d].status new == delivery'[d].status IN
    /\ old \in {"delivered", "cancelled"} => new = old
    /\ old = "failed" => new \in {"failed", "cancelled"}
    /\ old = "absent" => new = "absent" \/ Stored(d) \/ Revoked(d)
    /\ new = "absent" => old = "absent"
    /\ new = "delivered" => old = "delivered" \/ Marked(d)

LEMMA WriteBackStatus ==
    ASSUME ClaimInv, NEW w \in Workers, NEW d \in Deliveries,
           MarkDelivered(w) \/ RememberKey(w) \/ MarkFailed(w)
    PROVE  StatusStep(d)
<1> DEFINE e == worker[w].delivery
<1>1. /\ delivery \in [Deliveries -> DeliveryRow] /\ e \in Deliveries
      /\ delivery[e].status \in {"processing", "cancelled"}
  BY DEF ClaimInv, TypeOK, OneJob, MarkDelivered, RememberKey, MarkFailed,
     WorkerAt, Row
<1>2. CASE d # e
  <2>1. delivery'[d] = delivery[d]
    BY <1>1, <1>2 DEF MarkDelivered, RememberKey, MarkFailed
  <2> QED
    BY <2>1 DEF StatusStep
<1>3. CASE d = e /\ ~IsProcessing(w)
  <2>1. delivery'[d].status = delivery[d].status
    BY <1>1, <1>3 DEF MarkDelivered, RememberKey, MarkFailed, DeliveryRow
  <2> QED
    BY <2>1 DEF StatusStep
<1>4. CASE d = e /\ IsProcessing(w)
  <2>1. delivery[d].status = "processing"
    BY <1>4 DEF IsProcessing, Row
  <2>2. CASE MarkDelivered(w)
    <3>1. delivery'[d].status = "delivered"
      <4> DEFINE row == [delivery[d] EXCEPT !.status = "delivered", !.due = FALSE,
                           !.key = delivery[d].key \/ worker[w].key]
      <4>1. row.status = "delivered"
        BY <1>1, <1>4, Zenon DEF DeliveryRow
      <4>2. delivery' = [delivery EXCEPT ![d] = row]
        BY <1>4, <2>2 DEF MarkDelivered, Row
      <4> HIDE DEF row
      <4> QED
        BY <1>1, <1>4, <4>1, <4>2
    <3> QED
      BY <1>4, <2>1, <2>2, <3>1 DEF StatusStep, Marked
  <2>3. CASE RememberKey(w) \/ MarkFailed(w)
    <3>1. delivery'[d].status \notin {"absent", "delivered"}
      BY <1>1, <1>4, <2>1, <2>3 DEF RememberKey, MarkFailed, DeliveryRow
    <3> QED
      BY <2>1, <3>1 DEF StatusStep
  <2> QED
    BY <2>2, <2>3
<1> QED
  BY <1>2, <1>3, <1>4

LEMMA StatusSteps ==
    ASSUME ClaimInv, [Next]_vars, NEW d \in Deliveries
    PROVE  StatusStep(d)
<1>0. delivery \in [Deliveries -> DeliveryRow] /\ delivery[d] \in DeliveryRow
  BY DEF ClaimInv, TypeOK
<1>1. CASE delivery'[d].status = delivery[d].status
  BY <1>1 DEF StatusStep
<1>2. ASSUME NEW m \in Messages, NEW kind \in Kinds, StoreMessage(m, kind)
      PROVE  StatusStep(d)
  <2>1. CASE d # SendOf(m)
    BY <1>0, <1>1, <1>2, <2>1 DEF StoreMessage
  <2>2. CASE d = SendOf(m)
    <3>1. delivery'[d].status # "delivered" /\ delivery[d].status = "absent"
      BY <1>0, <1>2, <2>2 DEF StoreMessage, ClaimInv, RowsOfStored, NewRow, AbsentRow
    <3> QED
      BY <1>2, <2>2, <3>1 DEF StatusStep, Stored
  <2> QED
    BY <2>1, <2>2
<1>3. ASSUME NEW m \in Messages, Revoke(m)
      PROVE  StatusStep(d)
  <2>1. CASE d \notin {SendOf(m), RevokeOf(m)}
    BY <1>0, <1>1, <1>3, <2>1 DEF Revoke
  <2>2. CASE d = SendOf(m)
    <3>1. delivery'[d] = CancelledSend(delivery[d])
      BY <1>0, <1>3, <2>2, DeliveryPairs DEF Revoke
    <3>2. \/ delivery'[d] = delivery[d]
          \/ /\ delivery'[d].status = "cancelled"
             /\ delivery[d].status \in {"pending", "retry", "failed", "processing"}
      BY <1>0, <3>1 DEF CancelledSend, CancelledRow, DeliveryRow
    <3> QED
      BY <3>2 DEF StatusStep
  <2>3. CASE d = RevokeOf(m)
    <3>1. \/ delivery'[d] = delivery[d]
          \/ delivery[d].status = "absent" /\ delivery'[d].status # "delivered"
      BY <1>0, <1>3, <2>3, DeliveryPairs DEF Revoke, NewRow, AbsentRow
    <3> QED
      BY <1>1, <1>3, <2>3, <3>1 DEF StatusStep, Revoked
  <2> QED
    BY <2>1, <2>2, <2>3
<1>4. ASSUME NEW e \in Deliveries, NEW w \in Workers,
             Claim(w, e)
      PROVE  StatusStep(d)
  <2>1. CASE d # e
    BY <1>0, <1>1, <1>4, <2>1 DEF Claim
  <2>2. CASE d = e
    <3>1. /\ delivery[d].status \in {"pending", "retry", "processing"}
          /\ delivery'[d].status \notin {"absent", "delivered"}
      <4> DEFINE row == [delivery[d] EXCEPT !.status = "processing",
                           !.attempts = delivery[d].attempts + 1, !.due = FALSE]
      <4>1. \/ delivery' = [delivery EXCEPT ![d].status = "failed"]
            \/ delivery' = [delivery EXCEPT ![d] = row]
        BY <1>4, <2>2 DEF Claim
      <4>2. row.status = "processing"
        BY <1>0, Zenon DEF DeliveryRow
      <4> HIDE DEF row
      <4>3. delivery'[d].status \notin {"absent", "delivered"}
        BY <1>0, <4>1, <4>2 DEF DeliveryRow
      <4> QED
        BY <1>4, <2>2, <4>3 DEF Claim, Due
    <3> QED
      BY <3>1 DEF StatusStep
  <2> QED
    BY <2>1, <2>2
<1>5. ASSUME NEW e \in Deliveries, DeadlinePasses(e) \/ FailExhausted(e)
      PROVE  StatusStep(d)
  <2>1. CASE d # e
    BY <1>0, <1>1, <1>5, <2>1 DEF DeadlinePasses, FailExhausted
  <2>2. CASE d = e
    <3>1. /\ delivery[d].status \in {"pending", "retry", "processing"}
          /\ delivery'[d].status \notin {"absent", "delivered"}
      BY <1>0, <1>5, <2>2 DEF DeadlinePasses, FailExhausted, Due, DeliveryRow
    <3> QED
      BY <3>1 DEF StatusStep
  <2> QED
    BY <2>1, <2>2
<1>6. ASSUME NEW w \in Workers,
             MarkDelivered(w) \/ RememberKey(w) \/ MarkFailed(w)
      PROVE  StatusStep(d)
  BY <1>6, WriteBackStatus
<1>7. ASSUME NEW w \in Workers, Lookup(w)
      PROVE  StatusStep(d)
  <2>1. delivery'[d].status = delivery[d].status
    BY <1>0, <1>7 DEF Lookup, DeliveryRow
  <2> QED
    BY <1>1, <2>1
<1>8. ASSUME NEW w \in Workers,
             \/ ReadKey(w) \/ Check(w) \/ CallTim(w) \/ Answer(w)
             \/ LoseAnswer(w) \/ Crash(w)
      PROVE  StatusStep(d)
  BY <1>1, <1>8 DEF ReadKey, Check, CallTim, Answer, LoseAnswer, Crash
<1>9. ASSUME NEW e \in Deliveries, NEW n \in Attempts, TimHandles(e, n)
      PROVE  StatusStep(d)
  BY <1>1, <1>9 DEF TimHandles
<1>10. ASSUME NEW next \in Modes, SetMode(next)
       PROVE  StatusStep(d)
  BY <1>1, <1>10 DEF SetMode
<1>11. CASE ArchiveRetiredWork
  <2>1. \/ delivery'[d] = delivery[d]
        \/ /\ delivery[d].status \notin {"absent", "delivered", "cancelled"}
           /\ delivery'[d] = CancelledRow(delivery[d], "archived")
    BY <1>0, <1>11 DEF ArchiveRetiredWork
  <2>2. CancelledRow(delivery[d], "archived").status = "cancelled"
    BY <1>0, RowTyped DEF Reasons
  <2> QED
    BY <2>1, <2>2 DEF StatusStep
<1>12. CASE UNCHANGED vars
  BY <1>1, <1>12 DEF vars
<1>13. CASE \E w \in Workers : WorkerStep(w) \/ LoseAnswer(w) \/ Crash(w)
  BY <1>4, <1>6, <1>7, <1>8, <1>13 DEF WorkerStep
<1>14. CASE \E e \in Deliveries : \/ DeadlinePasses(e) \/ FailExhausted(e)
                                 \/ \E n \in Attempts : TimHandles(e, n)
  BY <1>5, <1>9, <1>14
<1> QED
  BY <1>2, <1>3, <1>10, <1>11, <1>12, <1>13, <1>14 DEF Next

LEMMA StoredKept == ClaimInv /\ [Next]_vars => RowsOfStored'
<1> SUFFICES ASSUME ClaimInv, [Next]_vars, NEW m \in Messages,
                    message'[m].status = "absent"
             PROVE  /\ delivery'[SendOf(m)].status = "absent"
                    /\ delivery'[RevokeOf(m)].status = "absent"
  BY DEF RowsOfStored
<1>0. message \in [Messages -> [kind : Kinds,
                                status : {"absent", "accepted", "revoked"}]]
  BY DEF ClaimInv, TypeOK
<1>1. \A k \in Kinds : ~StoreMessage(m, k)
  BY <1>0 DEF StoreMessage
<1>2. ~Revoke(m)
  BY <1>0 DEF Revoke
<1>3. message[m].status = "absent"
  <2>1. ASSUME NEW k \in Messages, Revoke(k)
        PROVE  message'[m] = message[m]
    BY <1>0, <1>2, <2>1 DEF Revoke
  <2>2. ASSUME NEW k \in Messages, NEW kind \in Kinds, StoreMessage(k, kind)
        PROVE  message'[m] = message[m]
    BY <1>0, <1>1, <2>2 DEF StoreMessage
  <2> QED
    BY <2>1, <2>2, Frames
<1>4. delivery[SendOf(m)].status = "absent" /\ delivery[RevokeOf(m)].status = "absent"
  BY <1>3 DEF ClaimInv, RowsOfStored
<1>5. \A k \in Messages : /\ (SendOf(m) = SendOf(k) => k = m)
                          /\ (RevokeOf(m) = RevokeOf(k) => k = m)
                          /\ SendOf(m) # RevokeOf(k)
                          /\ RevokeOf(m) # SendOf(k)
  BY DEF SendOf, RevokeOf
<1>6. ~Stored(SendOf(m)) /\ ~Stored(RevokeOf(m))
  BY <1>1, <1>5 DEF Stored
<1>7. ~Revoked(SendOf(m)) /\ ~Revoked(RevokeOf(m))
  BY <1>2, <1>5 DEF Revoked
<1>8. StatusStep(SendOf(m)) /\ StatusStep(RevokeOf(m))
  BY StatusSteps, DeliveryPairs
<1> QED
  BY <1>4, <1>6, <1>7, <1>8 DEF StatusStep

LEMMA JobsKept == ClaimInv /\ [Next]_vars => OneJob' /\ IdleIsFree'
<1> SUFFICES ASSUME ClaimInv, [Next]_vars
             PROVE  OneJob' /\ IdleIsFree'
  OBVIOUS
<1>0. /\ delivery \in [Deliveries -> DeliveryRow]
      /\ \A w \in Workers : worker[w].pc # "idle" =>
           /\ worker[w].delivery \in Deliveries
           /\ Row(w).status \in {"processing", "cancelled"}
           /\ ~Row(w).due
  BY DEF ClaimInv, TypeOK, OneJob, Row
<1>1. ASSUME NEW d \in Deliveries, DeadlinePasses(d) \/ FailExhausted(d)
      PROVE  OneJob' /\ IdleIsFree'
  <2>1. worker' = worker /\ \A e \in Deliveries \ {d} : delivery'[e] = delivery[e]
    BY <1>0, <1>1 DEF DeadlinePasses, FailExhausted
  <2>2. ASSUME NEW w \in Workers, worker[w].pc # "idle"
        PROVE  worker[w].delivery # d
    BY <1>0, <1>1, <2>2 DEF DeadlinePasses, FailExhausted, Due, Row
  <2> QED
    BY <1>0, <2>1, <2>2, OthersKeepJobs DEF Row
<1>2. CASE UNCHANGED <<worker, delivery>>
  BY <1>0, <1>2, OthersKeepJobs DEF Row
<1>3. CASE \E d \in Deliveries : \/ DeadlinePasses(d) \/ FailExhausted(d)
                                \/ \E n \in Attempts : TimHandles(d, n)
  BY <1>1, <1>2, <1>3 DEF TimHandles
<1>4. CASE \E w \in Workers : WorkerStep(w) \/ LoseAnswer(w) \/ Crash(w)
  BY <1>4, ClaimKeepsJobs, StepKeepsJobs DEF WorkerStep
<1>5. CASE UNCHANGED vars \/ \E next \in Modes : SetMode(next)
  BY <1>2, <1>5 DEF vars, SetMode
<1> QED
  BY <1>3, <1>4, <1>5, UserKeepsJobs DEF Next

LEMMA ClaimInvStep == ClaimInv /\ [Next]_vars => ClaimInv'
BY NextTypes, JobsKept, StoredKept DEF ClaimInv

LEMMA ClaimInvariant == Spec => []ClaimInv
BY InitClaimInv, ClaimInvStep, PTL DEF Spec

\* The result a worker writes back always closes its own claim: while a job is
\* on a processing row nobody else is, and the row has not been claimed anew.
THEOREM OwnClaimWritten == Spec => []WritesOwnClaim
<1>1. ClaimInv => WritesOwnClaim
  BY DEF ClaimInv, OneJob, WritesOwnClaim
<1> QED
  BY <1>1, ClaimInvariant, PTL

\* A delivered or cancelled row never changes its status again, and a failed
\* one is never retried.
THEOREM ClosedRowsStay == Spec => ClosedStaysClosed
<1>1. ClaimInv /\ [Next]_vars =>
        [\A d \in Deliveries :
           /\ delivery[d].status \in {"delivered", "cancelled"}
                => delivery'[d].status = delivery[d].status
           /\ delivery[d].status = "failed"
                => delivery'[d].status \in {"failed", "cancelled"}]_vars
  BY StatusSteps DEF StatusStep
<1> QED
  BY <1>1, ClaimInvariant, PTL DEF Spec, ClosedStaysClosed
-----------------------------------------------------------------------------
(* What TIM has accepted *)

\* TIM did what the delivery asks for; nothing undoes it.
Taken(d) == IF d[2] = "send" THEN tim[d[1]] # "absent" ELSE tim[d[1]] = "recalled"

AcceptedInv ==
    /\ \A d \in Deliveries, n \in Attempts :
         request[d][n] = "accepted" => Taken(d)
    /\ \A w \in Workers : worker[w].pc = "ok" =>
         request[worker[w].delivery][worker[w].attempt] = "accepted"
    /\ \A d \in Deliveries : delivery[d].status = "delivered" => Taken(d)

LEMMA InitAccepted == Init => AcceptedInv
BY DEF Init, AcceptedInv, AbsentRow, IdleJob

LEMMA TimHandlesTakes ==
    ASSUME ClaimInv, NEW e \in Deliveries, NEW n \in Attempts, TimHandles(e, n),
           NEW d \in Deliveries
    PROVE  /\ Taken(d) => Taken(d)'
           /\ request'[e][n] = "accepted" => Taken(e)'
           /\ \A k \in Attempts : d # e \/ k # n => request'[d][k] = request[d][k]
<1>0. /\ d[1] \in Messages /\ e[1] \in Messages
      /\ tim \in [Messages -> {"absent", "present", "recalled"}]
      /\ request \in [Deliveries -> [Attempts ->
                             {"none", "sent", "accepted", "rejected"}]]
      /\ e[2] \in {"send", "revoke"}
  BY DeliveryPairs DEF ClaimInv, TypeOK
<1>1. \/ /\ request' = [request EXCEPT ![e][n] = "accepted"]
         /\ tim' = [tim EXCEPT ![e[1]] =
                       IF e[2] = "revoke" \/ tim[e[1]] = "recalled"
                       THEN "recalled" ELSE "present"]
      \/ request' = [request EXCEPT ![e][n] = "rejected"] /\ tim' = tim
  BY DEF TimHandles
<1>2. Taken(d) => Taken(d)'
  BY <1>0, <1>1 DEF Taken
<1>3. request'[e][n] = "accepted" => Taken(e)'
  <2>1. CASE request' = [request EXCEPT ![e][n] = "rejected"]
    BY <1>0, <2>1
  <2>2. CASE tim' = [tim EXCEPT ![e[1]] =
                       IF e[2] = "revoke" \/ tim[e[1]] = "recalled"
                       THEN "recalled" ELSE "present"]
    BY <1>0, <2>2 DEF Taken
  <2> QED
    BY <1>1, <2>1, <2>2
<1>4. \A k \in Attempts : d # e \/ k # n => request'[d][k] = request[d][k]
  BY <1>0, <1>1
<1> QED
  BY <1>2, <1>3, <1>4

LEMMA CallTimAsks ==
    ASSUME ClaimInv, NEW v \in Workers, CallTim(v),
           NEW d \in Deliveries, NEW k \in Attempts
    PROVE  /\ request'[d][k] \in {request[d][k], "sent"}
           /\ request'[d][k] # request[d][k] => d = worker[v].delivery
<1>1. /\ request \in [Deliveries -> [Attempts ->
                             {"none", "sent", "accepted", "rejected"}]]
      /\ worker[v].delivery \in Deliveries /\ worker[v].attempt \in Attempts
  BY DEF ClaimInv, TypeOK, CallTim, WorkerAt
<1> QED
  BY <1>1 DEF CallTim

\* A worker gets to "ok" only through an accepted answer.
LEMMA OkFromAnswer ==
    ASSUME ClaimInv, [Next]_vars, NEW w \in Workers, worker'[w].pc = "ok"
    PROVE  /\ worker[w].pc # "idle"
           /\ worker'[w].delivery = worker[w].delivery
           /\ worker'[w].attempt = worker[w].attempt
           /\ \/ worker[w].pc = "ok"
              \/ /\ request[worker[w].delivery][worker[w].attempt] = "accepted"
                 /\ UNCHANGED request
<1> DEFINE Goal == /\ worker[w].pc # "idle"
                   /\ worker'[w].delivery = worker[w].delivery
                   /\ worker'[w].attempt = worker[w].attempt
                   /\ \/ worker[w].pc = "ok"
                      \/ /\ request[worker[w].delivery][worker[w].attempt]
                               = "accepted"
                         /\ UNCHANGED request
<1>0. worker \in [Workers -> Job] /\ worker[w] \in Job
  BY DEF ClaimInv, TypeOK
<1>1. CASE worker'[w] = worker[w]
  BY <1>1
<1>2. ASSUME NEW v \in Workers, WorkerStep(v) \/ LoseAnswer(v) \/ Crash(v), v # w
      PROVE  worker'[w] = worker[w]
  BY <1>0, <1>2 DEF WorkerStep, Claim, ReadKey, Lookup, Check, CallTim, Answer, LoseAnswer,
     MarkDelivered, RememberKey, MarkFailed, Crash, Goto
<1>3. IdleJob.pc # "ok"
  BY DEF IdleJob
<1>4. ASSUME NEW d \in Deliveries, Claim(w, d)
      PROVE  worker' = worker
  <2>1. CASE Exhausted(d)
    BY <1>4, <2>1 DEF Claim
  <2>2. CASE ~Exhausted(d)
    <3> DEFINE job == [pc |-> IF d[2] = "send" THEN "check" ELSE "key",
                       delivery |-> d, attempt |-> delivery[d].attempts + 1,
                       key |-> FALSE]
    <3>1. worker' = [worker EXCEPT ![w] = job]
      BY <1>4, <2>2 DEF Claim
    <3>2. job.pc # "ok"
      OBVIOUS
    <3> HIDE DEF job
    <3> QED
      BY <1>0, <3>1, <3>2
  <2> QED
    BY <2>1, <2>2
<1>5. ~(ReadKey(w) \/ Lookup(w) \/ Check(w) \/ CallTim(w) \/ LoseAnswer(w))
  <2>1. ASSUME NEW pc, Goto(w, pc)
        PROVE  pc = "ok"
    BY <1>0, <2>1 DEF Goto, Job
  <2> QED
    BY <2>1 DEF ReadKey, Lookup, Check, CallTim, LoseAnswer
<1>6. ~(MarkDelivered(w) \/ RememberKey(w) \/ MarkFailed(w) \/ Crash(w))
  BY <1>0, <1>3 DEF MarkDelivered, RememberKey, MarkFailed, Crash, Job
<1>7. CASE Answer(w)
  <2>1. ~Goto(w, "nack")
    BY <1>0 DEF Goto, Job
  <2>2. PICK key \in BOOLEAN :
          worker' = [worker EXCEPT ![w].pc = "ok", ![w].key = key]
    BY <1>7, <2>1 DEF Answer
  <2>3. /\ worker'[w].delivery = worker[w].delivery
        /\ worker'[w].attempt = worker[w].attempt
    BY <1>0, <2>2 DEF Job
  <2> QED
    BY <1>7, <2>1, <2>3 DEF Answer, WorkerAt
<1>8. CASE \E v \in Workers : WorkerStep(v) \/ LoseAnswer(v) \/ Crash(v)
  <2>1. CASE WorkerStep(w) \/ LoseAnswer(w) \/ Crash(w)
    <3>1. Answer(w) \/ \E d \in Deliveries : Claim(w, d)
      BY <1>5, <1>6, <2>1 DEF WorkerStep
    <3>2. CASE \E d \in Deliveries : Claim(w, d)
      BY <1>1, <1>4, <3>2
    <3> QED
      BY <1>7, <3>1, <3>2
  <2>2. CASE ~(WorkerStep(w) \/ LoseAnswer(w) \/ Crash(w))
    BY <1>1, <1>2, <1>8, <2>2
  <2> QED
    BY <2>1, <2>2
<1>9. CASE UNCHANGED worker
  BY <1>1, <1>9
<1> HIDE DEF Goal
<1>10. \/ \E v \in Workers : WorkerStep(v) \/ LoseAnswer(v) \/ Crash(v)
       \/ UNCHANGED worker
  <2>1. CASE \E m \in Messages : Revoke(m) \/ \E kind \in Kinds : StoreMessage(m, kind)
    BY <2>1 DEF Revoke, StoreMessage
  <2>2. CASE \E d \in Deliveries : \/ DeadlinePasses(d) \/ FailExhausted(d)
                                  \/ \E n \in Attempts : TimHandles(d, n)
    BY <2>2 DEF DeadlinePasses, FailExhausted, TimHandles
  <2>3. CASE UNCHANGED vars \/ ArchiveRetiredWork \/ \E next \in Modes : SetMode(next)
    BY <2>3 DEF vars, ArchiveRetiredWork, SetMode
  <2> QED
    BY <2>1, <2>2, <2>3 DEF Next
<1> QED
  BY <1>8, <1>9, <1>10 DEF Goal

LEMMA AcceptedStep == ClaimInv /\ AcceptedInv /\ [Next]_vars => AcceptedInv'
<1> SUFFICES ASSUME ClaimInv, AcceptedInv, [Next]_vars
             PROVE  AcceptedInv'
  OBVIOUS
<1>0. \A w \in Workers : worker[w].pc # "idle" =>
        worker[w].delivery \in Deliveries /\ worker[w].attempt \in Attempts
  BY DEF ClaimInv, TypeOK
<1>1. ASSUME NEW d \in Deliveries, Taken(d)
      PROVE  Taken(d)'
  <2>1. CASE UNCHANGED tim
    BY <1>1, <2>1 DEF Taken
  <2>2. ASSUME NEW v \in Workers, CallTim(v)
        PROVE  UNCHANGED tim
    BY <2>2 DEF CallTim
  <2> QED
    BY <1>1, <2>1, <2>2, TimHandlesTakes, Frames
<1>2. ASSUME NEW d \in Deliveries, NEW n \in Attempts,
             request'[d][n] = "accepted"
      PROVE  Taken(d)'
  <2>1. CASE request[d][n] = "accepted"
    BY <1>1, <2>1 DEF AcceptedInv
  <2>2. CASE request[d][n] # "accepted"
    <3>1. \A v \in Workers : ~CallTim(v)
      BY <1>2, <2>2, CallTimAsks
    <3>2. PICK e \in Deliveries, k \in Attempts : TimHandles(e, k)
      BY <1>2, <2>2, <3>1, Frames
    <3> QED
      BY <1>2, <2>2, <3>2, TimHandlesTakes
  <2> QED
    BY <2>1, <2>2
<1>3. ASSUME NEW w \in Workers, worker'[w].pc = "ok"
      PROVE  request'[worker'[w].delivery][worker'[w].attempt] = "accepted"
  <2> DEFINE d == worker[w].delivery
             n == worker[w].attempt
  <2>1. /\ worker[w].pc # "idle" /\ d \in Deliveries /\ n \in Attempts
        /\ worker'[w].delivery = d /\ worker'[w].attempt = n
        /\ request[d][n] = "accepted"
    BY <1>0, <1>3, OkFromAnswer DEF AcceptedInv
  <2>2. CASE UNCHANGED request
    BY <2>1, <2>2
  <2>3. CASE worker[w].pc = "ok"
    <3>1. ASSUME NEW v \in Workers, CallTim(v)
          PROVE  request'[d][n] = request[d][n]
      <4>1. v # w /\ worker[v].pc # "idle"
        BY <2>3, <3>1 DEF CallTim, WorkerAt
      <4>2. worker[v].delivery # d
        BY <2>1, <4>1 DEF ClaimInv, OneJob
      <4> QED
        BY <2>1, <3>1, <4>2, CallTimAsks
    <3>2. ASSUME NEW e \in Deliveries, NEW k \in Attempts, TimHandles(e, k)
          PROVE  request'[d][n] = request[d][n]
      <4>1. d # e \/ n # k
        BY <2>1, <3>2 DEF TimHandles
      <4> QED
        BY <2>1, <3>2, <4>1, TimHandlesTakes
    <3> QED
      BY <2>1, <2>2, <3>1, <3>2, Frames
  <2> QED
    BY <1>3, <2>2, <2>3, OkFromAnswer
<1>4. ASSUME NEW d \in Deliveries, delivery'[d].status = "delivered"
      PROVE  Taken(d)'
  <2>1. CASE delivery[d].status = "delivered"
    BY <1>1, <2>1 DEF AcceptedInv
  <2>2. CASE Marked(d)
    <3>1. PICK w \in Workers : MarkDelivered(w) /\ d = worker[w].delivery
      BY <2>2 DEF Marked
    <3>2. worker[w].pc = "ok"
      BY <3>1 DEF MarkDelivered, WorkerAt
    <3> QED
      BY <1>0, <1>1, <3>1, <3>2 DEF AcceptedInv
  <2> QED
    BY <1>4, <2>1, <2>2, StatusSteps DEF StatusStep
<1> QED
  BY <1>2, <1>3, <1>4 DEF AcceptedInv

\* A send row is marked delivered only if TIM has the copy or had it, and a
\* recall only if the copy is gone for good.
THEOREM DeliveredIsTrue == Spec => []DeliveredIsTruthful
<1>1. AcceptedInv => DeliveredIsTruthful
  BY DeliveryPairs DEF AcceptedInv, DeliveredIsTruthful, Taken, SendOf, RevokeOf
<1> QED
  BY <1>1, InitAccepted, InitClaimInv, ClaimInvStep, AcceptedStep, PTL DEF Spec
-----------------------------------------------------------------------------
(* Recalling the copy of a revoked message *)

\* No request of the delivery is with TIM or was accepted.
Uncalled(d) == \A n \in Attempts : request[d][n] \in {"none", "rejected"}
Unserved(d) == \A w \in Workers : worker[w].delivery # d

\* A send row with this content has asked TIM for nothing that succeeded.
NeverSent(row) ==
    \/ row.status \in {"absent", "pending", "retry", "failed"}
    \/ row.status = "cancelled" /\ row.reason \in {"retired", "revoked"}

SendRowInv(m) ==
    LET d == SendOf(m)
        row == delivery[d]
        recalled == delivery[RevokeOf(m)].status # "absent"
    IN
    /\ NeverSent(row) => Uncalled(d) /\ Unserved(d)
    /\ row.status = "processing" => ~Unserved(d)
    /\ row.status = "cancelled" =>
         row.reason # "none" /\ (row.reason = "inflight" => recalled)
    /\ message[m].status = "revoked" =>
         /\ row.status \in {"absent", "delivered", "cancelled"}
         /\ row.status = "delivered" => recalled

\* What a worker on a send row knows of its requests.
SendJobInv(w) ==
    LET d == worker[w].delivery IN
    worker[w].pc # "idle" /\ d[2] = "send" =>
        /\ worker[w].pc \notin {"key", "lookup"}
        /\ worker[w].pc \in {"check", "send", "nack"} => Uncalled(d)
        /\ worker[w].pc = "answer" =>
             \A n \in Attempts \ {worker[w].attempt} :
                 request[d][n] \in {"none", "rejected"}
        /\ worker[w].pc = "remember" => Row(w).status = "cancelled"

\* A copy at TIM comes from an accepted send.
CopyInv == \A m \in Messages : tim[m] = "present" =>
    \E n \in Attempts : request[SendOf(m)][n] = "accepted"

\* Before the first fault every worker ends its job by writing what TIM said:
\* so a row that is retried, failed or cancelled unsent was never accepted, and
\* any other cancelled row got a recall or was archived.
RecallInv ==
    faults = {} => /\ CopyInv
                   /\ \A m \in Messages : SendRowInv(m)
                   /\ \A w \in Workers : SendJobInv(w)

LEMMA InitRecall == Init => RecallInv
BY DeliveryPairs
   DEF Init, RecallInv, CopyInv, SendRowInv, SendJobInv, NeverSent, Uncalled,
       Unserved, AbsentRow, IdleJob

LEMMA SendsDiffer ==
    ASSUME NEW m \in Messages, NEW k \in Messages
    PROVE  /\ SendOf(m) = SendOf(k) => m = k
           /\ RevokeOf(m) = RevokeOf(k) => m = k
           /\ SendOf(m) # RevokeOf(k)
           /\ SendOf(m) \in Deliveries /\ RevokeOf(m) \in Deliveries
           /\ SendOf(m)[1] = m /\ SendOf(m)[2] = "send"
BY DEF SendOf, RevokeOf, Deliveries

LEMMA SendIsSend ==
    ASSUME NEW d \in Deliveries, d[2] = "send"
    PROVE  d[1] \in Messages /\ d = SendOf(d[1])
BY DeliveryPairs DEF SendOf

\* A step that leaves the row, and does not disturb what it stands on.
LEMMA SendRowKept ==
    ASSUME NEW m \in Messages, SendRowInv(m),
           /\ delivery'[SendOf(m)].status = delivery[SendOf(m)].status
           /\ delivery'[SendOf(m)].reason = delivery[SendOf(m)].reason,
           delivery[RevokeOf(m)].status # "absent" =>
               delivery'[RevokeOf(m)].status # "absent",
           message'[m].status = message[m].status,
           NeverSent(delivery[SendOf(m)]) =>
               Uncalled(SendOf(m))' /\ Unserved(SendOf(m))',
           delivery[SendOf(m)].status = "processing" => ~Unserved(SendOf(m))'
    PROVE  SendRowInv(m)'
<1>1. NeverSent(delivery[SendOf(m)])' <=> NeverSent(delivery[SendOf(m)])
  BY DEF NeverSent
<1> QED
  BY <1>1 DEF SendRowInv

\* A step that leaves a job and the requests of its delivery.
LEMMA SendJobKept ==
    ASSUME ClaimInv, [Next]_vars, NEW w \in Workers, SendJobInv(w),
           worker'[w] = worker[w],
           \A n \in Attempts : request'[worker[w].delivery][n]
                                 = request[worker[w].delivery][n]
    PROVE  SendJobInv(w)'
<1> DEFINE d == worker[w].delivery
<1> SUFFICES ASSUME worker[w].pc # "idle", d[2] = "send"
             PROVE  SendJobInv(w)'
  BY DEF SendJobInv
<1>1. d \in Deliveries
  BY DEF ClaimInv, TypeOK
<1>2. StatusStep(d)
  BY <1>1, StatusSteps
<1>3. Row(w).status = "cancelled" => Row(w)'.status = "cancelled"
  BY <1>2 DEF StatusStep, Row
<1>4. Uncalled(d) => \A n \in Attempts : request'[d][n] \in {"none", "rejected"}
  BY DEF Uncalled
<1> QED
  BY <1>3, <1>4 DEF SendJobInv, Uncalled
\* A worker's row, and the send invariant of its message.
LEMMA ServedRow ==
    ASSUME ClaimInv, NEW w \in Workers, worker[w].pc # "idle"
    PROVE  /\ worker[w] \in Job /\ worker[w].delivery \in Deliveries
           /\ worker[w].attempt \in Attempts
           /\ delivery[worker[w].delivery] \in DeliveryRow
           /\ delivery[worker[w].delivery].status \in {"processing", "cancelled"}
           /\ ~delivery[worker[w].delivery].due
           /\ \A v \in Workers \ {w} : worker[v].delivery # worker[w].delivery
           /\ ~Unserved(worker[w].delivery)
BY DEF ClaimInv, TypeOK, OneJob, Row, Unserved

LEMMA GoingOnKeepsSendRow ==
    ASSUME ClaimInv, [Next]_vars, NEW m \in Messages, SendRowInv(m), NEW w \in Workers,
           ReadKey(w) \/ Lookup(w) \/ Check(w) \/ CallTim(w) \/ Answer(w)
    PROVE  SendRowInv(m)'
<1> DEFINE d == SendOf(m)
<1>0. /\ worker[w].pc # "idle" /\ d \in Deliveries /\ RevokeOf(m) \in Deliveries
      /\ delivery \in [Deliveries -> DeliveryRow]
      /\ worker \in [Workers -> Job]
  BY SendsDiffer DEF ReadKey, Lookup, Check, CallTim, Answer, WorkerAt, ClaimInv, TypeOK
<1>1. \A v \in Workers : worker'[v].delivery = worker[v].delivery
  BY <1>0 DEF ReadKey, Lookup, Check, CallTim, Answer, Goto, Job
<1>2. \A e \in Deliveries : /\ delivery'[e].status = delivery[e].status
                            /\ delivery'[e].reason = delivery[e].reason
  BY <1>0 DEF ReadKey, Lookup, Check, CallTim, Answer, DeliveryRow
<1>3. message' = message
  BY DEF ReadKey, Lookup, Check, CallTim, Answer
<1>4. Unserved(d)' <=> Unserved(d)
  BY <1>1 DEF Unserved
<1>5. ASSUME NeverSent(delivery[d])
      PROVE  Uncalled(d)'
  <2>1. Uncalled(d) /\ worker[w].delivery # d
    BY <1>0, <1>5 DEF SendRowInv, Unserved
  <2>2. \A n \in Attempts : request'[d][n] = request[d][n]
    BY <1>0, <2>1, CallTimAsks DEF ReadKey, Lookup, Check, Answer
  <2> QED
    BY <2>1, <2>2 DEF Uncalled
<1> QED
  BY <1>0, <1>2, <1>3, <1>4, <1>5, SendRowKept DEF SendRowInv

LEMMA WriteBackKeepsSendRow ==
    ASSUME ClaimInv, [Next]_vars, NEW m \in Messages, SendRowInv(m), NEW w \in Workers,
           SendJobInv(w), MarkDelivered(w) \/ RememberKey(w) \/ MarkFailed(w)
    PROVE  SendRowInv(m)'
<1> DEFINE d == SendOf(m)
           e == worker[w].delivery
<1>0. /\ worker[w].pc # "idle" /\ d \in Deliveries /\ RevokeOf(m) \in Deliveries
      /\ delivery \in [Deliveries -> DeliveryRow]
      /\ worker \in [Workers -> Job] /\ NoDelivery \notin Deliveries
      /\ IdleJob.delivery = NoDelivery
      /\ d[2] = "send"
  BY SendsDiffer, DeliveryPairs
     DEF MarkDelivered, RememberKey, MarkFailed, WorkerAt, ClaimInv, TypeOK, IdleJob
<1>1. /\ e \in Deliveries /\ delivery[e] \in DeliveryRow
      /\ delivery[e].status \in {"processing", "cancelled"}
      /\ \A v \in Workers \ {w} : worker[v].delivery # e
  BY <1>0, ServedRow
<1>2. UNCHANGED <<message, request>>
  BY DEF MarkDelivered, RememberKey, MarkFailed
<1>3. \A v \in Workers : worker'[v].delivery # worker[v].delivery => v = w
  BY <1>0 DEF MarkDelivered, RememberKey, MarkFailed, Job
<1>4. worker'[w].delivery \in {e, NoDelivery}
  BY <1>0 DEF MarkDelivered, RememberKey, MarkFailed, Job
<1>5. Uncalled(d) => Uncalled(d)'
  BY <1>2 DEF Uncalled
<1>6. Unserved(d) => Unserved(d)'
  BY <1>0, <1>3, <1>4 DEF Unserved
<1>7. \A x \in Deliveries \ {e} : delivery'[x] = delivery[x]
  BY <1>0 DEF MarkDelivered, RememberKey, MarkFailed
<1>8. delivery[RevokeOf(m)].status # "absent" =>
        delivery'[RevokeOf(m)].status # "absent"
  BY <1>0, StatusSteps DEF StatusStep
<1>9. CASE e # d
  <2>1. ~Unserved(d) => ~Unserved(d)'
    BY <1>3, <1>9 DEF Unserved
  <2> QED
    BY <1>0, <1>2, <1>5, <1>6, <1>7, <1>8, <1>9, <2>1, SendRowKept DEF SendRowInv
<1>10. CASE e = d /\ ~IsProcessing(w)
  <2>1. delivery[d].status = "cancelled"
    BY <1>1, <1>10 DEF IsProcessing, Row
  <2>2. /\ delivery'[d].status = delivery[d].status
        /\ delivery'[d].reason = delivery[d].reason
    BY <1>0, <1>10 DEF MarkDelivered, RememberKey, MarkFailed, DeliveryRow
  <2> QED
    BY <1>0, <1>2, <1>5, <1>6, <1>8, <2>1, <2>2, SendRowKept DEF SendRowInv
<1>11. CASE e = d /\ IsProcessing(w)
  <2>0. delivery[d].status = "processing" /\ message[m].status # "revoked"
    BY <1>11 DEF IsProcessing, Row, SendRowInv
  <2>1. CASE MarkDelivered(w)
    <3> DEFINE row == [delivery[d] EXCEPT !.status = "delivered", !.due = FALSE,
                         !.key = delivery[d].key \/ worker[w].key]
    <3>1. row.status = "delivered"
      BY <1>0, Zenon DEF DeliveryRow
    <3>2. delivery' = [delivery EXCEPT ![d] = row]
      BY <1>11, <2>1 DEF MarkDelivered, Row
    <3> HIDE DEF row
    <3>3. delivery'[d].status = "delivered"
      BY <1>0, <3>1, <3>2
    <3> QED
      BY <1>2, <2>0, <3>3 DEF SendRowInv, NeverSent
  <2>2. CASE RememberKey(w)
    BY <1>0, <1>11, <2>0, <2>2 DEF RememberKey, WorkerAt, SendJobInv, Row
  <2>3. CASE MarkFailed(w)
    <3>1. delivery'[d].status \in {"failed", "retry"}
      BY <1>0, <1>11, <2>3 DEF MarkFailed, DeliveryRow
    <3>2. Uncalled(d)'
      BY <1>0, <1>5, <1>11, <2>3 DEF MarkFailed, WorkerAt, SendJobInv
    <3>3. Unserved(d)'
      <4>1. worker'[w].delivery = NoDelivery
        BY <1>0, <2>3 DEF MarkFailed
      <4> QED
        BY <1>0, <1>1, <1>3, <1>11, <4>1 DEF Unserved
    <3> QED
      BY <1>2, <2>0, <3>1, <3>2, <3>3 DEF SendRowInv
  <2> QED
    BY <2>1, <2>2, <2>3
<1> QED
  BY <1>9, <1>10, <1>11

LEMMA ClaimKeepsSendRow ==
    ASSUME ClaimInv, [Next]_vars, NEW m \in Messages, SendRowInv(m), NEW w \in Workers,
           NEW e \in Deliveries, Claim(w, e)
    PROVE  SendRowInv(m)'
<1> DEFINE d == SendOf(m)
           n == delivery[e].attempts + 1
           row == [delivery[e] EXCEPT !.status = "processing", !.attempts = n,
                                      !.due = FALSE]
           pc == IF e[2] = "send" THEN "check" ELSE "key"
           job == [pc |-> pc, delivery |-> e, attempt |-> n, key |-> FALSE]
<1>0. /\ d \in Deliveries /\ RevokeOf(m) \in Deliveries
      /\ delivery \in [Deliveries -> DeliveryRow]
      /\ worker \in [Workers -> Job] /\ NoDelivery \notin Deliveries
      /\ worker[w].delivery = NoDelivery
  BY SendsDiffer, DeliveryPairs DEF Claim, WorkerAt, ClaimInv, TypeOK, IdleIsFree
<1>1. \/ /\ delivery' = [delivery EXCEPT ![e].status = "failed"]
         /\ worker' = worker
      \/ /\ delivery' = [delivery EXCEPT ![e] = row]
         /\ worker' = [worker EXCEPT ![w] = job]
  BY DEF Claim
<1>2. job.delivery = e /\ row.status = "processing"
  BY <1>0, Zenon DEF DeliveryRow
<1> HIDE DEF row, job, pc, n
<1>3. UNCHANGED <<message, request>> /\ Due(e)
  BY DEF Claim
<1>4. Uncalled(d) => Uncalled(d)'
  BY <1>3 DEF Uncalled
<1>5. \A v \in Workers : worker'[v].delivery \in {worker[v].delivery, e}
      /\ (v # w => worker'[v].delivery = worker[v].delivery)
  BY <1>0, <1>1, <1>2
<1>6. \A x \in Deliveries \ {e} : delivery'[x] = delivery[x]
  BY <1>0, <1>1
<1>7. delivery[RevokeOf(m)].status # "absent" =>
        delivery'[RevokeOf(m)].status # "absent"
  BY <1>0, StatusSteps DEF StatusStep
<1>8. CASE e # d
  <2>1. Unserved(d) <=> Unserved(d)'
    BY <1>0, <1>5, <1>8 DEF Unserved
  <2> QED
    BY <1>0, <1>3, <1>4, <1>6, <1>7, <1>8, <2>1, SendRowKept DEF SendRowInv
<1>9. CASE e = d
  <2>1. delivery[d].status \in {"pending", "retry"}
    <3>1. ASSUME delivery[d].status = "processing"
          PROVE  FALSE
      <4>1. PICK v \in Workers : worker[v].delivery = d
        BY <3>1 DEF SendRowInv, Unserved
      <4>2. worker[v].pc # "idle"
        BY <1>0, <4>1 DEF ClaimInv, IdleIsFree
      <4> QED
        BY <1>3, <1>9, <4>1, <4>2, ServedRow DEF Due
    <3> QED
      BY <1>3, <1>9, <3>1 DEF Due
  <2>2. Uncalled(d) /\ Unserved(d) /\ message[m].status # "revoked"
    BY <2>1 DEF SendRowInv, NeverSent
  <2>3. CASE delivery' = [delivery EXCEPT ![e].status = "failed"] /\ worker' = worker
    <3>1. delivery'[d].status = "failed"
      BY <1>0, <1>9, <2>3 DEF DeliveryRow
    <3>2. Unserved(d)'
      BY <2>2, <2>3 DEF Unserved
    <3> QED
      BY <1>3, <1>4, <2>2, <3>1, <3>2 DEF SendRowInv
  <2>4. CASE /\ delivery' = [delivery EXCEPT ![e] = row]
             /\ worker' = [worker EXCEPT ![w] = job]
    <3>1. delivery'[d].status = "processing" /\ worker'[w].delivery = d
      BY <1>0, <1>2, <1>9, <2>4
    <3>2. ~Unserved(d)'
      BY <3>1 DEF Unserved
    <3> QED
      BY <1>3, <2>2, <3>1, <3>2 DEF SendRowInv, NeverSent
  <2> QED
    BY <1>1, <2>3, <2>4
<1> QED
  BY <1>8, <1>9

LEMMA RequestsKeepSendRow ==
    ASSUME ClaimInv, [Next]_vars, NEW m \in Messages, SendRowInv(m),
           \/ \E e \in Deliveries, n \in Attempts : TimHandles(e, n)
           \/ \E next \in Modes : SetMode(next)
           \/ UNCHANGED vars
    PROVE  SendRowInv(m)'
<1> DEFINE d == SendOf(m)
<1>0. d \in Deliveries
  BY SendsDiffer
<1>1. UNCHANGED <<message, delivery, worker>>
  BY DEF TimHandles, SetMode, vars
<1>2. Uncalled(d) => Uncalled(d)'
  <2> SUFFICES ASSUME Uncalled(d), NEW k \in Attempts
               PROVE  request'[d][k] = request[d][k]
    BY DEF Uncalled
  <2>1. ASSUME NEW e \in Deliveries, NEW n \in Attempts, TimHandles(e, n)
        PROVE  request'[d][k] = request[d][k]
    BY <1>0, <2>1, TimHandlesTakes DEF Uncalled, TimHandles
  <2> QED
    BY <2>1 DEF SetMode, vars
<1>3. Unserved(d) <=> Unserved(d)'
  BY <1>1 DEF Unserved
<1> QED
  BY <1>1, <1>2, <1>3, SendRowKept DEF SendRowInv
LEMMA CancelledSays ==
    ASSUME NEW row \in DeliveryRow, NEW reason \in Reasons
    PROVE  /\ CancelledRow(row, reason).status = "cancelled"
           /\ CancelledRow(row, reason).reason = reason
BY RowTyped

LEMMA ScheduleKeepsSendRow ==
    ASSUME ClaimInv, [Next]_vars, NEW m \in Messages, SendRowInv(m),
           NEW e \in Deliveries, DeadlinePasses(e) \/ FailExhausted(e)
    PROVE  SendRowInv(m)'
<1> DEFINE d == SendOf(m)
<1>0. /\ d \in Deliveries /\ RevokeOf(m) \in Deliveries
      /\ delivery \in [Deliveries -> DeliveryRow]
  BY SendsDiffer DEF ClaimInv, TypeOK
<1>1. UNCHANGED <<message, request, worker>>
  BY DEF DeadlinePasses, FailExhausted
<1>2. (Uncalled(d) => Uncalled(d)') /\ (Unserved(d) <=> Unserved(d)')
  BY <1>1 DEF Uncalled, Unserved
<1>3. delivery[RevokeOf(m)].status # "absent" =>
        delivery'[RevokeOf(m)].status # "absent"
  BY <1>0, StatusSteps DEF StatusStep
<1>4. CASE e # d \/ DeadlinePasses(e)
  <2>1. /\ delivery'[d].status = delivery[d].status
        /\ delivery'[d].reason = delivery[d].reason
    BY <1>0, <1>4 DEF DeadlinePasses, FailExhausted, DeliveryRow
  <2> QED
    BY <1>1, <1>2, <1>3, <2>1, SendRowKept DEF SendRowInv
<1>5. CASE e = d /\ FailExhausted(d)
  <2>1. delivery[d].status \in {"pending", "retry"}
    <3>1. ASSUME delivery[d].status = "processing"
          PROVE  FALSE
      <4>1. PICK v \in Workers : worker[v].delivery = d
        BY <3>1 DEF SendRowInv, Unserved
      <4>2. worker[v].pc # "idle"
        BY <1>0, <4>1, DeliveryPairs DEF ClaimInv, IdleIsFree
      <4> QED
        BY <1>5, <4>1, <4>2, ServedRow DEF FailExhausted, Due
    <3> QED
      BY <1>5, <3>1 DEF FailExhausted, Due
  <2>2. delivery'[d].status = "failed"
    BY <1>0, <1>5 DEF FailExhausted, DeliveryRow
  <2> QED
    BY <1>1, <1>2, <2>1, <2>2 DEF SendRowInv, NeverSent
<1> QED
  BY <1>4, <1>5

LEMMA ArchiveKeepsSendRow ==
    ASSUME ClaimInv, [Next]_vars, NEW m \in Messages, SendRowInv(m),
           ArchiveRetiredWork
    PROVE  SendRowInv(m)'
<1> DEFINE d == SendOf(m)
<1>0. /\ d \in Deliveries /\ RevokeOf(m) \in Deliveries
      /\ delivery[d] \in DeliveryRow
  BY SendsDiffer DEF ClaimInv, TypeOK
<1>1. UNCHANGED <<message, request, worker>>
  BY DEF ArchiveRetiredWork
<1>2. (Uncalled(d) => Uncalled(d)') /\ (Unserved(d) <=> Unserved(d)')
  BY <1>1 DEF Uncalled, Unserved
<1>3. delivery[RevokeOf(m)].status # "absent" =>
        delivery'[RevokeOf(m)].status # "absent"
  BY <1>0, StatusSteps DEF StatusStep
<1>4. \/ delivery'[d] = delivery[d]
      \/ /\ delivery[d].status \notin {"absent", "delivered", "cancelled"}
         /\ delivery'[d] = CancelledRow(delivery[d], "archived")
  BY <1>0 DEF ArchiveRetiredWork
<1>5. CASE delivery'[d] = delivery[d]
  BY <1>1, <1>2, <1>3, <1>5, SendRowKept DEF SendRowInv
<1>6. CASE /\ delivery[d].status \notin {"absent", "delivered", "cancelled"}
           /\ delivery'[d] = CancelledRow(delivery[d], "archived")
  <2>1. delivery'[d].status = "cancelled" /\ delivery'[d].reason = "archived"
    <3>1. "archived" \in Reasons
      BY DEF Reasons
    <3>2. CancelledRow(delivery[d], "archived").status = "cancelled"
         /\ CancelledRow(delivery[d], "archived").reason = "archived"
      BY <1>0, <3>1, CancelledSays
    <3> QED
      BY <1>6, <3>2
  <2> QED
    BY <1>1, <2>1 DEF SendRowInv, NeverSent
<1> QED
  BY <1>4, <1>5, <1>6

LEMMA StoreKeepsSendRow ==
    ASSUME ClaimInv, [Next]_vars, NEW m \in Messages, SendRowInv(m),
           NEW k \in Messages, NEW kind \in Kinds, StoreMessage(k, kind)
    PROVE  SendRowInv(m)'
<1> DEFINE d == SendOf(m)
<1>0. /\ d \in Deliveries /\ RevokeOf(m) \in Deliveries
      /\ delivery \in [Deliveries -> DeliveryRow]
      /\ message \in [Messages -> [kind : Kinds,
                                   status : {"absent", "accepted", "revoked"}]]
  BY SendsDiffer DEF ClaimInv, TypeOK
<1>1. /\ UNCHANGED <<request, worker>>
      /\ message' = [message EXCEPT ![k] = [kind |-> kind, status |-> "accepted"]]
      /\ delivery' = [delivery EXCEPT ![SendOf(k)] = NewRow]
      /\ message[k].status = "absent"
  BY DEF StoreMessage
<1>2. (Uncalled(d) => Uncalled(d)') /\ (Unserved(d) <=> Unserved(d)')
  BY <1>1 DEF Uncalled, Unserved
<1>3. CASE k # m
  <2>1. /\ delivery'[d] = delivery[d] /\ message'[m] = message[m]
        /\ delivery'[RevokeOf(m)] = delivery[RevokeOf(m)]
    BY <1>0, <1>1, <1>3, SendsDiffer
  <2> QED
    BY <1>2, <2>1, SendRowKept DEF SendRowInv
<1>4. CASE k = m
  <2>1. delivery[d].status = "absent"
    BY <1>1, <1>4 DEF ClaimInv, RowsOfStored
  <2>2. Uncalled(d)' /\ Unserved(d)'
    BY <1>2, <2>1 DEF SendRowInv, NeverSent
  <2>3. message'[m].status = "accepted" /\ delivery'[d] = NewRow
    BY <1>0, <1>1, <1>4
  <2>4. \/ NewRow.status = "cancelled" /\ NewRow.reason = "retired"
        \/ NewRow.status = "pending"
    BY DEF NewRow, AbsentRow
  <2> QED
    BY <2>2, <2>3, <2>4 DEF SendRowInv
<1> QED
  BY <1>3, <1>4

LEMMA RevokeKeepsSendRow ==
    ASSUME ClaimInv, [Next]_vars, NEW m \in Messages, SendRowInv(m),
           NEW k \in Messages, Revoke(k)
    PROVE  SendRowInv(m)'
<1> DEFINE d == SendOf(m)
           row == delivery[d]
           recall == IF NeedsRecall(k) /\ delivery[RevokeOf(k)].status = "absent"
                     THEN NewRow ELSE delivery[RevokeOf(k)]
<1>0. /\ d \in Deliveries /\ RevokeOf(m) \in Deliveries
      /\ delivery \in [Deliveries -> DeliveryRow] /\ row \in DeliveryRow
      /\ message \in [Messages -> [kind : Kinds,
                                   status : {"absent", "accepted", "revoked"}]]
  BY SendsDiffer DEF ClaimInv, TypeOK
<1>1. /\ UNCHANGED <<request, worker>>
      /\ message' = [message EXCEPT ![k].status = "revoked"]
      /\ delivery' = [delivery EXCEPT ![SendOf(k)] = CancelledSend(@),
                                      ![RevokeOf(k)] = recall]
  BY DEF Revoke
<1>2. (Uncalled(d) => Uncalled(d)') /\ (Unserved(d) <=> Unserved(d)')
  BY <1>1 DEF Uncalled, Unserved
<1>3. delivery[RevokeOf(m)].status # "absent" =>
        delivery'[RevokeOf(m)].status # "absent"
  BY <1>0, StatusSteps DEF StatusStep
<1>4. CASE k # m
  <2>1. delivery'[d] = delivery[d] /\ message'[m] = message[m]
    BY <1>0, <1>1, <1>4, SendsDiffer
  <2> QED
    BY <1>2, <1>3, <2>1, SendRowKept DEF SendRowInv
<1>5. CASE k = m
  <2>1. /\ delivery'[d] = CancelledSend(row)
        /\ delivery'[RevokeOf(m)] = recall
        /\ message'[m].status = "revoked"
    BY <1>0, <1>1, <1>5, SendsDiffer
  <2>2. NewRow.status # "absent"
    BY DEF NewRow, AbsentRow
  <2>3. NeedsRecall(m) => delivery'[RevokeOf(m)].status # "absent"
    BY <1>5, <2>1, <2>2
  <2> HIDE DEF recall
  <2>4. CASE row.status \in {"pending", "retry", "failed"}
    <3>1. CancelledSend(row) = CancelledRow(row, "revoked")
      BY <2>4 DEF CancelledSend
    <3>2. delivery'[d].status = "cancelled" /\ delivery'[d].reason = "revoked"
      <4>1. "revoked" \in Reasons
        BY DEF Reasons
      <4>2. CancelledRow(row, "revoked").status = "cancelled"
           /\ CancelledRow(row, "revoked").reason = "revoked"
        BY <1>0, <4>1, CancelledSays
      <4> QED
        BY <2>1, <3>1, <4>2
    <3>3. Uncalled(d)' /\ Unserved(d)'
      BY <1>2, <2>4 DEF SendRowInv, NeverSent
    <3> QED
      BY <3>2, <3>3 DEF SendRowInv
  <2>5. CASE row.status = "processing"
    <3>1. CancelledSend(row) = CancelledRow(row, "inflight")
      BY <2>5 DEF CancelledSend
    <3>2. delivery'[d].status = "cancelled" /\ delivery'[d].reason = "inflight"
      <4>1. "inflight" \in Reasons
        BY DEF Reasons
      <4>2. CancelledRow(row, "inflight").status = "cancelled"
           /\ CancelledRow(row, "inflight").reason = "inflight"
        BY <1>0, <4>1, CancelledSays
      <4> QED
        BY <2>1, <3>1, <4>2
    <3>3. delivery'[RevokeOf(m)].status # "absent"
      BY <2>3, <2>5 DEF NeedsRecall
    <3> QED
      BY <3>2, <3>3 DEF SendRowInv, NeverSent
  <2>6. CASE row.status \in {"absent", "delivered", "cancelled"}
    <3>1. delivery'[d] = row
      BY <2>1, <2>6 DEF CancelledSend
    <3>2. row.status = "delivered" => delivery'[RevokeOf(m)].status # "absent"
      BY <2>3 DEF NeedsRecall
    <3>3. NeverSent(row) => Uncalled(d)' /\ Unserved(d)'
      BY <1>2 DEF SendRowInv
    <3>4. row.status = "cancelled" => row.reason # "none" /\
            (row.reason = "inflight" => delivery'[RevokeOf(m)].status # "absent")
      BY <1>3 DEF SendRowInv
    <3>5. NeverSent(delivery[d])' <=> NeverSent(row)
      BY <3>1 DEF NeverSent
    <3> HIDE DEF row
    <3> QED
      BY <2>6, <3>1, <3>2, <3>3, <3>4, <3>5 DEF SendRowInv
  <2> QED
    BY <1>0, <2>4, <2>5, <2>6 DEF DeliveryRow, DeliveryStatuses
<1> QED
  BY <1>4, <1>5

LEMMA SendRowStep ==
    ASSUME ClaimInv, [Next]_vars, faults' = {}, faults = {},
           \A w \in Workers : SendJobInv(w), NEW m \in Messages, SendRowInv(m)
    PROVE  SendRowInv(m)'
<1>1. ASSUME NEW w \in Workers, WorkerStep(w)
      PROVE  SendRowInv(m)'
  BY <1>1, GoingOnKeepsSendRow, WriteBackKeepsSendRow, ClaimKeepsSendRow
     DEF WorkerStep
<1>2. \A w \in Workers : ~LoseAnswer(w) /\ ~Crash(w)
  BY DEF LoseAnswer, Crash, Fail
<1>3. CASE \E k \in Messages : Revoke(k) \/ \E kind \in Kinds : StoreMessage(k, kind)
  BY <1>3, RevokeKeepsSendRow, StoreKeepsSendRow
<1>4. CASE \E e \in Deliveries : \/ DeadlinePasses(e) \/ FailExhausted(e)
                                \/ \E n \in Attempts : TimHandles(e, n)
  BY <1>4, ScheduleKeepsSendRow, RequestsKeepSendRow
<1> QED
  BY <1>1, <1>2, <1>3, <1>4, ArchiveKeepsSendRow, RequestsKeepSendRow DEF Next
\* Another worker's step leaves the job.
LEMMA OthersKeepSendJob ==
    ASSUME ClaimInv, [Next]_vars, NEW w \in Workers, SendJobInv(w),
           NEW v \in Workers, v # w, WorkerStep(v)
    PROVE  SendJobInv(w)'
<1>0. worker \in [Workers -> Job]
  BY DEF ClaimInv, TypeOK
<1>1. worker'[w] = worker[w]
  BY <1>0 DEF WorkerStep, Claim, ReadKey, Lookup, Check, CallTim, Answer,
     MarkDelivered, RememberKey, MarkFailed, Goto
<1>2. CASE worker[w].pc = "idle"
  BY <1>1, <1>2 DEF SendJobInv
<1>3. CASE worker[w].pc # "idle"
  <2> DEFINE d == worker[w].delivery
  <2>1. d \in Deliveries
    BY <1>3, ServedRow
  <2>2. CASE CallTim(v)
    <3>1. worker[v].pc # "idle"
      BY <2>2 DEF CallTim, WorkerAt
    <3>2. worker[v].delivery # d
      BY <1>3, <3>1, ServedRow
    <3>3. \A n \in Attempts : request'[d][n] = request[d][n]
      BY <2>1, <2>2, <3>2, CallTimAsks
    <3> QED
      BY <1>1, <3>3, SendJobKept
  <2>3. CASE request' = request
    BY <1>1, <2>3, SendJobKept
  <2> QED
    BY <2>2, <2>3 DEF WorkerStep, Claim, ReadKey, Lookup, Check, Answer,
       MarkDelivered, RememberKey, MarkFailed
<1> QED
  BY <1>2, <1>3

LEMMA ClaimSendJob ==
    ASSUME ClaimInv, [Next]_vars, NEW w \in Workers, SendJobInv(w),
           \A m \in Messages : SendRowInv(m),
           NEW e \in Deliveries, Claim(w, e)
    PROVE  SendJobInv(w)'
<1>0. worker \in [Workers -> Job] /\ UNCHANGED request /\ Due(e)
  BY DEF ClaimInv, TypeOK, Claim
<1>1. CASE Exhausted(e)
  <2>1. worker' = worker
    BY <1>1 DEF Claim
  <2> QED
    BY <1>0, <2>1, SendJobKept
<1>2. CASE ~Exhausted(e)
  <2> DEFINE pc == IF e[2] = "send" THEN "check" ELSE "key"
             job == [pc |-> pc, delivery |-> e,
                     attempt |-> delivery[e].attempts + 1, key |-> FALSE]
  <2>1. worker' = [worker EXCEPT ![w] = job]
    BY <1>2 DEF Claim
  <2>2. job.pc = pc /\ job.delivery = e
    OBVIOUS
  <2> HIDE DEF job
  <2>3. worker'[w].pc = pc /\ worker'[w].delivery = e
    BY <1>0, <2>1, <2>2
  <2>4. ASSUME e[2] = "send"
        PROVE  Uncalled(e)
    <3>1. PICK m \in Messages : e = SendOf(m)
      BY <2>4, SendIsSend
    <3>2. ASSUME delivery[e].status = "processing"
          PROVE  FALSE
      <4>1. PICK v \in Workers : worker[v].delivery = e
        BY <3>1, <3>2 DEF SendRowInv, Unserved
      <4>2. worker[v].pc # "idle"
        BY <4>1, DeliveryPairs DEF ClaimInv, IdleIsFree
      <4> QED
        BY <1>0, <4>1, <4>2, ServedRow DEF Due
    <3> QED
      BY <1>0, <3>1, <3>2 DEF Due, SendRowInv, NeverSent
  <2>5. Uncalled(e) => Uncalled(e)'
    BY <1>0 DEF Uncalled
  <2> QED
    BY <2>3, <2>4, <2>5 DEF SendJobInv, Uncalled
<1> QED
  BY <1>1, <1>2

LEMMA OwnStepKeepsSendJob ==
    ASSUME ClaimInv, NEW w \in Workers, SendJobInv(w),
           \/ ReadKey(w) \/ Lookup(w) \/ Check(w) \/ CallTim(w) \/ Answer(w)
           \/ MarkDelivered(w) \/ RememberKey(w) \/ MarkFailed(w)
    PROVE  SendJobInv(w)'
<1> DEFINE d == worker[w].delivery
           n == worker[w].attempt
<1>0. /\ worker \in [Workers -> Job] /\ worker[w].pc # "idle"
      /\ d \in Deliveries /\ n \in Attempts
      /\ delivery[d].status \in {"processing", "cancelled"}
  <2>1. worker[w].pc # "idle"
    BY DEF ReadKey, Lookup, Check, CallTim, Answer, MarkDelivered, RememberKey,
       MarkFailed, WorkerAt
  <2> QED
    BY <2>1, ServedRow DEF ClaimInv, TypeOK
<1>1. ASSUME NEW pc, Goto(w, pc)
      PROVE  worker'[w].pc = pc /\ worker'[w].delivery = d /\ worker'[w].attempt = n
  BY <1>0, <1>1 DEF Goto, Job
<1>2. CASE ReadKey(w) \/ Lookup(w)
  <2>1. d[2] # "send"
    BY <1>0, <1>2 DEF ReadKey, Lookup, WorkerAt, SendJobInv
  <2>2. worker'[w].delivery = d
    BY <1>1, <1>2 DEF ReadKey, Lookup
  <2> QED
    BY <2>1, <2>2 DEF SendJobInv
<1>3. CASE Check(w)
  <2>1. worker'[w].pc \in {"send", "nack"} /\ worker'[w].delivery = d
        /\ UNCHANGED request
    BY <1>1, <1>3 DEF Check
  <2>2. d[2] = "send" => Uncalled(d)
    BY <1>0, <1>3 DEF Check, WorkerAt, SendJobInv
  <2>3. Uncalled(d) => Uncalled(worker[w].delivery)'
    BY <2>1 DEF Uncalled
  <2> QED
    BY <2>1, <2>2, <2>3 DEF SendJobInv
<1>4. CASE CallTim(w)
  <2>1. worker'[w].pc = "answer" /\ worker'[w].delivery = d /\ worker'[w].attempt = n
    BY <1>1, <1>4 DEF CallTim
  <2>2. d[2] = "send" => Uncalled(d)
    BY <1>0, <1>4 DEF CallTim, WorkerAt, SendJobInv
  <2>3. \A k \in Attempts \ {n} : request'[d][k] = request[d][k]
    BY <1>0, <1>4 DEF CallTim, ClaimInv, TypeOK
  <2> QED
    BY <2>1, <2>2, <2>3 DEF SendJobInv, Uncalled
<1>5. CASE Answer(w)
  <2>0. UNCHANGED request
    BY <1>5 DEF Answer
  <2>1. CASE request[d][n] = "rejected" /\ Goto(w, "nack")
    <3>1. worker'[w].pc = "nack" /\ worker'[w].delivery = d
      BY <1>1, <2>1
    <3>2. d[2] = "send" => Uncalled(d)
      BY <1>0, <1>5, <2>1 DEF Answer, WorkerAt, SendJobInv, Uncalled
    <3>3. Uncalled(d) => Uncalled(worker[w].delivery)'
      BY <2>0, <3>1 DEF Uncalled
    <3> QED
      BY <3>1, <3>2, <3>3 DEF SendJobInv
  <2>2. CASE \E key \in BOOLEAN :
               worker' = [worker EXCEPT ![w].pc = "ok", ![w].key = key]
    <3>1. worker'[w].pc = "ok"
      BY <1>0, <2>2 DEF Job
    <3> QED
      BY <3>1 DEF SendJobInv
  <2> QED
    BY <1>5, <2>1, <2>2 DEF Answer
<1>6. CASE worker'[w].pc = "idle"
  BY <1>6 DEF SendJobInv
<1>7. CASE MarkDelivered(w) /\ worker'[w].pc # "idle"
  <2>1. IdleJob.pc = "idle"
    BY DEF IdleJob
  <2>2. /\ ~IsProcessing(w) /\ UNCHANGED delivery
        /\ worker' = [worker EXCEPT ![w].pc = "remember"]
    BY <1>0, <1>7, <2>1 DEF MarkDelivered
  <2>3. worker'[w].pc = "remember" /\ worker'[w].delivery = d
    BY <1>1, <2>2 DEF Goto
  <2>4. Row(w)'.status = "cancelled"
    BY <1>0, <2>2, <2>3 DEF IsProcessing, Row
  <2> QED
    BY <2>3, <2>4 DEF SendJobInv
<1>8. CASE RememberKey(w) \/ MarkFailed(w)
  BY <1>0, <1>6, <1>8 DEF RememberKey, MarkFailed, IdleJob
<1> QED
  BY <1>2, <1>3, <1>4, <1>5, <1>6, <1>7, <1>8

LEMMA HandlingKeepsSendJob ==
    ASSUME ClaimInv, [Next]_vars, NEW w \in Workers, SendJobInv(w),
           NEW e \in Deliveries, NEW n \in Attempts, TimHandles(e, n)
    PROVE  SendJobInv(w)'
<1> DEFINE d == worker[w].delivery
<1>0. worker' = worker /\ delivery' = delivery /\ request[e][n] = "sent"
  BY DEF TimHandles
<1>1. CASE worker[w].pc = "idle"
  BY <1>0, <1>1 DEF SendJobInv
<1>2. CASE worker[w].pc # "idle"
  <2>1. d \in Deliveries
    BY <1>2, ServedRow
  <2>2. \A k \in Attempts : d # e \/ k # n => request'[d][k] = request[d][k]
    BY <2>1, TimHandlesTakes
  <2>3. d = e /\ d[2] = "send" => worker[w].pc \notin {"check", "send", "nack"}
    BY <1>0, <1>2 DEF SendJobInv, Uncalled
  <2>4. d = e /\ d[2] = "send" /\ worker[w].pc = "answer" => n = worker[w].attempt
    BY <1>0, <1>2 DEF SendJobInv
  <2> QED
    BY <1>0, <1>2, <2>2, <2>3, <2>4 DEF SendJobInv, Uncalled, Row
<1> QED
  BY <1>1, <1>2

LEMMA SendJobStep ==
    ASSUME ClaimInv, [Next]_vars, faults' = {}, faults = {},
           \A m \in Messages : SendRowInv(m), NEW w \in Workers, SendJobInv(w)
    PROVE  SendJobInv(w)'
<1>1. ASSUME NEW v \in Workers, WorkerStep(v)
      PROVE  SendJobInv(w)'
  BY <1>1, OthersKeepSendJob, ClaimSendJob, OwnStepKeepsSendJob DEF WorkerStep
<1>2. \A v \in Workers : ~LoseAnswer(v) /\ ~Crash(v)
  BY DEF LoseAnswer, Crash, Fail
<1>3. CASE UNCHANGED <<worker, request>>
  BY <1>3, SendJobKept
<1>4. CASE \E e \in Deliveries, n \in Attempts : TimHandles(e, n)
  BY <1>4, HandlingKeepsSendJob
<1>5. CASE \E k \in Messages : Revoke(k) \/ \E kind \in Kinds : StoreMessage(k, kind)
  BY <1>3, <1>5 DEF Revoke, StoreMessage
<1>6. CASE \E e \in Deliveries : DeadlinePasses(e) \/ FailExhausted(e)
  BY <1>3, <1>6 DEF DeadlinePasses, FailExhausted
<1>7. CASE \/ \E next \in Modes : SetMode(next)
           \/ ArchiveRetiredWork \/ UNCHANGED vars
  BY <1>3, <1>7 DEF SetMode, ArchiveRetiredWork, vars
<1> QED
  BY <1>1, <1>2, <1>4, <1>5, <1>6, <1>7 DEF Next

LEMMA CopyStep ==
    ASSUME ClaimInv, [Next]_vars, CopyInv, \A w \in Workers : SendJobInv(w)
    PROVE  CopyInv'
<1> SUFFICES ASSUME NEW m \in Messages, tim'[m] = "present"
             PROVE  \E n \in Attempts : request'[SendOf(m)][n] = "accepted"
  BY DEF CopyInv
<1> DEFINE d == SendOf(m)
<1>0. /\ d \in Deliveries /\ d[2] = "send"
      /\ tim \in [Messages -> {"absent", "present", "recalled"}]
      /\ request \in [Deliveries -> [Attempts ->
                             {"none", "sent", "accepted", "rejected"}]]
  BY SendsDiffer DEF ClaimInv, TypeOK
<1>1. CASE UNCHANGED <<request, tim>>
  BY <1>1 DEF CopyInv
<1>2. ASSUME NEW v \in Workers, CallTim(v)
      PROVE  \E n \in Attempts : request'[d][n] = "accepted"
  <2>1. PICK n \in Attempts : request[d][n] = "accepted"
    BY <1>2 DEF CallTim, CopyInv
  <2>2. worker[v].delivery # d
    BY <1>0, <1>2, <2>1 DEF CallTim, WorkerAt, SendJobInv, Uncalled
  <2> QED
    BY <1>0, <1>2, <2>1, <2>2, CallTimAsks
<1>3. ASSUME NEW e \in Deliveries, NEW k \in Attempts, TimHandles(e, k)
      PROVE  \E n \in Attempts : request'[d][n] = "accepted"
  <2>1. CASE tim[m] = "present"
    <3>1. PICK n \in Attempts : request[d][n] = "accepted"
      BY <2>1 DEF CopyInv
    <3>2. d # e \/ n # k
      BY <1>3, <3>1 DEF TimHandles
    <3> QED
      BY <1>0, <1>3, <3>1, <3>2, TimHandlesTakes
  <2>2. CASE tim[m] # "present"
    <3>1. /\ e[1] \in Messages /\ e[2] \in {"send", "revoke"}
      BY DeliveryPairs
    <3>2. /\ request' = [request EXCEPT ![e][k] = "accepted"]
          /\ e[1] = m /\ e[2] = "send"
      BY <1>0, <1>3, <2>2, <3>1 DEF TimHandles
    <3>3. e = d
      BY <3>2, SendIsSend
    <3> QED
      BY <1>0, <3>2, <3>3
  <2> QED
    BY <2>1, <2>2
<1> QED
  BY <1>1, <1>2, <1>3, Frames

LEMMA RecallStep == ClaimInv /\ RecallInv /\ [Next]_vars => RecallInv'
<1> SUFFICES ASSUME ClaimInv, RecallInv, [Next]_vars, faults' = {}
             PROVE  /\ CopyInv'
                    /\ \A m \in Messages : SendRowInv(m)'
                    /\ \A w \in Workers : SendJobInv(w)'
  BY DEF RecallInv
<1>1. faults = {}
  BY Frames
<1> QED
  BY <1>1, CopyStep, SendRowStep, SendJobStep DEF RecallInv

\* As long as nothing has crashed and no answer was lost, a revoked message
\* whose send is over has no copy at TIM but one whose recall was asked for, or
\* one that the operator had archived before.
THEOREM RevokedCopiesAreRecalled == Spec => []RevokedIsCompensated
<1>1. ClaimInv /\ RecallInv => RevokedIsCompensated
  <2> SUFFICES ASSUME ClaimInv, RecallInv, faults = {}, NEW m \in Messages,
                      message[m].status = "revoked", Quiet(m), tim[m] = "present",
                      delivery[RevokeOf(m)].status = "absent"
               PROVE  delivery[SendOf(m)].reason = "archived"
    BY DEF RevokedIsCompensated, Compensated
  <2>1. SendRowInv(m) /\ ~Uncalled(SendOf(m)) /\ Unserved(SendOf(m))
    BY DEF RecallInv, CopyInv, Uncalled, Unserved, Quiet
  <2>2. /\ delivery[SendOf(m)].status = "cancelled"
        /\ delivery[SendOf(m)].reason \notin {"none", "retired", "revoked", "inflight"}
    BY <2>1 DEF SendRowInv, NeverSent
  <2>3. delivery[SendOf(m)].reason \in Reasons
    BY SendsDiffer DEF ClaimInv, TypeOK, DeliveryRow
  <2> QED
    BY <2>2, <2>3 DEF Reasons
<1> QED
  BY <1>1, InitClaimInv, InitRecall, ClaimInvStep, RecallStep, PTL DEF Spec
=============================================================================
