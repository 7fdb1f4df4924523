---------------------- MODULE CompatibilityOutboxProofs ----------------------
(***************************************************************************)
(* Theorems about the compatibility outbox, for any number of rows,        *)
(* dispatches, attempts and crashes.                                       *)
(*                                                                         *)
(* A claim is an attempt number of its row.  ClaimInv: no two dispatches   *)
(* hold the same claim, and the attempt of a claim that has not reached    *)
(* the provider call is unused.  On it rest that a result is true of the   *)
(* attempt it closes (Answered), that no dispatch overlaps another while   *)
(* leases outlast jobs (OneHolder), and that then only the current attempt *)
(* of an unsafe operation may have reached the provider (OnlyCurrent).     *)
(***************************************************************************)
EXTENDS CompatibilityOutbox, FiniteSetTheorems, TLAPS

\* The dispatch w holds row o.
Held(w, o) == worker[w].claim[o] # 0
\* The provider has not been called yet under the claim of w on o.
Unused(w, o) == ~ (worker[w].pc \in {"answer", "bind", "finalize"} /\ Current(w) = o)

ClaimsCounted == \A w \in Workers, o \in Ops : worker[w].claim[o] <= row[o].attempts

ClaimsDiffer == \A v, w \in Workers, o \in Ops :
    v # w /\ Held(w, o) => worker[v].claim[o] # worker[w].claim[o]

ClaimsFresh == \A w \in Workers, o \in Ops :
    Held(w, o) /\ Unused(w, o) => request[o][worker[w].claim[o]] = "none"

AttemptsFresh == \A o \in Ops, n \in Attempts :
    n > row[o].attempts => request[o][n] = "none"

AbsentNew == \A o \in Ops : row[o].status = "absent" => row[o].attempts = 0

ClaimInv ==
    /\ TypeOK /\ ClaimsCounted /\ ClaimsDiffer /\ ClaimsFresh /\ AttemptsFresh
    /\ AbsentNew

-----------------------------------------------------------------------------
(* The steps, as far as claims, rows and requests are concerned *)

\* A dispatch works on a row of its batch: the claims of all stay.
LocalStep(w) == Prepare(w) \/ Check(w) \/ CallProvider(w) \/ Answer(w) \/ Bind(w)

LEMMA LocalKeepsClaims ==
    ASSUME TypeOK, NEW w \in Workers, LocalStep(w)
    PROVE  /\ worker[w].pc # "idle"
           /\ worker' \in [Workers -> Dispatch]
           /\ \A v \in Workers : worker'[v].claim = worker[v].claim
           /\ \A v \in Workers \ {w} : worker'[v] = worker[v]
           /\ worker'[w].pc \notin {"idle", "prepare"}
           /\ worker'[w].op \in Ops
           /\ worker'[w].claim[worker'[w].op] # 0
           /\ row' = row /\ mode' = mode /\ crashes' = crashes
<1> USE DEF TypeOK
<1>d. worker[w] \in Dispatch
  OBVIOUS
<1>t. /\ worker[w].pc \in PCs /\ worker[w].claim \in [Ops -> Nat]
      /\ worker[w].op \in Ops \cup {NoOp} /\ worker[w].verdict \in Verdicts
  BY <1>d DEF Dispatch
<1>a. worker[w].pc \notin {"idle", "prepare"} => worker[w].claim[worker[w].op] # 0
  BY DEF Attempt, Current, Attempts
<1>h. ASSUME NEW o \in Ops, NEW pc \in PCs \ {"idle", "prepare"},
             NEW verdict \in Verdicts, worker[w].claim[o] # 0,
             Handle(w, o, pc, verdict)
      PROVE  /\ worker' \in [Workers -> Dispatch]
             /\ \A v \in Workers : worker'[v].claim = worker[v].claim
             /\ \A v \in Workers \ {w} : worker'[v] = worker[v]
             /\ worker'[w].pc \notin {"idle", "prepare"}
             /\ worker'[w].op \in Ops
             /\ worker'[w].claim[worker'[w].op] # 0
  <2> DEFINE new == [pc |-> pc, claim |-> worker[w].claim, op |-> o,
                     verdict |-> verdict]
  <2>1. new \in Dispatch
    BY <1>t, <1>h DEF Dispatch
  <2>2. worker' = [worker EXCEPT ![w] = new]
    BY <1>h DEF Handle
  <2>3. new.claim = worker[w].claim /\ new.pc = pc /\ new.op = o
    OBVIOUS
  <2> HIDE DEF new
  <2> QED
    BY <1>h, <2>1, <2>2, <2>3
<1>c. ASSUME NEW verdict \in Verdicts, Conclude(w, verdict),
             worker[w].pc \notin {"idle", "prepare"}
      PROVE  /\ worker' \in [Workers -> Dispatch]
             /\ \A v \in Workers : worker'[v].claim = worker[v].claim
             /\ \A v \in Workers \ {w} : worker'[v] = worker[v]
             /\ worker'[w].pc \notin {"idle", "prepare"}
             /\ worker'[w].op \in Ops
             /\ worker'[w].claim[worker'[w].op] # 0
  <2>1. worker[w].op \in Ops
    BY <1>c DEF Current
  <2> QED
    BY <1>c, <1>a, <1>h, <2>1 DEF Conclude, PCs, Current
<1>g. ASSUME NEW pc \in PCs \ {"idle", "prepare"}, worker' = [worker EXCEPT ![w].pc = pc],
             worker[w].pc \notin {"idle", "prepare"}
      PROVE  /\ worker' \in [Workers -> Dispatch]
             /\ \A v \in Workers : worker'[v].claim = worker[v].claim
             /\ \A v \in Workers \ {w} : worker'[v] = worker[v]
             /\ worker'[w].pc \notin {"idle", "prepare"}
             /\ worker'[w].op \in Ops
             /\ worker'[w].claim[worker'[w].op] # 0
  BY <1>g, <1>a, <1>t DEF Dispatch, PCs, Current, Attempt
<1> HIDE DEF TypeOK
<1>1. CASE Prepare(w)
  BY <1>1, <1>h, Zenon DEF Prepare, At, PCs, Verdicts
<1>2. CASE Check(w)
  BY <1>2, <1>c, <1>g DEF Check, At, PCs, Verdicts
<1>3. CASE CallProvider(w)
  BY <1>3, <1>c, <1>g DEF CallProvider, At, PCs, Verdicts
<1>4. CASE Answer(w)
  <2> DEFINE o == Current(w)
  <2>1. Ambiguous(o) \in Verdicts
    BY DEF Ambiguous, Verdicts
  <2>2. \/ worker' = [worker EXCEPT ![w].pc = "bind"]
        \/ \E verdict \in Verdicts : Conclude(w, verdict)
    BY <1>4, <2>1 DEF Answer, Verdicts
  <2>3. worker[w].pc = "answer" /\ row' = row /\ mode' = mode /\ crashes' = crashes
    BY <1>4 DEF Answer, At
  <2> QED
    BY <2>2, <2>3, <1>c, <1>g DEF PCs
<1>5. CASE Bind(w)
  BY <1>5, <1>c DEF Bind, At, Verdicts
<1> QED
  BY <1>1, <1>2, <1>3, <1>4, <1>5 DEF LocalStep

\* What a claim does to the row o of its batch, and to the claims of w.
LEMMA ClaimTakes ==
    ASSUME TypeOK, NEW w \in Workers, Claim(w)
    PROVE  /\ worker[w].pc = "idle" /\ worker[w].claim = NoClaim
           /\ row' \in [Ops -> OutboxRow]
           /\ worker' \in [Workers -> Dispatch]
           /\ \A v \in Workers \ {w} : worker'[v] = worker[v]
           /\ \/ worker'[w] = worker[w]
              \/ worker'[w].pc = "prepare" /\ worker'[w].claim # NoClaim
           /\ \A o \in Ops :
                \/ /\ row'[o] = row[o] /\ worker'[w].claim[o] = 0
                \/ /\ Due(o) /\ row'[o].status = "failed"
                   /\ row'[o].attempts = row[o].attempts
                   /\ worker'[w].claim[o] = 0
                \/ /\ Due(o) /\ row[o].attempts < MaxAttempts
                   /\ row'[o].status = "processing" /\ ~row'[o].due
                   /\ row'[o].attempts = row[o].attempts + 1
                   /\ worker'[w].claim[o] = row[o].attempts + 1
           /\ UNCHANGED <<request, binding, mode, crashes>>
<1> USE DEF TypeOK
<1>1. PICK batch \in SUBSET {o \in Ops : Due(o)} \ {{}} :
         LET taken == {o \in batch : ~Exhausted(o)} IN
         /\ row' = [o \in Ops |->
              IF o \in taken THEN ClaimedRow(o)
              ELSE IF o \in batch THEN [row[o] EXCEPT !.status = "failed"]
              ELSE row[o]]
         /\ worker' = IF taken = {} THEN worker
                      ELSE [worker EXCEPT ![w] =
                        [pc |-> "prepare", op |-> NoOp, verdict |-> "ok",
                         claim |-> [o \in Ops |-> IF o \in taken
                                      THEN row[o].attempts + 1 ELSE 0]]]
  BY DEF Claim
<1>2. worker[w].pc = "idle" /\ worker[w].claim = NoClaim
      /\ UNCHANGED <<request, binding, mode, crashes>>
  BY DEF Claim, At
<1> DEFINE taken == {o \in batch : ~Exhausted(o)}
           claim == [o \in Ops |-> IF o \in taken THEN row[o].attempts + 1 ELSE 0]
           new == [pc |-> "prepare", op |-> NoOp, verdict |-> "ok", claim |-> claim]
<1>r. \A o \in Ops : /\ row[o] \in OutboxRow /\ row[o].attempts \in Nat
                     /\ row[o].attempts <= MaxAttempts
  BY DEF OutboxRow
<1>3. claim \in [Ops -> Nat]
  BY <1>r
<1>4. new \in Dispatch /\ new.claim = claim /\ new.pc = "prepare"
  BY <1>3 DEF Dispatch, PCs, Verdicts
<1>5. \A o \in Ops : ~Exhausted(o) => row[o].attempts < MaxAttempts
  BY <1>r, OutboxAssumption DEF Exhausted
<1>6. ASSUME NEW o \in Ops
      PROVE  /\ row'[o] \in OutboxRow
             /\ o \in taken =>
                  /\ Due(o) /\ row[o].attempts < MaxAttempts
                  /\ row'[o].status = "processing" /\ ~row'[o].due
                  /\ row'[o].attempts = row[o].attempts + 1
             /\ o \in batch \ taken =>
                  /\ Due(o) /\ row'[o].status = "failed"
                  /\ row'[o].attempts = row[o].attempts
             /\ o \notin batch => row'[o] = row[o]
  <2>1. ClaimedRow(o) \in OutboxRow
    BY <1>r DEF ClaimedRow, OutboxRow, Statuses
  <2>2. [row[o] EXCEPT !.status = "failed"] \in OutboxRow
        /\ [row[o] EXCEPT !.status = "failed"].status = "failed"
        /\ [row[o] EXCEPT !.status = "failed"].attempts = row[o].attempts
    BY <1>r DEF OutboxRow, Statuses
  <2>3. CASE o \in taken
    BY <2>1, <2>3, <1>1, <1>5 DEF ClaimedRow
  <2>4. CASE o \in batch \ taken
    BY <2>2, <2>4, <1>1
  <2>5. CASE o \notin batch
    BY <2>5, <1>1, <1>r
  <2> QED
    BY <2>3, <2>4, <2>5
<1>7. row' \in [Ops -> OutboxRow]
  BY <1>1, <1>6, Zenon
<1>8. CASE taken = {}
  <2>1. worker' = worker
    BY <1>8, <1>1
  <2>2. \A o \in Ops : worker'[w].claim[o] = 0 /\ o \notin taken
    BY <2>1, <1>2, <1>8 DEF NoClaim
  <2> HIDE DEF taken
  <2> QED
    BY <1>2, <1>6, <1>7, <2>1, <2>2
<1>9. CASE taken # {}
  <2>1. worker' = [worker EXCEPT ![w] = new]
    BY <1>9, <1>1
  <2>2. \A o \in Ops : /\ o \in taken => claim[o] = row[o].attempts + 1
                       /\ o \notin taken => claim[o] = 0
    OBVIOUS
  <2>3. taken \subseteq Ops
    OBVIOUS
  <2>4. claim # NoClaim
    BY <2>2, <2>3, <1>9, <1>r DEF NoClaim
  <2> HIDE DEF taken, claim, new
  <2>5. /\ worker' \in [Workers -> Dispatch]
        /\ \A v \in Workers \ {w} : worker'[v] = worker[v]
        /\ worker'[w] = new
    BY <2>1, <1>4
  <2> QED
    BY <1>2, <1>4, <1>6, <1>7, <2>2, <2>4, <2>5
<1> QED
  BY <1>8, <1>9

\* A row that is done with leaves the batch.
LEMMA LeaveDrops ==
    ASSUME TypeOK, NEW w \in Workers, Leave(w), worker[w].pc = "finalize"
    PROVE  /\ worker' \in [Workers -> Dispatch]
           /\ \A v \in Workers \ {w} : worker'[v] = worker[v]
           /\ worker'[w].pc \in {"idle", "prepare"}
           /\ worker'[w].pc = "idle" <=> worker'[w].claim = NoClaim
           /\ Current(w) \in Ops /\ Attempt(w) \in Attempts
           /\ worker'[w].claim[Current(w)] = 0
           /\ \A o \in Ops \ {Current(w)} : worker'[w].claim[o] = worker[w].claim[o]
<1> DEFINE claim == [worker[w].claim EXCEPT ![Current(w)] = 0]
           idle == [pc |-> "idle", claim |-> NoClaim, op |-> NoOp, verdict |-> "ok"]
           next == [pc |-> "prepare", claim |-> claim, op |-> NoOp, verdict |-> "ok"]
<1>1. Current(w) \in Ops /\ Attempt(w) \in Attempts /\ worker[w].claim \in [Ops -> Nat]
  BY DEF TypeOK, Dispatch
<1>2. /\ claim \in [Ops -> Nat] /\ claim[Current(w)] = 0
      /\ \A o \in Ops \ {Current(w)} : claim[o] = worker[w].claim[o]
  BY <1>1
<1>3. NoClaim \in [Ops -> Nat]
  BY DEF NoClaim
<1>4. idle \in Dispatch /\ next \in Dispatch
  BY <1>2, <1>3 DEF Dispatch, PCs, Verdicts
<1>5. worker' = [worker EXCEPT ![w] = IF claim = NoClaim THEN idle ELSE next]
  BY DEF Leave, IdleDispatch
<1>6. idle.pc = "idle" /\ idle.claim = NoClaim /\ next.pc = "prepare" /\ next.claim = claim
  OBVIOUS
<1>7. worker \in [Workers -> Dispatch]
  BY DEF TypeOK
<1> HIDE DEF claim, idle, next
<1>8. /\ worker' \in [Workers -> Dispatch]
      /\ \A v \in Workers \ {w} : worker'[v] = worker[v]
      /\ worker'[w] = IF claim = NoClaim THEN idle ELSE next
  BY <1>4, <1>5, <1>7
<1>9. worker'[w].claim = claim
  BY <1>6, <1>8
<1> QED
  BY <1>1, <1>2, <1>6, <1>8, <1>9

\* The row of a dispatch after it was finalised.
LEMMA FinalizeWrites ==
    ASSUME TypeOK, NEW w \in Workers, Finalize(w)
    PROVE  /\ worker[w].pc = "finalize" /\ Leave(w)
           /\ row' \in [Ops -> OutboxRow]
           /\ \A o \in Ops :
                \/ row'[o] = row[o]
                \/ /\ o = Current(w) /\ Holds(w)
                   /\ row'[o].attempts = row[o].attempts
                   /\ row'[o].status = FinalStatus(w) /\ ~row'[o].due
           /\ UNCHANGED <<request, binding, mode, crashes>>
<1> DEFINE o == Current(w)
           new == [status |-> FinalStatus(w), attempts |-> row[o].attempts,
                   due |-> FALSE]
<1>1. worker[w].pc = "finalize" /\ Leave(w) /\ UNCHANGED <<request, binding, mode, crashes>>
  BY DEF Finalize, At
<1>2. o \in Ops /\ row \in [Ops -> OutboxRow]
  BY <1>1 DEF TypeOK
<1>3. FinalStatus(w) \in {"completed", "retry", "failed"}
  BY DEF FinalStatus
<1>4. row[o].attempts \in Nat
  BY <1>2 DEF OutboxRow
<1>5. /\ new \in OutboxRow /\ new.status = FinalStatus(w) /\ ~new.due
      /\ new.attempts = row[o].attempts
  BY <1>3, <1>4 DEF OutboxRow, Statuses
<1>6. row' = IF Holds(w) THEN [row EXCEPT ![o] = new] ELSE row
  BY <1>2, Zenon DEF Finalize
<1> HIDE DEF o, new
<1>7. CASE Holds(w)
  <2>1. row' = [row EXCEPT ![o] = new]
    BY <1>6, <1>7
  <2>2. /\ row' \in [Ops -> OutboxRow] /\ row'[o] = new
        /\ \A p \in Ops \ {o} : row'[p] = row[p]
    BY <1>2, <1>5, <2>1
  <2> QED
    BY <1>1, <1>2, <1>5, <1>7, <2>2 DEF o
<1>8. CASE ~Holds(w)
  BY <1>1, <1>2, <1>6, <1>8
<1> QED
  BY <1>7, <1>8

LEMMA CrashClears ==
    ASSUME TypeOK, NEW w \in Workers, Crash(w)
    PROVE  /\ worker' \in [Workers -> Dispatch]
           /\ \A v \in Workers \ {w} : worker'[v] = worker[v]
           /\ worker'[w].pc = "idle" /\ worker'[w].claim = NoClaim
           /\ crashes < MaxCrashes /\ crashes' = crashes + 1
           /\ UNCHANGED <<row, request, binding, mode>>
<1>1. /\ IdleDispatch \in Dispatch /\ IdleDispatch.pc = "idle"
      /\ IdleDispatch.claim = NoClaim
  BY DEF IdleDispatch, Dispatch, PCs, Verdicts, NoClaim
<1>2. worker \in [Workers -> Dispatch]
  BY DEF TypeOK
<1>3. worker' = [worker EXCEPT ![w] = IdleDispatch]
      /\ crashes < MaxCrashes /\ crashes' = crashes + 1
      /\ UNCHANGED <<row, request, binding, mode>>
  BY DEF Crash
<1> QED
  BY <1>1, <1>2, <1>3

\* What the environment does to the rows: nobody's claim changes.
OutsideStep ==
    \/ \E o \in Ops : \/ \E mappable \in BOOLEAN : Enqueue(o, mappable)
                      \/ BackoffPasses(o) \/ LeaseEnds(o)
    \/ ArchiveRetiredWork

LEMMA OutsideWrites ==
    ASSUME TypeOK, OutsideStep
    PROVE  /\ row' \in [Ops -> OutboxRow]
           /\ \A o \in Ops :
                \/ row'[o] = row[o]
                \/ /\ row[o].status = "absent" /\ row'[o].attempts = 0
                   /\ row'[o].status \in {"pending", "cancelled"}
                \/ /\ row[o].status \notin {"absent", "completed", "cancelled"}
                   /\ row'[o].status = "cancelled"
                   /\ row'[o].attempts = row[o].attempts
                \/ /\ row[o].status = "retry" /\ row'[o].status = "retry"
                   /\ row'[o].attempts = row[o].attempts
                \/ /\ row[o].status = "processing" /\ row'[o].status = "processing"
                   /\ Overrun \/ \A w \in Workers : worker[w].claim[o] = 0
                   /\ row'[o].attempts = row[o].attempts
           /\ UNCHANGED <<request, binding, worker, crashes>>
<1>0. row \in [Ops -> OutboxRow]
  BY DEF TypeOK
<1>1. ASSUME NEW o \in Ops, NEW mappable \in BOOLEAN, Enqueue(o, mappable)
      PROVE  /\ row' \in [Ops -> OutboxRow]
             /\ \A p \in Ops \ {o} : row'[p] = row[p]
             /\ row[o].status = "absent" /\ row'[o].attempts = 0
             /\ row'[o].status \in {"pending", "cancelled"}
             /\ UNCHANGED <<request, binding, worker, crashes>>
  BY <1>0, <1>1 DEF Enqueue, OutboxRow, Statuses
<1>2. ASSUME NEW o \in Ops, BackoffPasses(o) \/ LeaseEnds(o)
      PROVE  /\ row' \in [Ops -> OutboxRow]
             /\ \A p \in Ops \ {o} : row'[p] = row[p]
             /\ row'[o].status = row[o].status /\ row'[o].attempts = row[o].attempts
             /\ UNCHANGED <<request, binding, worker, crashes>>
  BY <1>0, <1>2 DEF BackoffPasses, LeaseEnds, OutboxRow
<1>3. CASE ArchiveRetiredWork
  <2> DEFINE new(o) == [status |-> "cancelled", attempts |-> row[o].attempts,
                        due |-> FALSE]
  <2>1. row' = [o \in Ops |->
         IF row[o].status \in {"absent", "completed", "cancelled"} THEN row[o]
         ELSE new(o)] /\ UNCHANGED <<request, binding, worker, crashes>>
    BY <1>3 DEF ArchiveRetiredWork
  <2>2. \A o \in Ops : new(o) \in OutboxRow
    BY <1>0 DEF OutboxRow, Statuses
  <2>3. \A o \in Ops : new(o).status = "cancelled" /\ new(o).attempts = row[o].attempts
    OBVIOUS
  <2> HIDE DEF new
  <2> QED
    BY <1>0, <2>1, <2>2, <2>3
<1>4. ASSUME NEW o \in Ops, LeaseEnds(o)
      PROVE  /\ row[o].status = "processing"
             /\ Overrun \/ \A w \in Workers : worker[w].claim[o] = 0
  BY <1>4 DEF LeaseEnds
<1>5. ASSUME NEW o \in Ops, BackoffPasses(o)
      PROVE  row[o].status = "retry"
  BY <1>5 DEF BackoffPasses
<1>6. CASE \E o \in Ops, mappable \in BOOLEAN : Enqueue(o, mappable)
  BY <1>1, <1>6
<1>7. CASE \E o \in Ops : BackoffPasses(o)
  BY <1>2, <1>5, <1>7
<1>8. CASE \E o \in Ops : LeaseEnds(o)
  BY <1>2, <1>4, <1>8
<1> QED
  BY <1>3, <1>6, <1>7, <1>8 DEF OutsideStep

\* The kinds of steps, for the case distinctions below.
LEMMA Frames ==
    ASSUME Next
    PROVE  \/ \E w \in Workers : \/ Claim(w) \/ LocalStep(w)
                                 \/ Finalize(w) \/ Crash(w)
           \/ OutsideStep
           \/ \E o \in Ops, n \in Attempts : ProviderHandles(o, n)
           \/ \E next \in Modes : SetMode(next)
<1>1. CASE \E w \in Workers : DispatchStep(w) \/ Crash(w)
  BY <1>1 DEF DispatchStep, LocalStep
<1>2. CASE \E o \in Ops : \/ \E mappable \in BOOLEAN : Enqueue(o, mappable)
                          \/ BackoffPasses(o) \/ LeaseEnds(o)
  BY <1>2 DEF OutsideStep
<1>3. CASE ArchiveRetiredWork
  BY <1>3 DEF OutsideStep
<1> QED
  BY <1>1, <1>2, <1>3 DEF Next

\* What a dispatch working on its row does to the requests, and where it goes.
LEMMA LocalRequests ==
    ASSUME TypeOK, NEW w \in Workers, LocalStep(w)
    PROVE  /\ request' \in [Ops -> [Attempts -> Fates]]
           /\ \A o \in Ops, n \in Attempts :
                \/ request'[o][n] = request[o][n]
                \/ /\ worker[w].pc = "call" /\ worker'[w].pc = "answer"
                   /\ worker[w].op = o /\ worker[w].claim[o] = n
                   /\ request'[o][n] = "sent"
           /\ worker[w].pc # "prepare" => worker'[w].op = worker[w].op
           /\ worker[w].pc \in {"answer", "bind"} => worker'[w].pc \in {"bind", "finalize"}
           /\ worker'[w].pc = "answer" =>
                \A o \in Ops : worker[w].op = o =>
                    request'[o][worker[w].claim[o]] = "sent"
<1>t. /\ worker \in [Workers -> Dispatch]
      /\ request \in [Ops -> [Attempts -> Fates]]
      /\ worker[w].pc \notin {"idle", "prepare"} => Current(w) \in Ops /\ Attempt(w) \in Attempts
  BY DEF TypeOK
<1>h. ASSUME NEW pc, NEW o, NEW verdict, Handle(w, o, pc, verdict)
      PROVE  worker'[w].op = o /\ worker'[w].pc = pc
  <2> DEFINE new == [pc |-> pc, claim |-> worker[w].claim, op |-> o,
                     verdict |-> verdict]
  <2>1. worker' = [worker EXCEPT ![w] = new]
    BY <1>h DEF Handle
  <2>2. new.op = o /\ new.pc = pc
    OBVIOUS
  <2> HIDE DEF new
  <2> QED
    BY <1>t, <2>1, <2>2
<1>c. ASSUME NEW verdict, Conclude(w, verdict)
      PROVE  worker'[w].op = worker[w].op /\ worker'[w].pc = "finalize"
  BY <1>c, <1>h DEF Conclude, Current
<1>g. ASSUME NEW pc, worker' = [worker EXCEPT ![w].pc = pc]
      PROVE  worker'[w].op = worker[w].op /\ worker'[w].pc = pc
  BY <1>t, <1>g DEF Dispatch
<1>1. CASE Prepare(w)
  <2>1. worker[w].pc = "prepare" /\ request' = request
    BY <1>1 DEF Prepare, At
  <2>2. worker'[w].pc \in {"check", "finalize"}
    BY <1>1, <1>h DEF Prepare
  <2> QED
    BY <1>t, <2>1, <2>2
<1>2. CASE Check(w)
  <2>1. worker[w].pc = "check" /\ request' = request
    BY <1>2 DEF Check, At
  <2>2. worker'[w].pc \in {"call", "finalize"} /\ worker'[w].op = worker[w].op
    BY <1>2, <1>c, <1>g DEF Check
  <2> QED
    BY <1>t, <2>1, <2>2
<1>3. CASE CallProvider(w)
  <2>1. worker[w].pc = "call"
    BY <1>3 DEF CallProvider, At
  <2>2. CASE /\ request' = [request EXCEPT ![Current(w)][Attempt(w)] = "sent"]
             /\ worker' = [worker EXCEPT ![w].pc = "answer"]
    <3>1. worker'[w].pc = "answer" /\ worker'[w].op = worker[w].op
      BY <2>2, <1>g
    <3>2. Current(w) \in Ops /\ Attempt(w) \in Attempts
      BY <1>t, <2>1
    <3>3. request' \in [Ops -> [Attempts -> Fates]]
      BY <1>t, <2>2, <3>2 DEF Fates
    <3>4. \A o \in Ops, n \in Attempts : request'[o][n] =
            IF o = Current(w) /\ n = Attempt(w) THEN "sent" ELSE request[o][n]
      BY <1>t, <2>2, <3>2
    <3> QED
      BY <2>1, <3>1, <3>2, <3>3, <3>4 DEF Current, Attempt
  <2>3. CASE (\E verdict \in {"retry", "fail"} : Conclude(w, verdict)) /\ UNCHANGED request
    BY <1>t, <1>c, <2>1, <2>3
  <2> QED
    BY <1>3, <2>2, <2>3 DEF CallProvider
<1>4. CASE Answer(w)
  <2>1. worker[w].pc = "answer" /\ request' = request
    BY <1>4 DEF Answer, At
  <2>2. worker'[w].pc \in {"bind", "finalize"} /\ worker'[w].op = worker[w].op
    BY <1>4, <1>c, <1>g DEF Answer
  <2> QED
    BY <1>t, <2>1, <2>2
<1>5. CASE Bind(w)
  <2>1. worker[w].pc = "bind" /\ request' = request
    BY <1>5 DEF Bind, At
  <2>2. worker'[w].pc = "finalize" /\ worker'[w].op = worker[w].op
    BY <1>5, <1>c DEF Bind
  <2> QED
    BY <1>t, <2>1, <2>2
<1> QED
  BY <1>1, <1>2, <1>3, <1>4, <1>5 DEF LocalStep

LEMMA LocalBindings ==
    ASSUME TypeOK, NEW w \in Workers, LocalStep(w)
    PROVE  /\ binding' \in [Creates -> Nat]
           /\ \A o \in Creates :
                \/ binding'[o] = binding[o]
                \/ /\ worker[w].pc = "bind" /\ worker[w].op = o /\ binding[o] = 0
                   /\ binding'[o] = worker[w].claim[o]
<1>1. binding \in [Creates -> Nat]
  BY DEF TypeOK
<1>2. CASE Bind(w)
  <2>1. worker[w].pc = "bind" /\ Attempt(w) \in Nat
    BY <1>2 DEF Bind, At, TypeOK, Attempts
  <2> QED
    BY <1>1, <1>2, <2>1 DEF Bind, Current, Attempt
<1>3. CASE Prepare(w) \/ Check(w) \/ CallProvider(w) \/ Answer(w)
  BY <1>1, <1>3 DEF Prepare, Check, CallProvider, Answer
<1> QED
  BY <1>2, <1>3 DEF LocalStep

-----------------------------------------------------------------------------
(* Types and claims *)

LEMMA TypeInit == Init => TypeOK
<1> SUFFICES ASSUME Init PROVE TypeOK
  OBVIOUS
<1>1. /\ row \in [Ops -> OutboxRow]
      /\ \A o \in Ops : row[o].attempts <= MaxAttempts
  BY OutboxAssumption DEF Init, OutboxRow, Statuses
<1>2. IdleDispatch \in Dispatch /\ IdleDispatch.pc = "idle" /\ IdleDispatch.claim = NoClaim
  BY DEF IdleDispatch, Dispatch, PCs, Verdicts, NoClaim
<1>3. /\ worker \in [Workers -> Dispatch]
      /\ \A w \in Workers : worker[w].pc = "idle" /\ worker[w].claim = NoClaim
  BY <1>2 DEF Init
<1>4. /\ request \in [Ops -> [Attempts -> Fates]] /\ binding \in [Creates -> Nat]
      /\ mode \in Modes /\ crashes \in Nat
  BY DEF Init, Fates, Modes
<1> QED
  BY <1>1, <1>3, <1>4 DEF TypeOK

LEMMA ClaimInit == Init => ClaimInv
<1> SUFFICES ASSUME Init PROVE ClaimInv
  OBVIOUS
<1>1. \A w \in Workers, o \in Ops : worker[w].claim[o] = 0
  BY DEF Init, IdleDispatch, NoClaim
<1>2. \A o \in Ops : row[o].attempts = 0 /\ \A n \in Attempts : request[o][n] = "none"
  BY DEF Init
<1> QED
  BY <1>1, <1>2, TypeInit
     DEF ClaimInv, AbsentNew, ClaimsCounted, ClaimsDiffer, ClaimsFresh, AttemptsFresh, Held

LEMMA TypeStep ==
    ASSUME TypeOK, ClaimsCounted, [Next]_vars
    PROVE  TypeOK'
<1>t. /\ row \in [Ops -> OutboxRow] /\ worker \in [Workers -> Dispatch]
      /\ request \in [Ops -> [Attempts -> Fates]] /\ binding \in [Creates -> Nat]
      /\ mode \in Modes /\ crashes \in Nat
      /\ \A o \in Ops : row[o].attempts \in Nat /\ row[o].attempts <= MaxAttempts
      /\ \A w \in Workers :
         /\ worker[w].pc = "idle" <=> worker[w].claim = NoClaim
         /\ worker[w].pc \notin {"idle", "prepare"} =>
              worker[w].op \in Ops /\ worker[w].claim[worker[w].op] \in Attempts
  BY DEF TypeOK, OutboxRow, Current, Attempt
<1> USE DEF TypeOK, Current, Attempt
<1>1. CASE \E w \in Workers : Claim(w)
  <2>1. PICK w \in Workers : Claim(w)
    BY <1>1
  <2>2. \A o \in Ops : row'[o].attempts \in Nat /\ row'[o].attempts <= MaxAttempts
    BY <1>t, <2>1, ClaimTakes, OutboxAssumption
  <2>3. /\ worker' \in [Workers -> Dispatch]
        /\ \A v \in Workers \ {w} : worker'[v] = worker[v]
        /\ worker[w].pc = "idle"
        /\ \/ worker'[w] = worker[w]
           \/ worker'[w].pc = "prepare" /\ worker'[w].claim # NoClaim
        /\ row' \in [Ops -> OutboxRow]
        /\ UNCHANGED <<request, binding, mode, crashes>>
    BY <2>1, ClaimTakes
  <2>4. ASSUME NEW v \in Workers
        PROVE  /\ worker'[v].pc = "idle" <=> worker'[v].claim = NoClaim
               /\ worker'[v].pc \notin {"idle", "prepare"} =>
                    worker'[v].op \in Ops /\ worker'[v].claim[worker'[v].op] \in Attempts
    BY <1>t, <2>3
  <2> QED
    BY <1>t, <2>2, <2>3, <2>4
<1>2. CASE \E w \in Workers : LocalStep(w)
  <2>1. PICK w \in Workers : LocalStep(w)
    BY <1>2
  <2>2. /\ worker' \in [Workers -> Dispatch]
        /\ \A v \in Workers : worker'[v].claim = worker[v].claim
        /\ \A v \in Workers \ {w} : worker'[v] = worker[v]
        /\ worker[w].pc # "idle"
        /\ worker'[w].pc \notin {"idle", "prepare"}
        /\ worker'[w].op \in Ops
        /\ worker'[w].claim[worker'[w].op] # 0
        /\ row' = row /\ mode' = mode /\ crashes' = crashes
    BY <2>1, LocalKeepsClaims
  <2>3. worker'[w].claim[worker'[w].op] \in Attempts
    <3> DEFINE o == worker'[w].op
    <3>1. worker'[w].claim[o] \in Nat /\ worker'[w].claim[o] <= row[o].attempts
      BY <1>t, <2>2 DEF ClaimsCounted, Dispatch
    <3> QED
      BY <1>t, <2>2, <3>1, OutboxAssumption DEF Attempts
  <2>4. ASSUME NEW v \in Workers
        PROVE  /\ worker'[v].pc = "idle" <=> worker'[v].claim = NoClaim
               /\ worker'[v].pc \notin {"idle", "prepare"} =>
                    worker'[v].op \in Ops /\ worker'[v].claim[worker'[v].op] \in Attempts
    BY <1>t, <2>2, <2>3
  <2>5. request' \in [Ops -> [Attempts -> Fates]] /\ binding' \in [Creates -> Nat]
    BY <2>1, LocalRequests, LocalBindings
  <2> QED
    BY <1>t, <2>2, <2>4, <2>5
<1>3. CASE \E w \in Workers : Finalize(w)
  <2>1. PICK w \in Workers : Finalize(w)
    BY <1>3
  <2>2. /\ worker[w].pc = "finalize" /\ Leave(w) /\ row' \in [Ops -> OutboxRow]
        /\ \A o \in Ops : row'[o].attempts = row[o].attempts
        /\ UNCHANGED <<request, binding, mode, crashes>>
    BY <2>1, FinalizeWrites
  <2>3. /\ worker' \in [Workers -> Dispatch]
        /\ \A v \in Workers \ {w} : worker'[v] = worker[v]
        /\ worker'[w].pc \in {"idle", "prepare"}
        /\ worker'[w].pc = "idle" <=> worker'[w].claim = NoClaim
    BY <2>2, LeaveDrops
  <2>4. ASSUME NEW v \in Workers
        PROVE  /\ worker'[v].pc = "idle" <=> worker'[v].claim = NoClaim
               /\ worker'[v].pc \notin {"idle", "prepare"} =>
                    worker'[v].op \in Ops /\ worker'[v].claim[worker'[v].op] \in Attempts
    BY <1>t, <2>3
  <2> QED
    BY <1>t, <2>2, <2>3, <2>4
<1>4. CASE \E w \in Workers : Crash(w)
  <2>1. PICK w \in Workers : Crash(w)
    BY <1>4
  <2>2. /\ worker' \in [Workers -> Dispatch]
        /\ \A v \in Workers \ {w} : worker'[v] = worker[v]
        /\ worker'[w].pc = "idle" /\ worker'[w].claim = NoClaim
        /\ crashes' = crashes + 1 /\ UNCHANGED <<row, request, binding, mode>>
    BY <2>1, CrashClears
  <2>4. ASSUME NEW v \in Workers
        PROVE  /\ worker'[v].pc = "idle" <=> worker'[v].claim = NoClaim
               /\ worker'[v].pc \notin {"idle", "prepare"} =>
                    worker'[v].op \in Ops /\ worker'[v].claim[worker'[v].op] \in Attempts
    BY <1>t, <2>2
  <2> QED
    BY <1>t, <2>2, <2>4
<1>5. CASE OutsideStep
  <2>1. /\ row' \in [Ops -> OutboxRow] /\ UNCHANGED <<request, binding, worker, crashes>>
        /\ \A o \in Ops : row'[o].attempts \in {0, row[o].attempts}
    BY <1>5, OutsideWrites
  <2>2. mode' = mode
    BY <1>5 DEF OutsideStep, Enqueue, BackoffPasses, LeaseEnds, ArchiveRetiredWork
  <2> QED
    BY <1>t, <2>1, <2>2, OutboxAssumption
<1>6. CASE \E o \in Ops, n \in Attempts : ProviderHandles(o, n)
  <2>0. PICK o \in Ops, n \in Attempts, fate \in {"applied", "rejected"} :
               request' = [request EXCEPT ![o][n] = fate]
    BY <1>6 DEF ProviderHandles
  <2>1. request' \in [Ops -> [Attempts -> Fates]]
    BY <1>t, <2>0 DEF Fates
  <2>2. UNCHANGED <<row, binding, worker, mode, crashes>>
    BY <1>6 DEF ProviderHandles
  <2> QED
    BY <1>t, <2>1, <2>2
<1>7. CASE \E next \in Modes : SetMode(next)
  BY <1>t, <1>7 DEF SetMode
<1>8. CASE UNCHANGED vars
  BY <1>t, <1>8 DEF vars
<1> QED
  BY <1>1, <1>2, <1>3, <1>4, <1>5, <1>6, <1>7, <1>8, Frames

LEMMA ProviderWrites ==
    ASSUME TypeOK, NEW p \in Ops, NEW k \in Attempts, ProviderHandles(p, k)
    PROVE  /\ request[p][k] = "sent" /\ request'[p][k] \in {"applied", "rejected"}
           /\ \A o \in Ops, n \in Attempts :
                <<o, n>> # <<p, k>> => request'[o][n] = request[o][n]
           /\ UNCHANGED <<row, binding, worker, mode, crashes>>
  BY DEF ProviderHandles, TypeOK

LEMMA AbsentStep ==
    ASSUME TypeOK, AbsentNew, [Next]_vars
    PROVE  AbsentNew'
<1> USE DEF AbsentNew
<1>1. CASE \E w \in Workers : Claim(w)
  <2>1. PICK w \in Workers : Claim(w)
    BY <1>1
  <2>2. \A o \in Ops : row'[o] = row[o] \/ row'[o].status \in {"failed", "processing"}
    BY <2>1, ClaimTakes
  <2> QED
    BY <2>2
<1>2. CASE \E w \in Workers : LocalStep(w)
  BY <1>2, LocalKeepsClaims
<1>3. CASE \E w \in Workers : Finalize(w)
  <2>1. PICK w \in Workers : Finalize(w)
    BY <1>3
  <2>2. \A o \in Ops : row'[o] = row[o] \/ row'[o].status = FinalStatus(w)
    BY <2>1, FinalizeWrites
  <2>3. FinalStatus(w) # "absent"
    BY DEF FinalStatus
  <2> QED
    BY <2>2, <2>3
<1>4. CASE \E w \in Workers : Crash(w)
  BY <1>4, CrashClears
<1>5. CASE OutsideStep
  <2>1. \A o \in Ops : row'[o] = row[o] \/ row'[o].attempts = 0
                       \/ row'[o].status # "absent"
    BY <1>5, OutsideWrites
  <2> QED
    BY <2>1
<1>6. CASE \E o \in Ops, n \in Attempts : ProviderHandles(o, n)
  BY <1>6, ProviderWrites
<1>7. CASE (\E next \in Modes : SetMode(next)) \/ UNCHANGED vars
  BY <1>7 DEF SetMode, vars
<1> QED
  BY <1>1, <1>2, <1>3, <1>4, <1>5, <1>6, <1>7, Frames

LEMMA ClaimStep ==
    ASSUME ClaimInv, [Next]_vars
    PROVE  ClaimInv'
<1>t. /\ TypeOK /\ ClaimsCounted /\ ClaimsDiffer /\ ClaimsFresh /\ AttemptsFresh
      /\ AbsentNew
  BY DEF ClaimInv
<1>n. TypeOK'
  BY <1>t, TypeStep
<1>f. \A w \in Workers, o \in Ops : worker[w].claim[o] \in Nat /\ row[o].attempts \in Nat
  BY <1>t DEF TypeOK, Dispatch, OutboxRow
<1>m. \A o \in Ops : row[o].attempts <= MaxAttempts /\ row'[o].attempts \in Nat
  BY <1>t, <1>n DEF TypeOK, OutboxRow
<1> USE DEF ClaimsCounted, ClaimsDiffer, ClaimsFresh, AttemptsFresh, Held, Unused, Current
<1>0. AbsentNew'
  BY <1>t, AbsentStep
<1> SUFFICES ClaimsCounted' /\ ClaimsDiffer' /\ ClaimsFresh' /\ AttemptsFresh'
  BY <1>0, <1>n DEF ClaimInv
<1>1. CASE \E w \in Workers : Claim(w)
  <2>1. PICK w \in Workers : Claim(w)
    BY <1>1
  <2>2. /\ worker[w].pc = "idle" /\ worker[w].claim = NoClaim
        /\ \A v \in Workers \ {w} : worker'[v] = worker[v]
        /\ worker'[w] = worker[w] \/ worker'[w].pc = "prepare"
        /\ \A o \in Ops :
             \/ row'[o].attempts = row[o].attempts /\ worker'[w].claim[o] = 0
             \/ /\ row[o].attempts < MaxAttempts
                /\ row'[o].attempts = row[o].attempts + 1
                /\ worker'[w].claim[o] = row[o].attempts + 1
        /\ request' = request
    BY <1>t, <2>1, ClaimTakes
  <2>3. \A o \in Ops : row[o].attempts <= row'[o].attempts
    BY <1>f, <2>2
  <2>4. ClaimsCounted'
    <3> SUFFICES ASSUME NEW v \in Workers, NEW o \in Ops
                 PROVE  worker'[v].claim[o] <= row'[o].attempts
      OBVIOUS
    <3>1. CASE v = w
      BY <3>1, <1>f, <2>2
    <3>2. CASE v # w
      BY <3>2, <1>t, <1>f, <1>m, <2>2, <2>3
    <3> QED
      BY <3>1, <3>2
  <2>5. ClaimsDiffer'
    <3> SUFFICES ASSUME NEW u \in Workers, NEW v \in Workers, NEW o \in Ops, u # v,
                        worker'[v].claim[o] # 0
                 PROVE  worker'[u].claim[o] # worker'[v].claim[o]
      OBVIOUS
    <3>1. CASE u # w /\ v # w
      BY <3>1, <1>t, <2>2
    <3>2. CASE v = w
      BY <3>2, <1>t, <1>f, <2>2
    <3>3. CASE u = w
      BY <3>3, <1>t, <1>f, <2>2
    <3> QED
      BY <3>1, <3>2, <3>3
  <2>6. ClaimsFresh'
    <3> SUFFICES ASSUME NEW v \in Workers, NEW o \in Ops, Held(v, o)', Unused(v, o)'
                 PROVE  request'[o][worker'[v].claim[o]] = "none"
      OBVIOUS
    <3>1. CASE v = w
      <4>1. worker'[w].claim[o] \in Attempts /\ worker'[w].claim[o] > row[o].attempts
        BY <3>1, <1>f, <2>2, OutboxAssumption DEF Attempts
      <4> QED
        BY <3>1, <4>1, <1>t, <2>2
    <3>2. CASE v # w
      BY <3>2, <1>t, <2>2
    <3> QED
      BY <3>1, <3>2
  <2>7. AttemptsFresh'
    BY <1>t, <1>f, <1>m, <2>2, <2>3 DEF Attempts
  <2> QED
    BY <2>4, <2>5, <2>6, <2>7
<1>2. CASE \E w \in Workers : LocalStep(w)
  <2>1. PICK w \in Workers : LocalStep(w)
    BY <1>2
  <2>2. /\ \A v \in Workers : worker'[v].claim = worker[v].claim
        /\ \A v \in Workers \ {w} : worker'[v] = worker[v]
        /\ row' = row
    BY <1>t, <2>1, LocalKeepsClaims
  <2>3. /\ \A o \in Ops, n \in Attempts :
                \/ request'[o][n] = request[o][n]
                \/ /\ worker[w].pc = "call" /\ worker'[w].pc = "answer"
                   /\ worker[w].op = o /\ worker[w].claim[o] = n
        /\ worker[w].pc # "prepare" => worker'[w].op = worker[w].op
        /\ worker[w].pc \in {"answer", "bind"} => worker'[w].pc \in {"bind", "finalize"}
    BY <1>t, <2>1, LocalRequests
  <2>4. ClaimsCounted' /\ ClaimsDiffer'
    BY <1>t, <2>2
  <2>5. ClaimsFresh'
    <3> SUFFICES ASSUME NEW v \in Workers, NEW o \in Ops, Held(v, o)', Unused(v, o)'
                 PROVE  request'[o][worker'[v].claim[o]] = "none"
      OBVIOUS
    <3> DEFINE n == worker[v].claim[o]
    <3>1. n \in Attempts /\ n = worker'[v].claim[o] /\ n # 0
      BY <1>t, <1>f, <1>m, <2>2, OutboxAssumption DEF Attempts
    <3>2. worker[w].pc # "finalize"
      BY <2>1 DEF LocalStep, Prepare, Check, CallProvider, Answer, Bind, At
    <3>3. Unused(v, o)
      BY <2>2, <2>3, <3>2
    <3>4. request[o][n] = "none"
      BY <1>t, <3>1, <3>3, <2>2
    <3>5. CASE v = w
      BY <3>1, <3>4, <3>5, <2>3
    <3>6. CASE v # w
      BY <3>1, <3>4, <3>6, <1>t, <2>3
    <3> QED
      BY <3>5, <3>6
  <2>6. AttemptsFresh'
    <3> SUFFICES ASSUME NEW o \in Ops, NEW n \in Attempts, n > row[o].attempts
                 PROVE  request'[o][n] = "none"
      BY <2>2
    <3>1. worker[w].claim[o] # n
      BY <1>t, <1>f DEF Attempts
    <3> QED
      BY <1>t, <2>3, <3>1
  <2> QED
    BY <2>4, <2>5, <2>6
<1>3. CASE \E w \in Workers : Finalize(w)
  <2>1. PICK w \in Workers : Finalize(w)
    BY <1>3
  <2>2. /\ \A o \in Ops : row'[o].attempts = row[o].attempts
        /\ worker[w].pc = "finalize" /\ Leave(w) /\ request' = request
    BY <1>t, <2>1, FinalizeWrites
  <2>3. /\ \A v \in Workers \ {w} : worker'[v] = worker[v]
        /\ worker'[w].pc \in {"idle", "prepare"}
        /\ worker'[w].claim[Current(w)] = 0
        /\ \A o \in Ops \ {Current(w)} : worker'[w].claim[o] = worker[w].claim[o]
    BY <1>t, <2>2, LeaveDrops
  <2>4. \A v \in Workers, o \in Ops :
           worker'[v].claim[o] = worker[v].claim[o] \/ worker'[v].claim[o] = 0
    BY <2>3
  <2>5. ClaimsCounted'
    BY <1>t, <1>f, <2>2, <2>4
  <2>6. ClaimsDiffer'
    BY <1>t, <1>f, <2>4
  <2>7. ClaimsFresh'
    BY <1>t, <2>2, <2>3, <2>4
  <2>8. AttemptsFresh'
    BY <1>t, <2>2
  <2> QED
    BY <2>5, <2>6, <2>7, <2>8
<1>4. CASE \E w \in Workers : Crash(w)
  <2>1. PICK w \in Workers : Crash(w)
    BY <1>4
  <2>2. /\ \A v \in Workers \ {w} : worker'[v] = worker[v]
        /\ worker'[w].claim = NoClaim
        /\ row' = row /\ request' = request
    BY <1>t, <2>1, CrashClears
  <2>3. \A v \in Workers, o \in Ops : \/ worker'[v] = worker[v]
                                      \/ v = w /\ worker'[v].claim[o] = 0
    BY <2>2 DEF NoClaim
  <2>5. ClaimsCounted'
    BY <1>t, <1>f, <2>2, <2>3
  <2>6. ClaimsDiffer'
    BY <1>t, <1>f, <2>3
  <2>7. ClaimsFresh' /\ AttemptsFresh'
    BY <1>t, <2>2, <2>3
  <2> QED
    BY <2>5, <2>6, <2>7
<1>5. CASE OutsideStep
  <2>1. /\ \A o \in Ops : \/ row'[o].attempts = row[o].attempts
                          \/ row[o].status = "absent" /\ row'[o].attempts = 0
        /\ worker' = worker /\ request' = request
    BY <1>t, <1>5, OutsideWrites
  <2>2. \A o \in Ops : row'[o].attempts = row[o].attempts
    BY <1>t, <2>1 DEF AbsentNew
  <2> QED
    BY <1>t, <2>1, <2>2
<1>6. CASE \E p \in Ops, k \in Attempts : ProviderHandles(p, k)
  <2>1. PICK p \in Ops, k \in Attempts : ProviderHandles(p, k)
    BY <1>6
  <2>2. /\ request[p][k] = "sent"
        /\ \A o \in Ops, n \in Attempts :
             <<o, n>> # <<p, k>> => request'[o][n] = request[o][n]
        /\ row' = row /\ worker' = worker
    BY <1>t, <2>1, ProviderWrites
  <2>3. ClaimsCounted' /\ ClaimsDiffer'
    BY <1>t, <2>2
  <2>4. \A o \in Ops, n \in Attempts : request[o][n] = "none" => request'[o][n] = "none"
    BY <2>2
  <2>5. \A v \in Workers, o \in Ops : Held(v, o) => worker[v].claim[o] \in Attempts
    BY <1>t, <1>f, <1>m, OutboxAssumption DEF Attempts
  <2>6. ClaimsFresh' /\ AttemptsFresh'
    BY <1>t, <2>2, <2>4, <2>5
  <2> QED
    BY <2>3, <2>6
<1>7. CASE (\E next \in Modes : SetMode(next)) \/ UNCHANGED vars
  BY <1>t, <1>7 DEF SetMode, vars
<1> QED
  BY <1>1, <1>2, <1>3, <1>4, <1>5, <1>6, <1>7, Frames

THEOREM ClaimInvariant == Spec => []ClaimInv
<1>1. ClaimInv /\ [Next]_vars => ClaimInv'
  BY ClaimStep
<1> QED
  BY ClaimInit, <1>1, PTL DEF Spec

\* Every reachable state is well typed, and no row is claimed more often than
\* its max_attempts allows.
THEOREM TypeCorrect == Spec => []TypeOK
<1>1. ClaimInv => TypeOK
  BY DEF ClaimInv
<1> QED
  BY <1>1, ClaimInvariant, PTL

-----------------------------------------------------------------------------
(* Closed rows and bindings *)

LEMMA BindingsStay ==
    ASSUME TypeOK, [Next]_vars, NEW o \in Creates, binding[o] # 0
    PROVE  binding'[o] = binding[o]
<1>1. CASE \E w \in Workers : LocalStep(w)
  BY <1>1, LocalBindings
<1>2. CASE \E w \in Workers : Claim(w) \/ Finalize(w) \/ Crash(w)
  BY <1>2, ClaimTakes, FinalizeWrites, CrashClears
<1>3. CASE OutsideStep
  BY <1>3, OutsideWrites
<1>4. CASE \E p \in Ops, n \in Attempts : ProviderHandles(p, n)
  BY <1>4, ProviderWrites
<1>5. CASE (\E next \in Modes : SetMode(next)) \/ UNCHANGED vars
  BY <1>5 DEF SetMode, vars
<1> QED
  BY <1>1, <1>2, <1>3, <1>4, <1>5, Frames

LEMMA ClosedRowsStay ==
    ASSUME TypeOK, [Next]_vars, NEW o \in Ops
    PROVE  /\ row[o].status \in {"completed", "cancelled"} => row'[o] = row[o]
           /\ row[o].status = "failed" => row'[o].status \in {"failed", "cancelled"}
<1>1. CASE \E w \in Workers : Claim(w)
  <2>1. PICK w \in Workers : Claim(w)
    BY <1>1
  <2>2. row'[o] = row[o] \/ Due(o)
    BY <2>1, ClaimTakes
  <2> QED
    BY <2>2 DEF Due
<1>2. CASE \E w \in Workers : Finalize(w)
  <2>1. PICK w \in Workers : Finalize(w)
    BY <1>2
  <2>2. row'[o] = row[o] \/ (o = Current(w) /\ Holds(w))
    BY <2>1, FinalizeWrites
  <2> QED
    BY <2>2 DEF Holds
<1>3. CASE OutsideStep
  BY <1>3, OutsideWrites
<1>4. CASE \E w \in Workers : LocalStep(w) \/ Crash(w)
  BY <1>4, LocalKeepsClaims, CrashClears
<1>5. CASE \E p \in Ops, n \in Attempts : ProviderHandles(p, n)
  BY <1>5, ProviderWrites
<1>6. CASE (\E next \in Modes : SetMode(next)) \/ UNCHANGED vars
  BY <1>6 DEF SetMode, vars
<1> QED
  BY <1>1, <1>2, <1>3, <1>4, <1>5, <1>6, Frames

\* Whatever dispatches outlive their leases, a completed or cancelled row keeps
\* its status, a failed one is at most cancelled, and a binding never changes.
THEOREM ClosedForGood == Spec => ClosedStaysClosed
<1>1. TypeOK /\ [Next]_vars =>
        [/\ \A o \in Ops :
            /\ row[o].status \in {"completed", "cancelled"} =>
                 row'[o].status = row[o].status
            /\ row[o].status = "failed" =>
                 row'[o].status \in {"failed", "cancelled"}
         /\ \A o \in Creates : binding[o] # 0 => binding'[o] = binding[o]]_vars
  BY ClosedRowsStay, BindingsStay
<1> QED
  BY <1>1, TypeCorrect, PTL DEF Spec, ClosedStaysClosed

-----------------------------------------------------------------------------
(* What a result says of the provider *)

\* The provider applied the attempt a dispatch binds or is about to complete.
Answered == \A w \in Workers :
    \/ worker[w].pc = "bind"
    \/ worker[w].pc = "finalize" /\ worker[w].verdict = "ok"
    => request[Current(w)][Attempt(w)] = "applied"

\* What a call needs is bound before it is sent.
ReadyIsBound == \A w \in Workers : worker[w].pc \in {"check", "call"} =>
    \A p \in Needs[Current(w)] : binding[p] # 0

BoundToAttempt == \A o \in Creates : binding[o] # 0 => binding[o] \in Attempts

ResultInv ==
    Answered /\ ReadyIsBound /\ BoundToAttempt /\ CompletedIsTruthful /\ UsesRealIds

LEMMA AppliedStays ==
    ASSUME ClaimInv, [Next]_vars, NEW o \in Ops, NEW n \in Attempts,
           request[o][n] = "applied"
    PROVE  request'[o][n] = "applied"
<1>t. TypeOK /\ ClaimsFresh
  BY DEF ClaimInv
<1>1. CASE \E w \in Workers : LocalStep(w)
  <2>1. PICK w \in Workers : LocalStep(w)
    BY <1>1
  <2>2. \/ request'[o][n] = request[o][n]
        \/ worker[w].pc = "call" /\ worker[w].claim[o] = n
    BY <1>t, <2>1, LocalRequests
  <2>3. ~ (worker[w].pc = "call" /\ worker[w].claim[o] = n)
    BY <1>t DEF ClaimsFresh, Held, Unused, Attempts
  <2> QED
    BY <2>2, <2>3
<1>2. CASE \E w \in Workers : Claim(w) \/ Finalize(w) \/ Crash(w)
  BY <1>t, <1>2, ClaimTakes, FinalizeWrites, CrashClears
<1>3. CASE OutsideStep
  BY <1>t, <1>3, OutsideWrites
<1>4. CASE \E p \in Ops, k \in Attempts : ProviderHandles(p, k)
  <2>1. PICK p \in Ops, k \in Attempts : ProviderHandles(p, k)
    BY <1>4
  <2>2. request[p][k] = "sent" /\ (<<o, n>> # <<p, k>> => request'[o][n] = request[o][n])
    BY <1>t, <2>1, ProviderWrites
  <2> QED
    BY <2>2
<1>5. CASE (\E next \in Modes : SetMode(next)) \/ UNCHANGED vars
  BY <1>5 DEF SetMode, vars
<1> QED
  BY <1>1, <1>2, <1>3, <1>4, <1>5, Frames

\* How a dispatch comes to bind, to complete or to call.
LEMMA LocalResults ==
    ASSUME TypeOK, NEW w \in Workers, LocalStep(w)
    PROVE  /\ \/ worker'[w].pc = "bind"
              \/ worker'[w].pc = "finalize" /\ worker'[w].verdict = "ok"
              => /\ worker'[w].op = worker[w].op
                 /\ \/ worker[w].pc = "bind"
                    \/ /\ worker[w].pc = "answer"
                       /\ request[Current(w)][Attempt(w)] = "applied"
           /\ worker'[w].pc \in {"check", "call"} =>
                \/ worker[w].pc = "check" /\ worker'[w].op = worker[w].op
                \/ \A p \in Needs[worker'[w].op] : binding[p] # 0
           /\ worker'[w].pc \in {"check", "call"} => binding' = binding
<1>t. worker \in [Workers -> Dispatch]
  BY DEF TypeOK
<1>h. ASSUME NEW pc, NEW o, NEW verdict, Handle(w, o, pc, verdict)
      PROVE  worker'[w].op = o /\ worker'[w].pc = pc /\ worker'[w].verdict = verdict
  <2> DEFINE new == [pc |-> pc, claim |-> worker[w].claim, op |-> o,
                     verdict |-> verdict]
  <2>1. worker' = [worker EXCEPT ![w] = new]
    BY <1>h DEF Handle
  <2>2. new.op = o /\ new.pc = pc /\ new.verdict = verdict
    OBVIOUS
  <2> HIDE DEF new
  <2> QED
    BY <1>t, <2>1, <2>2
<1>c. ASSUME NEW verdict, Conclude(w, verdict)
      PROVE  /\ worker'[w].op = worker[w].op /\ worker'[w].pc = "finalize"
             /\ worker'[w].verdict = verdict
  BY <1>c, <1>h DEF Conclude, Current
<1>g. ASSUME NEW pc, worker' = [worker EXCEPT ![w].pc = pc]
      PROVE  worker'[w].op = worker[w].op /\ worker'[w].pc = pc
  BY <1>t, <1>g DEF Dispatch
<1>1. CASE Prepare(w)
  <2>1. PICK o \in Ops :
          \/ (\A p \in Needs[o] : binding[p] # 0) /\ Handle(w, o, "check", "ok")
          \/ \E verdict \in {"retry", "fail"} : Handle(w, o, "finalize", verdict)
    BY <1>1 DEF Prepare
  <2>2. binding' = binding
    BY <1>1 DEF Prepare
  <2>3. CASE (\A p \in Needs[o] : binding[p] # 0) /\ Handle(w, o, "check", "ok")
    BY <1>h, <2>2, <2>3
  <2>4. CASE \E verdict \in {"retry", "fail"} : Handle(w, o, "finalize", verdict)
    BY <1>h, <2>4
  <2> QED
    BY <2>1, <2>3, <2>4
<1>2. CASE Check(w)
  <2>1. worker[w].pc = "check" /\ binding' = binding
    BY <1>2 DEF Check, At
  <2>2. \/ worker' = [worker EXCEPT ![w].pc = "call"]
        \/ Conclude(w, "fail")
    BY <1>2 DEF Check
  <2> QED
    BY <1>c, <1>g, <2>1, <2>2
<1>3. CASE CallProvider(w)
  <2>1. \/ worker' = [worker EXCEPT ![w].pc = "answer"]
        \/ \E verdict \in {"retry", "fail"} : Conclude(w, verdict)
    BY <1>3 DEF CallProvider
  <2> QED
    BY <1>c, <1>g, <2>1
<1>4. CASE Answer(w)
  <2>1. worker[w].pc = "answer"
    BY <1>4 DEF Answer, At
  <2>2. Ambiguous(Current(w)) \in {"retry", "fail"}
    BY DEF Ambiguous
  <2>3. \/ /\ request[Current(w)][Attempt(w)] = "applied"
           /\ \/ worker' = [worker EXCEPT ![w].pc = "bind"]
              \/ Conclude(w, "ok")
        \/ \E verdict \in {"retry", "fail"} : Conclude(w, verdict)
    BY <1>4, <2>2 DEF Answer
  <2> QED
    BY <1>c, <1>g, <2>1, <2>3
<1>5. CASE Bind(w)
  <2>1. worker[w].pc = "bind" /\ \E verdict \in {"ok", "fail"} : Conclude(w, verdict)
    BY <1>5 DEF Bind, At
  <2> QED
    BY <1>c, <2>1
<1> QED
  BY <1>1, <1>2, <1>3, <1>4, <1>5 DEF LocalStep

LEMMA AnsweredStep ==
    ASSUME ClaimInv, Answered, [Next]_vars
    PROVE  Answered'
<1>t. TypeOK
  BY DEF ClaimInv
<1>w. \A v \in Workers : worker[v].pc \notin {"idle", "prepare"} =>
        Current(v) \in Ops /\ Attempt(v) \in Attempts
  BY <1>t DEF TypeOK
<1>s. ASSUME NEW v \in Workers, worker'[v] = worker[v],
             \/ worker'[v].pc = "bind"
             \/ worker'[v].pc = "finalize" /\ worker'[v].verdict = "ok"
      PROVE  request'[Current(v)'][Attempt(v)'] = "applied"
  <2>1. request[Current(v)][Attempt(v)] = "applied" /\ Current(v) \in Ops
        /\ Attempt(v) \in Attempts
    BY <1>s, <1>w DEF Answered
  <2>2. Current(v)' = Current(v) /\ Attempt(v)' = Attempt(v)
    BY <1>s DEF Current, Attempt
  <2> QED
    BY <2>1, <2>2, AppliedStays
<1> SUFFICES ASSUME NEW v \in Workers, worker'[v] # worker[v],
                    \/ worker'[v].pc = "bind"
                    \/ worker'[v].pc = "finalize" /\ worker'[v].verdict = "ok"
             PROVE  request'[Current(v)'][Attempt(v)'] = "applied"
  BY <1>s DEF Answered
<1>1. CASE \E w \in Workers : LocalStep(w)
  <2>1. LocalStep(v)
    BY <1>t, <1>1, LocalKeepsClaims
  <2>2. /\ worker'[v].op = worker[v].op
        /\ \/ worker[v].pc = "bind"
           \/ /\ worker[v].pc = "answer"
              /\ request[Current(v)][Attempt(v)] = "applied"
    BY <1>t, <2>1, LocalResults
  <2>3. request[Current(v)][Attempt(v)] = "applied" /\ Current(v) \in Ops
        /\ Attempt(v) \in Attempts
    BY <2>2, <1>w DEF Answered
  <2>4. Current(v)' = Current(v) /\ Attempt(v)' = Attempt(v)
    BY <1>t, <2>1, <2>2, LocalKeepsClaims DEF Current, Attempt
  <2> QED
    BY <2>3, <2>4, AppliedStays
<1>2. CASE \E w \in Workers : Claim(w)
  BY <1>t, <1>2, ClaimTakes
<1>3. CASE \E w \in Workers : Finalize(w)
  BY <1>t, <1>3, FinalizeWrites, LeaveDrops
<1>4. CASE \E w \in Workers : Crash(w)
  BY <1>t, <1>4, CrashClears
<1>5. CASE OutsideStep
  BY <1>t, <1>5, OutsideWrites
<1>6. CASE \E p \in Ops, k \in Attempts : ProviderHandles(p, k)
  BY <1>t, <1>6, ProviderWrites
<1>7. CASE (\E next \in Modes : SetMode(next)) \/ UNCHANGED vars
  BY <1>7 DEF SetMode, vars
<1> QED
  BY <1>1, <1>2, <1>3, <1>4, <1>5, <1>6, <1>7, Frames

LEMMA NeedsAreCreates ==
    ASSUME NEW o \in Ops, NEW p \in Needs[o]
    PROVE  p \in Creates
  BY OutboxAssumption

LEMMA ReadyStep ==
    ASSUME ClaimInv, ReadyIsBound, [Next]_vars
    PROVE  ReadyIsBound'
<1>t. TypeOK /\ TypeOK'
  BY TypeStep DEF ClaimInv
<1>w. \A v \in Workers : /\ worker[v].pc \notin {"idle", "prepare"} => worker[v].op \in Ops
                         /\ worker'[v].pc \notin {"idle", "prepare"} => worker'[v].op \in Ops
  BY <1>t DEF TypeOK, Current
<1> SUFFICES ASSUME NEW v \in Workers, worker'[v].pc \in {"check", "call"},
                    NEW p \in Needs[worker'[v].op]
             PROVE  binding'[p] # 0
  BY DEF ReadyIsBound, Current
<1>p. p \in Creates
  BY <1>w, NeedsAreCreates
<1> SUFFICES binding[p] # 0
  BY <1>p, <1>t, BindingsStay
<1>s. CASE worker'[v] = worker[v]
  BY <1>s DEF ReadyIsBound, Current
<1> SUFFICES ASSUME worker'[v] # worker[v] PROVE binding[p] # 0
  BY <1>s
<1>1. CASE \E w \in Workers : LocalStep(w)
  <2>1. LocalStep(v)
    BY <1>t, <1>1, LocalKeepsClaims
  <2> QED
    BY <1>t, <2>1, LocalResults DEF ReadyIsBound, Current
<1>2. CASE \E w \in Workers : Claim(w)
  BY <1>t, <1>2, ClaimTakes
<1>3. CASE \E w \in Workers : Finalize(w)
  BY <1>t, <1>3, FinalizeWrites, LeaveDrops
<1>4. CASE \E w \in Workers : Crash(w)
  BY <1>t, <1>4, CrashClears
<1>5. CASE OutsideStep
  BY <1>t, <1>5, OutsideWrites
<1>6. CASE \E o \in Ops, k \in Attempts : ProviderHandles(o, k)
  BY <1>t, <1>6, ProviderWrites
<1>7. CASE (\E next \in Modes : SetMode(next)) \/ UNCHANGED vars
  BY <1>7 DEF SetMode, vars
<1> QED
  BY <1>1, <1>2, <1>3, <1>4, <1>5, <1>6, <1>7, Frames

LEMMA CompletedStep ==
    ASSUME ClaimInv, Answered, CompletedIsTruthful, [Next]_vars
    PROVE  CompletedIsTruthful'
<1>t. TypeOK
  BY DEF ClaimInv
<1> SUFFICES ASSUME NEW o \in Ops, row'[o].status = "completed"
             PROVE  /\ row'[o].attempts \in Attempts
                    /\ request'[o][row'[o].attempts] = "applied"
  BY DEF CompletedIsTruthful
<1>s. CASE row'[o] = row[o]
  BY <1>s, AppliedStays DEF CompletedIsTruthful
<1> SUFFICES ASSUME row'[o] # row[o]
             PROVE  /\ row'[o].attempts \in Attempts
                    /\ request'[o][row'[o].attempts] = "applied"
  BY <1>s
<1>1. CASE \E w \in Workers : Claim(w)
  BY <1>t, <1>1, ClaimTakes
<1>2. CASE \E w \in Workers : Finalize(w)
  <2>1. PICK w \in Workers : Finalize(w)
    BY <1>2
  <2>2. /\ worker[w].pc = "finalize" /\ o = Current(w) /\ Holds(w)
        /\ row'[o].attempts = row[o].attempts
        /\ row'[o].status = FinalStatus(w) /\ request' = request
    BY <1>t, <2>1, FinalizeWrites
  <2>3. worker[w].verdict = "ok"
    BY <2>2 DEF FinalStatus
  <2>4. request[o][Attempt(w)] = "applied" /\ Attempt(w) \in Attempts
    BY <1>t, <2>2, <2>3 DEF Answered, TypeOK
  <2>5. row[o].attempts = Attempt(w)
    BY <2>2 DEF Holds
  <2> QED
    BY <2>2, <2>4, <2>5
<1>3. CASE OutsideStep
  BY <1>t, <1>3, OutsideWrites
<1>4. CASE \E w \in Workers : LocalStep(w) \/ Crash(w)
  BY <1>t, <1>4, LocalKeepsClaims, CrashClears
<1>5. CASE \E p \in Ops, k \in Attempts : ProviderHandles(p, k)
  BY <1>t, <1>5, ProviderWrites
<1>6. CASE (\E next \in Modes : SetMode(next)) \/ UNCHANGED vars
  BY <1>6 DEF SetMode, vars
<1> QED
  BY <1>1, <1>2, <1>3, <1>4, <1>5, <1>6, Frames

LEMMA RealIdsStep ==
    ASSUME ClaimInv, ResultInv, [Next]_vars
    PROVE  BoundToAttempt' /\ UsesRealIds'
<1>t. TypeOK /\ Answered /\ ReadyIsBound /\ BoundToAttempt /\ UsesRealIds
  BY DEF ClaimInv, ResultInv
<1>1. ASSUME NEW o \in Creates, binding'[o] # 0
      PROVE  binding'[o] \in Attempts /\ request'[o][binding'[o]] = "applied"
  <2>o. o \in Ops
    BY OutboxAssumption
  <2>1. CASE binding'[o] = binding[o]
    BY <1>1, <1>t, <2>1, <2>o, AppliedStays DEF BoundToAttempt, UsesRealIds
  <2>2. CASE binding'[o] # binding[o]
    <3>1. PICK w \in Workers : LocalStep(w)
      <4>1. CASE \E w \in Workers : Claim(w) \/ Finalize(w) \/ Crash(w)
        BY <1>t, <2>2, <4>1, ClaimTakes, FinalizeWrites, CrashClears
      <4>2. CASE OutsideStep
        BY <1>t, <2>2, <4>2, OutsideWrites
      <4>3. CASE \E p \in Ops, k \in Attempts : ProviderHandles(p, k)
        BY <1>t, <2>2, <4>3, ProviderWrites
      <4>4. CASE (\E next \in Modes : SetMode(next)) \/ UNCHANGED vars
        BY <2>2, <4>4 DEF SetMode, vars
      <4> QED
        BY <4>1, <4>2, <4>3, <4>4, Frames
    <3>2. worker[w].pc = "bind" /\ worker[w].op = o /\ binding'[o] = worker[w].claim[o]
      BY <1>t, <2>2, <3>1, LocalBindings
    <3>3. request[o][binding'[o]] = "applied" /\ binding'[o] \in Attempts
      BY <1>t, <3>2 DEF Answered, TypeOK, Current, Attempt
    <3> QED
      BY <2>o, <3>3, AppliedStays
  <2> QED
    BY <2>1, <2>2
<1>2. ASSUME NEW o \in Ops, NEW n \in Attempts, request'[o][n] # "none",
             NEW p \in Needs[o]
      PROVE  binding'[p] # 0
  <2>p. p \in Creates
    BY NeedsAreCreates
  <2> SUFFICES binding[p] # 0
    BY <1>t, <2>p, BindingsStay
  <2>s. CASE request[o][n] # "none"
    BY <1>t, <2>s DEF UsesRealIds
  <2> SUFFICES ASSUME request[o][n] = "none" PROVE binding[p] # 0
    BY <2>s
  <2>1. CASE \E w \in Workers : LocalStep(w)
    <3>1. PICK w \in Workers : LocalStep(w)
      BY <2>1
    <3>2. worker[w].pc = "call" /\ worker[w].op = o
      BY <1>t, <1>2, <3>1, LocalRequests
    <3> QED
      BY <1>t, <3>2 DEF ReadyIsBound, Current
  <2>2. CASE \E w \in Workers : Claim(w) \/ Finalize(w) \/ Crash(w)
    BY <1>t, <1>2, <2>2, ClaimTakes, FinalizeWrites, CrashClears
  <2>3. CASE OutsideStep
    BY <1>t, <1>2, <2>3, OutsideWrites
  <2>4. CASE \E q \in Ops, k \in Attempts : ProviderHandles(q, k)
    <3>1. PICK q \in Ops, k \in Attempts : ProviderHandles(q, k)
      BY <2>4
    <3>2. <<o, n>> # <<q, k>>
      BY <1>t, <3>1, ProviderWrites
    <3> QED
      BY <1>t, <1>2, <3>1, <3>2, ProviderWrites
  <2>5. CASE (\E next \in Modes : SetMode(next)) \/ UNCHANGED vars
    BY <1>2, <2>5 DEF SetMode, vars
  <2> QED
    BY <2>1, <2>2, <2>3, <2>4, <2>5, Frames
<1> QED
  BY <1>1, <1>2 DEF BoundToAttempt, UsesRealIds

LEMMA ResultInit == Init => ResultInv
<1> SUFFICES ASSUME Init PROVE ResultInv
  OBVIOUS
<1>1. \A w \in Workers : worker[w].pc = "idle"
  BY DEF Init, IdleDispatch
<1>2. /\ \A o \in Ops : row[o].status = "absent"
      /\ \A o \in Ops, n \in Attempts : request[o][n] = "none"
      /\ \A o \in Creates : binding[o] = 0
  BY DEF Init
<1> QED
  BY <1>1, <1>2
     DEF ResultInv, Answered, ReadyIsBound, BoundToAttempt, CompletedIsTruthful,
         UsesRealIds

LEMMA ResultInvariant == Spec => []ResultInv
<1>1. ClaimInv /\ ResultInv /\ [Next]_vars => ResultInv'
  BY AnsweredStep, ReadyStep, CompletedStep, RealIdsStep DEF ResultInv
<1> QED
  BY <1>1, ResultInit, ClaimInvariant, PTL DEF Spec

\* A completed row was applied by the provider under the attempt it counts,
\* also when leases end under a dispatch that then writes its result back.
THEOREM CompletedIsTrue == Spec => []CompletedIsTruthful
<1>1. ResultInv => CompletedIsTruthful
  BY DEF ResultInv
<1> QED
  BY <1>1, ResultInvariant, PTL

\* A binding comes from an applied create, and nothing is sent before all it
\* needs is bound.
THEOREM OnlyRealIds == Spec => []UsesRealIds
<1>1. ResultInv => UsesRealIds
  BY DEF ResultInv
<1> QED
  BY <1>1, ResultInvariant, PTL

-----------------------------------------------------------------------------
(* Dispatches that end inside their lease *)

\* A row in a batch is processing under the attempt it counts, and not due,
\* unless it was archived; no other dispatch has it.
OneHolder == \A w \in Workers, o \in Ops : Held(w, o) =>
    /\ row[o].attempts = worker[w].claim[o]
    /\ row[o].status = "cancelled" \/ (row[o].status = "processing" /\ ~row[o].due)
    /\ \A v \in Workers \ {w} : ~Held(v, o)

LEMMA HolderStep ==
    ASSUME ClaimInv, OneHolder, ~Overrun, [Next]_vars
    PROVE  OneHolder'
<1>t. TypeOK
  BY DEF ClaimInv
<1>f. \A w \in Workers, o \in Ops : worker[w].claim[o] \in Nat /\ row[o].attempts \in Nat
  BY <1>t DEF TypeOK, Dispatch, OutboxRow
<1> SUFFICES ASSUME NEW u \in Workers, NEW o \in Ops, worker'[u].claim[o] # 0
             PROVE  /\ row'[o].attempts = worker'[u].claim[o]
                    /\ \/ row'[o].status = "cancelled"
                       \/ row'[o].status = "processing" /\ ~row'[o].due
                    /\ \A v \in Workers \ {u} : worker'[v].claim[o] = 0
  BY DEF OneHolder, Held
<1>1. CASE \E w \in Workers : Claim(w)
  <2>1. PICK w \in Workers : Claim(w)
    BY <1>1
  <2>2. /\ worker[w].claim = NoClaim
        /\ \A v \in Workers \ {w} : worker'[v] = worker[v]
        /\ \/ row'[o] = row[o] /\ worker'[w].claim[o] = 0
           \/ /\ Due(o) /\ worker'[w].claim[o] = 0
           \/ /\ Due(o)
              /\ row'[o].status = "processing" /\ ~row'[o].due
              /\ row'[o].attempts = row[o].attempts + 1
              /\ worker'[w].claim[o] = row[o].attempts + 1
    BY <1>t, <2>1, ClaimTakes
  <2>3. Due(o) => \A v \in Workers : worker[v].claim[o] = 0
    BY DEF OneHolder, Held, Due
  <2>4. CASE row'[o] = row[o] /\ worker'[w].claim[o] = 0
    BY <2>2, <2>4 DEF OneHolder, Held
  <2>5. CASE Due(o) /\ worker'[w].claim[o] = 0
    BY <2>2, <2>3, <2>5
  <2>6. CASE /\ Due(o)
             /\ row'[o].status = "processing" /\ ~row'[o].due
             /\ row'[o].attempts = row[o].attempts + 1
             /\ worker'[w].claim[o] = row[o].attempts + 1
    BY <2>2, <2>3, <2>6
  <2> QED
    BY <2>2, <2>4, <2>5, <2>6
<1>2. CASE \E w \in Workers : LocalStep(w)
  BY <1>t, <1>2, LocalKeepsClaims DEF OneHolder, Held
<1>3. CASE \E w \in Workers : Finalize(w)
  <2>1. PICK w \in Workers : Finalize(w)
    BY <1>3
  <2>2. /\ worker[w].pc = "finalize" /\ Leave(w)
        /\ row'[o] = row[o] \/ o = Current(w)
    BY <1>t, <2>1, FinalizeWrites
  <2>3. /\ \A v \in Workers \ {w} : worker'[v] = worker[v]
        /\ Current(w) \in Ops /\ Attempt(w) \in Attempts
        /\ worker'[w].claim[Current(w)] = 0
        /\ \A p \in Ops \ {Current(w)} : worker'[w].claim[p] = worker[w].claim[p]
    BY <1>t, <2>2, LeaveDrops
  <2>4. worker[w].claim[Current(w)] # 0
    BY <2>3 DEF Attempt, Attempts
  <2>5. o # Current(w)
    BY <2>3, <2>4 DEF OneHolder, Held
  <2> QED
    BY <2>2, <2>3, <2>5 DEF OneHolder, Held
<1>4. CASE \E w \in Workers : Crash(w)
  <2>1. PICK w \in Workers : Crash(w)
    BY <1>4
  <2>2. /\ \A v \in Workers \ {w} : worker'[v] = worker[v]
        /\ worker'[w].claim[o] = 0 /\ row' = row
    BY <1>t, <2>1, CrashClears DEF NoClaim
  <2> QED
    BY <2>2 DEF OneHolder, Held
<1>5. CASE OutsideStep
  BY <1>t, <1>5, OutsideWrites DEF OneHolder, Held
<1>6. CASE \E p \in Ops, k \in Attempts : ProviderHandles(p, k)
  BY <1>t, <1>6, ProviderWrites DEF OneHolder, Held
<1>7. CASE (\E next \in Modes : SetMode(next)) \/ UNCHANGED vars
  BY <1>7 DEF SetMode, vars, OneHolder, Held
<1> QED
  BY <1>1, <1>2, <1>3, <1>4, <1>5, <1>6, <1>7, Frames

LEMMA HolderInvariant ==
    ASSUME ~Overrun
    PROVE  Spec => []OneHolder
<1>1. Init => OneHolder
  <2>1. Init => \A w \in Workers, o \in Ops : worker[w].claim[o] = 0
    BY DEF Init, IdleDispatch, NoClaim
  <2> QED
    BY <2>1 DEF OneHolder, Held
<1>2. ClaimInv /\ OneHolder /\ [Next]_vars => OneHolder'
  BY HolderStep
<1> QED
  BY <1>1, <1>2, ClaimInvariant, PTL DEF Spec

-----------------------------------------------------------------------------
(* Operations that must not be repeated *)

\* The provider may have applied, or may still apply, attempt n of o.
Live(o, n) == request[o][n] \in {"sent", "applied"}

Unsafe == Ops \ ReplaySafe

OnlyCurrent == \A o \in Unsafe, n \in Attempts : Live(o, n) => n = row[o].attempts

OpenIsUnsent == \A o \in Unsafe, n \in Attempts :
    row[o].status \in {"pending", "retry"} => ~Live(o, n)

RetryIsUnsent == \A w \in Workers :
    /\ worker[w].pc = "finalize" /\ worker[w].verdict = "retry"
    /\ Current(w) \in Unsafe
    => ~Live(Current(w), Attempt(w))

ProcessingIsHeld == \A o \in Ops :
    row[o].status = "processing" => \E w \in Workers : Held(w, o)

UnsafeInv == OnlyCurrent /\ OpenIsUnsent /\ RetryIsUnsent /\ ProcessingIsHeld

\* How a dispatch comes to give an unsafe operation back for a retry.
LEMMA LocalRetries ==
    ASSUME TypeOK, NEW w \in Workers, LocalStep(w), ~ServerErrors, ~Overrun,
           worker'[w].pc = "finalize", worker'[w].verdict = "retry",
           worker'[w].op \in Unsafe
    PROVE  /\ request' = request
           /\ \/ worker[w].pc \in {"prepare", "check", "call"}
              \/ /\ worker[w].pc = "answer" /\ worker'[w].op = worker[w].op
                 /\ request[Current(w)][Attempt(w)] = "rejected"
<1>t. worker \in [Workers -> Dispatch]
  BY DEF TypeOK
<1>c. ASSUME NEW verdict, Conclude(w, verdict)
      PROVE  worker'[w].op = worker[w].op /\ worker'[w].verdict = verdict
  <2> DEFINE new == [pc |-> "finalize", claim |-> worker[w].claim, op |-> Current(w),
                     verdict |-> verdict]
  <2>1. worker' = [worker EXCEPT ![w] = new]
    BY <1>c DEF Conclude, Handle
  <2>2. new.op = worker[w].op /\ new.verdict = verdict
    BY DEF Current
  <2> HIDE DEF new
  <2> QED
    BY <1>t, <2>1, <2>2
<1>g. ASSUME NEW pc, worker' = [worker EXCEPT ![w].pc = pc]
      PROVE  worker'[w].pc = pc
  BY <1>t, <1>g DEF Dispatch
<1>1. CASE Prepare(w) \/ Check(w)
  BY <1>1 DEF Prepare, Check, At
<1>2. CASE CallProvider(w)
  <2>1. worker[w].pc = "call"
    BY <1>2 DEF CallProvider, At
  <2>2. worker' # [worker EXCEPT ![w].pc = "answer"]
    BY <1>g
  <2> QED
    BY <1>2, <2>1, <2>2 DEF CallProvider
<1>3. CASE Answer(w)
  <2>1. worker[w].pc = "answer" /\ request' = request
    BY <1>3 DEF Answer, At
  <2>2. worker' # [worker EXCEPT ![w].pc = "bind"]
    BY <1>g
  <2>3. \E verdict : Conclude(w, verdict)
    BY <1>3, <2>2 DEF Answer
  <2>4. worker'[w].op = worker[w].op
    BY <1>c, <2>3
  <2>5. ~Conclude(w, Ambiguous(Current(w))) /\ ~Conclude(w, "ok")
    BY <1>c, <2>4 DEF Ambiguous, Unsafe, Current
  <2>6. request[Current(w)][Attempt(w)] = "rejected"
    BY <1>3, <2>2, <2>5 DEF Answer
  <2> QED
    BY <2>1, <2>4, <2>6
<1>4. CASE Bind(w)
  <2>1. Conclude(w, "ok") \/ Conclude(w, "fail")
    BY <1>4 DEF Bind
  <2> QED
    BY <1>c, <2>1
<1> QED
  BY <1>1, <1>2, <1>3, <1>4 DEF LocalStep

LEMMA FinalizeOfHeld ==
    ASSUME TypeOK, NEW w \in Workers, Finalize(w), Holds(w), Current(w) \in Ops
    PROVE  row'[Current(w)].status = FinalStatus(w)
<1> DEFINE o == Current(w)
           new == [status |-> FinalStatus(w), attempts |-> row[o].attempts,
                   due |-> FALSE]
<1>1. row \in [Ops -> OutboxRow]
  BY DEF TypeOK
<1>2. row' = [row EXCEPT ![o] = new]
  BY <1>1, Zenon DEF Finalize
<1>3. new.status = FinalStatus(w)
  OBVIOUS
<1> HIDE DEF new
<1> QED
  BY <1>1, <1>2, <1>3

LEMMA UnsafeStep ==
    ASSUME ClaimInv, OneHolder, UnsafeInv, ~Overrun, ~ServerErrors, [Next]_vars,
           crashes' = 0
    PROVE  UnsafeInv'
<1>t. /\ TypeOK /\ ClaimsCounted /\ ClaimsDiffer /\ ClaimsFresh /\ AttemptsFresh
      /\ AbsentNew /\ TypeOK' /\ OneHolder'
  BY TypeStep, HolderStep DEF ClaimInv
<1>i. OnlyCurrent /\ OpenIsUnsent /\ RetryIsUnsent /\ ProcessingIsHeld
  BY DEF UnsafeInv
<1>f. \A w \in Workers, o \in Ops : worker[w].claim[o] \in Nat /\ row[o].attempts \in Nat
  BY <1>t DEF TypeOK, Dispatch, OutboxRow
<1>w. \A w \in Workers : worker[w].pc \notin {"idle", "prepare"} =>
        Current(w) \in Ops /\ Attempt(w) \in Attempts
  BY <1>t DEF TypeOK
<1>1. CASE \E w \in Workers : Claim(w)
  <2>1. PICK w \in Workers : Claim(w)
    BY <1>1
  <2>2. /\ worker[w].claim = NoClaim
        /\ \A v \in Workers \ {w} : worker'[v] = worker[v]
        /\ \/ worker'[w] = worker[w]
           \/ worker'[w].pc = "prepare"
        /\ request' = request /\ worker[w].pc = "idle"
    BY <1>t, <2>1, ClaimTakes
  <2>3. \A o \in Ops :
           \/ row'[o] = row[o]
           \/ /\ Due(o) /\ row'[o].status = "failed"
              /\ row'[o].attempts = row[o].attempts
           \/ /\ Due(o) /\ row'[o].status = "processing"
              /\ worker'[w].claim[o] = row[o].attempts + 1
    BY <1>t, <2>1, ClaimTakes
  <2>4. \A o \in Ops : Due(o) => row[o].status \in {"pending", "retry"}
    BY <1>i DEF ProcessingIsHeld, OneHolder, Due
  <2>5. OnlyCurrent' /\ OpenIsUnsent'
    BY <1>i, <2>2, <2>3, <2>4 DEF OnlyCurrent, OpenIsUnsent, Live, Unsafe
  <2>6. RetryIsUnsent'
    BY <1>i, <2>2 DEF RetryIsUnsent, Live, Current, Attempt
  <2>7. ProcessingIsHeld'
    <3> SUFFICES ASSUME NEW o \in Ops, row'[o].status = "processing"
                 PROVE  \E v \in Workers : worker'[v].claim[o] # 0
      BY DEF ProcessingIsHeld, Held
    <3>1. CASE row'[o] = row[o]
      <4>1. PICK v \in Workers : worker[v].claim[o] # 0
        BY <1>i, <3>1 DEF ProcessingIsHeld, Held
      <4>2. v # w
        BY <2>2, <4>1 DEF NoClaim
      <4> QED
        BY <2>2, <4>1, <4>2
    <3>2. CASE row'[o] # row[o]
      <4>1. worker'[w].claim[o] = row[o].attempts + 1
        BY <2>3, <3>2
      <4> QED
        BY <1>f, <4>1
    <3> QED
      BY <3>1, <3>2
  <2> QED
    BY <2>5, <2>6, <2>7 DEF UnsafeInv
<1>2. CASE \E w \in Workers : LocalStep(w)
  <2>1. PICK w \in Workers : LocalStep(w)
    BY <1>2
  <2>2. /\ \A v \in Workers : worker'[v].claim = worker[v].claim
        /\ \A v \in Workers \ {w} : worker'[v] = worker[v]
        /\ row' = row
        /\ worker'[w].op \in Ops /\ worker'[w].claim[worker'[w].op] # 0
    BY <1>t, <2>1, LocalKeepsClaims
  <2>3. \A o \in Ops, n \in Attempts :
           \/ request'[o][n] = request[o][n]
           \/ worker[w].pc = "call" /\ worker[w].op = o /\ worker[w].claim[o] = n
    BY <1>t, <2>1, LocalRequests
  <2>4. ASSUME NEW o \in Ops, NEW n \in Attempts, request'[o][n] # request[o][n]
        PROVE  n = row[o].attempts /\ row[o].status \notin {"pending", "retry"}
    <3>1. worker[w].claim[o] = n /\ n # 0
      BY <2>3, <2>4 DEF Attempts
    <3> QED
      BY <1>t, <3>1 DEF OneHolder, Held
  <2>5. OnlyCurrent' /\ OpenIsUnsent'
    BY <1>i, <2>2, <2>4 DEF OnlyCurrent, OpenIsUnsent, Live, Unsafe
  <2>6. RetryIsUnsent'
    <3> SUFFICES ASSUME NEW v \in Workers,
                        worker'[v].pc = "finalize", worker'[v].verdict = "retry",
                        worker'[v].op \in Unsafe
                 PROVE  request'[worker'[v].op][worker'[v].claim[worker'[v].op]]
                          \notin {"sent", "applied"}
      BY DEF RetryIsUnsent, Live, Current, Attempt
    <3> DEFINE o == worker'[v].op
               n == worker[v].claim[o]
    <3>0. o \in Ops /\ n \in Attempts /\ n = worker'[v].claim[o]
      BY <1>t, <2>2 DEF TypeOK, Current, Attempt
    <3>1. CASE v = w
      <4>1. /\ request' = request
            /\ \/ worker[w].pc \in {"prepare", "check", "call"}
               \/ /\ worker[w].pc = "answer" /\ worker'[w].op = worker[w].op
                  /\ request[Current(w)][Attempt(w)] = "rejected"
        BY <1>t, <2>1, <3>1, LocalRetries
      <4>2. CASE worker[w].pc \in {"prepare", "check", "call"}
        <5>1. request[o][n] = "none"
          BY <1>t, <3>0, <3>1, <4>2 DEF ClaimsFresh, Held, Unused, Attempts
        <5> QED
          BY <3>0, <4>1, <5>1 DEF Live
      <4>3. CASE /\ worker[w].pc = "answer" /\ worker'[w].op = worker[w].op
                 /\ request[Current(w)][Attempt(w)] = "rejected"
        BY <3>0, <3>1, <4>1, <4>3 DEF Live, Current, Attempt
      <4> QED
        BY <4>1, <4>2, <4>3
    <3>2. CASE v # w
      <4>1. worker'[v] = worker[v]
        BY <2>2, <3>2
      <4>2. ~Live(o, n)
        BY <1>i, <4>1 DEF RetryIsUnsent, Current, Attempt
      <4>3. request'[o][n] = request[o][n]
        BY <1>t, <2>3, <3>0, <3>2 DEF ClaimsDiffer, Held, Attempts
      <4> QED
        BY <3>0, <4>2, <4>3 DEF Live
    <3> QED
      BY <3>1, <3>2
  <2>7. ProcessingIsHeld'
    BY <1>i, <2>2 DEF ProcessingIsHeld, Held
  <2> QED
    BY <2>5, <2>6, <2>7 DEF UnsafeInv
<1>3. CASE \E w \in Workers : Finalize(w)
  <2>1. PICK w \in Workers : Finalize(w)
    BY <1>3
  <2>2. /\ worker[w].pc = "finalize" /\ Leave(w) /\ request' = request
        /\ \A o \in Ops :
             \/ row'[o] = row[o]
             \/ /\ o = Current(w) /\ Holds(w)
                /\ row'[o].attempts = row[o].attempts
                /\ row'[o].status = FinalStatus(w)
    BY <1>t, <2>1, FinalizeWrites
  <2>3. /\ \A v \in Workers \ {w} : worker'[v] = worker[v]
        /\ worker'[w].pc \in {"idle", "prepare"}
        /\ Current(w) \in Ops /\ Attempt(w) \in Attempts
        /\ \A p \in Ops \ {Current(w)} : worker'[w].claim[p] = worker[w].claim[p]
    BY <1>t, <2>2, LeaveDrops
  <2>4. OnlyCurrent'
    BY <1>i, <2>2 DEF OnlyCurrent, Live, Unsafe
  <2>5. OpenIsUnsent'
    <3> SUFFICES ASSUME NEW o \in Unsafe, NEW n \in Attempts,
                        row'[o].status \in {"pending", "retry"}
                 PROVE  ~Live(o, n)
      BY <2>2 DEF OpenIsUnsent, Live
    <3>1. CASE row'[o] = row[o]
      BY <1>i, <3>1 DEF OpenIsUnsent
    <3>2. CASE row'[o] # row[o]
      <4>1. /\ o = Current(w) /\ row[o].attempts = Attempt(w)
            /\ worker[w].verdict = "retry"
        BY <2>2, <3>2 DEF Unsafe, Holds, FinalStatus
      <4>2. ~Live(o, row[o].attempts)
        BY <1>i, <2>2, <4>1 DEF RetryIsUnsent
      <4> QED
        BY <1>i, <4>2 DEF OnlyCurrent
    <3> QED
      BY <3>1, <3>2
  <2>6. RetryIsUnsent'
    BY <1>i, <2>2, <2>3 DEF RetryIsUnsent, Live, Current, Attempt
  <2>7. ProcessingIsHeld'
    <3> SUFFICES ASSUME NEW o \in Ops, row'[o].status = "processing"
                 PROVE  \E v \in Workers : worker'[v].claim[o] # 0
      BY DEF ProcessingIsHeld, Held
    <3>1. row'[o] = row[o]
      BY <2>2 DEF FinalStatus
    <3>2. PICK v \in Workers : worker[v].claim[o] # 0
      BY <1>i, <3>1 DEF ProcessingIsHeld, Held
    <3>3. o # Current(w)
      <4> SUFFICES ASSUME o = Current(w) PROVE FALSE
        OBVIOUS
      <4>1. worker[w].claim[o] # 0 /\ worker[w].claim[o] = Attempt(w)
        BY <2>3 DEF Attempt, Attempts
      <4>2. Holds(w)
        BY <1>t, <3>1, <4>1 DEF OneHolder, Held, Holds
      <4>3. row'[o].status = FinalStatus(w)
        BY <1>t, <2>1, <2>3, <4>2, FinalizeOfHeld
      <4> QED
        BY <4>3 DEF FinalStatus
    <3> QED
      BY <2>3, <3>2, <3>3
  <2> QED
    BY <2>4, <2>5, <2>6, <2>7 DEF UnsafeInv
<1>4. CASE \E w \in Workers : Crash(w)
  BY <1>t, <1>4, CrashClears DEF TypeOK
<1>5. CASE OutsideStep
  <2>1. /\ \A o \in Ops :
             \/ row'[o] = row[o]
             \/ /\ row[o].status = "absent" /\ row'[o].attempts = 0
                /\ row'[o].status \in {"pending", "cancelled"}
             \/ row'[o].status = "cancelled" /\ row'[o].attempts = row[o].attempts
             \/ row'[o].status = row[o].status /\ row'[o].attempts = row[o].attempts
        /\ request' = request /\ worker' = worker
    BY <1>t, <1>5, OutsideWrites
  <2>2. \A o \in Ops : row'[o].attempts = row[o].attempts
    BY <1>t, <2>1 DEF AbsentNew
  <2>3. \A o \in Unsafe, n \in Attempts : row[o].status = "absent" => ~Live(o, n)
    BY <1>t, <1>i DEF OnlyCurrent, AbsentNew, Unsafe, Attempts
  <2>4. OnlyCurrent' /\ OpenIsUnsent'
    BY <1>i, <2>1, <2>2, <2>3 DEF OnlyCurrent, OpenIsUnsent, Live, Unsafe
  <2>5. RetryIsUnsent' /\ ProcessingIsHeld'
    BY <1>i, <2>1 DEF RetryIsUnsent, ProcessingIsHeld, Live, Current, Attempt, Held
  <2> QED
    BY <2>4, <2>5 DEF UnsafeInv
<1>6. CASE \E p \in Ops, k \in Attempts : ProviderHandles(p, k)
  <2>1. PICK p \in Ops, k \in Attempts : ProviderHandles(p, k)
    BY <1>6
  <2>2. /\ request[p][k] = "sent"
        /\ \A o \in Ops, n \in Attempts :
             <<o, n>> # <<p, k>> => request'[o][n] = request[o][n]
        /\ row' = row /\ worker' = worker
    BY <1>t, <2>1, ProviderWrites
  <2>3. \A o \in Ops, n \in Attempts : Live(o, n)' => Live(o, n)
    BY <2>2 DEF Live
  <2>4. OnlyCurrent' /\ OpenIsUnsent'
    BY <1>i, <2>2, <2>3 DEF OnlyCurrent, OpenIsUnsent, Unsafe
  <2>5. RetryIsUnsent'
    <3> SUFFICES ASSUME NEW v \in Workers,
                        worker[v].pc = "finalize", worker[v].verdict = "retry",
                        Current(v) \in Unsafe
                 PROVE  ~Live(Current(v), Attempt(v))'
      BY <2>2 DEF RetryIsUnsent, Current, Attempt
    <3>1. ~Live(Current(v), Attempt(v)) /\ Current(v) \in Ops /\ Attempt(v) \in Attempts
      BY <1>i, <1>w DEF RetryIsUnsent
    <3>2. Current(v)' = Current(v) /\ Attempt(v)' = Attempt(v)
      BY <2>2 DEF Current, Attempt
    <3> QED
      BY <2>3, <3>1, <3>2 DEF Live
  <2>6. ProcessingIsHeld'
    BY <1>i, <2>2 DEF ProcessingIsHeld, Held
  <2> QED
    BY <2>4, <2>5, <2>6 DEF UnsafeInv
<1>7. CASE (\E next \in Modes : SetMode(next)) \/ UNCHANGED vars
  BY <1>i, <1>7 DEF SetMode, vars, UnsafeInv, OnlyCurrent, OpenIsUnsent, RetryIsUnsent,
                    ProcessingIsHeld, Live, Held, Current, Attempt
<1> QED
  BY <1>1, <1>2, <1>3, <1>4, <1>5, <1>6, <1>7, Frames

LEMMA CrashesGrow ==
    ASSUME TypeOK, [Next]_vars, crashes' = 0
    PROVE  crashes = 0
<1>1. CASE \E w \in Workers : Claim(w) \/ LocalStep(w) \/ Finalize(w)
  BY <1>1, ClaimTakes, LocalKeepsClaims, FinalizeWrites
<1>2. CASE \E w \in Workers : Crash(w)
  BY <1>2, CrashClears DEF TypeOK
<1>3. CASE OutsideStep
  BY <1>3, OutsideWrites
<1>4. CASE \E p \in Ops, k \in Attempts : ProviderHandles(p, k)
  BY <1>4, ProviderWrites
<1>5. CASE (\E next \in Modes : SetMode(next)) \/ UNCHANGED vars
  BY <1>5 DEF SetMode, vars
<1> QED
  BY <1>1, <1>2, <1>3, <1>4, <1>5, Frames

LEMMA UnsafeInvariant ==
    ASSUME ~Overrun, ~ServerErrors
    PROVE  Spec => [](crashes = 0 => UnsafeInv)
<1>1. Init => UnsafeInv
  <2> SUFFICES ASSUME Init PROVE UnsafeInv
    OBVIOUS
  <2>1. \A w \in Workers : worker[w].pc = "idle"
    BY DEF Init, IdleDispatch
  <2>2. \A o \in Ops : row[o].status = "absent" /\ \A n \in Attempts : request[o][n] = "none"
    BY DEF Init
  <2> QED
    BY <2>1, <2>2 DEF UnsafeInv, OnlyCurrent, OpenIsUnsent, RetryIsUnsent,
                      ProcessingIsHeld, Live, Unsafe
<1>2. ClaimInv /\ OneHolder /\ (crashes = 0 => UnsafeInv) /\ [Next]_vars
        => (crashes = 0 => UnsafeInv)'
  BY UnsafeStep, CrashesGrow DEF ClaimInv
<1> QED
  BY <1>1, <1>2, ClaimInvariant, HolderInvariant, PTL DEF Spec

\* Without overrun leases, without errors for what was applied and as long as no
\* dispatch dies, an operation that is not safe to repeat is applied at most once.
THEOREM NeverCreatedTwice ==
    ASSUME ~Overrun, ~ServerErrors
    PROVE  Spec => []CreatedOnce
<1>1. (crashes = 0 => UnsafeInv) => CreatedOnce
  <2> SUFFICES ASSUME UnsafeInv, NEW o \in Unsafe
               PROVE  Cardinality({n \in Attempts : request[o][n] = "applied"}) <= 1
    BY DEF CreatedOnce, Unsafe
  <2> DEFINE applied == {n \in Attempts : request[o][n] = "applied"}
             one == {row[o].attempts}
  <2>1. applied \in SUBSET one
    BY DEF UnsafeInv, OnlyCurrent, Live
  <2>2. IsFiniteSet(one) /\ Cardinality(one) = 1
    BY FS_Singleton
  <2> HIDE DEF one, applied
  <2>3. Cardinality(applied) <= Cardinality(one)
    BY <2>1, <2>2, FS_Subset
  <2> QED
    BY <2>2, <2>3 DEF applied
<1> QED
  BY <1>1, UnsafeInvariant, PTL

=============================================================================
