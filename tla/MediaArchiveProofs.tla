------------------------- MODULE MediaArchiveProofs -------------------------
(***************************************************************************)
(* Proofs about MediaArchive, for every number of files, workers, attempts *)
(* and faults.  The quota argument: every job is charged at most once,     *)
(* because no two workers ever hold the same job, and a job that has not   *)
(* come to its reservation yet has charged nothing.  The argument about    *)
(* copies: while one worker at a time is in the jobs of a file, what it    *)
(* found there stays true until it acts on it.                             *)
(***************************************************************************)
EXTENDS MediaArchive, FiniteSetTheorems, TLAPS

-----------------------------------------------------------------------------
(* The inductive invariant *)

Working(w) == ~At(w, "idle")
BeforeReserve == {"load", "look", "list", "wipe", "release", "download", "reserve"}
Waiting == claimed \cup queue

\* A worker in a job has one, and something to wipe when it is about to wipe.
WorkersTyped ==
    \A w \in Workers :
        /\ Working(w) => Job(w) \in Jobs
        /\ worker[w].pc \in {"wipe", "release"} => worker[w].stale # {}

\* A job is waiting or in the hands of one worker, and numbered by an attempt of
\* its row.
JobsApart ==
    /\ claimed \cap queue = {}
    /\ \A j \in Waiting : j[2] <= row[j[1]].attempts
    /\ \A w \in Workers : Working(w) =>
         Job(w) \notin Waiting /\ Job(w)[2] <= row[File(w)].attempts
    /\ \A v, w \in Workers : v # w /\ Working(v) /\ Working(w) => Job(v) # Job(w)

\* What has not come to its reservation charges nothing.
Unpaid ==
    /\ \A j \in Waiting : ~media[j].counts
    /\ \A j \in Jobs : j[2] > row[j[1]].attempts => ~media[j].counts
    /\ \A w \in Workers : worker[w].pc \in BeforeReserve => ~media[Job(w)].counts

Charged == {j \in Jobs : media[j].counts}
Balanced == used = Cardinality(Charged)

IndInv == TypeOK /\ WorkersTyped /\ JobsApart /\ Unpaid /\ Balanced

-----------------------------------------------------------------------------
(* Finite sets *)

LEMMA JobsFinite == IsFiniteSet(Jobs)
<1>1. IsFiniteSet(Numbers)
  BY FS_Interval, ArchiveAssumption DEF Numbers
<1> QED
  BY <1>1, FS_Product, ArchiveAssumption DEF Jobs

LEMMA ChargedFinite == IsFiniteSet(Charged) /\ Cardinality(Charged) \in Nat
BY JobsFinite, FS_Subset, FS_CardinalityType DEF Charged

LEMMA JobParts ==
    ASSUME NEW j \in Jobs
    PROVE  j = <<j[1], j[2]>> /\ j[1] \in Files /\ j[2] \in Nat
BY ArchiveAssumption DEF Jobs, Numbers

-----------------------------------------------------------------------------
(* Steps inside a job *)

\* The row is rewritten without losing attempts.
Advances == \A f \in Files : row'[f].attempts >= row[f].attempts

\* A worker moves inside its job, or leaves it.
Moves(w) ==
    /\ Working(w)
    /\ \A v \in Workers \ {w} : worker'[v] = worker[v]
    /\ worker'[w].job = Job(w) \/ worker'[w].pc = "idle"
    /\ worker'[w].pc \in BeforeReserve => worker[w].pc \in BeforeReserve
    /\ worker'[w].pc \in {"wipe", "release"} => worker'[w].stale # {}
    /\ UNCHANGED <<claimed, queue>>

\* Such a step, if nothing more is charged, keeps jobs apart.
LEMMA MovesApart ==
    ASSUME TypeOK, WorkersTyped, JobsApart, Unpaid, NEW w \in Workers, Moves(w),
           TypeOK', Advances,
           \A j \in Jobs : media'[j].counts => media[j].counts
    PROVE  WorkersTyped' /\ JobsApart' /\ Unpaid'
<1>0. /\ Working(w)
      /\ \A v \in Workers \ {w} : worker'[v] = worker[v]
      /\ worker'[w].job = Job(w) \/ worker'[w].pc = "idle"
      /\ worker'[w].pc \in BeforeReserve => worker[w].pc \in BeforeReserve
      /\ worker'[w].pc \in {"wipe", "release"} => worker'[w].stale # {}
      /\ UNCHANGED <<claimed, queue>>
  BY DEF Moves
<1>1. \A v \in Workers : Working(v)' => Working(v) /\ Job(v)' = Job(v)
  BY <1>0 DEF Working, At, Job
<1>2. \A f \in Files : row[f].attempts \in Nat /\ row'[f].attempts \in Nat
                       /\ row'[f].attempts >= row[f].attempts
  BY DEF TypeOK, Row, Advances
<1>3. \A j \in Jobs : j[1] \in Files /\ j[2] \in Nat
  BY JobParts
<1>4. Waiting' = Waiting /\ Waiting \subseteq Jobs
  BY <1>0 DEF Waiting, TypeOK
<1>5. WorkersTyped'
  <2>1. ASSUME NEW v \in Workers
        PROVE  worker'[v].pc \in {"wipe", "release"} => worker'[v].stale # {}
    BY <1>0 DEF WorkersTyped
  <2> QED
    BY <1>1, <2>1 DEF WorkersTyped
<1>6. JobsApart'
  <2>1. \A j \in Waiting' : j[2] <= row'[j[1]].attempts
    BY <1>2, <1>3, <1>4 DEF JobsApart
  <2>2. \A v \in Workers : Working(v)' =>
          Job(v)' \notin Waiting' /\ Job(v)'[2] <= row'[File(v)'].attempts
    BY <1>1, <1>2, <1>3, <1>4 DEF JobsApart, WorkersTyped, File, Job
  <2>3. \A v, u \in Workers : v # u /\ Working(v)' /\ Working(u)' => Job(v)' # Job(u)'
    BY <1>1 DEF JobsApart
  <2> QED
    BY <1>0, <2>1, <2>2, <2>3 DEF JobsApart
<1>7. Unpaid'
  <2>1. \A j \in Waiting' : ~media'[j].counts
    BY <1>4 DEF Unpaid
  <2>2. \A j \in Jobs : j[2] > row'[j[1]].attempts => ~media'[j].counts
    BY <1>2, <1>3 DEF Unpaid
  <2>3. \A v \in Workers : worker'[v].pc \in BeforeReserve => ~media'[Job(v)'].counts
    <3> TAKE v \in Workers
    <3> HAVE worker'[v].pc \in BeforeReserve
    <3>1. worker[v].pc \in BeforeReserve
      BY <1>0
    <3>2. Working(v)'
      BY DEF Working, At, BeforeReserve
    <3> QED
      BY <1>1, <3>1, <3>2 DEF Unpaid, WorkersTyped
  <2> QED
    BY <2>1, <2>2, <2>3 DEF Unpaid
<1> QED
  BY <1>5, <1>6, <1>7

-----------------------------------------------------------------------------
(* The ledger *)

LEMMA SameCharged ==
    ASSUME Balanced, used' = used, \A j \in Jobs : media'[j].counts = media[j].counts
    PROVE  Balanced'
<1>1. Charged' = Charged
  BY DEF Charged
<1> QED
  BY <1>1 DEF Balanced

LEMMA ReleaseBalances ==
    ASSUME TypeOK, Balanced, NEW j \in Jobs, Release(j)
    PROVE  /\ Balanced'
           /\ used' \in Nat /\ media' \in [Jobs -> Media]
           /\ \A k \in Jobs : media'[k].counts => media[k].counts
<1>1. media' = [media EXCEPT ![j] = [status |-> "failed", counts |-> FALSE,
                                      deleted |-> TRUE]]
  BY DEF Release
<1>2. \A k \in Jobs : media'[k].counts <=> (media[k].counts /\ k # j)
  BY <1>1 DEF TypeOK, Media
<1>3. media' \in [Jobs -> Media]
  BY <1>1 DEF TypeOK, Media
<1>4. Charged' = Charged \ {j}
  BY <1>2 DEF Charged
<1>5. CASE media[j].counts
  <2>1. j \in Charged
    BY <1>5 DEF Charged
  <2>2. Cardinality(Charged \ {j}) = Cardinality(Charged) - 1
    BY <2>1, ChargedFinite, FS_RemoveElement
  <2>3. used > 0
    BY <2>1, ChargedFinite, FS_EmptySet DEF Balanced
  <2> QED
    BY <1>2, <1>3, <1>4, <1>5, <2>2, <2>3, ChargedFinite DEF Release, Balanced
<1>6. CASE ~media[j].counts
  <2>1. Charged' = Charged
    BY <1>4, <1>6 DEF Charged
  <2> QED
    BY <1>2, <1>3, <1>6, <2>1, ChargedFinite DEF Release, Balanced
<1> QED
  BY <1>5, <1>6

\* A step that writes neither ledger nor copies' charges keeps the invariant if
\* the worker moves and the row advances.
LEMMA MoveKeepsInv ==
    ASSUME IndInv, NEW w \in Workers, Moves(w), TypeOK', Advances, used' = used,
           \A j \in Jobs : media'[j].counts = media[j].counts
    PROVE  IndInv'
BY MovesApart, SameCharged DEF IndInv

-----------------------------------------------------------------------------
(* The three ways a worker moves, and the ways a row is written *)

LEMMA GoMoves ==
    ASSUME IndInv, NEW w \in Workers, Working(w), NEW pc \in PCs, Go(w, pc),
           pc \in BeforeReserve => worker[w].pc \in BeforeReserve,
           pc \in {"wipe", "release"} => worker[w].stale # {},
           UNCHANGED <<claimed, queue>>
    PROVE  worker' \in [Workers -> Worker] /\ Moves(w)
<1>1. worker \in [Workers -> Worker]
  BY DEF IndInv, TypeOK
<1>2. /\ worker' \in [Workers -> Worker]
      /\ \A v \in Workers \ {w} : worker'[v] = worker[v]
      /\ worker'[w].pc = pc /\ worker'[w].job = worker[w].job
      /\ worker'[w].stale = worker[w].stale
  BY <1>1 DEF Go, Worker
<1> QED
  BY <1>2 DEF Moves, Job

LEMMA FailMoves ==
    ASSUME IndInv, NEW w \in Workers, Working(w), NEW final \in BOOLEAN,
           Fail(w, final), UNCHANGED <<claimed, queue>>
    PROVE  worker' \in [Workers -> Worker] /\ Moves(w)
<1>1. worker \in [Workers -> Worker]
  BY DEF IndInv, TypeOK
<1>2. /\ worker' \in [Workers -> Worker]
      /\ \A v \in Workers \ {w} : worker'[v] = worker[v]
      /\ worker'[w].pc = "fail" /\ worker'[w].job = worker[w].job
  BY <1>1 DEF Fail, Worker, PCs
<1> QED
  BY <1>2 DEF Moves, Job, BeforeReserve

LEMMA EndMoves ==
    ASSUME IndInv, NEW w \in Workers, Working(w), EndJob(w),
           UNCHANGED <<claimed, queue>>
    PROVE  worker' \in [Workers -> Worker] /\ Moves(w)
<1>1. worker \in [Workers -> Worker] /\ Idle \in Worker
  BY DEF IndInv, TypeOK, Idle, Worker, PCs
<1>2. /\ worker' \in [Workers -> Worker]
      /\ \A v \in Workers \ {w} : worker'[v] = worker[v]
      /\ worker'[w].pc = "idle"
  BY <1>1 DEF EndJob, Idle
<1> QED
  BY <1>2 DEF Moves, BeforeReserve

LEMMA RowWritten ==
    ASSUME IndInv, NEW f \in Files, NEW new \in Row, row' = [row EXCEPT ![f] = new],
           new.attempts >= row[f].attempts
    PROVE  row' \in [Files -> Row] /\ Advances
<1>1. row \in [Files -> Row]
  BY DEF IndInv, TypeOK
<1>2. \A g \in Files : row[g].attempts \in Nat
  BY <1>1 DEF Row
<1> QED
  BY <1>1, <1>2 DEF Advances

LEMMA RowKept ==
    ASSUME IndInv, row' = row
    PROVE  row' \in [Files -> Row] /\ Advances
<1>1. row \in [Files -> Row]
  BY DEF IndInv, TypeOK
<1>2. \A g \in Files : row[g].attempts \in Nat
  BY <1>1 DEF Row
<1> QED
  BY <1>1, <1>2 DEF Advances

LEMMA RowRetried ==
    ASSUME IndInv, NEW f \in Files, NEW max \in Nat,
           NEW status \in {"completed", "retry", "failed"}, Retried(f, status, max)
    PROVE  row' \in [Files -> Row] /\ Advances
<1> DEFINE new == [status |-> status, attempts |-> row[f].attempts, max |-> max,
                   due |-> FALSE]
<1>1. row[f] \in Row
  BY DEF IndInv, TypeOK
<1>2. new \in Row /\ new.attempts >= row[f].attempts
  BY <1>1 DEF Row
<1>3. row' = [row EXCEPT ![f] = new]
  BY DEF Retried
<1> HIDE DEF new
<1> QED
  BY <1>2, <1>3, RowWritten

\* The worker's job and row.
LEMMA WorkersJob ==
    ASSUME IndInv, NEW w \in Workers, Working(w)
    PROVE  Job(w) \in Jobs /\ File(w) \in Files /\ row[File(w)] \in Row
<1>1. Job(w) \in Jobs
  BY DEF IndInv, WorkersTyped
<1>2. File(w) \in Files
  BY <1>1, JobParts DEF File, Job
<1> QED
  BY <1>1, <1>2 DEF IndInv, TypeOK

-----------------------------------------------------------------------------
(* The actions of a worker *)

LEMMA LoadKeepsInv ==
    ASSUME IndInv, NEW w \in Workers, Load(w) PROVE IndInv'
<1> DEFINE f == File(w)
           back == [status |-> "retry", attempts |-> row[f].attempts,
                    max |-> IF row[f].max > row[f].attempts THEN row[f].max + 1
                            ELSE row[f].attempts + 1,
                    due |-> TRUE]
           taken == [status |-> "processing", attempts |-> row[f].attempts + 1,
                     max |-> row[f].max, due |-> FALSE]
<1>1. Working(w) /\ worker[w].pc \in BeforeReserve
  BY DEF Load, At, Working, BeforeReserve
<1>2. f \in Files /\ row[f] \in Row
  BY <1>1, WorkersJob
<1>3. /\ row' = [row EXCEPT ![f] = back] \/ row' = row
         \/ row' = [row EXCEPT ![f] = taken]
      /\ EndJob(w) \/ Go(w, "look")
      /\ UNCHANGED <<claimed, queue, media, objects, used, mode, excused, faults>>
  BY DEF Load
<1>4. /\ back \in Row /\ back.attempts >= row[f].attempts
      /\ taken \in Row /\ taken.attempts >= row[f].attempts
  BY <1>2 DEF Row
<1> HIDE DEF f, back, taken
<1>5. row' \in [Files -> Row] /\ Advances
  BY <1>2, <1>3, <1>4, RowWritten, RowKept
<1>6. worker' \in [Workers -> Worker] /\ Moves(w)
  <2>1. CASE EndJob(w)
    BY <1>1, <1>3, <2>1, EndMoves
  <2>2. CASE Go(w, "look")
    BY <1>1, <1>3, <2>2, GoMoves DEF PCs
  <2> QED
    BY <1>3, <2>1, <2>2
<1>7. TypeOK'
  BY <1>3, <1>5, <1>6 DEF IndInv, TypeOK
<1> QED
  BY <1>3, <1>5, <1>6, <1>7, MoveKeepsInv

LEMMA StoreFailsMoves ==
    ASSUME IndInv, NEW w \in Workers, Working(w), StoreFails(w),
           UNCHANGED <<claimed, queue>>
    PROVE  worker' \in [Workers -> Worker] /\ Moves(w) /\ faults' \in 0..MaxFaults
<1>1. CASE Fail(w, FALSE) /\ UNCHANGED faults
  BY <1>1, FailMoves DEF IndInv, TypeOK
<1>2. CASE faults < MaxFaults /\ Go(w, "defer") /\ faults' = faults + 1
  <2>1. worker' \in [Workers -> Worker] /\ Moves(w)
    BY <1>2, GoMoves DEF PCs, BeforeReserve
  <2>2. faults' \in 0..MaxFaults
    BY <1>2, ArchiveAssumption DEF IndInv, TypeOK
  <2> QED
    BY <2>1, <2>2
<1> QED
  BY <1>1, <1>2 DEF StoreFails

LEMMA LookKeepsInv ==
    ASSUME IndInv, NEW w \in Workers, Look(w) PROVE IndInv'
<1>1. Working(w) /\ worker[w].pc \in BeforeReserve
  BY DEF Look, At, Working, BeforeReserve
<1>2. /\ Go(w, "finish") \/ Go(w, "list") \/ Go(w, "defer") \/ Fail(w, TRUE)
      /\ faults' = faults \/ (faults < MaxFaults /\ faults' = faults + 1)
      /\ UNCHANGED <<row, claimed, queue, media, objects, used, mode, excused>>
  BY DEF Look
<1>3. worker' \in [Workers -> Worker] /\ Moves(w)
  <2>1. CASE Fail(w, TRUE)
    BY <1>1, <1>2, <2>1, FailMoves
  <2>2. ASSUME NEW pc \in {"finish", "list", "defer"}, Go(w, pc)
        PROVE  worker' \in [Workers -> Worker] /\ Moves(w)
    BY <1>1, <1>2, <2>2, GoMoves DEF PCs
  <2> QED
    BY <1>2, <2>1, <2>2
<1>4. faults' \in 0..MaxFaults
  BY <1>2, ArchiveAssumption DEF IndInv, TypeOK
<1>5. TypeOK' /\ Advances
  BY <1>2, <1>3, <1>4, RowKept DEF IndInv, TypeOK
<1> QED
  BY <1>2, <1>3, <1>5, MoveKeepsInv

LEMMA ListStaleKeepsInv ==
    ASSUME IndInv, NEW w \in Workers, ListStale(w) PROVE IndInv'
<1> DEFINE stale == Kept(File(w), {"uploading", "delete_failed"})
           pc == IF stale = {} THEN "download" ELSE "wipe"
<1>1. stale \in SUBSET Jobs
  BY DEF Kept
<1>2. /\ worker' = [worker EXCEPT ![w].pc = pc, ![w].stale = stale]
      /\ worker[w].pc = "list"
      /\ UNCHANGED <<row, claimed, queue, media, objects, used, mode, excused, faults>>
  BY DEF ListStale, At
<1>3. pc \in PCs /\ (pc = "wipe" => stale # {}) /\ pc # "release"
  BY DEF PCs
<1> HIDE DEF stale, pc
<1>4. /\ worker' \in [Workers -> Worker]
      /\ \A v \in Workers \ {w} : worker'[v] = worker[v]
      /\ worker'[w].pc = pc /\ worker'[w].job = worker[w].job
      /\ worker'[w].stale = stale
  BY <1>1, <1>2, <1>3 DEF IndInv, TypeOK, Worker
<1>5. Moves(w)
  BY <1>2, <1>3, <1>4 DEF Moves, Working, At, Job, BeforeReserve
<1>6. TypeOK' /\ Advances
  BY <1>2, <1>4, RowKept DEF IndInv, TypeOK
<1> QED
  BY <1>2, <1>5, <1>6, MoveKeepsInv

LEMMA WipeKeepsInv ==
    ASSUME IndInv, NEW w \in Workers, Wipe(w) PROVE IndInv'
<1>1. /\ Working(w) /\ worker[w].pc \in BeforeReserve
      /\ worker[w].stale # {}
  BY DEF Wipe, At, Working, BeforeReserve, IndInv, WorkersTyped
<1>2. /\ (Go(w, "release") /\ UNCHANGED faults) \/ StoreFails(w)
      /\ objects' \subseteq objects
      /\ UNCHANGED <<row, claimed, queue, media, used, mode, excused>>
  BY DEF Wipe
<1>3. worker' \in [Workers -> Worker] /\ Moves(w) /\ faults' \in 0..MaxFaults
  <2>1. CASE Go(w, "release") /\ UNCHANGED faults
    BY <1>1, <1>2, <2>1, GoMoves DEF PCs, IndInv, TypeOK
  <2> QED
    BY <1>1, <1>2, <2>1, StoreFailsMoves
<1>4. TypeOK' /\ Advances
  BY <1>2, <1>3, RowKept DEF IndInv, TypeOK
<1> QED
  BY <1>2, <1>3, <1>4, MoveKeepsInv

LEMMA ReleaseStaleKeepsInv ==
    ASSUME IndInv, NEW w \in Workers, ReleaseStale(w) PROVE IndInv'
<1> DEFINE j == CHOOSE k \in worker[w].stale : TRUE
           left == worker[w].stale \ {j}
           pc == IF left = {} THEN "download" ELSE "wipe"
<1>1. worker[w].pc = "release" /\ worker[w].stale # {} /\ worker[w].stale \subseteq Jobs
  BY DEF IndInv, TypeOK, Worker, WorkersTyped, ReleaseStale, At
<1>2. j \in Jobs /\ left \subseteq Jobs
  BY <1>1
<1>3. pc \in PCs /\ (pc = "wipe" => left # {}) /\ pc # "release"
  BY DEF PCs
<1>4. /\ \/ /\ Release(j)
            /\ worker' = [worker EXCEPT ![w].pc = pc, ![w].stale = left]
         \/ Fail(w, FALSE) /\ UNCHANGED <<media, used>>
      /\ UNCHANGED <<row, claimed, queue, objects, mode, excused, faults>>
  BY DEF ReleaseStale
<1> HIDE DEF j, left, pc
<1>5. CASE Fail(w, FALSE) /\ UNCHANGED <<media, used>>
  <2>1. worker' \in [Workers -> Worker] /\ Moves(w)
    BY <1>1, <1>4, <1>5, FailMoves DEF Working, At
  <2>2. TypeOK' /\ Advances
    BY <1>4, <1>5, <2>1, RowKept DEF IndInv, TypeOK
  <2> QED
    BY <1>5, <2>1, <2>2, MoveKeepsInv
<1>6. CASE /\ Release(j)
           /\ worker' = [worker EXCEPT ![w].pc = pc, ![w].stale = left]
  <2>1. /\ worker' \in [Workers -> Worker]
        /\ \A v \in Workers \ {w} : worker'[v] = worker[v]
        /\ worker'[w].pc = pc /\ worker'[w].job = worker[w].job
        /\ worker'[w].stale = left
    BY <1>2, <1>3, <1>6 DEF IndInv, TypeOK, Worker
  <2>2. Moves(w)
    BY <1>1, <1>3, <1>4, <2>1 DEF Moves, Working, At, Job, BeforeReserve
  <2>3. /\ Balanced'
        /\ used' \in Nat /\ media' \in [Jobs -> Media]
        /\ \A k \in Jobs : media'[k].counts => media[k].counts
    BY <1>2, <1>6, ReleaseBalances DEF IndInv
  <2>4. TypeOK' /\ Advances
    BY <1>4, <2>1, <2>3, RowKept DEF IndInv, TypeOK
  <2> QED
    BY <2>2, <2>3, <2>4, MovesApart DEF IndInv
<1> QED
  BY <1>4, <1>5, <1>6

LEMMA DownloadKeepsInv ==
    ASSUME IndInv, NEW w \in Workers, Download(w) PROVE IndInv'
<1>1. Working(w) /\ worker[w].pc \in BeforeReserve
  BY DEF Download, At, Working, BeforeReserve
<1>2. /\ Go(w, "reserve") \/ \E final \in BOOLEAN : Fail(w, final)
      /\ UNCHANGED <<row, claimed, queue, media, objects, used, mode, excused, faults>>
  BY DEF Download
<1>3. worker' \in [Workers -> Worker] /\ Moves(w)
  BY <1>1, <1>2, FailMoves, GoMoves DEF PCs
<1>4. TypeOK' /\ Advances
  BY <1>2, <1>3, RowKept DEF IndInv, TypeOK
<1> QED
  BY <1>2, <1>3, <1>4, MoveKeepsInv

\* The one step that charges: nobody else holds this job, and it has charged
\* nothing before.
LEMMA ReserveKeepsInv ==
    ASSUME IndInv, NEW w \in Workers, Reserve(w) PROVE IndInv'
<1> DEFINE new == [status |-> "uploading", counts |-> TRUE, deleted |-> FALSE]
<1>1. Working(w) /\ worker[w].pc = "reserve" /\ worker[w].pc \in BeforeReserve
  BY DEF Reserve, At, Working, BeforeReserve
<1>2. Job(w) \in Jobs
  BY <1>1, WorkersJob
<1>3. /\ \/ /\ used' = used + 1
            /\ media' = [media EXCEPT ![Job(w)] = new]
            /\ Go(w, "upload")
         \/ Fail(w, FALSE) /\ UNCHANGED <<used, media>>
      /\ UNCHANGED <<row, claimed, queue, objects, mode, excused, faults>>
  BY DEF Reserve
<1>4. CASE Fail(w, FALSE) /\ UNCHANGED <<used, media>>
  <2>1. worker' \in [Workers -> Worker] /\ Moves(w)
    BY <1>1, <1>3, <1>4, FailMoves
  <2>2. TypeOK' /\ Advances
    BY <1>3, <1>4, <2>1, RowKept DEF IndInv, TypeOK
  <2> QED
    BY <1>4, <2>1, <2>2, MoveKeepsInv
<1>5. CASE /\ used' = used + 1
           /\ media' = [media EXCEPT ![Job(w)] = new]
           /\ Go(w, "upload")
  <2>1. worker \in [Workers -> Worker]
    BY DEF IndInv, TypeOK
  <2>2. /\ worker' \in [Workers -> Worker]
        /\ \A v \in Workers \ {w} : worker'[v] = worker[v]
        /\ worker'[w].pc = "upload" /\ worker'[w].job = worker[w].job
    BY <1>5, <2>1 DEF Go, Worker, PCs
  <2>3. new \in Media
    BY DEF Media, Live
  <2>4. media' \in [Jobs -> Media] /\ media'[Job(w)] = new
        /\ \A j \in Jobs \ {Job(w)} : media'[j] = media[j]
    BY <1>2, <1>5, <2>3 DEF IndInv, TypeOK
  <2>5. TypeOK'
    BY <1>3, <1>5, <2>2, <2>4 DEF IndInv, TypeOK
  <2>6. \A v \in Workers : Job(v)' = Job(v) /\ (Working(v)' <=> Working(v))
    BY <1>1, <2>2 DEF Job, Working, At
  <2>7. WorkersTyped'
    BY <2>2, <2>6 DEF IndInv, WorkersTyped
  <2>8. Waiting' = Waiting /\ row' = row
    BY <1>3 DEF Waiting
  <2>9. JobsApart'
    BY <1>3, <2>6, <2>8 DEF IndInv, JobsApart, File, Job
  <2>10. /\ Job(w) \notin Waiting
         /\ ~(Job(w)[2] > row[Job(w)[1]].attempts)
         /\ \A v \in Workers \ {w} : Working(v) => Job(v) # Job(w)
    <3>1. Job(w)[2] \in Nat /\ Job(w)[2] <= row[File(w)].attempts
      BY <1>1, <1>2, JobParts DEF IndInv, JobsApart
    <3>2. row[File(w)].attempts \in Nat
      BY <1>1, WorkersJob DEF Row
    <3> QED
      BY <1>1, <3>1, <3>2 DEF IndInv, JobsApart, File, Job
  <2>11. Unpaid'
    <3>1. \A j \in Waiting' : ~media'[j].counts
      BY <2>4, <2>8, <2>10 DEF IndInv, Unpaid, Waiting, TypeOK
    <3>2. \A j \in Jobs : j[2] > row'[j[1]].attempts => ~media'[j].counts
      BY <2>4, <2>8, <2>10 DEF IndInv, Unpaid
    <3>3. \A v \in Workers : worker'[v].pc \in BeforeReserve => ~media'[Job(v)'].counts
      <4> TAKE v \in Workers
      <4> HAVE worker'[v].pc \in BeforeReserve
      <4>1. v # w
        BY <2>2 DEF BeforeReserve
      <4>2. worker[v].pc \in BeforeReserve /\ Working(v)
        BY <2>2, <4>1 DEF BeforeReserve, Working, At
      <4>3. Job(v) \in Jobs \ {Job(w)}
        BY <2>10, <4>1, <4>2, WorkersJob
      <4> QED
        BY <2>4, <2>6, <4>2, <4>3 DEF IndInv, Unpaid
    <3> QED
      BY <3>1, <3>2, <3>3 DEF Unpaid
  <2>12. Balanced'
    <3>1. ~media[Job(w)].counts
      BY <1>1 DEF IndInv, Unpaid
    <3>2. Charged' = Charged \cup {Job(w)} /\ Job(w) \notin Charged
      BY <1>2, <2>4, <3>1 DEF Charged
    <3>3. Cardinality(Charged \cup {Job(w)}) = Cardinality(Charged) + 1
      BY <3>2, ChargedFinite, FS_AddElement
    <3> QED
      BY <1>5, <3>2, <3>3 DEF IndInv, Balanced
  <2> QED
    BY <2>5, <2>7, <2>9, <2>11, <2>12 DEF IndInv
<1> QED
  BY <1>3, <1>4, <1>5

LEMMA OwnerIsDisabledKeepsInv ==
    ASSUME IndInv, NEW w \in Workers, OwnerIsDisabled(w) PROVE IndInv'
<1>1. Working(w)
  BY DEF OwnerIsDisabled, At, Working
<1>2. worker' \in [Workers -> Worker] /\ Moves(w)
  BY <1>1, FailMoves DEF OwnerIsDisabled
<1>3. TypeOK' /\ Advances
  BY <1>2, RowKept DEF OwnerIsDisabled, IndInv, TypeOK
<1> QED
  BY <1>2, <1>3, MoveKeepsInv DEF OwnerIsDisabled

LEMMA UploadKeepsInv ==
    ASSUME IndInv, NEW w \in Workers, Upload(w) PROVE IndInv'
<1>1. Working(w)
  BY DEF Upload, At, Working
<1>2. /\ Go(w, "mark") \/ Go(w, "undo")
      /\ objects' \subseteq objects \cup {Job(w)}
      /\ UNCHANGED <<row, claimed, queue, media, used, mode, excused, faults>>
  BY DEF Upload
<1>3. Job(w) \in Jobs
  BY <1>1, WorkersJob
<1>4. worker' \in [Workers -> Worker] /\ Moves(w)
  BY <1>1, <1>2, GoMoves DEF PCs, BeforeReserve
<1>5. TypeOK' /\ Advances
  BY <1>2, <1>3, <1>4, RowKept DEF IndInv, TypeOK
<1> QED
  BY <1>2, <1>4, <1>5, MoveKeepsInv

LEMMA MarkKeepsInv ==
    ASSUME IndInv, NEW w \in Workers, MarkAvailable(w) PROVE IndInv'
<1>1. Working(w)
  BY DEF MarkAvailable, At, Working
<1>2. /\ Go(w, "finish") \/ Go(w, "undo")
      /\ media' = media \/ media' = [media EXCEPT ![Job(w)].status = "available"]
      /\ UNCHANGED <<row, claimed, queue, objects, used, mode, excused, faults>>
  BY DEF MarkAvailable
<1>3. Job(w) \in Jobs
  BY <1>1, WorkersJob
<1>4. worker' \in [Workers -> Worker] /\ Moves(w)
  BY <1>1, <1>2, GoMoves DEF PCs, BeforeReserve
<1>5. /\ media' \in [Jobs -> Media]
      /\ \A j \in Jobs : media'[j].counts = media[j].counts
  BY <1>2, <1>3 DEF IndInv, TypeOK, Media, Live
<1>6. TypeOK' /\ Advances
  BY <1>2, <1>4, <1>5, RowKept DEF IndInv, TypeOK
<1> QED
  BY <1>2, <1>4, <1>5, <1>6, MoveKeepsInv

LEMMA FinishKeepsInv ==
    ASSUME IndInv, NEW w \in Workers, Finish(w) PROVE IndInv'
<1>1. Working(w)
  BY DEF Finish, At, Working
<1>2. /\ \/ row' = [row EXCEPT ![File(w)].status = "completed"] /\ EndJob(w)
         \/ row' = row /\ (Fail(w, FALSE) \/ Go(w, "undo"))
      /\ UNCHANGED <<claimed, queue, media, objects, used, mode, excused, faults>>
  BY DEF Finish
<1>3. File(w) \in Files
  BY <1>1, WorkersJob
<1>4. worker' \in [Workers -> Worker] /\ Moves(w)
  BY <1>1, <1>2, EndMoves, FailMoves, GoMoves DEF PCs, BeforeReserve
<1>5. row' \in [Files -> Row] /\ Advances
  <2>1. row \in [Files -> Row] /\ \A f \in Files : row[f].attempts \in Nat
    BY DEF IndInv, TypeOK, Row
  <2>2. CASE row' = [row EXCEPT ![File(w)].status = "completed"]
    BY <1>3, <2>1, <2>2 DEF Advances, Row
  <2> QED
    BY <1>2, <2>2, RowKept
<1>6. TypeOK'
  BY <1>2, <1>4, <1>5 DEF IndInv, TypeOK
<1> QED
  BY <1>2, <1>4, <1>5, <1>6, MoveKeepsInv

LEMMA ExcuseTyped ==
    ASSUME IndInv, NEW w \in Workers, Working(w), Excuse(w)
    PROVE  excused' \subseteq Files
BY WorkersJob DEF Excuse, IndInv, TypeOK

LEMMA UndoKeepsInv ==
    ASSUME IndInv, NEW w \in Workers, Undo(w) PROVE IndInv'
<1>1. Working(w)
  BY DEF Undo, At, Working
<1>2. /\ (Go(w, "giveback") /\ UNCHANGED faults) \/ StoreFails(w)
      /\ media' = media \/ media' = [media EXCEPT ![Job(w)].status = "delete_failed"]
      /\ objects' \subseteq objects
      /\ Excuse(w) \/ UNCHANGED excused
      /\ UNCHANGED <<row, claimed, queue, used, mode>>
  BY DEF Undo
<1>3. Job(w) \in Jobs
  BY <1>1, WorkersJob
<1>4. worker' \in [Workers -> Worker] /\ Moves(w) /\ faults' \in 0..MaxFaults
  <2>1. CASE Go(w, "giveback") /\ UNCHANGED faults
    BY <1>1, <1>2, <2>1, GoMoves DEF PCs, BeforeReserve, IndInv, TypeOK
  <2> QED
    BY <1>1, <1>2, <2>1, StoreFailsMoves
<1>5. /\ media' \in [Jobs -> Media]
      /\ \A j \in Jobs : media'[j].counts = media[j].counts
  BY <1>2, <1>3 DEF IndInv, TypeOK, Media, Live
<1>6. TypeOK' /\ Advances
  BY <1>1, <1>2, <1>4, <1>5, RowKept, ExcuseTyped DEF IndInv, TypeOK
<1> QED
  BY <1>2, <1>4, <1>5, <1>6, MoveKeepsInv

LEMMA GiveBackKeepsInv ==
    ASSUME IndInv, NEW w \in Workers, GiveBack(w) PROVE IndInv'
<1>1. Working(w)
  BY DEF GiveBack, At, Working
<1>2. /\ Release(Job(w)) \/ UNCHANGED <<media, used>>
      /\ StoreFails(w) /\ Excuse(w)
      /\ UNCHANGED <<row, claimed, queue, objects, mode>>
  BY DEF GiveBack
<1>3. Job(w) \in Jobs
  BY <1>1, WorkersJob
<1>4. worker' \in [Workers -> Worker] /\ Moves(w) /\ faults' \in 0..MaxFaults
  BY <1>1, <1>2, StoreFailsMoves
<1>5. CASE Release(Job(w))
  <2>1. /\ Balanced'
        /\ used' \in Nat /\ media' \in [Jobs -> Media]
        /\ \A k \in Jobs : media'[k].counts => media[k].counts
    BY <1>3, <1>5, ReleaseBalances DEF IndInv
  <2>2. TypeOK' /\ Advances
    BY <1>1, <1>2, <1>4, <2>1, RowKept, ExcuseTyped DEF IndInv, TypeOK
  <2> QED
    BY <1>4, <2>1, <2>2, MovesApart DEF IndInv
<1>6. CASE UNCHANGED <<media, used>>
  <2>1. TypeOK' /\ Advances
    BY <1>1, <1>2, <1>4, <1>6, RowKept, ExcuseTyped DEF IndInv, TypeOK
  <2> QED
    BY <1>4, <1>6, <2>1, MoveKeepsInv
<1> QED
  BY <1>2, <1>5, <1>6

LEMMA FailRowKeepsInv ==
    ASSUME IndInv, NEW w \in Workers, FailRow(w) PROVE IndInv'
<1>1. Working(w)
  BY DEF FailRow, At, Working
<1>2. /\ EndJob(w)
      /\ Retried(File(w), FailedStatus(File(w), worker[w].final), row[File(w)].max)
      /\ UNCHANGED <<claimed, queue, media, objects, used, mode, excused, faults>>
  BY DEF FailRow
<1>3. File(w) \in Files /\ row[File(w)].max \in Nat
  BY <1>1, WorkersJob DEF Row
<1>4. FailedStatus(File(w), worker[w].final) \in {"completed", "retry", "failed"}
  BY DEF FailedStatus
<1>5. worker' \in [Workers -> Worker] /\ Moves(w)
  BY <1>1, <1>2, EndMoves
<1>6. row' \in [Files -> Row] /\ Advances
  BY <1>2, <1>3, <1>4, RowRetried
<1>7. TypeOK'
  BY <1>2, <1>5, <1>6 DEF IndInv, TypeOK
<1> QED
  BY <1>2, <1>5, <1>6, <1>7, MoveKeepsInv

LEMMA DeferKeepsInv ==
    ASSUME IndInv, NEW w \in Workers, Defer(w) PROVE IndInv'
<1> DEFINE f == File(w)
           max == IF row[f].max > row[f].attempts THEN row[f].max + 1
                  ELSE row[f].attempts + 1
<1>1. Working(w)
  BY DEF Defer, At, Working
<1>2. /\ EndJob(w)
      /\ row' = row \/ Retried(f, "retry", max)
      /\ UNCHANGED <<claimed, queue, media, objects, used, mode, excused, faults>>
  BY DEF Defer
<1>3. f \in Files /\ max \in Nat
  BY <1>1, WorkersJob DEF Row
<1> HIDE DEF f, max
<1>4. worker' \in [Workers -> Worker] /\ Moves(w)
  BY <1>1, <1>2, EndMoves
<1>5. row' \in [Files -> Row] /\ Advances
  BY <1>2, <1>3, RowRetried, RowKept
<1>6. TypeOK'
  BY <1>2, <1>4, <1>5 DEF IndInv, TypeOK
<1> QED
  BY <1>2, <1>4, <1>5, <1>6, MoveKeepsInv

-----------------------------------------------------------------------------
(* Enqueueing, dispatch and faults *)

\* Workers, claims and charges as they are.
LEMMA RowsMoveKeepsInv ==
    ASSUME IndInv, row' \in [Files -> Row] /\ Advances, mode' \in {"enabled", "paused"},
           faults' \in 0..MaxFaults, claimed' \subseteq claimed,
           UNCHANGED <<queue, media, objects, used, worker, excused>>
    PROVE  IndInv'
<1>1. TypeOK'
  BY DEF IndInv, TypeOK
<1>2. WorkersTyped'
  BY DEF IndInv, WorkersTyped, Working, At, Job
<1>3. \A g \in Files : row[g].attempts \in Nat /\ row'[g].attempts \in Nat
                       /\ row'[g].attempts >= row[g].attempts
  BY DEF IndInv, TypeOK, Row, Advances
<1>4. Waiting' \subseteq Waiting /\ Waiting \subseteq Jobs
  BY DEF Waiting, IndInv, TypeOK
<1>5. \A j \in Jobs : j[1] \in Files /\ j[2] \in Nat
  BY JobParts
<1>6. JobsApart'
  <2>1. \A j \in Waiting' : j[2] <= row'[j[1]].attempts
    BY <1>3, <1>4, <1>5 DEF IndInv, JobsApart
  <2>2. \A w \in Workers : Working(w)' =>
          Job(w)' \notin Waiting' /\ Job(w)'[2] <= row'[File(w)'].attempts
    BY <1>3, <1>4, <1>5 DEF IndInv, JobsApart, WorkersTyped, Working, At, File, Job
  <2>3. \A v, w \in Workers : v # w /\ Working(v)' /\ Working(w)' => Job(v)' # Job(w)'
    BY DEF IndInv, JobsApart, Working, At, Job
  <2> QED
    BY <2>1, <2>2, <2>3 DEF IndInv, JobsApart
<1>7. Unpaid'
  BY <1>3, <1>4, <1>5 DEF IndInv, Unpaid, Job
<1>8. Balanced'
  BY SameCharged DEF IndInv
<1> QED
  BY <1>1, <1>2, <1>6, <1>7, <1>8 DEF IndInv

LEMMA RowStepsKeepInv ==
    ASSUME IndInv, NEW f \in Files, Enqueue(f) \/ TimePasses(f)
    PROVE  IndInv'
<1>1. row \in [Files -> Row] /\ \A g \in Files : row[g].attempts \in Nat
  BY DEF IndInv, TypeOK, Row
<1>2. CASE Enqueue(f)
  <2>1. row' = [row EXCEPT ![f].status = "pending", ![f].due = TRUE]
    BY <1>2 DEF Enqueue
  <2>2. row' \in [Files -> Row]
    BY <1>1, <2>1 DEF Row
  <2>3. \A g \in Files : row'[g].attempts = row[g].attempts
    BY <1>1, <2>1 DEF Row
  <2> QED
    BY <1>1, <1>2, <2>2, <2>3, RowsMoveKeepsInv DEF Enqueue, Advances, IndInv, TypeOK
<1>3. CASE TimePasses(f)
  <2>1. row' = [row EXCEPT ![f].due = TRUE]
    BY <1>3 DEF TimePasses
  <2>2. row' \in [Files -> Row]
    BY <1>1, <2>1 DEF Row
  <2>3. \A g \in Files : row'[g].attempts = row[g].attempts
    BY <1>1, <2>1 DEF Row
  <2> QED
    BY <1>1, <1>3, <2>2, <2>3, RowsMoveKeepsInv
    DEF TimePasses, Advances, IndInv, TypeOK
<1> QED
  BY <1>2, <1>3

LEMMA ResetKeepsInv ==
    ASSUME IndInv, NEW j \in Jobs, ResetDispatch(j) PROVE IndInv'
<1>1. j[1] \in Files
  BY JobParts
<1>2. row[j[1]].max \in Nat
  BY <1>1 DEF IndInv, TypeOK, Row
<1>3. row' \in [Files -> Row] /\ Advances
  BY <1>1, <1>2, RowRetried, RowKept DEF ResetDispatch
<1> QED
  BY <1>3, RowsMoveKeepsInv DEF ResetDispatch, IndInv, TypeOK

LEMMA EnvironmentKeepsInv ==
    ASSUME IndInv, DispatchDies \/ SetMode PROVE IndInv'
<1>1. row' \in [Files -> Row] /\ Advances
  BY RowKept DEF DispatchDies, SetMode
<1>2. faults' \in 0..MaxFaults
  BY ArchiveAssumption DEF DispatchDies, SetMode, IndInv, TypeOK
<1> QED
  BY <1>1, <1>2, RowsMoveKeepsInv DEF DispatchDies, SetMode, IndInv, TypeOK

LEMMA WorkerDiesKeepsInv ==
    ASSUME IndInv, NEW w \in Workers, WorkerDies(w) PROVE IndInv'
<1>1. Working(w) /\ EndJob(w)
  BY DEF WorkerDies, Working
<1>2. worker' \in [Workers -> Worker] /\ Moves(w)
  BY <1>1, EndMoves DEF WorkerDies
<1>3. faults' \in 0..MaxFaults
  BY ArchiveAssumption DEF WorkerDies, IndInv, TypeOK
<1>4. TypeOK' /\ Advances
  <2>1. excused' \subseteq Files
    BY <1>1, ExcuseTyped DEF WorkerDies, IndInv, TypeOK
  <2> QED
    BY <1>2, <1>3, <2>1, RowKept DEF WorkerDies, IndInv, TypeOK
<1> QED
  BY <1>2, <1>4, MoveKeepsInv DEF WorkerDies

\* A claim numbers its job by the attempt it takes, which no job has had before.
LEMMA ClaimKeepsInv ==
    ASSUME IndInv, NEW f \in Files, Claim(f) PROVE IndInv'
<1> DEFINE n == row[f].attempts + 1
           new == [status |-> "processing", attempts |-> n, max |-> row[f].max,
                   due |-> FALSE]
           k == <<f, n>>
<1>1. /\ \/ /\ n \in Numbers
            /\ row' = [row EXCEPT ![f] = new]
            /\ claimed' = claimed \cup {k}
         \/ row' = [row EXCEPT ![f].status = "failed"] /\ claimed' = claimed
      /\ UNCHANGED <<queue, media, objects, used, worker, mode, excused, faults>>
  BY DEF Claim
<1>2. row \in [Files -> Row] /\ \A g \in Files : row[g].attempts \in Nat
  BY DEF IndInv, TypeOK, Row
<1>3. CASE row' = [row EXCEPT ![f].status = "failed"] /\ claimed' = claimed
  <2>1. row' \in [Files -> Row] /\ Advances
    BY <1>2, <1>3 DEF Row, Advances
  <2> QED
    BY <1>1, <1>3, <2>1, RowsMoveKeepsInv DEF IndInv, TypeOK
<1>4. CASE /\ n \in Numbers
           /\ row' = [row EXCEPT ![f] = new]
           /\ claimed' = claimed \cup {k}
  <2>1. k \in Jobs /\ k[1] = f /\ k[2] = n /\ n \in Nat
    BY <1>2, <1>4 DEF Jobs
  <2>2. new \in Row /\ new.attempts >= row[f].attempts
    BY <1>2 DEF Row
  <2>3. row' \in [Files -> Row] /\ Advances
    BY <1>4, <2>2, RowWritten
  <2>4. row'[f].attempts = n /\ n = row[f].attempts + 1
    BY <1>2, <1>4
  <2>5. \A j \in Jobs : j[1] \in Files /\ j[2] \in Nat
    BY JobParts
  <2>6. \A g \in Files : row'[g].attempts \in Nat /\ row'[g].attempts >= row[g].attempts
    BY <2>3 DEF Row, Advances
  <2> HIDE DEF n, new, k
  <2>7. k \notin Waiting /\ \A w \in Workers : Working(w) => Job(w) # k
    <3>1. ~(k[2] <= row[k[1]].attempts)
      BY <1>2, <2>1, <2>4
    <3> QED
      BY <3>1 DEF IndInv, JobsApart, File, Job
  <2>8. TypeOK'
    BY <1>1, <1>4, <2>1, <2>3 DEF IndInv, TypeOK
  <2>9. WorkersTyped'
    BY <1>1 DEF IndInv, WorkersTyped, Working, At, Job
  <2>10. Waiting' = Waiting \cup {k} /\ Waiting \subseteq Jobs
    BY <1>1, <1>4 DEF Waiting, IndInv, TypeOK
  <2>11. JobsApart'
    <3>1. claimed' \cap queue' = {}
      BY <1>1, <1>4, <2>7 DEF IndInv, JobsApart, Waiting
    <3>2. \A j \in Waiting' : j[2] <= row'[j[1]].attempts
      <4> TAKE j \in Waiting'
      <4>1. CASE j = k
        BY <2>1, <2>4, <4>1
      <4>2. CASE j \in Waiting
        <5>1. j[2] <= row[j[1]].attempts /\ j[1] \in Files /\ j[2] \in Nat
          BY <4>2, <2>5, <2>10 DEF IndInv, JobsApart
        <5> QED
          BY <5>1, <1>2, <2>6
      <4> QED
        BY <2>10, <4>1, <4>2
    <3>3. \A w \in Workers : Working(w)' =>
            Job(w)' \notin Waiting' /\ Job(w)'[2] <= row'[File(w)'].attempts
      <4> TAKE w \in Workers
      <4> HAVE Working(w)'
      <4>1. Working(w) /\ Job(w)' = Job(w) /\ File(w)' = Job(w)[1]
        BY <1>1 DEF Working, At, Job, File
      <4>2. Job(w) \notin Waiting /\ Job(w)[2] <= row[Job(w)[1]].attempts
        BY <4>1 DEF IndInv, JobsApart, File, Job
      <4>3. Job(w) \in Jobs
        BY <4>1, WorkersJob
      <4>4. Job(w)[2] <= row'[Job(w)[1]].attempts
        BY <1>2, <2>5, <2>6, <4>2, <4>3
      <4> QED
        BY <2>7, <2>10, <4>1, <4>2, <4>4
    <3>4. \A v, w \in Workers : v # w /\ Working(v)' /\ Working(w)' => Job(v)' # Job(w)'
      BY <1>1 DEF IndInv, JobsApart, Working, At, Job
    <3> QED
      BY <3>1, <3>2, <3>3, <3>4 DEF JobsApart
  <2>12. Unpaid'
    <3>1. ~media[k].counts
      BY <1>2, <2>1, <2>4 DEF IndInv, Unpaid
    <3>2. \A j \in Waiting' : ~media'[j].counts
      BY <1>1, <2>10, <3>1 DEF IndInv, Unpaid
    <3>3. \A j \in Jobs : j[2] > row'[j[1]].attempts => ~media'[j].counts
      BY <1>1, <1>2, <2>5, <2>6 DEF IndInv, Unpaid
    <3>4. \A w \in Workers : worker'[w].pc \in BeforeReserve => ~media'[Job(w)'].counts
      BY <1>1 DEF IndInv, Unpaid, Job
    <3> QED
      BY <3>2, <3>3, <3>4 DEF Unpaid
  <2>13. Balanced'
    BY <1>1, SameCharged DEF IndInv
  <2> QED
    BY <2>8, <2>9, <2>11, <2>12, <2>13 DEF IndInv
<1> QED
  BY <1>1, <1>3, <1>4

LEMMA QueueKeepsInv ==
    ASSUME IndInv, NEW j, QueueJob(j) PROVE IndInv'
<1>1. /\ j \in claimed
      /\ claimed' = claimed \ {j} /\ queue' = queue \cup {j}
      /\ UNCHANGED <<row, media, objects, used, worker, mode, excused, faults>>
  BY DEF QueueJob
<1>2. Waiting' = Waiting
  BY <1>1 DEF Waiting
<1>3. TypeOK'
  BY <1>1 DEF IndInv, TypeOK
<1>4. WorkersTyped'
  BY <1>1 DEF IndInv, WorkersTyped, Working, At, Job
<1>5. JobsApart'
  BY <1>1, <1>2 DEF IndInv, JobsApart, Working, At, Job, File
<1>6. Unpaid'
  BY <1>1, <1>2 DEF IndInv, Unpaid, Job
<1>7. Balanced'
  BY <1>1, SameCharged DEF IndInv
<1> QED
  BY <1>3, <1>4, <1>5, <1>6, <1>7 DEF IndInv

LEMMA TakeKeepsInv ==
    ASSUME IndInv, NEW w \in Workers, NEW j \in Jobs, TakeJob(w, j) PROVE IndInv'
<1> DEFINE new == [pc |-> "load", job |-> j, stale |-> {}, final |-> FALSE]
<1>1. /\ ~Working(w) /\ j \in queue
      /\ queue' = queue \ {j}
      /\ worker' = [worker EXCEPT ![w] = new]
      /\ excused' \subseteq excused \cup {j[1]}
      /\ UNCHANGED <<row, claimed, media, objects, used, mode, faults>>
  BY DEF TakeJob, Working
<1>2. new \in Worker
  BY DEF Worker, PCs
<1>3. /\ worker' \in [Workers -> Worker] /\ worker'[w] = new
      /\ \A v \in Workers \ {w} : worker'[v] = worker[v]
  BY <1>1, <1>2 DEF IndInv, TypeOK
<1>4. j[1] \in Files
  BY JobParts
<1>5. TypeOK'
  BY <1>1, <1>3, <1>4 DEF IndInv, TypeOK
<1>6. /\ \A v \in Workers \ {w} : Job(v)' = Job(v) /\ (Working(v)' <=> Working(v))
      /\ Job(w)' = j /\ worker'[w].pc = "load"
  BY <1>3 DEF Job, Working, At
<1>7. WorkersTyped'
  BY <1>3, <1>6 DEF IndInv, WorkersTyped
<1>8. Waiting' = Waiting \ {j} /\ j \in Waiting
  BY <1>1 DEF Waiting, IndInv, JobsApart
<1>9. JobsApart'
  <2>1. claimed' \cap queue' = {}
    BY <1>1 DEF IndInv, JobsApart
  <2>2. \A i \in Waiting' : i[2] <= row'[i[1]].attempts
    BY <1>1, <1>8 DEF IndInv, JobsApart
  <2>3. \A v \in Workers : Working(v)' =>
          Job(v)' \notin Waiting' /\ Job(v)'[2] <= row'[File(v)'].attempts
    BY <1>1, <1>6, <1>8 DEF IndInv, JobsApart, File, Job
  <2>4. \A v, u \in Workers : v # u /\ Working(v)' /\ Working(u)' => Job(v)' # Job(u)'
    BY <1>6, <1>8 DEF IndInv, JobsApart
  <2> QED
    BY <2>1, <2>2, <2>3, <2>4 DEF JobsApart
<1>10. Unpaid'
  <2>1. \A i \in Waiting' : ~media'[i].counts
    BY <1>1, <1>8 DEF IndInv, Unpaid
  <2>2. \A i \in Jobs : i[2] > row'[i[1]].attempts => ~media'[i].counts
    BY <1>1 DEF IndInv, Unpaid
  <2>3. \A v \in Workers : worker'[v].pc \in BeforeReserve => ~media'[Job(v)'].counts
    BY <1>1, <1>3, <1>6, <1>8 DEF IndInv, Unpaid
  <2> QED
    BY <2>1, <2>2, <2>3 DEF Unpaid
<1>11. Balanced'
  BY <1>1, SameCharged DEF IndInv
<1> QED
  BY <1>5, <1>7, <1>9, <1>10, <1>11 DEF IndInv

-----------------------------------------------------------------------------
(* Theorems *)

LEMMA InitInv == Init => IndInv
<1> SUFFICES ASSUME Init PROVE IndInv
  OBVIOUS
<1>1. TypeOK
  BY ArchiveAssumption DEF Init, TypeOK, Row, Media, Worker, PCs, Idle, NoMedia
<1>2. WorkersTyped /\ JobsApart
  BY DEF Init, WorkersTyped, JobsApart, Waiting, Working, At, Idle
<1>3. \A j \in Jobs : ~media[j].counts
  BY DEF Init, NoMedia
<1>4. Unpaid
  BY <1>3 DEF Init, Unpaid, Waiting, BeforeReserve, Idle
<1>5. Charged = {}
  BY <1>3 DEF Charged
<1>6. Balanced
  BY <1>5, FS_EmptySet DEF Init, Balanced
<1> QED
  BY <1>1, <1>2, <1>4, <1>6 DEF IndInv

LEMMA StepKeepsInv == IndInv /\ [Next]_vars => IndInv'
<1> SUFFICES ASSUME IndInv, [Next]_vars PROVE IndInv'
  OBVIOUS
<1>1. ASSUME NEW w \in Workers, Step(w) PROVE IndInv'
  BY <1>1, LoadKeepsInv, LookKeepsInv, ListStaleKeepsInv, WipeKeepsInv,
     ReleaseStaleKeepsInv, DownloadKeepsInv, ReserveKeepsInv, OwnerIsDisabledKeepsInv, UploadKeepsInv,
     MarkKeepsInv, FinishKeepsInv, UndoKeepsInv, GiveBackKeepsInv, FailRowKeepsInv,
     DeferKeepsInv DEF Step
<1>2. ASSUME NEW f \in Files, Dispatch(f) PROVE IndInv'
  BY <1>2, ClaimKeepsInv, QueueKeepsInv DEF Dispatch
<1>3. CASE UNCHANGED vars
  <2>1. row' \in [Files -> Row] /\ Advances
    BY <1>3, RowKept DEF vars
  <2> QED
    BY <1>3, <2>1, RowsMoveKeepsInv DEF vars, IndInv, TypeOK
<1> QED
  BY <1>1, <1>2, <1>3, RowStepsKeepInv, ResetKeepsInv, WorkerDiesKeepsInv, TakeKeepsInv,
     EnvironmentKeepsInv DEF Next

\* The inductive invariant: the types, jobs that work apart, nothing charged for a job
\* that has not reserved yet, and a ledger that is the number of charged copies.
THEOREM Invariant == Spec => []IndInv
BY InitInv, StepKeepsInv, PTL DEF Spec

\* Every variable has its type in every reachable state.
THEOREM TypeCorrect == Spec => []TypeOK
<1>1. IndInv => TypeOK
  BY DEF IndInv
<1> QED
  BY <1>1, Invariant, PTL

\* The quota in use is what the listed copies charge: every reservation is given
\* back at most once, whoever wipes, undoes or abandons it, and however many jobs
\* of one file run at once.
THEOREM QuotaIsExact == Spec => []LedgerIsExact
<1>1. IndInv => LedgerIsExact
  BY DEF IndInv, Balanced, Charged, LedgerIsExact
<1> QED
  BY <1>1, Invariant, PTL

\* A completed row stays completed, although nothing fences the jobs of its
\* earlier claims.
THEOREM CompletedStays == Spec => CompletedIsFinal
<1>1. IndInv /\ [Next]_vars =>
        [\A f \in Files : row[f].status = "completed" => row'[f].status = "completed"]_vars
  <2> SUFFICES ASSUME IndInv, Next, NEW f \in Files, row[f].status = "completed"
               PROVE  row'[f].status = "completed"
    OBVIOUS
  <2>0. row \in [Files -> Row]
    BY DEF IndInv, TypeOK
  <2>1. ASSUME NEW w \in Workers, Step(w) PROVE row'[f].status = "completed"
    <3>1. Working(w) => File(w) \in Files
      BY WorkersJob
    <3>2. CASE Load(w)
      BY <2>0, <3>2 DEF Load, Closed
    <3>3. CASE Finish(w)
      <4>1. row' = row \/ row' = [row EXCEPT ![File(w)].status = "completed"]
        BY <3>3 DEF Finish
      <4>2. CASE row' = [row EXCEPT ![File(w)].status = "completed"]
        BY <2>0, <4>2
      <4> QED
        BY <4>1, <4>2
    <3>4. CASE FailRow(w)
      BY <2>0, <3>4 DEF FailRow, Retried, FailedStatus
    <3>5. CASE Defer(w)
      BY <2>0, <3>5 DEF Defer, Retried
    <3> QED
      BY <2>1, <3>2, <3>3, <3>4, <3>5 DEF Step, Look, ListStale, Wipe, ReleaseStale,
         Download, Reserve, OwnerIsDisabled, Upload, MarkAvailable, Undo, GiveBack
  <2>2. ASSUME NEW g \in Files, Enqueue(g) \/ TimePasses(g) \/ Claim(g)
        PROVE  row'[f].status = "completed"
    <3>1. row[g].status # "completed"
      BY <2>2 DEF Enqueue, TimePasses, Claim, Due
    <3>2. row'[f] = row[f]
      BY <2>0, <2>2, <3>1 DEF Enqueue, TimePasses, Claim
    <3> QED
      BY <3>2
  <2>3. ASSUME NEW j \in Jobs, ResetDispatch(j) PROVE row'[f].status = "completed"
    BY <2>0, <2>3 DEF ResetDispatch, Retried
  <2>4. ASSUME row' = row PROVE row'[f].status = "completed"
    BY <2>4
  <2> QED
    BY <2>1, <2>2, <2>3, <2>4 DEF Next, Dispatch, QueueJob, WorkerDies, TakeJob,
       DispatchDies, SetMode
<1>2. IndInv /\ [Next]_vars => [\A f \in Files :
        row[f].status = "completed" => row'[f].status = "completed"]_vars
  BY <1>1
<1> QED
  BY <1>2, Invariant, PTL DEF Spec, CompletedIsFinal

-----------------------------------------------------------------------------
(* What one job leaves behind: the copies of a file *)

\* A copy is written down only when its job reserves, and stays written down.
Unborn(j) == media[j].status = "none"
Reserved == {"upload", "mark", "undo", "giveback"}
BirthInv ==
    /\ \A j \in Waiting : Unborn(j)
    /\ \A j \in Jobs : j[2] > row[j[1]].attempts => Unborn(j)
    /\ \A w \in Workers :
         /\ worker[w].pc \in BeforeReserve => Unborn(Job(w))
         /\ worker[w].pc \in Reserved => ~Unborn(Job(w))
         /\ \A k \in worker[w].stale : ~Unborn(k) /\ k[1] = File(w)

Of(f) == {j \in Jobs : j[1] = f}
IsLive(j) == media[j].status \in Live
Available(j) == media[j].status = "available"

\* One worker at a time in the jobs of a file.
Alone(f) ==
    \A v, w \in Workers :
        Working(v) /\ Working(w) /\ File(v) = f /\ File(w) = f => v = w

\* What is listed is charged, what is stored is listed, and what is available is
\* stored unless its worker is just giving it back; there is one at most, and one
\* behind a completed row.
CopiesSound(f) ==
    /\ \A j \in Of(f) :
         /\ IsLive(j) => media[j].counts /\ ~media[j].deleted
         /\ j \in objects => IsLive(j)
         /\ Available(j) => \/ j \in objects
                            \/ \E w \in Workers : At(w, "giveback") /\ Job(w) = j
    /\ \A i, j \in Of(f) : Available(i) /\ Available(j) => i = j
    /\ row[f].status = "completed" => \E j \in Of(f) : Available(j)

\* The worker's copy is the only one listed.
Sole(w) ==
    /\ media[Job(w)].status \in {"uploading", "available"}
    /\ \A j \in Of(File(w)) : IsLive(j) => j = Job(w)
Chosen(w) == CHOOSE k \in worker[w].stale : TRUE

\* What the worker of a file has found or done so far.
WorkSound(w) ==
    /\ worker[w].pc # "load" => row[File(w)].status # "completed"
    /\ worker[w].pc \in {"list", "wipe", "release"} =>
         \A j \in Of(File(w)) : ~Available(j)
    /\ worker[w].pc \in {"wipe", "release"} =>
         \A j \in Of(File(w)) : IsLive(j) => j \in worker[w].stale
    /\ worker[w].pc = "release" => Chosen(w) \notin objects
    /\ worker[w].pc \in {"download", "reserve"} =>
         \A j \in Of(File(w)) : ~IsLive(j)
    /\ worker[w].pc \in Reserved => Sole(w)
    /\ worker[w].pc = "mark" => Job(w) \in objects
    /\ worker[w].pc = "giveback" => Job(w) \notin objects
    /\ worker[w].pc = "finish" => /\ Unborn(Job(w)) \/ Sole(w)
                                  /\ \E j \in Of(File(w)) : Available(j)

FilesSound ==
    /\ \A f \in Files \ excused : Alone(f) /\ CopiesSound(f)
    /\ \A w \in Workers : Working(w) /\ File(w) \notin excused => WorkSound(w)
SoundInv == IndInv /\ BirthInv /\ FilesSound

-----------------------------------------------------------------------------
(* A step of one worker *)

\* It leaves the other workers and the other files alone.
Inside(w) ==
    /\ Working(w)
    /\ \A v \in Workers \ {w} : worker'[v] = worker[v]
    /\ worker'[w].job = Job(w) \/ worker'[w] = Idle
    /\ UNCHANGED <<claimed, queue>>
    /\ Advances
    /\ \A g \in Files \ {File(w)} : row'[g] = row[g]
    /\ \A k \in Jobs : k[1] # File(w) =>
         media'[k] = media[k] /\ (k \in objects' <=> k \in objects)
    /\ excused \subseteq excused'

\* Only its own job's copy may come to be listed, and none is forgotten.
Births(w) ==
    /\ \A k \in Jobs : media[k].status # "none" => media'[k].status # "none"
    /\ \A k \in Jobs \ {Job(w)} : media[k].status = "none" => media'[k].status = "none"
    /\ worker'[w].pc \in BeforeReserve => media'[Job(w)].status = "none"
    /\ worker'[w].pc \in Reserved => media'[Job(w)].status # "none"
    /\ \A k \in worker'[w].stale : media'[k].status # "none" /\ k[1] = File(w)

LEMMA BirthsKeepInv ==
    ASSUME IndInv, BirthInv, IndInv', NEW w \in Workers, Inside(w), Births(w)
    PROVE  BirthInv'
<1>1. Working(w) /\ Job(w) \in Jobs /\ File(w) \in Files
  BY WorkersJob DEF Inside
<1>2. Waiting' = Waiting /\ Waiting \subseteq Jobs /\ Job(w) \notin Waiting
  BY <1>1 DEF Waiting, Inside, IndInv, TypeOK, JobsApart
<1>3. \A g \in Files : row[g].attempts \in Nat /\ row'[g].attempts \in Nat
                       /\ row'[g].attempts >= row[g].attempts
  BY DEF IndInv, TypeOK, Row, Inside, Advances
<1>4. \A j \in Jobs : j[1] \in Files /\ j[2] \in Nat
  BY JobParts
<1>5. ~(Job(w)[2] > row[Job(w)[1]].attempts)
  BY <1>1, <1>3, <1>4 DEF IndInv, JobsApart, File, Job
<1>6. \A j \in Waiting' : Unborn(j)'
  BY <1>2 DEF Births, BirthInv, Unborn
<1>7. \A j \in Jobs : j[2] > row'[j[1]].attempts => Unborn(j)'
  <2> TAKE j \in Jobs
  <2> HAVE j[2] > row'[j[1]].attempts
  <2>1. j[2] > row[j[1]].attempts
    BY <1>3, <1>4
  <2> QED
    BY <2>1, <1>5 DEF Births, BirthInv, Unborn
<1>8. ASSUME NEW v \in Workers
      PROVE  /\ worker'[v].pc \in BeforeReserve => Unborn(Job(v))'
             /\ worker'[v].pc \in Reserved => ~Unborn(Job(v))'
             /\ \A k \in worker'[v].stale : ~Unborn(k)' /\ k[1] = File(v)'
  <2>1. CASE v = w
    <3>1. worker'[w] = Idle \/ (Job(w)' = Job(w) /\ File(w)' = File(w))
      BY DEF Inside, Job, File
    <3>2. \A k \in worker'[w].stale : k[1] = File(w)'
      BY <3>1 DEF Inside, Births, Idle
    <3> QED
      BY <2>1, <3>1, <3>2 DEF Births, Unborn, BeforeReserve, Reserved, Idle
  <2>2. CASE v # w
    <3>1. worker'[v] = worker[v]
      BY <2>2 DEF Inside
    <3>2. Job(v)' = Job(v) /\ File(v)' = File(v)
      BY <3>1 DEF Job, File
    <3>3. worker[v].stale \subseteq Jobs
      BY DEF IndInv, TypeOK, Worker
    <3>4. worker[v].pc \in BeforeReserve \/ worker[v].pc \in Reserved =>
            Working(v) /\ Job(v) \in Jobs /\ Job(v) # Job(w)
      <4> HAVE worker[v].pc \in BeforeReserve \/ worker[v].pc \in Reserved
      <4>1. Working(v)
        BY DEF BeforeReserve, Reserved, Working, At
      <4> QED
        BY <1>1, <2>2, <4>1, WorkersJob DEF IndInv, JobsApart
    <3> QED
      BY <3>1, <3>2, <3>3, <3>4 DEF Births, BirthInv, Unborn
  <2> QED
    BY <2>1, <2>2
<1> QED
  BY <1>6, <1>7, <1>8 DEF BirthInv, Unborn

LEMMA ChosenIsStale ==
    ASSUME NEW w \in Workers, worker[w].stale # {}
    PROVE  Chosen(w) \in worker[w].stale
BY DEF Chosen

\* What is left to show of such a step is its own file and worker.
LEMMA InsideKeepsSound ==
    ASSUME SoundInv, IndInv', NEW w \in Workers, Inside(w), Births(w),
           NEW f \in Files, f = File(w), f \notin excused' => CopiesSound(f)',
           f \notin excused' /\ Working(w)' => WorkSound(w)'
    PROVE  SoundInv'
<1>1. Working(w) /\ Job(w) \in Jobs /\ File(w) \in Files
  BY WorkersJob DEF Inside, SoundInv
<1>2. BirthInv'
  BY BirthsKeepInv DEF SoundInv
<1>3. ASSUME NEW v \in Workers
      PROVE  /\ Working(v)' => Working(v) /\ Job(v)' = Job(v) /\ File(v)' = File(v)
             /\ v # w => worker'[v] = worker[v] /\ (Working(v)' <=> Working(v))
                         /\ Job(v)' = Job(v) /\ File(v)' = File(v)
  BY <1>1 DEF Inside, Working, At, Job, File, Idle
<1>4. \A g \in Files \ excused' : Alone(g)'
  <2> TAKE g \in Files \ excused'
  <2>1. Alone(g)
    BY DEF SoundInv, FilesSound, Inside
  <2> QED
    BY <1>3, <2>1 DEF Alone
<1>5. \A g \in Files \ excused' : CopiesSound(g)'
  <2> TAKE g \in Files \ excused'
  <2>0. f = File(w)
    OBVIOUS
  <2>1. CASE g = f
    BY <2>1
  <2>2. CASE g # f
    <3>1. CopiesSound(g) /\ row'[g] = row[g]
      BY <2>2, <2>0 DEF SoundInv, FilesSound, Inside
    <3>2. Of(g)' = Of(g) /\ Of(g) \subseteq Jobs
      BY DEF Of
    <3>3. ASSUME NEW j \in Of(g)
          PROVE  /\ media'[j] = media[j] /\ (j \in objects' <=> j \in objects)
                 /\ IsLive(j)' = IsLive(j) /\ Available(j)' = Available(j)
      BY <2>2, <2>0 DEF Of, Inside, IsLive, Available
    <3>4. ASSUME NEW j \in Of(g), NEW v \in Workers, At(v, "giveback"), Job(v) = j
          PROVE  At(v, "giveback")' /\ Job(v)' = j
      <4>1. v # w
        BY <2>0, <2>2, <3>4 DEF Of, File, Job
      <4> QED
        BY <1>3, <3>4, <4>1 DEF At
    <3> QED
      BY <3>1, <3>2, <3>3, <3>4 DEF CopiesSound
  <2> QED
    BY <2>1, <2>2
<1>6. ASSUME NEW v \in Workers, Working(v)', File(v)' \notin excused'
      PROVE  WorkSound(v)'
  <2>1. CASE v = w
    BY <1>3, <1>6, <2>1
  <2>2. CASE v # w
    <3>1. /\ worker'[v] = worker[v] /\ Working(v) /\ Job(v)' = Job(v)
          /\ File(v)' = File(v) /\ Chosen(v)' = Chosen(v)
      BY <1>3, <1>6, <2>2 DEF Chosen
    <3>2. File(v) \in Files \ excused
      BY <1>6, <3>1, WorkersJob DEF SoundInv, Inside
    <3>3. WorkSound(v) /\ Alone(File(v))
      BY <3>1, <3>2 DEF SoundInv, FilesSound
    <3>4. File(v) # File(w) /\ row'[File(v)] = row[File(v)]
      BY <1>1, <2>2, <3>1, <3>2, <3>3 DEF Alone, Inside
    <3>5. Of(File(v))' = Of(File(v)) /\ Of(File(v)) \subseteq Jobs
          /\ Job(v) \in Of(File(v))
      BY <3>1, WorkersJob DEF Of, SoundInv, File, Job
    <3>6. ASSUME NEW j \in Of(File(v))
          PROVE  /\ media'[j] = media[j] /\ (j \in objects' <=> j \in objects)
                 /\ IsLive(j)' = IsLive(j) /\ Available(j)' = Available(j)
                 /\ Unborn(j)' = Unborn(j)
      BY <3>4, <3>5 DEF Of, Inside, IsLive, Available, Unborn
    <3>7. worker[v].pc = "release" => Chosen(v) \in Of(File(v))
      <4> HAVE worker[v].pc = "release"
      <4>1. Chosen(v) \in worker[v].stale
        BY ChosenIsStale DEF SoundInv, IndInv, WorkersTyped
      <4>2. Chosen(v) \in Jobs /\ Chosen(v)[1] = File(v)
        BY <4>1 DEF SoundInv, IndInv, TypeOK, Worker, BirthInv
      <4> QED
        BY <4>2 DEF Of
    <3>8. Sole(v)' <=> Sole(v)
      BY <3>1, <3>5, <3>6 DEF Sole
    <3>9. Unborn(Job(v))' = Unborn(Job(v))
          /\ (Job(v) \in objects' <=> Job(v) \in objects)
      BY <3>5, <3>6, <3>1 DEF Unborn
    <3> QED
      BY <3>1, <3>3, <3>4, <3>5, <3>6, <3>7, <3>8, <3>9 DEF WorkSound
  <2> QED
    BY <2>1, <2>2
<1> QED
  BY <1>2, <1>4, <1>5, <1>6 DEF SoundInv, FilesSound

-----------------------------------------------------------------------------
(* Where a step takes its worker *)

To(w, pc) ==
    /\ worker'[w].pc = pc /\ worker'[w].job = Job(w)
    /\ worker'[w].stale = worker[w].stale
    /\ \A v \in Workers \ {w} : worker'[v] = worker[v]
Gone(w) == worker'[w] = Idle /\ \A v \in Workers \ {w} : worker'[v] = worker[v]

LEMMA GoesTo ==
    ASSUME IndInv, NEW w \in Workers, NEW pc, Go(w, pc) PROVE To(w, pc)
BY DEF IndInv, TypeOK, Worker, Go, To, Job

LEMMA FailsTo ==
    ASSUME IndInv, NEW w \in Workers, NEW final, Fail(w, final) PROVE To(w, "fail")
BY DEF IndInv, TypeOK, Worker, Fail, To, Job

LEMMA EndsGone ==
    ASSUME IndInv, NEW w \in Workers, EndJob(w) PROVE Gone(w)
BY DEF IndInv, TypeOK, EndJob, Gone

LEMMA StoreFailsTo ==
    ASSUME IndInv, NEW w \in Workers, StoreFails(w)
    PROVE  \E pc \in {"fail", "defer"} : To(w, pc)
BY GoesTo, FailsTo DEF StoreFails

LEMMA ToIsInside ==
    ASSUME NEW w \in Workers, Working(w), (\E pc : To(w, pc)) \/ Gone(w),
           UNCHANGED <<claimed, queue>>, Advances, excused \subseteq excused',
           \A g \in Files \ {File(w)} : row'[g] = row[g],
           \A k \in Jobs : k[1] # File(w) =>
             media'[k] = media[k] /\ (k \in objects' <=> k \in objects)
    PROVE  Inside(w)
BY DEF Inside, To, Gone

LEMMA BirthsAreKept ==
    ASSUME SoundInv, NEW w \in Workers, Working(w), NEW pc, To(w, pc) \/ Gone(w),
           \A k \in Jobs : media'[k].status = "none" <=> media[k].status = "none",
           pc \in BeforeReserve => worker[w].pc \in BeforeReserve,
           pc \in Reserved => media[Job(w)].status # "none"
    PROVE  Births(w)
<1>1. Job(w) \in Jobs
  BY WorkersJob DEF SoundInv
<1>2. worker[w].pc \in BeforeReserve => media[Job(w)].status = "none"
  BY DEF SoundInv, BirthInv, Unborn
<1>3. \A k \in worker[w].stale : k \in Jobs /\ media[k].status # "none" /\ k[1] = File(w)
  BY DEF SoundInv, BirthInv, Unborn, IndInv, TypeOK, Worker
<1>4. CASE To(w, pc)
  BY <1>1, <1>2, <1>3, <1>4 DEF To, Births
<1>5. CASE Gone(w)
  BY <1>5 DEF Gone, Births, Idle, BeforeReserve, Reserved
<1> QED
  BY <1>4, <1>5

\* What is known of the file of a worker.
LEMMA OfWorker ==
    ASSUME SoundInv, NEW w \in Workers, Working(w)
    PROVE  /\ Job(w) \in Jobs /\ Job(w) \in Of(File(w)) /\ File(w) \in Files
           /\ Of(File(w)) \subseteq Jobs
           /\ File(w) \notin excused => WorkSound(w) /\ CopiesSound(File(w))
BY WorkersJob DEF SoundInv, FilesSound, Of, File, Job

LEMMA TurnsBack ==
    ASSUME NEW w \in Workers, NEW pc \in {"look", "fail", "defer"}, To(w, pc),
           row'[File(w)].status # "completed"
    PROVE  WorkSound(w)'
<1>1. File(w)' = File(w) /\ worker'[w].pc = pc
  BY DEF To, File, Job
<1> QED
  BY <1>1 DEF WorkSound, Reserved

\* A step that touches no copy.
LEMMA QuietStep ==
    ASSUME SoundInv, IndInv', NEW w \in Workers, Working(w), worker[w].pc # "giveback",
           NEW pc, To(w, pc) \/ Gone(w),
           UNCHANGED <<claimed, queue, media, objects, excused>>, Advances,
           \A g \in Files \ {File(w)} : row'[g] = row[g],
           pc \in BeforeReserve => worker[w].pc \in BeforeReserve,
           pc \in Reserved => media[Job(w)].status # "none",
           row'[File(w)].status = "completed" =>
             row[File(w)].status = "completed" \/ worker[w].pc = "finish",
           To(w, pc) /\ File(w) \notin excused => WorkSound(w)'
    PROVE  SoundInv'
<1>1. Births(w)
  BY BirthsAreKept
<1>2. Inside(w)
  BY ToIsInside
<1>3. PICK f \in Files : f = File(w)
  BY OfWorker
<1>4. ASSUME f \notin excused PROVE CopiesSound(f)'
  <2>1. CopiesSound(f) /\ WorkSound(w)
    BY <1>3, <1>4, OfWorker
  <2>2. ASSUME NEW v \in Workers, At(v, "giveback")
        PROVE  At(v, "giveback")' /\ Job(v)' = Job(v)
    <3>1. v # w
      BY <2>2 DEF At
    <3> QED
      BY <2>2, <3>1 DEF Inside, At, Job, To, Gone
  <2>3. row'[f].status = "completed" => \E j \in Of(f) : Available(j)
    BY <1>3, <2>1 DEF CopiesSound, WorkSound
  <2> QED
    BY <2>1, <2>2, <2>3 DEF CopiesSound, Of, IsLive, Available
<1>5. Working(w)' => To(w, pc)
  BY DEF Gone, Idle, Working, At
<1> QED
  BY <1>1, <1>2, <1>3, <1>4, <1>5, InsideKeepsSound

-----------------------------------------------------------------------------
(* The steps of a worker, one by one *)

LEMMA LoadKeepsSound ==
    ASSUME SoundInv, NEW w \in Workers, Load(w) PROVE SoundInv'
<1> DEFINE f == File(w)
           back == [status |-> "retry", attempts |-> row[f].attempts,
                    max |-> IF row[f].max > row[f].attempts THEN row[f].max + 1
                            ELSE row[f].attempts + 1,
                    due |-> TRUE]
           taken == [status |-> "processing", attempts |-> row[f].attempts + 1,
                     max |-> row[f].max, due |-> FALSE]
<1>1. Working(w) /\ worker[w].pc = "load" /\ IndInv
  BY DEF Load, At, Working, SoundInv
<1>2. f \in Files /\ row[f] \in Row /\ row \in [Files -> Row]
  BY <1>1, WorkersJob DEF IndInv, TypeOK
<1>3. /\ \/ row' = [row EXCEPT ![f] = back] /\ EndJob(w)
         \/ row' = row /\ EndJob(w)
         \/ row' = [row EXCEPT ![f] = taken] /\ Go(w, "look")
         \/ row' = row /\ row[f].status # "completed" /\ Go(w, "look")
      /\ UNCHANGED <<claimed, queue, media, objects, used, mode, excused, faults>>
  BY DEF Load, Closed
<1>4. /\ back \in Row /\ back.attempts >= row[f].attempts /\ back.status = "retry"
      /\ taken \in Row /\ taken.attempts >= row[f].attempts
      /\ taken.status = "processing"
  BY <1>2 DEF Row
<1>5. f = File(w)
  OBVIOUS
<1> HIDE DEF f, back, taken
<1>6. Advances
  BY <1>1, <1>2, <1>3, <1>4, RowWritten, RowKept
<1>7. /\ \A g \in Files \ {f} : row'[g] = row[g]
      /\ row'[f].status = "completed" => row[f].status = "completed"
      /\ (Go(w, "look") /\ row'[f].status # "completed") \/ EndJob(w)
  BY <1>2, <1>3, <1>4
<1>8. CASE EndJob(w)
  <2>1. Gone(w)
    BY <1>1, <1>8, EndsGone
  <2>2. worker'[w].pc = "idle"
    BY <2>1 DEF Gone, Idle
  <2>3. ~To(w, "look")
    BY <2>2 DEF To
  <2> QED
    BY <1>1, <1>3, <1>5, <1>6, <1>7, <2>1, <2>3, LoadKeepsInv, QuietStep
    DEF BeforeReserve, Reserved
<1>9. CASE Go(w, "look") /\ row'[f].status # "completed"
  <2>1. To(w, "look")
    BY <1>1, <1>9, GoesTo
  <2>2. WorkSound(w)'
    BY <1>5, <1>9, <2>1, TurnsBack
  <2> QED
    BY <1>1, <1>3, <1>5, <1>6, <1>7, <2>1, <2>2, LoadKeepsInv, QuietStep
    DEF BeforeReserve, Reserved
<1> QED
  BY <1>7, <1>8, <1>9

LEMMA LookKeepsSound ==
    ASSUME SoundInv, NEW w \in Workers, Look(w) PROVE SoundInv'
<1>1. Working(w) /\ worker[w].pc = "look" /\ IndInv
  BY DEF Look, At, Working, SoundInv
<1>2. /\ UNCHANGED <<row, claimed, queue, media, objects, used, mode, excused>>
      /\ \/ Existing(File(w)) # {} /\ To(w, "finish")
         \/ Existing(File(w)) = {} /\ To(w, "list")
         \/ To(w, "fail") \/ To(w, "defer")
  BY <1>1, GoesTo, FailsTo DEF Look
<1>3. Advances
  BY <1>1, <1>2, RowKept
<1>4. ASSUME File(w) \notin excused
      PROVE  /\ row[File(w)].status # "completed" /\ Unborn(Job(w))
             /\ Existing(File(w)) = {} => \A j \in Of(File(w)) : ~Available(j)
             /\ Existing(File(w)) # {} => \E j \in Of(File(w)) : Available(j)
  <2>1. WorkSound(w) /\ CopiesSound(File(w))
    BY <1>1, <1>4, OfWorker
  <2>2. row[File(w)].status # "completed" /\ Unborn(Job(w))
    BY <1>1, <2>1 DEF WorkSound, SoundInv, BirthInv, BeforeReserve
  <2>3. Existing(File(w)) = {j \in Of(File(w)) : Available(j)}
    BY <2>1 DEF Existing, Kept, Of, CopiesSound, Available, IsLive, Live
  <2> QED
    BY <2>2, <2>3
<1>5. ASSUME NEW pc \in {"finish", "list", "fail", "defer"}, To(w, pc),
             File(w) \notin excused,
             pc = "finish" => Existing(File(w)) # {},
             pc = "list" => Existing(File(w)) = {}
      PROVE  WorkSound(w)'
  <2>1. CASE pc \in {"fail", "defer"}
    BY <1>2, <1>4, <1>5, <2>1, TurnsBack
  <2>2. CASE pc \in {"finish", "list"}
    <3>1. worker'[w].pc = pc /\ Job(w)' = Job(w) /\ File(w)' = File(w)
      BY <1>5 DEF To, Job, File
    <3>2. Of(File(w))' = Of(File(w)) /\ Unborn(Job(w))' = Unborn(Job(w))
          /\ \A j \in Of(File(w)) : Available(j)' = Available(j)
      BY <1>2, <3>1 DEF Of, Unborn, Available
    <3> QED
      BY <1>2, <1>4, <1>5, <2>2, <3>1, <3>2 DEF WorkSound, Reserved
  <2> QED
    BY <2>1, <2>2
<1> QED
  BY <1>1, <1>2, <1>3, <1>5, LookKeepsInv, QuietStep DEF BeforeReserve, Reserved

LEMMA DownloadKeepsSound ==
    ASSUME SoundInv, NEW w \in Workers, Download(w) PROVE SoundInv'
<1>1. Working(w) /\ worker[w].pc = "download" /\ IndInv
  BY DEF Download, At, Working, SoundInv
<1>2. /\ UNCHANGED <<row, claimed, queue, media, objects, used, mode, excused, faults>>
      /\ To(w, "reserve") \/ To(w, "fail")
  BY <1>1, GoesTo, FailsTo DEF Download
<1>3. Advances
  BY <1>1, <1>2, RowKept
<1>4. ASSUME NEW pc \in {"reserve", "fail"}, To(w, pc), File(w) \notin excused
      PROVE  WorkSound(w)'
  <2>1. WorkSound(w)
    BY <1>1, <1>4, OfWorker
  <2>2. worker'[w].pc = pc /\ Job(w)' = Job(w) /\ File(w)' = File(w)
    BY <1>4 DEF To, Job, File
  <2>3. Of(File(w))' = Of(File(w)) /\ \A j \in Of(File(w)) : IsLive(j)' = IsLive(j)
    BY <1>2, <2>2 DEF Of, IsLive
  <2> QED
    BY <1>1, <1>2, <2>1, <2>2, <2>3 DEF WorkSound, Reserved
<1> QED
  BY <1>1, <1>2, <1>3, <1>4, DownloadKeepsInv, QuietStep DEF BeforeReserve, Reserved

LEMMA OwnerIsDisabledKeepsSound ==
    ASSUME SoundInv, NEW w \in Workers, OwnerIsDisabled(w) PROVE SoundInv'
<1>1. Working(w) /\ worker[w].pc = "reserve" /\ IndInv
  BY DEF OwnerIsDisabled, At, Working, SoundInv
<1>2. /\ UNCHANGED <<row, claimed, queue, media, objects, used, mode, excused, faults>>
      /\ To(w, "fail")
  BY <1>1, FailsTo DEF OwnerIsDisabled
<1>3. Advances
  BY <1>1, <1>2, RowKept
<1>4. File(w) \notin excused => row[File(w)].status # "completed"
  BY <1>1, OfWorker DEF WorkSound
<1> QED
  BY <1>1, <1>2, <1>3, <1>4, TurnsBack, OwnerIsDisabledKeepsInv, QuietStep
  DEF BeforeReserve, Reserved

LEMMA FinishKeepsSound ==
    ASSUME SoundInv, NEW w \in Workers, Finish(w) PROVE SoundInv'
<1>1. Working(w) /\ worker[w].pc = "finish" /\ IndInv
  BY DEF Finish, At, Working, SoundInv
<1>2. PICK f \in Files : f = File(w)
  BY <1>1, WorkersJob
<1>3. /\ UNCHANGED <<claimed, queue, media, objects, used, mode, excused, faults>>
      /\ \/ row' = [row EXCEPT ![f].status = "completed"] /\ Gone(w)
         \/ row' = row /\ To(w, "fail")
         \/ row' = row /\ To(w, "undo") /\ media[Job(w)].status # "none"
  BY <1>1, <1>2, GoesTo, FailsTo, EndsGone DEF Finish
<1>4. row \in [Files -> Row] /\ \A g \in Files : row[g].attempts \in Nat
  BY <1>1 DEF IndInv, TypeOK, Row
<1>5. CASE row' = [row EXCEPT ![f].status = "completed"] /\ Gone(w)
  <2>1. \A g \in Files : row'[g].attempts = row[g].attempts
    BY <1>4, <1>5 DEF Row
  <2>2. Advances /\ \A g \in Files \ {f} : row'[g] = row[g]
    BY <1>4, <1>5, <2>1 DEF Advances
  <2>3. ~To(w, "fail")
    BY <1>5 DEF To, Gone, Idle
  <2> QED
    BY <1>1, <1>2, <1>3, <1>5, <2>2, <2>3, FinishKeepsInv, QuietStep
    DEF BeforeReserve, Reserved
<1>6. CASE row' = row /\ To(w, "fail")
  <2>1. Advances
    BY <1>1, <1>6, RowKept
  <2>2. File(w) \notin excused => row[File(w)].status # "completed"
    BY <1>1, OfWorker DEF WorkSound
  <2> QED
    BY <1>1, <1>3, <1>6, <2>1, <2>2, TurnsBack, FinishKeepsInv, QuietStep
    DEF BeforeReserve, Reserved
<1>7. CASE row' = row /\ To(w, "undo") /\ media[Job(w)].status # "none"
  <2>1. Advances
    BY <1>1, <1>7, RowKept
  <2>2. ASSUME File(w) \notin excused PROVE WorkSound(w)'
    <3>1. row[File(w)].status # "completed" /\ Sole(w)
      BY <1>1, <1>7, <2>2, OfWorker DEF WorkSound, Unborn
    <3>2. worker'[w].pc = "undo" /\ Job(w)' = Job(w) /\ File(w)' = File(w)
      BY <1>7 DEF To, Job, File
    <3>3. Sole(w)'
      BY <1>3, <3>1, <3>2 DEF Sole, Of, IsLive
    <3> QED
      BY <1>7, <3>1, <3>2, <3>3 DEF WorkSound
  <2> QED
    BY <1>1, <1>3, <1>7, <2>1, <2>2, FinishKeepsInv, QuietStep
    DEF BeforeReserve, Reserved
<1> QED
  BY <1>3, <1>5, <1>6, <1>7

LEMMA FailRowKeepsSound ==
    ASSUME SoundInv, NEW w \in Workers, FailRow(w) PROVE SoundInv'
<1>1. Working(w) /\ worker[w].pc = "fail" /\ IndInv
  BY DEF FailRow, At, Working, SoundInv
<1>2. PICK f \in Files : f = File(w)
  BY <1>1, WorkersJob
<1>3. PICK status \in {"completed", "retry", "failed"} :
        /\ Retried(f, status, row[f].max)
        /\ status = "completed" => row[f].status = "completed"
  BY <1>2 DEF FailRow, FailedStatus
<1>4. /\ UNCHANGED <<claimed, queue, media, objects, used, mode, excused, faults>>
      /\ Gone(w)
  BY <1>1, EndsGone DEF FailRow
<1>5. row \in [Files -> Row] /\ row[f].max \in Nat
  BY <1>1, <1>2 DEF IndInv, TypeOK, Row
<1>6. Advances
  BY <1>1, <1>3, <1>5, RowRetried
<1>7. /\ \A g \in Files \ {f} : row'[g] = row[g]
      /\ row'[f].status = "completed" => row[f].status = "completed"
  BY <1>3, <1>5 DEF Retried
<1>8. ~To(w, "fail")
  BY <1>4 DEF To, Gone, Idle
<1> QED
  BY <1>1, <1>2, <1>4, <1>6, <1>7, <1>8, FailRowKeepsInv, QuietStep
  DEF BeforeReserve, Reserved

LEMMA DeferKeepsSound ==
    ASSUME SoundInv, NEW w \in Workers, Defer(w) PROVE SoundInv'
<1>1. Working(w) /\ worker[w].pc = "defer" /\ IndInv
  BY DEF Defer, At, Working, SoundInv
<1>2. PICK f \in Files : f = File(w)
  BY <1>1, WorkersJob
<1>3. row \in [Files -> Row] /\ row[f] \in Row
  BY <1>1, <1>2 DEF IndInv, TypeOK
<1>4. row' = row \/ \E max \in Nat : Retried(f, "retry", max)
  <2> DEFINE max == IF row[f].max > row[f].attempts THEN row[f].max + 1
                    ELSE row[f].attempts + 1
  <2>1. max \in Nat
    BY <1>3 DEF Row
  <2>2. row' = row \/ Retried(f, "retry", max)
    BY <1>2 DEF Defer
  <2> QED
    BY <2>1, <2>2
<1>5. /\ UNCHANGED <<claimed, queue, media, objects, used, mode, excused, faults>>
      /\ Gone(w)
  BY <1>1, EndsGone DEF Defer
<1>6. Advances
  BY <1>1, <1>4, RowRetried, RowKept
<1>7. /\ \A g \in Files \ {f} : row'[g] = row[g]
      /\ row'[f].status = "completed" => row[f].status = "completed"
  BY <1>3, <1>4 DEF Retried
<1>8. ~To(w, "fail")
  BY <1>5 DEF To, Gone, Idle
<1> QED
  BY <1>1, <1>2, <1>5, <1>6, <1>7, <1>8, DeferKeepsInv, QuietStep
  DEF BeforeReserve, Reserved

\* A worker that lists what earlier jobs left has it all in hand.
LEMMA ListStaleKeepsSound ==
    ASSUME SoundInv, NEW w \in Workers, ListStale(w) PROVE SoundInv'
<1> DEFINE stale == Kept(File(w), {"uploading", "delete_failed"})
           pc == IF stale = {} THEN "download" ELSE "wipe"
<1>1. Working(w) /\ worker[w].pc = "list" /\ IndInv /\ IndInv'
  BY ListStaleKeepsInv DEF ListStale, At, Working, SoundInv
<1>2. /\ worker' = [worker EXCEPT ![w].pc = pc, ![w].stale = stale]
      /\ UNCHANGED <<row, claimed, queue, media, objects, used, mode, excused, faults>>
  BY DEF ListStale
<1>3. \A k \in stale : /\ k \in Jobs /\ k[1] = File(w)
                       /\ media[k].status \in {"uploading", "delete_failed"}
  BY DEF Kept
<1>4. \A k \in Of(File(w)) : media[k].status \in {"uploading", "delete_failed"} /\ ~media[k].deleted
                              => k \in stale
  BY DEF Kept, Of
<1>5. pc \in {"download", "wipe"} /\ (pc = "download" <=> stale = {})
  OBVIOUS
<1> HIDE DEF stale, pc
<1>6. /\ worker'[w].pc = pc /\ worker'[w].job = Job(w) /\ worker'[w].stale = stale
      /\ \A v \in Workers \ {w} : worker'[v] = worker[v]
  BY <1>1, <1>2 DEF IndInv, TypeOK, Worker, Job
<1>7. Inside(w)
  BY <1>1, <1>2, <1>6, RowKept DEF Inside
<1>8. Births(w)
  BY <1>1, <1>2, <1>3, <1>5, <1>6
  DEF Births, SoundInv, BirthInv, BeforeReserve, Reserved, Unborn
<1>9. PICK f \in Files : f = File(w)
  BY <1>1, OfWorker
<1>10. ASSUME f \notin excused' PROVE CopiesSound(f)' /\ WorkSound(w)'
  <2>1. CopiesSound(f) /\ WorkSound(w)
    BY <1>1, <1>2, <1>9, <1>10, OfWorker
  <2>2. Of(f)' = Of(f) /\ \A j \in Of(f) : IsLive(j)' = IsLive(j) /\ Available(j)' = Available(j)
    BY <1>2 DEF Of, IsLive, Available
  <2>3. ASSUME NEW v \in Workers, At(v, "giveback")
        PROVE  At(v, "giveback")' /\ Job(v)' = Job(v)
    <3>1. v # w
      BY <1>1, <2>3 DEF At
    <3> QED
      BY <1>6, <2>3, <3>1 DEF At, Job
  <2>4. CopiesSound(f)'
    BY <1>2, <2>1, <2>2, <2>3 DEF CopiesSound
  <2>5. File(w)' = f
    BY <1>6, <1>9 DEF File, Job
  <2>6. \A j \in Of(f) : ~Available(j) /\ (IsLive(j) => j \in stale)
    BY <1>1, <1>4, <1>9, <2>1 DEF WorkSound, CopiesSound, IsLive, Live, Available
  <2>7. row[f].status # "completed"
    BY <1>1, <1>9, <2>1 DEF WorkSound
  <2> QED
    BY <1>2, <1>5, <1>6, <2>2, <2>4, <2>5, <2>6, <2>7 DEF WorkSound, Reserved
<1> QED
  BY <1>1, <1>7, <1>8, <1>9, <1>10, InsideKeepsSound

\* An object that is wiped belongs to a copy that is not available.
LEMMA WipeKeepsSound ==
    ASSUME SoundInv, NEW w \in Workers, Wipe(w) PROVE SoundInv'
<1>1. Working(w) /\ worker[w].pc = "wipe" /\ IndInv /\ IndInv'
  BY WipeKeepsInv DEF Wipe, At, Working, SoundInv
<1>2. /\ UNCHANGED <<row, claimed, queue, media, used, mode, excused>>
      /\ objects' \subseteq objects /\ objects \subseteq objects' \cup {Chosen(w)}
      /\ \/ To(w, "release") /\ Chosen(w) \notin objects'
         \/ \E pc \in {"fail", "defer"} : To(w, pc)
  BY <1>1, GoesTo, StoreFailsTo DEF Wipe, Chosen
<1>3. Chosen(w) \in worker[w].stale /\ Chosen(w) \in Jobs /\ Chosen(w)[1] = File(w)
  <2>1. Chosen(w) \in worker[w].stale
    BY <1>1, ChosenIsStale DEF IndInv, WorkersTyped
  <2> QED
    BY <1>1, <2>1 DEF SoundInv, BirthInv, IndInv, TypeOK, Worker
<1>4. PICK pc \in {"release", "fail", "defer"} :
        To(w, pc) /\ (pc = "release" => Chosen(w) \notin objects')
  BY <1>2
<1>5. Inside(w)
  BY <1>1, <1>2, <1>3, <1>4, RowKept, ToIsInside
<1>6. Births(w)
  BY <1>1, <1>2, <1>4, BirthsAreKept DEF BeforeReserve, Reserved
<1>7. PICK f \in Files : f = File(w)
  BY <1>1, OfWorker
<1>8. ASSUME f \notin excused' PROVE CopiesSound(f)' /\ WorkSound(w)'
  <2>1. CopiesSound(f) /\ WorkSound(w)
    BY <1>1, <1>2, <1>7, <1>8, OfWorker
  <2>2. Of(f)' = Of(f) /\ \A j \in Of(f) : IsLive(j)' = IsLive(j) /\ Available(j)' = Available(j)
    BY <1>2 DEF Of, IsLive, Available
  <2>3. /\ row[f].status # "completed"
        /\ \A j \in Of(f) : ~Available(j) /\ (IsLive(j) => j \in worker[w].stale)
    BY <1>1, <1>7, <2>1 DEF WorkSound
  <2>4. CopiesSound(f)'
    BY <1>2, <2>1, <2>2, <2>3 DEF CopiesSound, IsLive
  <2>5. /\ File(w)' = f /\ worker'[w].pc = pc /\ worker'[w].stale = worker[w].stale
        /\ Chosen(w)' = Chosen(w)
    BY <1>4, <1>7 DEF File, Job, To, Chosen
  <2> QED
    BY <1>2, <1>4, <2>2, <2>3, <2>4, <2>5 DEF WorkSound, Reserved
<1> QED
  BY <1>1, <1>5, <1>6, <1>7, <1>8, InsideKeepsSound

LEMMA ReleaseSets ==
    ASSUME IndInv, NEW j \in Jobs, Release(j)
    PROVE  /\ media'[j] = [status |-> "failed", counts |-> FALSE, deleted |-> TRUE]
           /\ \A k \in Jobs \ {j} : media'[k] = media[k]
           /\ ~IsLive(j)' /\ ~Available(j)'
           /\ \A k \in Jobs \ {j} : IsLive(k)' = IsLive(k) /\ Available(k)' = Available(k)
BY DEF Release, IndInv, TypeOK, IsLive, Available, Live

\* A copy that is released has no object any more.
LEMMA ReleaseStaleKeepsSound ==
    ASSUME SoundInv, NEW w \in Workers, ReleaseStale(w) PROVE SoundInv'
<1>1. Working(w) /\ worker[w].pc = "release" /\ IndInv /\ IndInv'
  BY ReleaseStaleKeepsInv DEF ReleaseStale, At, Working, SoundInv
<1>2. PICK j \in Jobs : j = Chosen(w) /\ j \in worker[w].stale /\ j[1] = File(w)
                        /\ media[j].status # "none"
  <2>1. Chosen(w) \in worker[w].stale
    BY <1>1, ChosenIsStale DEF IndInv, WorkersTyped
  <2> QED
    BY <1>1, <2>1 DEF SoundInv, BirthInv, IndInv, TypeOK, Worker, Unborn
<1> DEFINE left == worker[w].stale \ {j}
           pc == IF left = {} THEN "download" ELSE "wipe"
<1>3. /\ UNCHANGED <<row, claimed, queue, objects, mode, excused, faults>>
      /\ \/ /\ Release(j)
            /\ worker' = [worker EXCEPT ![w].pc = pc, ![w].stale = left]
         \/ To(w, "fail") /\ UNCHANGED media
  BY <1>1, <1>2, FailsTo DEF ReleaseStale, Chosen
<1>4. pc \in {"download", "wipe"} /\ (pc = "download" <=> left = {})
  OBVIOUS
<1>5. left = worker[w].stale \ {j}
  OBVIOUS
<1> HIDE DEF left, pc
<1>6. Advances
  BY <1>1, <1>3, RowKept
<1>7. ASSUME File(w) \notin excused
      PROVE  /\ row[File(w)].status # "completed" /\ j \notin objects
             /\ CopiesSound(File(w))
             /\ \A k \in Of(File(w)) : ~Available(k) /\ (IsLive(k) => k \in worker[w].stale)
  BY <1>1, <1>2, <1>7, OfWorker DEF WorkSound
<1>8. CASE To(w, "fail") /\ UNCHANGED media
  BY <1>1, <1>3, <1>6, <1>7, <1>8, TurnsBack, QuietStep DEF BeforeReserve, Reserved
<1>9. CASE /\ Release(j)
           /\ worker' = [worker EXCEPT ![w].pc = pc, ![w].stale = left]
  <2>1. /\ worker'[w].pc = pc /\ worker'[w].job = Job(w) /\ worker'[w].stale = left
        /\ \A v \in Workers \ {w} : worker'[v] = worker[v]
    BY <1>1, <1>9 DEF IndInv, TypeOK, Worker, Job
  <2>2. /\ media'[j].status = "failed"
        /\ \A k \in Jobs \ {j} : media'[k] = media[k]
        /\ ~IsLive(j)' /\ ~Available(j)'
        /\ \A k \in Jobs \ {j} : IsLive(k)' = IsLive(k) /\ Available(k)' = Available(k)
    BY <1>1, <1>2, <1>9, ReleaseSets
  <2>3. Inside(w)
    BY <1>1, <1>2, <1>3, <1>6, <2>1, <2>2 DEF Inside
  <2>4. Births(w)
    <3>1. media[Job(w)].status = "none" /\ Job(w) # j
      BY <1>1, <1>2 DEF SoundInv, BirthInv, BeforeReserve, Unborn
    <3>2. Job(w) \in Jobs
      BY <1>1, WorkersJob
    <3>3. media'[Job(w)].status = "none"
      BY <2>2, <3>1, <3>2
    <3>4. \A k \in left : k \in Jobs \ {j} /\ k[1] = File(w) /\ media[k].status # "none"
      BY <1>1, <1>5 DEF SoundInv, BirthInv, Unborn, IndInv, TypeOK, Worker
    <3> QED
      BY <1>2, <1>4, <2>1, <2>2, <3>3, <3>4 DEF Births, BeforeReserve, Reserved
  <2>5. PICK f \in Files : f = File(w)
    BY <1>1, OfWorker
  <2>6. ASSUME f \notin excused' PROVE CopiesSound(f)' /\ WorkSound(w)'
    <3>1. /\ row[f].status # "completed" /\ j \notin objects
          /\ CopiesSound(f)
          /\ \A k \in Of(f) : ~Available(k) /\ (IsLive(k) => k \in worker[w].stale)
      BY <1>3, <1>7, <2>5, <2>6
    <3>2. Of(f)' = Of(f) /\ Of(f) \subseteq Jobs
      BY DEF Of
    <3>3. \A k \in Of(f) : ~Available(k)' /\ (IsLive(k)' => k \in left)
      BY <1>5, <2>2, <3>1, <3>2
    <3>4. \A k \in Of(f) : /\ IsLive(k)' => IsLive(k) /\ media'[k] = media[k]
                           /\ k \in objects => IsLive(k)'
      BY <2>2, <3>1, <3>2 DEF CopiesSound
    <3>5. CopiesSound(f)'
      BY <1>3, <3>1, <3>2, <3>3, <3>4 DEF CopiesSound
    <3>6. File(w)' = f
      BY <2>1, <2>5 DEF File, Job
    <3> QED
      BY <1>3, <1>4, <2>1, <3>1, <3>2, <3>3, <3>5, <3>6 DEF WorkSound, Reserved
  <2> QED
    BY <1>1, <2>3, <2>4, <2>5, <2>6, InsideKeepsSound
<1> QED
  BY <1>3, <1>8, <1>9

\* Nothing of the file is listed or stored when its worker reserves.
LEMMA ReserveKeepsSound ==
    ASSUME SoundInv, NEW w \in Workers, Reserve(w) PROVE SoundInv'
<1>1. Working(w) /\ worker[w].pc = "reserve" /\ IndInv /\ IndInv'
  BY ReserveKeepsInv DEF Reserve, At, Working, SoundInv
<1>2. PICK j \in Jobs : j = Job(w)
  BY <1>1, WorkersJob
<1>3. PICK f \in Files : f = File(w)
  BY <1>1, WorkersJob
<1>4. /\ UNCHANGED <<row, claimed, queue, objects, mode, excused, faults>>
      /\ \/ /\ media' = [media EXCEPT ![j] =
                 [status |-> "uploading", counts |-> TRUE, deleted |-> FALSE]]
            /\ To(w, "upload")
         \/ To(w, "fail") /\ UNCHANGED media
  BY <1>1, <1>2, FailsTo, GoesTo DEF Reserve
<1>5. Advances
  BY <1>1, <1>4, RowKept
<1>6. ASSUME f \notin excused
      PROVE  /\ row[f].status # "completed" /\ CopiesSound(f)
             /\ \A k \in Of(f) : ~IsLive(k)
  BY <1>1, <1>3, <1>6, OfWorker DEF WorkSound
<1>7. CASE To(w, "fail") /\ UNCHANGED media
  BY <1>1, <1>3, <1>4, <1>5, <1>6, <1>7, TurnsBack, QuietStep DEF BeforeReserve, Reserved
<1>8. CASE /\ media' = [media EXCEPT ![j] =
                [status |-> "uploading", counts |-> TRUE, deleted |-> FALSE]]
           /\ To(w, "upload")
  <2>1. /\ media'[j] = [status |-> "uploading", counts |-> TRUE, deleted |-> FALSE]
        /\ \A k \in Jobs \ {j} : media'[k] = media[k]
    BY <1>1, <1>8 DEF IndInv, TypeOK
  <2>2. j[1] = f
    BY <1>2, <1>3 DEF File, Job
  <2>3. Inside(w)
    BY <1>1, <1>3, <1>4, <1>5, <1>8, <2>1, <2>2, ToIsInside
  <2>4. \A k \in worker[w].stale : k \in Jobs /\ media[k].status # "none" /\ k[1] = File(w)
    BY <1>1 DEF SoundInv, BirthInv, Unborn, IndInv, TypeOK, Worker
  <2>5. Births(w)
    <3>1. worker'[w].pc = "upload" /\ worker'[w].stale = worker[w].stale
      BY <1>8 DEF To
    <3>2. \A k \in Jobs : media[k].status # "none" => media'[k].status # "none"
      BY <2>1
    <3> QED
      BY <1>2, <2>1, <2>4, <3>1, <3>2 DEF Births, BeforeReserve
  <2>6. ASSUME f \notin excused' PROVE CopiesSound(f)' /\ WorkSound(w)'
    <3>1. /\ row[f].status # "completed" /\ CopiesSound(f)
          /\ \A k \in Of(f) : ~IsLive(k)
      BY <1>4, <1>6, <2>6
    <3>2. Of(f)' = Of(f) /\ Of(f) \subseteq Jobs /\ j \in Of(f)
      BY <2>2 DEF Of
    <3>3. \A k \in Of(f) : ~Available(k)' /\ (IsLive(k)' => k = j) /\ k \notin objects
      BY <2>1, <3>1, <3>2 DEF CopiesSound, Available, IsLive, Live
    <3>4. CopiesSound(f)'
      BY <1>4, <2>1, <3>1, <3>2, <3>3 DEF CopiesSound
    <3>5. File(w)' = f /\ Job(w)' = j /\ worker'[w].pc = "upload"
      BY <1>2, <1>3, <1>8 DEF To, File, Job
    <3>6. Sole(w)'
      BY <2>1, <3>2, <3>3, <3>5 DEF Sole
    <3> QED
      BY <1>4, <3>1, <3>4, <3>5, <3>6 DEF WorkSound
  <2> QED
    BY <1>1, <1>3, <2>3, <2>5, <2>6, InsideKeepsSound
<1> QED
  BY <1>4, <1>7, <1>8

LEMMA SoleIsBorn ==
    ASSUME SoundInv, NEW w \in Workers, worker[w].pc \in Reserved
    PROVE  media[Job(w)].status # "none"
BY DEF SoundInv, BirthInv, Unborn

\* Only the worker's own object comes into being, and its copy is listed.
LEMMA UploadKeepsSound ==
    ASSUME SoundInv, NEW w \in Workers, Upload(w) PROVE SoundInv'
<1>1. Working(w) /\ worker[w].pc = "upload" /\ IndInv /\ IndInv'
  BY UploadKeepsInv DEF Upload, At, Working, SoundInv
<1>2. PICK j \in Jobs : j = Job(w)
  BY <1>1, WorkersJob
<1>3. PICK f \in Files : f = File(w)
  BY <1>1, WorkersJob
<1>4. /\ UNCHANGED <<row, claimed, queue, media, used, mode, excused, faults>>
      /\ objects' = objects \/ objects' = objects \cup {j}
      /\ \/ To(w, "mark") /\ j \in objects'
         \/ To(w, "undo")
  BY <1>1, <1>2, GoesTo DEF Upload
<1>5. PICK pc \in {"mark", "undo"} : To(w, pc) /\ (pc = "mark" => j \in objects')
  BY <1>4
<1>6. j[1] = f
  BY <1>2, <1>3 DEF File, Job
<1>7. Inside(w)
  BY <1>1, <1>3, <1>4, <1>5, <1>6, RowKept, ToIsInside
<1>8. Births(w)
  BY <1>1, <1>4, <1>5, SoleIsBorn, BirthsAreKept DEF BeforeReserve, Reserved
<1>9. ASSUME f \notin excused' PROVE CopiesSound(f)' /\ WorkSound(w)'
  <2>1. row[f].status # "completed" /\ CopiesSound(f) /\ Sole(w)
    BY <1>1, <1>3, <1>4, <1>9, OfWorker DEF WorkSound, Reserved
  <2>2. Of(f)' = Of(f) /\ \A k \in Of(f) : IsLive(k)' = IsLive(k) /\ Available(k)' = Available(k)
    BY <1>4 DEF Of, IsLive, Available
  <2>3. ASSUME NEW v \in Workers, At(v, "giveback")
        PROVE  At(v, "giveback")' /\ Job(v)' = Job(v)
    <3>1. v # w
      BY <1>1, <2>3 DEF At
    <3> QED
      BY <1>5, <2>3, <3>1 DEF At, Job, To
  <2>4. IsLive(j)
    BY <1>2, <2>1 DEF Sole, IsLive, Live
  <2>5. CopiesSound(f)'
    BY <1>4, <2>1, <2>2, <2>3, <2>4 DEF CopiesSound
  <2>6. File(w)' = f /\ Job(w)' = j /\ worker'[w].pc = pc
    BY <1>2, <1>3, <1>5 DEF To, File, Job
  <2>7. Sole(w)'
    BY <1>2, <1>3, <1>4, <2>1, <2>2, <2>6 DEF Sole
  <2> QED
    BY <1>4, <1>5, <2>1, <2>5, <2>6, <2>7 DEF WorkSound, Reserved
<1> QED
  BY <1>1, <1>3, <1>7, <1>8, <1>9, InsideKeepsSound

\* The one copy listed becomes the one available, and its object is there.
LEMMA MarkKeepsSound ==
    ASSUME SoundInv, NEW w \in Workers, MarkAvailable(w) PROVE SoundInv'
<1>1. Working(w) /\ worker[w].pc = "mark" /\ IndInv /\ IndInv'
  BY MarkKeepsInv DEF MarkAvailable, At, Working, SoundInv
<1>2. PICK j \in Jobs : j = Job(w)
  BY <1>1, WorkersJob
<1>3. PICK f \in Files : f = File(w)
  BY <1>1, WorkersJob
<1>4. /\ UNCHANGED <<row, claimed, queue, objects, used, mode, excused, faults>>
      /\ \/ media' = [media EXCEPT ![j].status = "available"] /\ To(w, "finish")
         \/ To(w, "undo") /\ UNCHANGED media
  BY <1>1, <1>2, GoesTo DEF MarkAvailable
<1>5. Advances
  BY <1>1, <1>4, RowKept
<1>6. ASSUME f \notin excused
      PROVE  /\ row[f].status # "completed" /\ CopiesSound(f) /\ Sole(w) /\ j \in objects
  BY <1>1, <1>2, <1>3, <1>6, OfWorker DEF WorkSound, Reserved
<1>7. media[j].status # "none"
  BY <1>1, <1>2, SoleIsBorn DEF Reserved
<1>8. CASE To(w, "undo") /\ UNCHANGED media
  <2>1. ASSUME File(w) \notin excused PROVE WorkSound(w)'
    <3>1. worker'[w].pc = "undo" /\ Job(w)' = Job(w) /\ File(w)' = File(w)
      BY <1>8 DEF To, Job, File
    <3>2. Sole(w)'
      BY <1>3, <1>4, <1>6, <1>8, <2>1, <3>1 DEF Sole, Of, IsLive
    <3> QED
      BY <1>3, <1>4, <1>6, <2>1, <3>1, <3>2 DEF WorkSound
  <2> QED
    BY <1>1, <1>2, <1>4, <1>5, <1>7, <1>8, <2>1, QuietStep DEF BeforeReserve, Reserved,
       SoundInv, FilesSound
<1>9. CASE media' = [media EXCEPT ![j].status = "available"] /\ To(w, "finish")
  <2>1. /\ media'[j].status = "available" /\ media'[j].counts = media[j].counts
        /\ media'[j].deleted = media[j].deleted
        /\ \A k \in Jobs \ {j} : media'[k] = media[k]
    BY <1>1, <1>9 DEF IndInv, TypeOK, Media
  <2>2. j[1] = f
    BY <1>2, <1>3 DEF File, Job
  <2>3. Inside(w)
    BY <1>1, <1>3, <1>4, <1>5, <1>9, <2>1, <2>2, ToIsInside
  <2>4. Births(w)
    <3>1. \A k \in Jobs : media'[k].status = "none" <=> media[k].status = "none"
      BY <1>7, <2>1
    <3> QED
      BY <1>1, <1>9, <3>1, BirthsAreKept DEF BeforeReserve, Reserved
  <2>5. ASSUME f \notin excused' PROVE CopiesSound(f)' /\ WorkSound(w)'
    <3>1. row[f].status # "completed" /\ CopiesSound(f) /\ Sole(w) /\ j \in objects
      BY <1>4, <1>6, <2>5
    <3>2. Of(f)' = Of(f) /\ Of(f) \subseteq Jobs /\ j \in Of(f)
      BY <2>2 DEF Of
    <3>3. \A k \in Of(f) : /\ Available(k)' => k = j
                           /\ IsLive(k)' => k = j
                           /\ IsLive(k) => k = j
      BY <1>2, <1>3, <2>1, <3>1, <3>2 DEF Sole, IsLive, Available, Live
    <3>4. IsLive(j) /\ IsLive(j)' /\ Available(j)'
      BY <1>2, <2>1, <3>1 DEF Sole, IsLive, Live, Available
    <3>5. CopiesSound(f)'
      BY <1>4, <2>1, <3>1, <3>2, <3>3, <3>4 DEF CopiesSound
    <3>6. File(w)' = f /\ Job(w)' = j /\ worker'[w].pc = "finish"
      BY <1>2, <1>3, <1>9 DEF To, File, Job
    <3>7. Sole(w)'
      BY <2>1, <3>2, <3>3, <3>6 DEF Sole
    <3> QED
      BY <1>4, <3>1, <3>2, <3>4, <3>5, <3>6, <3>7 DEF WorkSound, Reserved
  <2> QED
    BY <1>1, <1>3, <2>3, <2>4, <2>5, InsideKeepsSound
<1> QED
  BY <1>4, <1>8, <1>9

\* What an undo may leave of the one copy listed: a copy without an object is no
\* longer available, unless it is written down that nobody could say so.
LEMMA UndoneIsSound ==
    ASSUME SoundInv, NEW w \in Workers, Working(w), NEW f \in Files \ excused,
           f = File(w), Sole(w), row[f].status # "completed",
           NEW j \in Jobs, j = Job(w), UNCHANGED row,
           \A k \in Jobs \ {j} : media'[k] = media[k],
           \A k \in Jobs \ {j} : k \in objects' <=> k \in objects,
           IsLive(j)' => media'[j].counts /\ ~media'[j].deleted,
           j \in objects' => IsLive(j)',
           Available(j)' => \/ j \in objects'
                            \/ \E v \in Workers : At(v, "giveback")' /\ Job(v)' = j
    PROVE  CopiesSound(f)'
<1>1. Of(f)' = Of(f) /\ Of(f) \subseteq Jobs
  BY DEF Of
<1>2. CopiesSound(f)
  BY DEF SoundInv, FilesSound
<1>3. \A k \in Of(f) \ {j} :
        /\ ~IsLive(k) /\ ~IsLive(k)' /\ ~Available(k)'
        /\ k \notin objects'
  BY <1>1, <1>2 DEF Sole, CopiesSound, IsLive, Available, Live
<1> QED
  BY <1>1, <1>3 DEF CopiesSound

LEMMA UndoKeepsSound ==
    ASSUME SoundInv, NEW w \in Workers, Undo(w) PROVE SoundInv'
<1>1. Working(w) /\ worker[w].pc = "undo" /\ IndInv /\ IndInv'
  BY UndoKeepsInv DEF Undo, At, Working, SoundInv
<1>2. PICK j \in Jobs : j = Job(w)
  BY <1>1, WorkersJob
<1>3. PICK f \in Files : f = File(w)
  BY <1>1, WorkersJob
<1>4. /\ UNCHANGED <<row, claimed, queue, used, mode>>
      /\ objects' = objects \/ objects' = objects \ {j}
      /\ \/ /\ objects' = objects \ {j} /\ To(w, "giveback")
            /\ UNCHANGED <<media, excused>>
         \/ /\ media' = media \/ media' = [media EXCEPT ![j].status = "delete_failed"]
            /\ \E pc \in {"fail", "defer"} : To(w, pc)
            /\ Excuse(w)
  BY <1>1, <1>2, GoesTo, StoreFailsTo DEF Undo
<1>5. media[j].status # "none" /\ j[1] = f
  BY <1>1, <1>2, <1>3, SoleIsBorn DEF Reserved, File, Job
<1>6. ASSUME f \notin excused
      PROVE  /\ row[f].status # "completed" /\ CopiesSound(f) /\ Sole(w)
             /\ IsLive(j) /\ j \in Of(f)
  BY <1>1, <1>2, <1>3, <1>6, OfWorker DEF WorkSound, Reserved, Sole, IsLive, Live
<1>7. /\ \A k \in Jobs \ {j} : media'[k] = media[k]
      /\ \/ media'[j] = media[j]
         \/ /\ media'[j].status = "delete_failed" /\ media'[j].counts = media[j].counts
            /\ media'[j].deleted = media[j].deleted
      /\ \A k \in Jobs : media'[k].status = "none" <=> media[k].status = "none"
  BY <1>1, <1>4, <1>5 DEF IndInv, TypeOK, Media
<1>8. PICK pc \in {"giveback", "fail", "defer"} :
        /\ To(w, pc)
        /\ pc = "giveback" => objects' = objects \ {j} /\ UNCHANGED <<media, excused>>
        /\ pc # "giveback" => Excuse(w)
  BY <1>4
<1>9. excused \subseteq excused'
  BY <1>8 DEF Excuse
<1>10. Inside(w)
  BY <1>1, <1>3, <1>4, <1>5, <1>7, <1>8, <1>9, RowKept, ToIsInside
<1>11. Births(w)
  BY <1>1, <1>2, <1>5, <1>7, <1>8, BirthsAreKept DEF BeforeReserve
<1>12. ASSUME f \notin excused' PROVE CopiesSound(f)' /\ WorkSound(w)'
  <2>1. /\ row[f].status # "completed" /\ CopiesSound(f) /\ Sole(w)
        /\ IsLive(j) /\ j \in Of(f) /\ f \notin excused
    BY <1>6, <1>9, <1>12
  <2>2. IsLive(j)' /\ media'[j].counts /\ ~media'[j].deleted
    BY <1>7, <2>1 DEF IsLive, Live, CopiesSound
  <2>3. Available(j)' => \/ j \in objects'
                         \/ \E v \in Workers : At(v, "giveback")' /\ Job(v)' = j
    <3>1. CASE pc = "giveback"
      BY <1>2, <1>8, <3>1 DEF To, At, Job
    <3>2. CASE pc # "giveback"
      BY <1>2, <1>3, <1>8, <1>12, <3>2 DEF Excuse, Available
    <3> QED
      BY <3>1, <3>2
  <2>4. CopiesSound(f)'
    BY <1>1, <1>2, <1>3, <1>4, <1>7, <2>1, <2>2, <2>3, UndoneIsSound
  <2>5. File(w)' = f /\ Job(w)' = j /\ worker'[w].pc = pc
    BY <1>2, <1>3, <1>8 DEF To, File, Job
  <2>6. pc = "giveback" => Sole(w)' /\ j \notin objects'
    BY <1>2, <1>3, <1>8, <2>1, <2>5 DEF Sole, Of, IsLive
  <2> QED
    BY <1>4, <2>1, <2>4, <2>5, <2>6 DEF WorkSound, Reserved
<1> QED
  BY <1>1, <1>3, <1>10, <1>11, <1>12, InsideKeepsSound

LEMMA GiveBackKeepsSound ==
    ASSUME SoundInv, NEW w \in Workers, GiveBack(w) PROVE SoundInv'
<1>1. Working(w) /\ worker[w].pc = "giveback" /\ IndInv /\ IndInv'
  BY GiveBackKeepsInv DEF GiveBack, At, Working, SoundInv
<1>2. PICK j \in Jobs : j = Job(w)
  BY <1>1, WorkersJob
<1>3. PICK f \in Files : f = File(w)
  BY <1>1, WorkersJob
<1>4. /\ UNCHANGED <<row, claimed, queue, objects, mode>>
      /\ Release(j) \/ UNCHANGED media
      /\ \E pc \in {"fail", "defer"} : To(w, pc)
      /\ Excuse(w)
  BY <1>1, <1>2, StoreFailsTo DEF GiveBack
<1>5. media[j].status # "none" /\ j[1] = f
  BY <1>1, <1>2, <1>3, SoleIsBorn DEF Reserved, File, Job
<1>6. ASSUME f \notin excused
      PROVE  /\ row[f].status # "completed" /\ CopiesSound(f) /\ Sole(w)
             /\ IsLive(j) /\ j \in Of(f) /\ j \notin objects
  BY <1>1, <1>2, <1>3, <1>6, OfWorker DEF WorkSound, Reserved, Sole, IsLive, Live
<1>7. /\ \A k \in Jobs \ {j} : media'[k] = media[k]
      /\ media'[j] = media[j] \/ (media'[j].status = "failed" /\ ~IsLive(j)')
      /\ \A k \in Jobs : media'[k].status = "none" <=> media[k].status = "none"
  BY <1>1, <1>4, <1>5, ReleaseSets
<1>8. PICK pc \in {"fail", "defer"} : To(w, pc)
  BY <1>4
<1>9. excused \subseteq excused'
  BY <1>4 DEF Excuse
<1>10. Inside(w)
  BY <1>1, <1>3, <1>4, <1>5, <1>7, <1>8, <1>9, RowKept, ToIsInside
<1>11. Births(w)
  BY <1>1, <1>7, <1>8, BirthsAreKept DEF BeforeReserve, Reserved
<1>12. ASSUME f \notin excused' PROVE CopiesSound(f)' /\ WorkSound(w)'
  <2>1. /\ row[f].status # "completed" /\ CopiesSound(f) /\ Sole(w)
        /\ IsLive(j) /\ j \in Of(f) /\ j \notin objects /\ f \notin excused
    BY <1>6, <1>9, <1>12
  <2>2. IsLive(j)' => media'[j].counts /\ ~media'[j].deleted
    BY <1>7, <2>1 DEF CopiesSound
  <2>3. ~Available(j)'
    BY <1>2, <1>3, <1>4, <1>12, <2>1 DEF Excuse, Available
  <2>4. CopiesSound(f)'
    BY <1>1, <1>2, <1>3, <1>4, <1>7, <2>1, <2>2, <2>3, UndoneIsSound
  <2> QED
    BY <1>3, <1>4, <1>8, <2>1, <2>4, TurnsBack
<1> QED
  BY <1>1, <1>3, <1>10, <1>11, <1>12, InsideKeepsSound

LEMMA WorkerDiesKeepsSound ==
    ASSUME SoundInv, NEW w \in Workers, WorkerDies(w) PROVE SoundInv'
<1>1. Working(w) /\ IndInv /\ IndInv'
  BY WorkerDiesKeepsInv DEF WorkerDies, Working, SoundInv
<1>2. /\ UNCHANGED <<row, claimed, queue, media, objects, used, mode>>
      /\ IF worker[w].pc = "giveback" THEN Excuse(w) ELSE UNCHANGED excused
      /\ Gone(w)
  BY <1>1, EndsGone DEF WorkerDies, At
<1>3. Advances
  BY <1>1, <1>2, RowKept
<1>4. ~To(w, "fail")
  BY <1>2 DEF To, Gone, Idle
<1>5. CASE worker[w].pc # "giveback"
  BY <1>1, <1>2, <1>3, <1>4, <1>5, QuietStep DEF BeforeReserve, Reserved
<1>6. CASE worker[w].pc = "giveback"
  <2>1. PICK j \in Jobs : j = Job(w)
    BY <1>1, WorkersJob
  <2>2. PICK f \in Files : f = File(w)
    BY <1>1, WorkersJob
  <2>3. excused \subseteq excused' /\ Excuse(w)
    BY <1>2, <1>6 DEF Excuse
  <2>4. Inside(w)
    BY <1>1, <1>2, <1>3, <2>3, ToIsInside
  <2>5. Births(w)
    BY <1>1, <1>2, BirthsAreKept DEF BeforeReserve, Reserved
  <2>6. ASSUME f \notin excused' PROVE CopiesSound(f)'
    <3>1. /\ row[f].status # "completed" /\ CopiesSound(f) /\ Sole(w)
          /\ j \notin objects /\ f \notin excused /\ j \in Of(f)
      BY <1>1, <1>6, <2>1, <2>2, <2>3, <2>6, OfWorker DEF WorkSound, Reserved
    <3>2. ~Available(j)'
      BY <1>2, <2>1, <2>2, <2>3, <2>6, <3>1 DEF Excuse, Available
    <3>3. IsLive(j)' => media'[j].counts /\ ~media'[j].deleted
      BY <1>2, <3>1 DEF CopiesSound, IsLive
    <3> QED
      BY <1>1, <1>2, <2>1, <2>2, <3>1, <3>2, <3>3, UndoneIsSound
  <2>7. ~Working(w)'
    BY <1>2 DEF Gone, Idle, Working, At
  <2> QED
    BY <1>1, <2>2, <2>4, <2>5, <2>6, <2>7, InsideKeepsSound
<1> QED
  BY <1>5, <1>6

\* A worker that takes a job finds the file alone, or the file is excused.
LEMMA TakeKeepsSound ==
    ASSUME SoundInv, NEW w \in Workers, NEW j \in Jobs, TakeJob(w, j) PROVE SoundInv'
<1> DEFINE new == [pc |-> "load", job |-> j, stale |-> {}, final |-> FALSE]
<1>1. /\ ~Working(w) /\ j \in queue /\ IndInv /\ IndInv'
      /\ queue' = queue \ {j}
      /\ worker' = [worker EXCEPT ![w] = new]
      /\ excused' = IF Busy(j[1], w) THEN excused \cup {j[1]} ELSE excused
      /\ UNCHANGED <<row, claimed, media, objects, used, mode, faults>>
  BY TakeKeepsInv DEF TakeJob, Working, SoundInv
<1>2. /\ worker'[w] = new /\ \A v \in Workers \ {w} : worker'[v] = worker[v]
  BY <1>1 DEF IndInv, TypeOK
<1>3. /\ \A v \in Workers \ {w} : Job(v)' = Job(v) /\ (Working(v)' <=> Working(v))
                                  /\ File(v)' = File(v) /\ Chosen(v)' = Chosen(v)
      /\ Job(w)' = j /\ File(w)' = j[1] /\ worker'[w].pc = "load"
      /\ worker'[w].stale = {}
  BY <1>2 DEF Job, File, Working, At, Chosen
<1>4. Waiting' \subseteq Waiting /\ j \in Waiting
  BY <1>1 DEF Waiting
<1>5. BirthInv'
  <2>1. ASSUME NEW v \in Workers
        PROVE  /\ worker'[v].pc \in BeforeReserve => Unborn(Job(v))'
               /\ worker'[v].pc \in Reserved => ~Unborn(Job(v))'
               /\ \A k \in worker'[v].stale : ~Unborn(k)' /\ k[1] = File(v)'
    <3>1. CASE v = w
      BY <1>1, <1>3, <1>4, <3>1 DEF SoundInv, BirthInv, Unborn, Reserved
    <3>2. CASE v # w
      BY <1>1, <1>2, <1>3, <3>2 DEF SoundInv, BirthInv, Unborn
    <3> QED
      BY <3>1, <3>2
  <2> QED
    BY <1>1, <1>4, <2>1 DEF SoundInv, BirthInv, Unborn
<1>6. \A f \in Files \ excused' : Alone(f)'
  <2> TAKE f \in Files \ excused'
  <2>1. Alone(f) /\ (f = j[1] => ~Busy(j[1], w))
    BY <1>1 DEF SoundInv, FilesSound
  <2>2. \A v \in Workers \ {w} : Working(v) /\ File(v) = f => f # j[1]
    BY <2>1 DEF Busy, Working
  <2> QED
    BY <1>3, <2>1, <2>2 DEF Alone
<1>7. \A f \in Files \ excused' : CopiesSound(f)'
  <2> TAKE f \in Files \ excused'
  <2>1. CopiesSound(f)
    BY <1>1 DEF SoundInv, FilesSound
  <2>2. \A v \in Workers : At(v, "giveback") => At(v, "giveback")' /\ Job(v)' = Job(v)
    BY <1>1, <1>2, <1>3 DEF At, Working
  <2> QED
    BY <1>1, <2>1, <2>2 DEF CopiesSound, Of, IsLive, Available
<1>8. ASSUME NEW v \in Workers, Working(v)', File(v)' \notin excused'
      PROVE  WorkSound(v)'
  <2>1. CASE v = w
    BY <1>3, <2>1 DEF WorkSound, Reserved
  <2>2. CASE v # w
    <3>1. WorkSound(v)
      BY <1>1, <1>3, <1>8, <2>2 DEF SoundInv, FilesSound
    <3> QED
      BY <1>1, <1>2, <1>3, <2>2, <3>1
      DEF WorkSound, Sole, Of, IsLive, Available, Unborn
  <2> QED
    BY <2>1, <2>2
<1> QED
  BY <1>1, <1>5, <1>6, <1>7, <1>8 DEF SoundInv, FilesSound

-----------------------------------------------------------------------------
(* Enqueueing, dispatch and the operator *)

\* Workers and copies as they are, no row completed, and only unlisted jobs waiting.
LEMMA RowsMoveKeepsSound ==
    ASSUME SoundInv, IndInv', UNCHANGED <<media, objects, worker, excused>>, Advances,
           \A j \in Waiting' : Unborn(j),
           \A f \in Files : row'[f].status = "completed" => row[f].status = "completed"
    PROVE  SoundInv'
<1>1. \A v \in Workers : /\ Job(v)' = Job(v) /\ (Working(v)' <=> Working(v))
                         /\ File(v)' = File(v) /\ Chosen(v)' = Chosen(v)
  BY DEF Job, File, Working, At, Chosen
<1>2. \A g \in Files : row[g].attempts \in Nat /\ row'[g].attempts \in Nat
                       /\ row'[g].attempts >= row[g].attempts
  BY DEF SoundInv, IndInv, TypeOK, Row, Advances
<1>3. \A j \in Jobs : j[1] \in Files /\ j[2] \in Nat
  BY JobParts
<1>4. BirthInv'
  BY <1>1, <1>2, <1>3 DEF SoundInv, BirthInv, Unborn
<1>5. \A f \in Files \ excused' : Alone(f)' /\ CopiesSound(f)'
  <2> TAKE f \in Files \ excused'
  <2>1. Alone(f) /\ CopiesSound(f)
    BY DEF SoundInv, FilesSound
  <2>2. Alone(f)'
    BY <1>1, <2>1 DEF Alone
  <2>3. CopiesSound(f)'
    BY <1>1, <2>1 DEF CopiesSound, Of, IsLive, Available, At
  <2> QED
    BY <2>2, <2>3
<1>6. ASSUME NEW v \in Workers, Working(v)', File(v)' \notin excused'
      PROVE  WorkSound(v)'
  <2>1. Working(v) /\ WorkSound(v) /\ File(v) \in Files
    BY <1>1, <1>6, WorkersJob DEF SoundInv, FilesSound
  <2> QED
    BY <1>1, <2>1 DEF WorkSound, Sole, Of, IsLive, Available, Unborn
<1> QED
  BY <1>4, <1>5, <1>6 DEF SoundInv, FilesSound

LEMMA EnqueueKeepsSound ==
    ASSUME SoundInv, NEW f \in Files, Enqueue(f) \/ TimePasses(f) PROVE SoundInv'
<1>1. IndInv /\ IndInv' /\ row \in [Files -> Row]
  BY RowStepsKeepInv DEF SoundInv, IndInv, TypeOK
<1>2. /\ \A g \in Files : row'[g].attempts = row[g].attempts /\ row[g].attempts \in Nat
      /\ \A g \in Files : row'[g].status = "completed" => row[g].status = "completed"
  BY <1>1 DEF Enqueue, TimePasses, Row
<1>3. Advances
  BY <1>2 DEF Advances
<1>4. \A j \in Waiting' : Unborn(j)
  BY DEF Enqueue, TimePasses, Waiting, SoundInv, BirthInv
<1> QED
  BY <1>1, <1>2, <1>3, <1>4, RowsMoveKeepsSound DEF Enqueue, TimePasses

LEMMA ClaimKeepsSound ==
    ASSUME SoundInv, NEW f \in Files, Claim(f) PROVE SoundInv'
<1> DEFINE n == row[f].attempts + 1
           new == [status |-> "processing", attempts |-> n, max |-> row[f].max,
                   due |-> FALSE]
           k == <<f, n>>
<1>1. IndInv /\ IndInv' /\ row \in [Files -> Row]
  BY ClaimKeepsInv DEF SoundInv, IndInv, TypeOK
<1>2. /\ \/ /\ n \in Numbers
            /\ row' = [row EXCEPT ![f] = new]
            /\ claimed' = claimed \cup {k}
         \/ row' = [row EXCEPT ![f].status = "failed"] /\ claimed' = claimed
      /\ UNCHANGED <<queue, media, objects, used, worker, mode, excused, faults>>
  BY DEF Claim
<1>3. \A g \in Files : row[g].attempts \in Nat
  BY <1>1 DEF Row
<1>4. /\ \A g \in Files : row'[g].attempts >= row[g].attempts
      /\ \A g \in Files : row'[g].status = "completed" => row[g].status = "completed"
  BY <1>1, <1>2, <1>3 DEF Row
<1>5. ASSUME n \in Numbers PROVE Unborn(k)
  <2>1. k \in Jobs /\ k[1] = f /\ k[2] = n /\ n > row[f].attempts
    BY <1>3, <1>5 DEF Jobs
  <2> HIDE DEF k, n
  <2> QED
    BY <2>1 DEF SoundInv, BirthInv
<1>6. \A j \in Waiting' : j \in Waiting \/ (j = k /\ n \in Numbers)
  BY <1>2 DEF Waiting
<1> HIDE DEF k, n, new
<1>7. \A j \in Waiting' : Unborn(j)
  BY <1>5, <1>6 DEF SoundInv, BirthInv
<1> QED
  BY <1>1, <1>2, <1>4, <1>7, RowsMoveKeepsSound DEF Advances

\* No row is written, or the one written goes back.
LEMMA RestKeepsSound ==
    ASSUME SoundInv,
           \/ \E j : QueueJob(j)
           \/ \E j \in Jobs : ResetDispatch(j)
           \/ DispatchDies \/ SetMode \/ UNCHANGED vars
    PROVE  SoundInv'
<1>1. IndInv /\ row \in [Files -> Row]
  BY DEF SoundInv, IndInv, TypeOK
<1>2. CASE UNCHANGED vars
  BY <1>2 DEF vars, SoundInv, IndInv, TypeOK, WorkersTyped, JobsApart, Unpaid, Balanced,
     Charged, Waiting, Working, At, Job, File, BirthInv, FilesSound, Unborn, Alone,
     CopiesSound, WorkSound, Of, IsLive, Available, Sole, Chosen
<1>3. CASE (\E j : QueueJob(j)) \/ DispatchDies \/ SetMode
  <2>1. IndInv'
    BY <1>1, <1>3, QueueKeepsInv, EnvironmentKeepsInv
  <2>2. UNCHANGED <<media, objects, worker, excused, row>> /\ Waiting' \subseteq Waiting
    BY <1>3 DEF QueueJob, DispatchDies, SetMode, Waiting
  <2>3. Advances
    BY <1>1, <2>2, RowKept
  <2> QED
    BY <2>1, <2>2, <2>3, RowsMoveKeepsSound DEF SoundInv, BirthInv
<1>4. CASE \E j \in Jobs : ResetDispatch(j)
  <2>1. PICK j \in Jobs : ResetDispatch(j)
    BY <1>4
  <2>2. IndInv' /\ j[1] \in Files
    BY <1>1, <2>1, ResetKeepsInv, JobParts
  <2>3. UNCHANGED <<media, objects, worker, excused>> /\ Waiting' \subseteq Waiting
    BY <2>1 DEF ResetDispatch, Waiting
  <2>4. \A g \in Files : row[g].attempts \in Nat
    BY <1>1 DEF Row
  <2>5. /\ Advances
        /\ \A g \in Files : row'[g].status = "completed" => row[g].status = "completed"
    BY <1>1, <2>1, <2>2, <2>4 DEF ResetDispatch, Retried, Advances
  <2> QED
    BY <2>2, <2>3, <2>5, RowsMoveKeepsSound DEF SoundInv, BirthInv
<1> QED
  BY <1>2, <1>3, <1>4

LEMMA InitSound == Init => SoundInv
<1> SUFFICES ASSUME Init PROVE SoundInv
  OBVIOUS
<1>1. IndInv
  BY InitInv
<1>2. \A j \in Jobs : media[j] = NoMedia
  BY DEF Init
<1>3. \A w \in Workers : worker[w] = Idle
  BY DEF Init
<1>4. BirthInv
  BY <1>2, <1>3 DEF Init, BirthInv, Unborn, NoMedia, Idle, Waiting, BeforeReserve, Reserved
<1>5. \A w \in Workers : ~Working(w)
  BY <1>3 DEF Working, At, Idle
<1>6. \A f \in Files : row[f].status # "completed" /\ Alone(f)
  BY <1>5 DEF Init, Alone
<1>7. \A f \in Files : CopiesSound(f)
  BY <1>2, <1>6 DEF Init, CopiesSound, Of, IsLive, Available, NoMedia, Live
<1> QED
  BY <1>1, <1>4, <1>5, <1>6, <1>7 DEF SoundInv, FilesSound

LEMMA StepKeepsSound == SoundInv /\ [Next]_vars => SoundInv'
<1> SUFFICES ASSUME SoundInv, [Next]_vars PROVE SoundInv'
  OBVIOUS
<1>1. ASSUME NEW w \in Workers, Step(w) PROVE SoundInv'
  BY <1>1, LoadKeepsSound, LookKeepsSound, ListStaleKeepsSound, WipeKeepsSound,
     ReleaseStaleKeepsSound, DownloadKeepsSound, ReserveKeepsSound,
     OwnerIsDisabledKeepsSound, UploadKeepsSound, MarkKeepsSound, FinishKeepsSound,
     UndoKeepsSound, GiveBackKeepsSound, FailRowKeepsSound, DeferKeepsSound DEF Step
<1>2. ASSUME NEW f \in Files, Dispatch(f) PROVE SoundInv'
  BY <1>2, ClaimKeepsSound, RestKeepsSound DEF Dispatch
<1> QED
  BY <1>1, <1>2, EnqueueKeepsSound, WorkerDiesKeepsSound, TakeKeepsSound, RestKeepsSound
  DEF Next

\* Copies, objects and rows agree for every file that only one job at a time has
\* worked on, and a worker's findings about its file stay true while it works.
THEOREM Sound == Spec => []SoundInv
BY InitSound, StepKeepsSound, PTL DEF Spec

\* A completed row has its file: one copy available, stored and paid for.
THEOREM CompletedFilesHaveCopies == Spec => []CompletedHasCopy
<1>1. SoundInv => CompletedHasCopy
  <2> SUFFICES ASSUME SoundInv, NEW f \in Files \ excused, row[f].status = "completed"
               PROVE  \E j \in Jobs : /\ j[1] = f /\ media[j].status = "available"
                                      /\ ~media[j].deleted /\ media[j].counts
                                      /\ j \in objects
    BY DEF CompletedHasCopy
  <2>1. CopiesSound(f)
    BY DEF SoundInv, FilesSound
  <2>2. PICK j \in Of(f) : Available(j)
    BY <2>1 DEF CopiesSound
  <2>3. j \in Jobs /\ j[1] = f /\ media[j].counts /\ ~media[j].deleted
    BY <2>1, <2>2 DEF CopiesSound, Of, IsLive, Available, Live
  <2>4. ASSUME NEW w \in Workers, At(w, "giveback"), Job(w) = j PROVE FALSE
    <3>1. Working(w) /\ File(w) = f
      BY <2>3, <2>4 DEF Working, At, File, Job
    <3>2. WorkSound(w)
      BY <3>1 DEF SoundInv, FilesSound
    <3> QED
      BY <2>4, <3>1, <3>2 DEF WorkSound, At
  <2> QED
    BY <2>1, <2>2, <2>3, <2>4 DEF CopiesSound, Available
<1> QED
  BY <1>1, Sound, PTL

\* No copy lies in the store that the database does not list, and no file has two
\* available copies, however the steps of its jobs fail.
THEOREM CopiesAreListedOnce == Spec => []OneListedCopy
<1>1. SoundInv => OneListedCopy
  <2> SUFFICES ASSUME SoundInv, NEW f \in Files \ excused
               PROVE  /\ \A j \in objects : j[1] = f =>
                           media[j].status \in Live /\ ~media[j].deleted
                      /\ \A i, j \in Kept(f, {"available"}) : i = j
    BY DEF OneListedCopy
  <2>1. CopiesSound(f) /\ objects \subseteq Jobs
    BY DEF SoundInv, FilesSound, IndInv, TypeOK
  <2>2. \A j \in objects : j[1] = f => j \in Of(f)
    BY <2>1 DEF Of
  <2>3. \A j \in Kept(f, {"available"}) : j \in Of(f) /\ Available(j)
    BY DEF Kept, Of, Available
  <2> QED
    BY <2>1, <2>2, <2>3 DEF CopiesSound, IsLive
<1> QED
  BY <1>1, Sound, PTL
=============================================================================
