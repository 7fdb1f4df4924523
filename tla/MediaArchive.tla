---------------------------- MODULE MediaArchive ----------------------------
(***************************************************************************)
(* The archive of legacy media.  A row of operation_outbox asks that one   *)
(* file of a message be copied into the private object store.  A dispatch  *)
(* claims due rows and queues a job for each; a worker runs the job in     *)
(* steps with a transaction each: find or wipe what earlier jobs left,     *)
(* download, reserve quota, upload, mark the copy available, close the     *)
(* row.  Nothing fences a job: a claim ends after ten minutes, also while  *)
(* its job is still queued, and the row is then claimed again.             *)
(***************************************************************************)
EXTENDS Integers, FiniteSets

CONSTANTS
    Files,        \* rows of the outbox, one for each file
    Workers,      \* workers of the media queue
    NoFile,
    MaxAttempts,  \* max_attempts of a new row
    MaxExtra,     \* bound on attempts beyond them
    Limit,        \* quota, in files
    MaxFaults     \* bound on pauses of the compatibility mode, on jobs that find the
                  \* store misconfigured and on workers and dispatches that die

ASSUME ArchiveAssumption ==
    /\ IsFiniteSet(Files) /\ NoFile \notin Files
    /\ MaxAttempts \in Nat \ {0} /\ MaxExtra \in Nat
    /\ Limit \in Nat
    /\ MaxFaults \in Nat

VARIABLES
    row,       \* the rows of operation_outbox
    claimed,   \* claims whose job is not queued yet
    queue,     \* the jobs of the media queue
    media,     \* the row of media_objects each job reserved
    objects,   \* copies that exist in the object store
    used,      \* used_bytes, in files
    worker,    \* local state of each worker
    mode,      \* BBW_COMPATIBILITY_MODE: "enabled" or not
    excused,   \* files that two jobs ever worked on at once, or whose finished copy was
               \* deleted after an error that could not be written down
    faults

vars == <<row, claimed, queue, media, objects, used, worker, mode, excused, faults>>

-----------------------------------------------------------------------------
(* Types and initial state *)

Numbers == 1..(MaxAttempts + MaxExtra)
\* A job is named by its file and the attempt it was claimed for.
Jobs == Files \X Numbers
NoJob == <<NoFile, 0>>

\* due: available_at, or locked_until while processing, has passed.
Row == [status : {"absent", "pending", "processing", "retry", "completed", "failed"},
        attempts : Nat, max : Nat, due : BOOLEAN]
Live == {"uploading", "available", "delete_failed"}
Media == [status : Live \cup {"none", "failed"}, counts : BOOLEAN, deleted : BOOLEAN]
PCs == {"idle", "load", "look", "list", "wipe", "release", "download", "reserve",
        "upload", "mark", "finish", "undo", "giveback", "fail", "defer"}
\* stale: jobs whose leftovers are to be wiped; final: the failure is permanent.
Worker == [pc : PCs, job : Jobs \cup {NoJob}, stale : SUBSET Jobs, final : BOOLEAN]

Idle == [pc |-> "idle", job |-> NoJob, stale |-> {}, final |-> FALSE]
NoMedia == [status |-> "none", counts |-> FALSE, deleted |-> FALSE]

Init ==
    /\ row = [f \in Files |->
         [status |-> "absent", attempts |-> 0, max |-> MaxAttempts, due |-> FALSE]]
    /\ claimed = {} /\ queue = {}
    /\ media = [j \in Jobs |-> NoMedia]
    /\ objects = {}
    /\ used = 0
    /\ worker = [w \in Workers |-> Idle]
    /\ mode = "enabled"
    /\ excused = {}
    /\ faults = 0

-----------------------------------------------------------------------------
(* Helpers *)

At(w, pc) == worker[w].pc = pc
Job(w) == worker[w].job
File(w) == worker[w].job[1]
Go(w, pc) == worker' = [worker EXCEPT ![w].pc = pc]
Fail(w, final) == worker' = [worker EXCEPT ![w].pc = "fail", ![w].final = final]
EndJob(w) == worker' = [worker EXCEPT ![w] = Idle]
\* An error of the store; one of its configuration defers the row.
StoreFails(w) ==
    \/ Fail(w, FALSE) /\ UNCHANGED faults
    \/ faults < MaxFaults /\ Go(w, "defer") /\ faults' = faults + 1

\* The copies of a file that media_objects still lists, in one of these states.
Kept(f, statuses) ==
    {j \in Jobs : j[1] = f /\ media[j].status \in statuses /\ ~media[j].deleted}

\* A copy an earlier job of the file completed.
ExistingOrUploading(f) == Kept(f, {"uploading", "available"})
Existing(f) == Kept(f, {"available"})

\* Quota is given back once, whoever releases the copy.
ReleaseTwice(j) ==
    /\ used' = IF used > 0 THEN used - 1 ELSE 0
    /\ media' = [media EXCEPT ![j] = [status |-> "failed", counts |-> FALSE,
                                      deleted |-> TRUE]]
Release(j) ==
    /\ used' = IF media[j].counts /\ used > 0 THEN used - 1 ELSE used
    /\ media' = [media EXCEPT ![j] = [status |-> "failed", counts |-> FALSE,
                                      deleted |-> TRUE]]

Retried(f, status, max) ==
    row' = [row EXCEPT ![f] = [status |-> status, attempts |-> row[f].attempts,
                               max |-> max, due |-> FALSE]]

-----------------------------------------------------------------------------
(* Enqueueing and dispatch *)

\* With the message that refers to the file, in its transaction.
Enqueue(f) ==
    /\ row[f].status = "absent"
    /\ row' = [row EXCEPT ![f].status = "pending", ![f].due = TRUE]
    /\ UNCHANGED <<claimed, queue, media, objects, used, worker, mode, excused, faults>>

\* The back-off passes, or the ten minutes of a claim.
TimePasses(f) ==
    /\ row[f].status \in {"retry", "processing"} /\ ~row[f].due
    /\ row' = [row EXCEPT ![f].due = TRUE]
    /\ UNCHANGED <<claimed, queue, media, objects, used, worker, mode, excused, faults>>

DueWaiting(f) == row[f].status \in {"pending", "retry"} /\ row[f].due
Due(f) == row[f].status \in {"pending", "retry", "processing"} /\ row[f].due

\* Rows whose last claim ended without a result are failed, other due rows are
\* claimed.  The mode is read before.
Claim(f) ==
    /\ mode = "enabled" /\ Due(f)
    /\ \/ /\ row[f].attempts < row[f].max
          /\ row[f].attempts + 1 \in Numbers
          /\ row' = [row EXCEPT ![f] = [status |-> "processing",
                       attempts |-> row[f].attempts + 1, max |-> row[f].max,
                       due |-> FALSE]]
          /\ claimed' = claimed \cup {<<f, row[f].attempts + 1>>}
       \/ /\ row[f].attempts >= row[f].max
          /\ row[f].status = "processing"
          /\ row' = [row EXCEPT ![f].status = "failed"]
          /\ UNCHANGED claimed
    /\ UNCHANGED <<queue, media, objects, used, worker, mode, excused, faults>>

QueueJob(j) ==
    /\ j \in claimed
    /\ claimed' = claimed \ {j}
    /\ queue' = queue \cup {j}
    /\ UNCHANGED <<row, media, objects, used, worker, mode, excused, faults>>

\* The queue refuses the job; meanwhile an older job may have had its say.
ResetDispatch(j) ==
    LET f == j[1] IN
    /\ j \in claimed
    /\ claimed' = claimed \ {j}
    /\ IF row[f].status = "completed" THEN UNCHANGED row
       ELSE Retried(f, IF row[f].attempts < row[f].max THEN "retry" ELSE "failed",
                    row[f].max)
    /\ UNCHANGED <<queue, media, objects, used, worker, mode, excused, faults>>

-----------------------------------------------------------------------------
(* The job of a worker *)

\* Another worker is inside a job of this file.
Busy(f, w) == \E v \in Workers \ {w} : ~At(v, "idle") /\ File(v) = f

TakeJob(w, j) ==
    /\ At(w, "idle") /\ j \in queue
    /\ queue' = queue \ {j}
    /\ worker' = [worker EXCEPT ![w] =
         [pc |-> "load", job |-> j, stale |-> {}, final |-> FALSE]]
    /\ excused' = IF Busy(j[1], w) THEN excused \cup {j[1]} ELSE excused
    /\ UNCHANGED <<row, claimed, media, objects, used, mode, faults>>

\* Outside the enabled mode the row goes back with its attempt made good.
\* Otherwise only a row that is closed is left alone: a job whose claim has ended
\* goes on, and one that finds the row waiting takes an attempt of its own.
Closed(f) == row[f].status \in {"completed", "failed"}

Load(w) ==
    LET f == File(w) IN
    /\ At(w, "load")
    /\ \/ /\ mode # "enabled" /\ ~Closed(f)
          /\ row' = [row EXCEPT ![f] = [status |-> "retry",
                attempts |-> row[f].attempts,
                max |-> IF row[f].max > row[f].attempts THEN row[f].max + 1
                        ELSE row[f].attempts + 1,
                due |-> TRUE]]
          /\ EndJob(w)
       \/ /\ Closed(f)
          /\ EndJob(w)
          /\ UNCHANGED row
       \/ /\ mode = "enabled" /\ row[f].status \in {"pending", "retry"}
          /\ row' = [row EXCEPT ![f] = [status |-> "processing",
                attempts |-> row[f].attempts + 1, max |-> row[f].max, due |-> FALSE]]
          /\ Go(w, "look")
       \/ /\ mode = "enabled" /\ row[f].status = "processing"
          /\ Go(w, "look")
          /\ UNCHANGED row
    /\ UNCHANGED <<claimed, queue, media, objects, used, mode, excused, faults>>

\* A copy an earlier job completed closes the row.  A store that is not
\* configured defers it; a message that is gone, or no source, fails it.
Look(w) ==
    /\ At(w, "look")
    /\ IF Existing(File(w)) # {}
       THEN Go(w, "finish") /\ UNCHANGED faults
       ELSE \/ Go(w, "list") /\ UNCHANGED faults
            \/ Fail(w, TRUE) /\ UNCHANGED faults
            \/ /\ faults < MaxFaults
               /\ Go(w, "defer")
               /\ faults' = faults + 1
    /\ UNCHANGED <<row, claimed, queue, media, objects, used, mode, excused>>

\* What earlier jobs left unfinished, read without a lock.
ListStale(w) ==
    LET stale == Kept(File(w), {"uploading", "delete_failed"}) IN
    /\ At(w, "list")
    /\ worker' = [worker EXCEPT ![w].pc = IF stale = {} THEN "download" ELSE "wipe",
                                ![w].stale = stale]
    /\ UNCHANGED <<row, claimed, queue, media, objects, used, mode, excused, faults>>

\* The object first; an error of the store ends the job, whether or not the object
\* is gone.
Wipe(w) ==
    LET j == CHOOSE k \in worker[w].stale : TRUE IN
    /\ At(w, "wipe")
    /\ \/ objects' = objects \ {j} /\ Go(w, "release") /\ UNCHANGED faults
       \/ objects' \in {objects, objects \ {j}} /\ StoreFails(w)
    /\ UNCHANGED <<row, claimed, queue, media, used, mode, excused>>

ReleaseStale(w) ==
    LET j == CHOOSE k \in worker[w].stale : TRUE
        left == worker[w].stale \ {j} IN
    /\ At(w, "release")
    /\ \/ /\ Release(j)
          /\ worker' = [worker EXCEPT ![w].pc = IF left = {} THEN "download"
                                                 ELSE "wipe",
                                      ![w].stale = left]
       \/ Fail(w, FALSE) /\ UNCHANGED <<media, used>>
    /\ UNCHANGED <<row, claimed, queue, objects, mode, excused, faults>>

Download(w) ==
    /\ At(w, "download")
    /\ \/ Go(w, "reserve")
       \/ \E final \in BOOLEAN : Fail(w, final)
    /\ UNCHANGED <<row, claimed, queue, media, objects, used, mode, excused, faults>>

Reserve(w) ==
    /\ At(w, "reserve")
    /\ IF used < Limit
       THEN /\ used' = used + 1
            /\ media' = [media EXCEPT ![Job(w)] =
                 [status |-> "uploading", counts |-> TRUE, deleted |-> FALSE]]
            /\ Go(w, "upload")
       ELSE Fail(w, FALSE) /\ UNCHANGED <<used, media>>
    /\ UNCHANGED <<row, claimed, queue, objects, mode, excused, faults>>

\* Permanently, unlike a quota that is used up.
OwnerIsDisabled(w) ==
    /\ At(w, "reserve")
    /\ Fail(w, TRUE)
    /\ UNCHANGED <<row, claimed, queue, media, objects, used, mode, excused, faults>>

\* The store answers, or an error comes back whether or not the copy is there.
Upload(w) ==
    /\ At(w, "upload")
    /\ \/ objects' = objects \cup {Job(w)} /\ Go(w, "mark")
       \/ objects' \in {objects, objects \cup {Job(w)}} /\ Go(w, "undo")
    /\ UNCHANGED <<row, claimed, queue, media, used, mode, excused, faults>>

MarkAvailable(w) ==
    /\ At(w, "mark")
    /\ \/ /\ media[Job(w)].status \in {"uploading", "available"}
          /\ media' = [media EXCEPT ![Job(w)].status = "available"]
          /\ Go(w, "finish")
       \/ Go(w, "undo") /\ UNCHANGED media
    /\ UNCHANGED <<row, claimed, queue, objects, used, mode, excused, faults>>

\* Whoever holds the row now.  When the row cannot be written, a copy of this job
\* is undone, although it is available by now.
Finish(w) ==
    /\ At(w, "finish")
    /\ \/ /\ row' = [row EXCEPT ![File(w)].status = "completed"]
          /\ EndJob(w)
       \/ /\ media[Job(w)].status = "none"
          /\ Fail(w, FALSE)
          /\ UNCHANGED row
       \/ /\ media[Job(w)].status # "none"
          /\ Go(w, "undo")
          /\ UNCHANGED row
    /\ UNCHANGED <<claimed, queue, media, objects, used, mode, excused, faults>>

\* A copy that was deleted and is still listed as available.
Excuse(w) ==
    excused' = IF media'[Job(w)].status = "available" /\ Job(w) \notin objects'
               THEN excused \cup {File(w)} ELSE excused

\* After an error behind the reservation: delete the copy, and only when that
\* works give its quota back.  What cannot be written down is left for the next job.
UndoBlindly(w) ==
    /\ At(w, "undo")
    /\ Go(w, "giveback")
    /\ UNCHANGED <<row, claimed, queue, media, objects, used, mode, excused, faults>>
Undo(w) ==
    /\ At(w, "undo")
    /\ \/ /\ objects' = objects \ {Job(w)}
          /\ Go(w, "giveback")
          /\ UNCHANGED <<media, excused, faults>>
       \/ /\ objects' \in {objects, objects \ {Job(w)}}
          /\ media' \in {media, [media EXCEPT ![Job(w)].status = "delete_failed"]}
          /\ StoreFails(w)
          /\ Excuse(w)
    /\ UNCHANGED <<row, claimed, queue, used, mode>>

GiveBack(w) ==
    /\ At(w, "giveback")
    /\ UNCHANGED <<row, claimed, queue, objects, mode>>
    /\ Release(Job(w)) \/ UNCHANGED <<media, used>>
    /\ StoreFails(w)
    /\ Excuse(w)

\* A completed row stays as it is.
FailedStatusAlways(f, final) ==
    IF final \/ row[f].attempts >= row[f].max THEN "failed" ELSE "retry"
FailedStatus(f, final) ==
    IF row[f].status = "completed" THEN "completed"
    ELSE IF final \/ row[f].attempts >= row[f].max THEN "failed" ELSE "retry"

FailRow(w) ==
    /\ At(w, "fail")
    /\ Retried(File(w), FailedStatus(File(w), worker[w].final), row[File(w)].max)
    /\ EndJob(w)
    /\ UNCHANGED <<claimed, queue, media, objects, used, mode, excused, faults>>

Defer(w) ==
    LET f == File(w) IN
    /\ At(w, "defer")
    /\ IF row[f].status = "completed" THEN UNCHANGED row
       ELSE Retried(f, "retry", IF row[f].max > row[f].attempts THEN row[f].max + 1
                                ELSE row[f].attempts + 1)
    /\ EndJob(w)
    /\ UNCHANGED <<claimed, queue, media, objects, used, mode, excused, faults>>

-----------------------------------------------------------------------------
(* Faults and the operator *)

WorkerDies(w) ==
    /\ faults < MaxFaults /\ ~At(w, "idle")
    /\ EndJob(w)
    /\ faults' = faults + 1
    /\ UNCHANGED <<row, claimed, queue, media, objects, used, mode>>
    /\ IF At(w, "giveback") THEN Excuse(w) ELSE UNCHANGED excused

DispatchDies ==
    /\ faults < MaxFaults /\ claimed # {}
    /\ claimed' = {}
    /\ faults' = faults + 1
    /\ UNCHANGED <<row, queue, media, objects, used, worker, mode, excused>>

SetMode ==
    /\ \/ mode = "enabled" /\ faults < MaxFaults
          /\ mode' = "paused" /\ faults' = faults + 1
       \/ mode = "paused" /\ mode' = "enabled" /\ UNCHANGED faults
    /\ UNCHANGED <<row, claimed, queue, media, objects, used, worker, excused>>

-----------------------------------------------------------------------------
(* Specification *)

Step(w) ==
    \/ Load(w) \/ Look(w) \/ ListStale(w) \/ Wipe(w) \/ ReleaseStale(w)
    \/ Download(w) \/ Reserve(w) \/ OwnerIsDisabled(w) \/ Upload(w) \/ MarkAvailable(w)
    \/ Finish(w) \/ Undo(w) \/ GiveBack(w) \/ FailRow(w) \/ Defer(w)
Dispatch(f) == Claim(f) \/ \E n \in Numbers : QueueJob(<<f, n>>)

Next ==
    \/ \E f \in Files : Enqueue(f) \/ TimePasses(f) \/ Dispatch(f)
    \/ \E j \in Jobs : ResetDispatch(j)
    \/ \E w \in Workers : Step(w) \/ WorkerDies(w) \/ \E j \in Jobs : TakeJob(w, j)
    \/ DispatchDies \/ SetMode

Spec == Init /\ [][Next]_vars

\* Time passes, the scheduler dispatches, workers take jobs and carry them on, and
\* a pause ends.
FairSpec ==
    /\ Spec
    /\ \A f \in Files : WF_vars(TimePasses(f)) /\ WF_vars(Dispatch(f))
    /\ WF_vars(\E w \in Workers : \E j \in Jobs : TakeJob(w, j))
    /\ \A w \in Workers : WF_vars(Step(w))
    /\ WF_vars(mode = "paused" /\ SetMode)

-----------------------------------------------------------------------------
(* Properties *)

\* Every variable has its type: the columns and local variables of the code.
TypeOK ==
    /\ row \in [Files -> Row]
    /\ claimed \subseteq Jobs /\ queue \subseteq Jobs
    /\ media \in [Jobs -> Media]
    /\ objects \subseteq Jobs
    /\ used \in Nat
    /\ worker \in [Workers -> Worker]
    /\ mode \in {"enabled", "paused"}
    /\ excused \subseteq Files
    /\ faults \in 0..MaxFaults

\* Every reservation is given back once: the ledger is what the copies still
\* charge, whichever jobs wiped, undid or abandoned them.
LedgerIsExact == used = Cardinality({j \in Jobs : media[j].counts})

\* A completed row has its file: one copy is available, stored and paid for, unless
\* two jobs of the row ever ran at once, or a copy that was already available was
\* deleted after an error and that could not be written down.
CompletedHasCopy ==
    \A f \in Files \ excused : row[f].status = "completed" =>
        \E j \in Jobs : j[1] = f /\ media[j].status = "available"
                       /\ ~media[j].deleted /\ media[j].counts /\ j \in objects

\* No file is charged for twice, and no copy is in the store that the database
\* does not list, however the steps of a job fail, with the same two exceptions.
OneListedCopy ==
    \A f \in Files \ excused :
        /\ \A j \in objects : j[1] = f => media[j].status \in Live /\ ~media[j].deleted
        /\ \A i, j \in Kept(f, {"available"}) : i = j

\* A completed row is never taken up again.
CompletedIsFinal ==
    [][\A f \in Files : row[f].status = "completed" => row'[f].status = "completed"]_vars

\* Every row is completed or failed in the end.
RowSettles == \A f \in Files : row[f].status = "pending" ~> Closed(f)

=============================================================================
