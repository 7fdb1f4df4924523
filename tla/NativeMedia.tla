----------------------------- MODULE NativeMedia -----------------------------
(***************************************************************************)
(* Web-native media: a client announces an upload, puts the bytes into a   *)
(* staging object by a presigned URL, and a request completes the upload:  *)
(* it inspects the staging object, promotes it to a private object and     *)
(* only then records the asset and charges the quota in one transaction.   *)
(* Assets are then shown in a slot (an avatar, a picture of a post) or     *)
(* attached to a private message, and a periodic job deletes what nobody   *)
(* uses, first from the object store and then from the database.  The      *)
(* archive of legacy media charges the same two quota ledgers.  Every file *)
(* counts as one unit of quota.                                            *)
(***************************************************************************)
EXTENDS Integers, FiniteSets

CONSTANTS
    Uploads,     \* upload intents; an upload names its intent, objects and asset
    Archives,    \* files of legacy messages that the archive may copy
    Users,
    System,      \* names the system-wide ledger beside the users' own
    Owner,       \* [Uploads \cup Archives -> Users]
    Limit,       \* quota of each ledger
    Slots,       \* places that show one asset: an avatar, a picture of a post
    SlotOwner,   \* [Slots -> Users]
    Requests,    \* request handlers that may run at the same time
    NoUpload,
    MaxFaults    \* bound on commits lost and cleanup jobs that die

Ledgers == Users \cup {System}

ASSUME MediaAssumption ==
    /\ IsFiniteSet(Uploads) /\ IsFiniteSet(Archives)
    /\ Uploads \cap Archives = {} /\ NoUpload \notin Uploads
    /\ System \notin Users
    /\ Owner \in [Uploads \cup Archives -> Users]
    /\ Limit \in [Ledgers -> Nat]
    /\ SlotOwner \in [Slots -> Users]
    /\ MaxFaults \in Nat

VARIABLES
    intent,      \* the rows of media_upload_intents
    staging,     \* uploads whose staging object holds the announced bytes
    private,     \* uploads whose private object exists
    asset,       \* the rows of media_assets
    slot,        \* the asset each slot refers to (media_asset_references)
    attachment,  \* the message an asset is attached to, if any
    claims,      \* how often a one-time picture was handed out
    archived,    \* archived files that count toward the quota
    used,        \* used_bytes of each ledger
    request,     \* local state of each request handler
    sweep,       \* expired uploads whose objects the cleanup job has deleted
    lost,        \* uploads whose object was deleted in a commit that was lost
    faults

vars == <<intent, staging, private, asset, slot, attachment, claims, archived,
          used, request, sweep, lost, faults>>

-----------------------------------------------------------------------------
(* Types and initial state *)

IntentStatuses == {"absent", "pending", "completed", "cancelled", "gone"}
\* expired: expires_at has passed; mature: the cleanup grace since the
\* cancellation has passed.
Intent == [status : IntentStatuses, expired : BOOLEAN, mature : BOOLEAN]
\* old: created longer ago than the grace for unsent assets.
\* expires: expires_at is null, lies ahead or has passed.
Asset == [status : {"absent", "available", "deleted"}, old : BOOLEAN,
          expires : {"never", "later", "past"}]
PCs == {"idle", "inspect", "promote", "copy", "commit", "claim"}
\* past: the intents that had expired when the request read the clock.
Handler == [pc : PCs, upload : Uploads \cup {NoUpload}, past : SUBSET Uploads]

Idle == [pc |-> "idle", upload |-> NoUpload, past |-> {}]

Init ==
    /\ intent = [u \in Uploads |->
         [status |-> "absent", expired |-> FALSE, mature |-> FALSE]]
    /\ staging = {} /\ private = {}
    /\ asset = [u \in Uploads |->
         [status |-> "absent", old |-> FALSE, expires |-> "never"]]
    /\ slot = [s \in Slots |-> NoUpload]
    /\ attachment = [u \in Uploads |-> "none"]
    /\ claims = [u \in Uploads |-> 0]
    /\ archived = {}
    /\ used = [l \in Ledgers |-> 0]
    /\ request = [r \in Requests |-> Idle]
    /\ sweep = {} /\ lost = {}
    /\ faults = 0

-----------------------------------------------------------------------------
(* Helpers *)

Charges(l, i) == l = System \/ Owner[i] = l
Pending(u) == intent[u].status = "pending"
Available(u) == asset[u].status = "available"

\* What pending intents other than those in past have reserved of a ledger.
Reserved(l, past) ==
    Cardinality({u \in Uploads \ past : Pending(u) /\ Charges(l, u)})

FitsOwner(i, past, more) ==
    used[Owner[i]] + Reserved(Owner[i], past) + more <= Limit[Owner[i]]

\* A file of this owner, with more units beside it, fits into both ledgers.
Fits(i, past, more) ==
    \A l \in {Owner[i], System} : used[l] + Reserved(l, past) + more <= Limit[l]

Charge(i, amount) ==
    used' = [l \in Ledgers |-> IF Charges(l, i) THEN used[l] + amount ELSE used[l]]

Shown(u) == \E s \in Slots : slot[s] = u

\* No attachment and no reference needs the asset.
Unused(u) == ~Shown(u) /\ attachment[u] = "none"

\* An asset nobody ever used is deleted a day after its upload, the others
\* when their expires_at has passed.
Eligible(u) ==
    \/ asset[u].expires = "never" /\ asset[u].old
    \/ asset[u].expires = "past"

Go(r, pc) == request' = [request EXCEPT ![r].pc = pc]
Finish(r) == request' = [request EXCEPT ![r] = Idle]
At(r, pc) == request[r].pc = pc

-----------------------------------------------------------------------------
(* Uploads: the client and the request handlers *)

CreateIntent(u) ==
    /\ intent[u].status = "absent"
    /\ Fits(u, {v \in Uploads : intent[v].expired}, 1)
    /\ intent' = [intent EXCEPT ![u].status = "pending"]
    /\ UNCHANGED <<staging, private, asset, slot, attachment, claims, archived,
                   used, request, sweep, lost, faults>>

\* The presigned URL is good until the intent expires, also when the upload has
\* been completed meanwhile.
PutStaging(u) ==
    /\ intent[u].status # "absent" /\ ~intent[u].expired
    /\ u \notin staging
    /\ staging' = staging \cup {u}
    /\ UNCHANGED <<intent, private, asset, slot, attachment, claims, archived,
                   used, request, sweep, lost, faults>>

\* Without a lock: the intent is pending and has not expired.
StartCompletion(r, u) ==
    /\ At(r, "idle")
    /\ Pending(u) /\ ~intent[u].expired
    /\ request' = [request EXCEPT ![r] =
         [pc |-> "inspect", upload |-> u,
          past |-> {v \in Uploads : intent[v].expired}]]
    /\ UNCHANGED <<intent, staging, private, asset, slot, attachment, claims,
                   archived, used, sweep, lost, faults>>

Inspect(r) ==
    /\ At(r, "inspect")
    /\ IF request[r].upload \in staging THEN Go(r, "promote") ELSE Finish(r)
    /\ UNCHANGED <<intent, staging, private, asset, slot, attachment, claims,
                   archived, used, sweep, lost, faults>>

\* The private key is the same for every completion of an intent, so an object
\* that is already there is kept.
Promote(r) ==
    LET u == request[r].upload IN
    /\ At(r, "promote")
    /\ \/ u \in staging \cup private /\ Go(r, "copy")
       \/ u \notin staging \cup private /\ Finish(r)
    /\ UNCHANGED <<intent, staging, private, asset, slot, attachment, claims,
                   archived, used, sweep, lost, faults>>

\* The copy lands, whatever became of its source meanwhile (also bytes other than
\* those inspected: objects have no contents here); the deletion of the
\* staging object may fail.
Copy(r) ==
    LET u == request[r].upload IN
    /\ At(r, "copy")
    /\ private' = private \cup {u}
    /\ staging' \in {staging, staging \ {u}}
    /\ Go(r, "commit")
    /\ UNCHANGED <<intent, asset, slot, attachment, claims, archived, used, sweep,
                   lost, faults>>

\* Under the locks of both ledgers and of the intent.
CommitByStatus(r) == Pending(request[r].upload)
Committable(r) ==
    Pending(request[r].upload) /\ Fits(request[r].upload, request[r].past, 0)

Commit(r) ==
    LET u == request[r].upload IN
    /\ At(r, "commit")
    /\ IF Committable(r)
       THEN /\ asset' = [asset EXCEPT ![u] =
                 [status |-> "available", old |-> FALSE, expires |-> "never"]]
            /\ Charge(u, 1)
            /\ intent' = [intent EXCEPT ![u].status = "completed"]
       ELSE UNCHANGED <<asset, used, intent>>
    /\ Finish(r)
    /\ UNCHANGED <<staging, private, slot, attachment, claims, archived, sweep,
                   lost, faults>>

\* A refused inspection, an error of the store or of the database, or the end of
\* the process: nothing of the request's transaction remains.
GiveUp(r) ==
    /\ ~At(r, "idle")
    /\ Finish(r)
    /\ UNCHANGED <<intent, staging, private, asset, slot, attachment, claims,
                   archived, used, sweep, lost, faults>>

-----------------------------------------------------------------------------
(* Use of an asset *)

Usable(u) == Available(u) /\ asset[u].expires # "past"

\* What leaves a slot stays a day for the pages that still show it.
ReleasedAsset(u) ==
    [asset[u] EXCEPT !.expires = IF @ = "never" THEN "later" ELSE @]

\* Bind an asset of the owner to a slot and release the one it replaces.
Bind(s, u) ==
    /\ Owner[u] = SlotOwner[s]
    /\ Usable(u) /\ attachment[u] = "none"
    /\ \A t \in Slots \ {s} : slot[t] # u
    /\ slot' = [slot EXCEPT ![s] = u]
    /\ asset' = [v \in Uploads |->
         IF v = u THEN [asset[v] EXCEPT !.expires = "never"]
         ELSE IF v = slot[s] THEN ReleasedAsset(v)
         ELSE asset[v]]
    /\ UNCHANGED <<intent, staging, private, attachment, claims, archived, used,
                   request, sweep, lost, faults>>

Release(s) ==
    /\ slot[s] # NoUpload
    /\ slot' = [slot EXCEPT ![s] = NoUpload]
    /\ asset' = [asset EXCEPT ![slot[s]] = ReleasedAsset(slot[s])]
    /\ UNCHANGED <<intent, staging, private, attachment, claims, archived, used,
                   request, sweep, lost, faults>>

\* Send the asset as an attachment; it is kept as long as the message.  The code
\* lets an asset go with several messages, each with an attachment row and views of
\* its own; one of them is followed here.
Attachable(u) == Usable(u) /\ ~Shown(u)

Attach(u) ==
    /\ Attachable(u) /\ attachment[u] = "none"
    /\ attachment' = [attachment EXCEPT ![u] = "sent"]
    /\ asset' = [asset EXCEPT ![u].expires = "later"]
    /\ UNCHANGED <<intent, staging, private, slot, claims, archived, used, request,
                   sweep, lost, faults>>

\* The sender takes the message back, within two minutes of sending it.
Revoke(u) ==
    /\ attachment[u] = "sent"
    /\ attachment' = [attachment EXCEPT ![u] = "revoked"]
    /\ UNCHANGED <<intent, staging, private, asset, slot, claims, archived, used,
                   request, sweep, lost, faults>>

\* The retention of the message ends, and the attachment goes with it.
PurgeMessage(u) ==
    /\ attachment[u] # "none" /\ asset[u].expires = "past"
    /\ attachment' = [attachment EXCEPT ![u] = "none"]
    /\ UNCHANGED <<intent, staging, private, asset, slot, claims, archived, used,
                   request, sweep, lost, faults>>

\* A device of the recipient opens a one-time picture: the checks of the
\* service take no lock.
StartClaim(r, u) ==
    /\ At(r, "idle")
    /\ attachment[u] = "sent" /\ Usable(u)
    /\ request' = [request EXCEPT ![r] =
         [pc |-> "claim", upload |-> u, past |-> {}]]
    /\ UNCHANGED <<intent, staging, private, asset, slot, attachment, claims,
                   archived, used, sweep, lost, faults>>

\* Under the lock of the attachment, and unique per attachment.
ClaimableUnlocked(u) == claims[u] = 0
Claimable(u) == attachment[u] = "sent" /\ claims[u] = 0

ClaimFlash(r) ==
    LET u == request[r].upload IN
    /\ At(r, "claim")
    /\ claims' = IF Claimable(u) THEN [claims EXCEPT ![u] = claims[u] + 1]
                 ELSE claims
    /\ Finish(r)
    /\ UNCHANGED <<intent, staging, private, asset, slot, attachment, archived, used,
                   sweep, lost, faults>>

-----------------------------------------------------------------------------
(* The archive of legacy media, as far as it charges the ledgers *)

\* The archive looks at what is used and not at what is reserved.
ReserveArchive(a) ==
    /\ a \notin archived
    /\ \A l \in {Owner[a], System} : used[l] + 1 <= Limit[l]
    /\ archived' = archived \cup {a}
    /\ Charge(a, 1)
    /\ UNCHANGED <<intent, staging, private, asset, slot, attachment, claims, request,
                   sweep, lost, faults>>

\* A failed copy or the end of its retention; what no longer counts toward the
\* quota is not given back again.
ReleaseArchive(a) ==
    /\ a \in archived
    /\ archived' = archived \ {a}
    /\ Charge(a, -1)
    /\ UNCHANGED <<intent, staging, private, asset, slot, attachment, claims, request,
                   sweep, lost, faults>>

-----------------------------------------------------------------------------
(* Time *)

IntentExpires(u) ==
    /\ intent[u].status # "absent" /\ ~intent[u].expired
    /\ intent' = [intent EXCEPT ![u].expired = TRUE]
    /\ UNCHANGED <<staging, private, asset, slot, attachment, claims, archived,
                   used, request, sweep, lost, faults>>

\* A completion ends well within the hour of grace and the day of an unsent asset.
NotCompleting(u) == \A r \in Requests : request[r].upload = u => At(r, "claim")

GracePasses(u) ==
    /\ intent[u].status = "cancelled" /\ ~intent[u].mature
    /\ NotCompleting(u)
    /\ intent' = [intent EXCEPT ![u].mature = TRUE]
    /\ UNCHANGED <<staging, private, asset, slot, attachment, claims, archived,
                   used, request, sweep, lost, faults>>

AssetAges(u) ==
    /\ Available(u) /\ ~asset[u].old
    /\ intent[u].expired /\ NotCompleting(u)
    /\ asset' = [asset EXCEPT ![u].old = TRUE]
    /\ UNCHANGED <<intent, staging, private, slot, attachment, claims, archived,
                   used, request, sweep, lost, faults>>

AssetExpires(u) ==
    /\ Available(u) /\ asset[u].expires = "later"
    /\ NotCompleting(u)
    /\ asset' = [asset EXCEPT ![u].expires = "past"]
    /\ UNCHANGED <<intent, staging, private, slot, attachment, claims, archived,
                   used, request, sweep, lost, faults>>

-----------------------------------------------------------------------------
(* The periodic cleanup *)

\* First only the fence: a completion that is under way finds it at its commit.
FenceIntent(u) ==
    /\ Pending(u) /\ intent[u].expired
    /\ intent' = [intent EXCEPT ![u].status = "cancelled"]
    /\ UNCHANGED <<staging, private, asset, slot, attachment, claims, archived,
                   used, request, sweep, lost, faults>>

SweepableAtOnce(u) == intent[u].status = "cancelled"
Sweepable(u) == intent[u].status = "cancelled" /\ intent[u].mature

DeleteArtifacts(u) ==
    /\ Sweepable(u) /\ u \notin sweep
    /\ staging' = staging \ {u}
    /\ private' = private \ {u}
    /\ sweep' = sweep \cup {u}
    /\ UNCHANGED <<intent, asset, slot, attachment, claims, archived, used, request,
                   lost, faults>>

\* In a transaction of its own, when the objects are gone.
DeleteIntent(u) ==
    /\ u \in sweep
    /\ intent' = [intent EXCEPT ![u].status =
                    IF @ = "cancelled" THEN "gone" ELSE @]
    /\ sweep' = sweep \ {u}
    /\ UNCHANGED <<staging, private, asset, slot, attachment, claims, archived,
                   used, request, lost, faults>>

CleanupDies ==
    /\ faults < MaxFaults
    /\ sweep # {}
    /\ sweep' = {}
    /\ faults' = faults + 1
    /\ UNCHANGED <<intent, staging, private, asset, slot, attachment, claims,
                   archived, used, request, lost>>

\* The candidates are listed without a lock, so everything is asked again under
\* the locks of the ledgers and of the asset.
DeletableUnshown(u) == Available(u) /\ Eligible(u) /\ ~Shown(u)
Deletable(u) == Available(u) /\ Eligible(u) /\ Unused(u)

DeleteAsset(u) ==
    /\ Deletable(u)
    /\ private' = private \ {u}
    /\ asset' = [asset EXCEPT ![u].status = "deleted"]
    /\ Charge(u, -1)
    /\ UNCHANGED <<intent, staging, slot, attachment, claims, archived, request,
                   sweep, lost, faults>>

\* The object is deleted before the commit, and the commit fails.
LoseDelete(u) ==
    /\ faults < MaxFaults
    /\ Deletable(u)
    /\ private' = private \ {u}
    /\ lost' = lost \cup {u}
    /\ faults' = faults + 1
    /\ UNCHANGED <<intent, staging, asset, slot, attachment, claims, archived, used,
                   request, sweep>>

-----------------------------------------------------------------------------
(* Specification *)

Complete(r) == Inspect(r) \/ Promote(r) \/ Copy(r) \/ Commit(r)
Cleanup(u) ==
    FenceIntent(u) \/ DeleteArtifacts(u) \/ DeleteIntent(u) \/ DeleteAsset(u)
    \/ PurgeMessage(u)
TimePasses(u) ==
    IntentExpires(u) \/ GracePasses(u) \/ AssetAges(u) \/ AssetExpires(u)

Next ==
    \/ \E u \in Uploads : CreateIntent(u) \/ PutStaging(u)
    \/ \E r \in Requests : \E u \in Uploads : StartCompletion(r, u) \/ StartClaim(r, u)
    \/ \E r \in Requests : Complete(r) \/ ClaimFlash(r) \/ GiveUp(r)
    \/ \E s \in Slots : \E u \in Uploads : Bind(s, u)
    \/ \E s \in Slots : Release(s)
    \/ \E u \in Uploads : Attach(u) \/ Revoke(u)
    \/ \E a \in Archives : ReserveArchive(a) \/ ReleaseArchive(a)
    \/ \E u \in Uploads : TimePasses(u) \/ Cleanup(u) \/ LoseDelete(u)
    \/ CleanupDies

Spec == Init /\ [][Next]_vars

-----------------------------------------------------------------------------
(* Properties *)

\* Every variable has its type: the columns and local variables of the code.
TypeOK ==
    /\ intent \in [Uploads -> Intent]
    /\ staging \subseteq Uploads /\ private \subseteq Uploads
    /\ asset \in [Uploads -> Asset]
    /\ slot \in [Slots -> Uploads \cup {NoUpload}]
    /\ attachment \in [Uploads -> {"none", "sent", "revoked"}]
    /\ claims \in [Uploads -> Nat]
    /\ archived \subseteq Archives
    /\ used \in [Ledgers -> Int]
    /\ request \in [Requests -> Handler]
    /\ sweep \subseteq Uploads /\ lost \subseteq Uploads
    /\ faults \in 0..MaxFaults

\* Each ledger counts the assets that are available and the archived files, no
\* more and no less, whatever completions, deletions and faults went on at once,
\* and uploads and archive together never overdraw it.
LedgerIsExact ==
    \A l \in Ledgers :
        /\ used[l] = Cardinality({u \in Uploads : Available(u) /\ Charges(l, u)})
                     + Cardinality({a \in archived : Charges(l, a)})
        /\ used[l] <= Limit[l]

\* Announced uploads are reservations: what is used and what unexpired intents
\* announce together grows only as far as the quota, also when an upload is
\* completed so late that its reservation has been given to another.  The archive
\* alone takes no notice of reservations.
Promised(l) == used[l] + Reserved(l, {u \in Uploads : intent[u].expired})

ReservationsFit ==
    [][archived' = archived =>
         \A l \in Ledgers : Promised(l)' > Promised(l) => Promised(l)' <= Limit[l]]_vars

\* Every private object can still be found and deleted: its asset is available,
\* or the intent it was promoted under has not been completed or dropped.
NoObjectIsForgotten ==
    \A u \in private : Available(u) \/ intent[u].status \in {"pending", "cancelled"}

\* An asset that a slot shows or that was attached to a message has its object,
\* and is used in one way only, unless the commit of a deletion was lost.
UsedHasObject ==
    \A u \in Uploads :
        /\ ~Unused(u) /\ u \notin lost => Available(u) /\ u \in private
        /\ ~(Shown(u) /\ attachment[u] # "none")

\* A one-time picture is handed out once, and never after it was taken back.
ShownOnce ==
    [][\A u \in Uploads : claims'[u] # claims[u] =>
         claims'[u] = 1 /\ attachment[u] = "sent"]_vars

=============================================================================
