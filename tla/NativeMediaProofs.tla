-------------------------- MODULE NativeMediaProofs --------------------------
(***************************************************************************)
(* Proofs about NativeMedia, for every number of uploads, users, slots and *)
(* request handlers.  Nothing holds a lock between the object store and    *)
(* the database; what makes the objects and the rows agree is that an      *)
(* upload somebody is still completing is neither cleaned up nor deleted.  *)
(***************************************************************************)
EXTENDS NativeMedia, FiniteSetTheorems, TLAPS

-----------------------------------------------------------------------------
(* The inductive invariant *)

Completing == {"inspect", "promote", "copy", "commit"}

\* No cleanup touches the objects of such an upload.
Standing(u) ==
    \/ Pending(u)
    \/ intent[u].status = "cancelled" /\ ~intent[u].mature
    \/ Available(u) /\ ~asset[u].old /\ asset[u].expires # "past"

RequestOK(r) ==
    LET u == request[r].upload IN
    /\ request[r].pc \in Completing =>
         /\ u \in Uploads /\ u \notin request[r].past
         /\ Standing(u)
    /\ At(r, "commit") /\ Pending(u) => u \in private
    /\ \A v \in request[r].past : intent[v].expired
    /\ At(r, "claim") => u \in Uploads

IntentOK(u) ==
    /\ intent[u].status \in {"absent", "pending"} => ~intent[u].mature
    /\ asset[u].status # "absent" => intent[u].status = "completed"
    /\ u \in sweep =>
         intent[u].status = "cancelled" /\ intent[u].mature /\ u \notin private

AssetOK(u) ==
    /\ ~Unused(u) => Available(u)
    /\ ~(Shown(u) /\ attachment[u] # "none")
    /\ Available(u) /\ u \notin lost => u \in private
    /\ u \in private => Available(u) \/ intent[u].status \in {"pending", "cancelled"}

IndInv ==
    /\ TypeOK /\ LedgerIsExact
    /\ \A r \in Requests : RequestOK(r)
    /\ \A u \in Uploads : IntentOK(u) /\ AssetOK(u)

-----------------------------------------------------------------------------
(* What a step leaves alone *)

\* What a request under way needs of the steps of others.
UndisturbedAt(u) ==
    /\ ~NotCompleting(u) /\ Standing(u) => Standing(u)'
    /\ Pending(u)' => Pending(u) \/ intent[u].status = "absent"
    /\ u \in private /\ Pending(u)' => u \in private'
    /\ intent[u].expired => intent'[u].expired

Undisturbed == \A u \in Uploads : UndisturbedAt(u)

LEMMA RequestKept ==
    ASSUME IndInv, NEW q \in Requests, request'[q] = request[q], Undisturbed
    PROVE  RequestOK(q)'
<1> DEFINE u == request[q].upload
<1>1. /\ RequestOK(q) /\ request[q] \in Handler
      /\ \A v \in Uploads : IntentOK(v)
  BY DEF IndInv, TypeOK
<1>2. request[q].past \subseteq Uploads
  BY <1>1 DEF Handler
<1>3. \A v \in request[q].past : intent'[v].expired
  BY <1>1, <1>2 DEF RequestOK, Undisturbed, UndisturbedAt
<1>4. ASSUME request[q].pc \in Completing
      PROVE  /\ u \in Uploads /\ u \notin request[q].past /\ Standing(u)'
             /\ At(q, "commit") /\ Pending(u)' => u \in private'
  <2>1. u \in Uploads /\ u \notin request[q].past /\ Standing(u)
    BY <1>1, <1>4 DEF RequestOK
  <2>2. ~NotCompleting(u)
    BY <1>4 DEF NotCompleting, At, Completing
  <2>3. intent[u].status # "absent"
    BY <1>1, <2>1 DEF Standing, Pending, Available, IntentOK
  <2> QED
    BY <1>1, <2>1, <2>2, <2>3 DEF Undisturbed, UndisturbedAt, RequestOK
<1> QED
  BY <1>1, <1>3, <1>4 DEF RequestOK, Completing, At

\* An upload whose rows and objects no step touched.
LEMMA UploadKept ==
    ASSUME NEW u \in Uploads, IntentOK(u), AssetOK(u),
           intent'[u] = intent[u], asset'[u] = asset[u], Shown(u)' = Shown(u),
           attachment'[u] = attachment[u], u \in private' <=> u \in private,
           u \in sweep' <=> u \in sweep, u \in lost' <=> u \in lost
    PROVE  IntentOK(u)' /\ AssetOK(u)'
BY DEF IntentOK, AssetOK, Unused, Available

-----------------------------------------------------------------------------
(* The ledgers *)

Counted(l) == {u \in Uploads : Available(u) /\ Charges(l, u)}
Filed(l) == {a \in archived : Charges(l, a)}
Announced(l, past) == {u \in Uploads \ past : Pending(u) /\ Charges(l, u)}

LEMMA LedgerSetsFinite ==
    ASSUME TypeOK, NEW l
    PROVE  /\ IsFiniteSet(Counted(l)) /\ Cardinality(Counted(l)) \in Nat
           /\ IsFiniteSet(Filed(l)) /\ Cardinality(Filed(l)) \in Nat
           /\ \A past : /\ IsFiniteSet(Announced(l, past))
                        /\ Cardinality(Announced(l, past)) \in Nat
<1>1. Counted(l) \subseteq Uploads /\ Filed(l) \subseteq Archives
  BY DEF Counted, Filed, TypeOK
<1>2. \A past : Announced(l, past) \subseteq Uploads
  BY DEF Announced
<1>3. IsFiniteSet(Uploads) /\ IsFiniteSet(Archives)
  BY MediaAssumption
<1>4. \A S : S \subseteq Uploads => IsFiniteSet(S) /\ Cardinality(S) \in Nat
  BY <1>3, FS_Subset, FS_CardinalityType
<1>5. \A S : S \subseteq Archives => IsFiniteSet(S) /\ Cardinality(S) \in Nat
  BY <1>3, FS_Subset, FS_CardinalityType
<1> QED
  BY <1>1, <1>2, <1>4, <1>5

LEMMA LedgerKept ==
    ASSUME LedgerIsExact, used' = used, archived' = archived,
           \A u \in Uploads : Available(u)' = Available(u)
    PROVE  LedgerIsExact'
<1>1. \A l \in Ledgers : Counted(l)' = Counted(l) /\ Filed(l)' = Filed(l)
  BY DEF Counted, Filed, Charges
<1> QED
  BY <1>1 DEF LedgerIsExact, Counted, Filed

LEMMA ChargeTyped ==
    ASSUME TypeOK, NEW i, NEW amount \in Int, Charge(i, amount)
    PROVE  used' \in [Ledgers -> Int]
BY DEF Charge, TypeOK

LEMMA UploadCharged ==
    ASSUME TypeOK, LedgerIsExact, NEW u \in Uploads, Charge(u, 1),
           ~Available(u), Available(u)', archived' = archived,
           \A v \in Uploads \ {u} : Available(v)' = Available(v),
           \A l \in {Owner[u], System} : used[l] + 1 <= Limit[l]
    PROVE  LedgerIsExact'
<1> SUFFICES ASSUME NEW l \in Ledgers
             PROVE  /\ used'[l] = Cardinality(Counted(l)') + Cardinality(Filed(l)')
                    /\ used'[l] <= Limit[l]
  BY DEF LedgerIsExact, Counted, Filed
<1>1. /\ used[l] = Cardinality(Counted(l)) + Cardinality(Filed(l))
      /\ used[l] <= Limit[l] /\ used[l] \in Int /\ Limit[l] \in Nat
  BY MediaAssumption DEF LedgerIsExact, Counted, Filed, TypeOK
<1>2. Filed(l)' = Filed(l)
  BY DEF Filed, Charges
<1>3. CASE Charges(l, u)
  <2>1. Counted(l)' = Counted(l) \cup {u} /\ u \notin Counted(l)
    BY <1>3 DEF Counted, Charges
  <2>2. Cardinality(Counted(l)') = Cardinality(Counted(l)) + 1
    BY <2>1, LedgerSetsFinite, FS_AddElement
  <2>3. used'[l] = used[l] + 1 /\ used[l] + 1 <= Limit[l]
    BY <1>3 DEF Charge, Charges
  <2> QED
    BY <1>1, <1>2, <2>2, <2>3, LedgerSetsFinite
<1>4. CASE ~Charges(l, u)
  <2>1. Counted(l)' = Counted(l)
    BY <1>4 DEF Counted, Charges
  <2>2. used'[l] = used[l]
    BY <1>4 DEF Charge
  <2> QED
    BY <1>1, <1>2, <2>1, <2>2
<1> QED
  BY <1>3, <1>4

LEMMA UploadReleased ==
    ASSUME TypeOK, LedgerIsExact, NEW u \in Uploads, Charge(u, -1),
           Available(u), ~Available(u)', archived' = archived,
           \A v \in Uploads \ {u} : Available(v)' = Available(v)
    PROVE  LedgerIsExact'
<1> SUFFICES ASSUME NEW l \in Ledgers
             PROVE  /\ used'[l] = Cardinality(Counted(l)') + Cardinality(Filed(l)')
                    /\ used'[l] <= Limit[l]
  BY DEF LedgerIsExact, Counted, Filed
<1>1. /\ used[l] = Cardinality(Counted(l)) + Cardinality(Filed(l))
      /\ used[l] <= Limit[l] /\ used[l] \in Int /\ Limit[l] \in Nat
  BY MediaAssumption DEF LedgerIsExact, Counted, Filed, TypeOK
<1>2. Filed(l)' = Filed(l)
  BY DEF Filed, Charges
<1>3. CASE Charges(l, u)
  <2>1. Counted(l)' = Counted(l) \ {u} /\ u \in Counted(l)
    BY <1>3 DEF Counted, Charges
  <2>2. Cardinality(Counted(l)') = Cardinality(Counted(l)) - 1
    BY <2>1, LedgerSetsFinite, FS_RemoveElement
  <2>3. used'[l] = used[l] - 1
    BY <1>1, <1>3 DEF Charge
  <2> QED
    BY <1>1, <1>2, <2>2, <2>3, LedgerSetsFinite
<1>4. CASE ~Charges(l, u)
  <2>1. Counted(l)' = Counted(l)
    BY <1>4 DEF Counted, Charges
  <2>2. used'[l] = used[l]
    BY <1>4 DEF Charge
  <2> QED
    BY <1>1, <1>2, <2>1, <2>2
<1> QED
  BY <1>3, <1>4

\* A file that the archive adds to the ledgers, or takes from them.
LEMMA FileCharged ==
    ASSUME TypeOK, LedgerIsExact, NEW a \in Archives, NEW amount \in {1, -1},
           Charge(a, amount), asset' = asset,
           amount = 1 => /\ a \notin archived /\ archived' = archived \cup {a}
                         /\ \A l \in {Owner[a], System} : used[l] + 1 <= Limit[l],
           amount = -1 => a \in archived /\ archived' = archived \ {a}
    PROVE  LedgerIsExact'
<1> SUFFICES ASSUME NEW l \in Ledgers
             PROVE  /\ used'[l] = Cardinality(Counted(l)') + Cardinality(Filed(l)')
                    /\ used'[l] <= Limit[l]
  BY DEF LedgerIsExact, Counted, Filed
<1>1. /\ used[l] = Cardinality(Counted(l)) + Cardinality(Filed(l))
      /\ used[l] <= Limit[l] /\ used[l] \in Int /\ Limit[l] \in Nat
  BY MediaAssumption DEF LedgerIsExact, Counted, Filed, TypeOK
<1>2. Counted(l)' = Counted(l)
  BY DEF Counted, Available, Charges
<1>3. CASE Charges(l, a) /\ amount = 1
  <2>1. Filed(l)' = Filed(l) \cup {a} /\ a \notin Filed(l)
    BY <1>3 DEF Filed, Charges
  <2>2. Cardinality(Filed(l)') = Cardinality(Filed(l)) + 1
    BY <2>1, LedgerSetsFinite, FS_AddElement
  <2>3. used'[l] = used[l] + 1 /\ used[l] + 1 <= Limit[l]
    BY <1>3 DEF Charge, Charges
  <2> QED
    BY <1>1, <1>2, <2>2, <2>3, LedgerSetsFinite
<1>4. CASE Charges(l, a) /\ amount = -1
  <2>1. Filed(l)' = Filed(l) \ {a} /\ a \in Filed(l)
    BY <1>4 DEF Filed, Charges
  <2>2. Cardinality(Filed(l)') = Cardinality(Filed(l)) - 1
    BY <2>1, LedgerSetsFinite, FS_RemoveElement
  <2>3. used'[l] = used[l] - 1
    BY <1>1, <1>4 DEF Charge
  <2> QED
    BY <1>1, <1>2, <2>2, <2>3, LedgerSetsFinite
<1>5. CASE ~Charges(l, a)
  <2>1. Filed(l)' = Filed(l)
    BY <1>5 DEF Filed, Charges
  <2>2. used'[l] = used[l]
    BY <1>5 DEF Charge
  <2> QED
    BY <1>1, <1>2, <2>1, <2>2
<1> QED
  BY <1>3, <1>4, <1>5

-----------------------------------------------------------------------------
(* Rows and requests that one step writes *)

LEMMA IntentWritten ==
    ASSUME TypeOK, NEW u \in Uploads, NEW i \in Intent, intent' = [intent EXCEPT ![u] = i]
    PROVE  /\ intent' \in [Uploads -> Intent] /\ intent'[u] = i
           /\ \A v \in Uploads \ {u} : intent'[v] = intent[v]
BY DEF TypeOK

LEMMA StatusWritten ==
    ASSUME TypeOK, NEW u \in Uploads, NEW s \in IntentStatuses,
           intent' = [intent EXCEPT ![u].status = s]
    PROVE  /\ intent' \in [Uploads -> Intent] /\ intent'[u].status = s
           /\ intent'[u].expired = intent[u].expired
           /\ intent'[u].mature = intent[u].mature
           /\ \A v \in Uploads \ {u} : intent'[v] = intent[v]
BY DEF TypeOK, Intent

LEMMA AssetWritten ==
    ASSUME TypeOK, NEW u \in Uploads, NEW a \in Asset, asset' = [asset EXCEPT ![u] = a]
    PROVE  /\ asset' \in [Uploads -> Asset] /\ asset'[u] = a
           /\ \A v \in Uploads \ {u} : asset'[v] = asset[v]
BY DEF TypeOK

\* A request that goes on, or ends.
LEMMA GoFacts ==
    ASSUME TypeOK, NEW r \in Requests, NEW pc \in PCs, Go(r, pc)
    PROVE  /\ request' \in [Requests -> Handler]
           /\ request'[r].pc = pc /\ request'[r].upload = request[r].upload
           /\ request'[r].past = request[r].past
           /\ \A q \in Requests \ {r} : request'[q] = request[q]
<1>1. request \in [Requests -> Handler]
  BY DEF TypeOK
<1> QED
  BY <1>1 DEF Go, Handler

LEMMA FinishFacts ==
    ASSUME TypeOK, NEW r \in Requests, Finish(r)
    PROVE  /\ request' \in [Requests -> Handler]
           /\ RequestOK(r)'
           /\ \A q \in Requests \ {r} : request'[q] = request[q]
<1>1. request \in [Requests -> Handler] /\ Idle \in Handler
  BY DEF TypeOK, Idle, Handler, PCs
<1>2. request'[r] = Idle
  BY <1>1 DEF Finish
<1>3. RequestOK(r)'
  BY <1>2 DEF RequestOK, Idle, Completing, At
<1> QED
  BY <1>1, <1>3 DEF Finish

-----------------------------------------------------------------------------
(* How the invariant is carried over a step *)

UploadSame(v) ==
    /\ intent'[v] = intent[v] /\ asset'[v] = asset[v]
    /\ Shown(v)' = Shown(v) /\ attachment'[v] = attachment[v]
    /\ v \in private' <=> v \in private
    /\ v \in sweep' <=> v \in sweep
    /\ v \in lost' <=> v \in lost

\* A step that writes the uploads in S alone.
LEMMA StepKeeps ==
    ASSUME IndInv, TypeOK', LedgerIsExact', NEW S,
           \A v \in Uploads \ S : UploadSame(v),
           \A u \in Uploads \cap S :
               UndisturbedAt(u) /\ IntentOK(u)' /\ AssetOK(u)',
           \A q \in Requests : request'[q] = request[q] \/ RequestOK(q)'
    PROVE  IndInv'
<1>1. ASSUME NEW v \in Uploads \ S
      PROVE  UndisturbedAt(v) /\ IntentOK(v)' /\ AssetOK(v)'
  <2>1. UploadSame(v) /\ IntentOK(v) /\ AssetOK(v)
    BY <1>1 DEF IndInv
  <2>2. UndisturbedAt(v)
    BY <2>1 DEF UndisturbedAt, UploadSame, Standing, Pending, Available
  <2> QED
    BY <2>1, <2>2, UploadKept DEF UploadSame
<1>2. Undisturbed
  BY <1>1 DEF Undisturbed
<1>3. \A q \in Requests : RequestOK(q)'
  BY <1>2, RequestKept
<1> QED
  BY <1>1, <1>3 DEF IndInv

\* A step of a request or of the quota.
LEMMA NoUploadWritten ==
    ASSUME IndInv, TypeOK', LedgerIsExact',
           UNCHANGED <<intent, asset, slot, attachment, private, sweep, lost>>,
           \A q \in Requests : request'[q] = request[q] \/ RequestOK(q)'
    PROVE  IndInv'
<1>1. \A v \in Uploads \ {} : UploadSame(v)
  BY DEF UploadSame, Shown
<1>2. \A u \in Uploads \cap {} : UndisturbedAt(u) /\ IntentOK(u)' /\ AssetOK(u)'
  OBVIOUS
<1> QED
  BY <1>1, <1>2, StepKeeps

-----------------------------------------------------------------------------
(* Requests *)

LEMMA StartCompletionKeepsInv ==
    ASSUME IndInv, NEW r \in Requests, NEW u \in Uploads, StartCompletion(r, u)
    PROVE  IndInv'
<1> DEFINE new == [pc |-> "inspect", upload |-> u,
                   past |-> {v \in Uploads : intent[v].expired}]
<1>1. /\ request' = [request EXCEPT ![r] = new]
      /\ Pending(u) /\ ~intent[u].expired
      /\ UNCHANGED <<intent, staging, private, asset, slot, attachment, claims,
                     archived, used, sweep, lost, faults>>
  BY DEF StartCompletion
<1>2. new \in Handler
  BY DEF Handler, PCs
<1>3. new.pc = "inspect" /\ new.upload = u /\ u \notin new.past
      /\ \A v \in new.past : intent[v].expired
  BY <1>1
<1> HIDE DEF new
<1>4. request' \in [Requests -> Handler] /\ request'[r] = new
      /\ \A q \in Requests \ {r} : request'[q] = request[q]
  BY <1>1, <1>2 DEF IndInv, TypeOK
<1>5. RequestOK(r)'
  BY <1>1, <1>3, <1>4 DEF RequestOK, Completing, At, Standing, Pending
<1>6. TypeOK'
  BY <1>1, <1>4 DEF IndInv, TypeOK
<1>7. LedgerIsExact'
  BY <1>1, LedgerKept DEF IndInv, Available
<1> QED
  BY <1>1, <1>4, <1>5, <1>6, <1>7, NoUploadWritten

LEMMA StartClaimKeepsInv ==
    ASSUME IndInv, NEW r \in Requests, NEW u \in Uploads, StartClaim(r, u)
    PROVE  IndInv'
<1> DEFINE new == [pc |-> "claim", upload |-> u, past |-> {}]
<1>1. /\ request' = [request EXCEPT ![r] = new]
      /\ UNCHANGED <<intent, staging, private, asset, slot, attachment, claims,
                     archived, used, sweep, lost, faults>>
  BY DEF StartClaim
<1>2. new \in Handler
  BY DEF Handler, PCs
<1>3. new.pc = "claim" /\ new.upload = u /\ new.past = {}
  OBVIOUS
<1> HIDE DEF new
<1>4. request' \in [Requests -> Handler] /\ request'[r] = new
      /\ \A q \in Requests \ {r} : request'[q] = request[q]
  BY <1>1, <1>2 DEF IndInv, TypeOK
<1>5. RequestOK(r)'
  BY <1>3, <1>4 DEF RequestOK, Completing, At
<1>6. TypeOK'
  BY <1>1, <1>4 DEF IndInv, TypeOK
<1>7. LedgerIsExact'
  BY <1>1, LedgerKept DEF IndInv, Available
<1> QED
  BY <1>1, <1>4, <1>5, <1>6, <1>7, NoUploadWritten

\* The steps of a completion that write no row.
LEMMA LookingKeepsInv ==
    ASSUME IndInv, NEW r \in Requests, Inspect(r) \/ Promote(r) \/ GiveUp(r)
    PROVE  IndInv'
<1>1. /\ \/ At(r, "inspect") /\ Go(r, "promote")
         \/ At(r, "promote") /\ Go(r, "copy")
         \/ Finish(r)
      /\ UNCHANGED <<intent, staging, private, asset, slot, attachment, claims,
                     archived, used, sweep, lost, faults>>
  BY DEF Inspect, Promote, GiveUp
<1>2. TypeOK /\ RequestOK(r)
  BY DEF IndInv
<1>3. /\ request' \in [Requests -> Handler] /\ RequestOK(r)'
      /\ \A q \in Requests \ {r} : request'[q] = request[q]
  <2>1. CASE Finish(r)
    BY <1>2, <2>1, FinishFacts
  <2>2. ASSUME NEW pc \in {"promote", "copy"}, Go(r, pc), request[r].pc \in Completing
        PROVE  /\ request' \in [Requests -> Handler] /\ RequestOK(r)'
               /\ \A q \in Requests \ {r} : request'[q] = request[q]
    <3>1. /\ request' \in [Requests -> Handler]
          /\ request'[r].pc = pc /\ request'[r].upload = request[r].upload
          /\ request'[r].past = request[r].past
          /\ \A q \in Requests \ {r} : request'[q] = request[q]
      BY <1>2, <2>2, GoFacts DEF PCs
    <3>2. RequestOK(r)'
      BY <1>1, <1>2, <2>2, <3>1
         DEF RequestOK, Completing, At, Standing, Pending, Available
    <3> QED
      BY <3>1, <3>2
  <2> QED
    BY <1>1, <2>1, <2>2 DEF At, Completing
<1>4. TypeOK'
  BY <1>1, <1>3 DEF IndInv, TypeOK
<1>5. LedgerIsExact'
  BY <1>1, LedgerKept DEF IndInv, Available
<1> QED
  BY <1>1, <1>3, <1>4, <1>5, NoUploadWritten

\* The copy lands on an upload that the cleanup has not reached.
LEMMA CopyKeepsInv ==
    ASSUME IndInv, NEW r \in Requests, Copy(r) PROVE IndInv'
<1> SUFFICES ASSUME NEW u, u = request[r].upload PROVE IndInv'
  OBVIOUS
<1>1. /\ private' = private \cup {u} /\ staging' \subseteq staging
      /\ At(r, "copy") /\ Go(r, "commit")
      /\ UNCHANGED <<intent, asset, slot, attachment, claims, archived, used, sweep,
                     lost, faults>>
  BY DEF Copy
<1>2. TypeOK /\ RequestOK(r)
  BY DEF IndInv
<1>3. u \in Uploads /\ Standing(u) /\ u \notin request[r].past
      /\ IntentOK(u) /\ AssetOK(u)
  BY <1>1, <1>2 DEF RequestOK, Completing, At, IndInv
<1>4. /\ request' \in [Requests -> Handler]
      /\ request'[r].pc = "commit" /\ request'[r].upload = u
      /\ request'[r].past = request[r].past
      /\ \A q \in Requests \ {r} : request'[q] = request[q]
  BY <1>1, <1>2, GoFacts DEF PCs
<1>5. RequestOK(r)'
  BY <1>1, <1>2, <1>3, <1>4
     DEF RequestOK, Completing, At, Standing, Pending, Available
<1>6. TypeOK'
  BY <1>1, <1>3, <1>4 DEF IndInv, TypeOK
<1>7. LedgerIsExact'
  BY <1>1, LedgerKept DEF IndInv, Available
<1>8. UndisturbedAt(u) /\ IntentOK(u)' /\ AssetOK(u)'
  <2>1. u \notin sweep
    BY <1>3 DEF Standing, Pending, Available, IntentOK
  <2> QED
    BY <1>1, <1>3, <2>1 DEF UndisturbedAt, Standing, Pending, Available, IntentOK,
       AssetOK, Unused, Shown
<1>9. \A v \in Uploads \ {u} : UploadSame(v)
  BY <1>1 DEF UploadSame, Shown
<1>10. \A v \in Uploads \cap {u} : UndisturbedAt(v) /\ IntentOK(v)' /\ AssetOK(v)'
  BY <1>8
<1> QED
  BY <1>4, <1>5, <1>6, <1>7, <1>9, <1>10, StepKeeps

\* Of two completions of an upload the second one finds it completed; the first
\* one's announcement still covers what it charges.
LEMMA CommitKeepsInv ==
    ASSUME IndInv, NEW r \in Requests, Commit(r) PROVE IndInv'
<1> SUFFICES ASSUME NEW u, u = request[r].upload PROVE IndInv'
  OBVIOUS
<1> DEFINE new == [status |-> "available", old |-> FALSE, expires |-> "never"]
<1>1. /\ At(r, "commit") /\ Finish(r)
      /\ UNCHANGED <<staging, private, slot, attachment, claims, archived, sweep,
                     lost, faults>>
  BY DEF Commit
<1>2. TypeOK /\ RequestOK(r)
  BY DEF IndInv
<1>3. u \in Uploads /\ u \notin request[r].past /\ (Pending(u) => u \in private)
      /\ IntentOK(u) /\ AssetOK(u) /\ intent[u] \in Intent
  BY <1>1, <1>2 DEF RequestOK, Completing, At, IndInv, TypeOK
<1>4. /\ request' \in [Requests -> Handler] /\ RequestOK(r)'
      /\ \A q \in Requests \ {r} : request'[q] = request[q]
  BY <1>1, <1>2, FinishFacts
<1>5. CASE UNCHANGED <<asset, used, intent>>
  <2>1. TypeOK'
    BY <1>1, <1>4, <1>5 DEF IndInv, TypeOK
  <2>2. LedgerIsExact'
    BY <1>1, <1>5, LedgerKept DEF IndInv, Available
  <2> QED
    BY <1>1, <1>4, <1>5, <2>1, <2>2, NoUploadWritten
<1>6. CASE Committable(r)
  <2>1. /\ Pending(u) /\ Fits(u, request[r].past, 0)
        /\ asset' = [asset EXCEPT ![u] = new]
        /\ Charge(u, 1)
        /\ intent' = [intent EXCEPT ![u].status = "completed"]
    BY <1>6 DEF Commit, Committable
  <2>2. new \in Asset /\ new.status = "available" /\ ~new.old /\ new.expires = "never"
    BY DEF Asset
  <2> HIDE DEF new
  <2>3. /\ asset' \in [Uploads -> Asset] /\ asset'[u] = new
        /\ \A v \in Uploads \ {u} : asset'[v] = asset[v]
    BY <1>2, <1>3, <2>1, <2>2, AssetWritten
  <2>4. /\ intent' \in [Uploads -> Intent] /\ intent'[u].status = "completed"
        /\ intent'[u].expired = intent[u].expired
        /\ \A v \in Uploads \ {u} : intent'[v] = intent[v]
    BY <1>2, <1>3, <2>1, StatusWritten DEF IntentStatuses
  <2>5. used' \in [Ledgers -> Int]
    BY <1>2, <2>1, ChargeTyped
  <2>6. TypeOK'
    BY <1>1, <1>4, <2>3, <2>4, <2>5 DEF IndInv, TypeOK
  <2>7. ~Available(u) /\ Available(u)'
    BY <1>3, <2>1, <2>2, <2>3 DEF Pending, Available, IntentOK
  <2>8. \A l \in {Owner[u], System} : used[l] + 1 <= Limit[l]
    <3> SUFFICES ASSUME NEW l \in {Owner[u], System} PROVE used[l] + 1 <= Limit[l]
      OBVIOUS
    <3>1. u \in Announced(l, request[r].past)
      BY <1>3, <2>1 DEF Announced, Charges
    <3>2. Cardinality(Announced(l, request[r].past)) \in Nat \ {0}
      BY <1>2, <3>1, LedgerSetsFinite, FS_EmptySet
    <3>3. used[l] + Cardinality(Announced(l, request[r].past)) + 0 <= Limit[l]
      BY <2>1 DEF Fits, Reserved, Announced
    <3>4. l \in Ledgers
      BY <1>3, MediaAssumption DEF Ledgers
    <3>5. used[l] \in Int /\ Limit[l] \in Nat
      BY <1>2, <3>4, MediaAssumption DEF TypeOK
    <3> QED
      BY <3>2, <3>3, <3>5
  <2>9. LedgerIsExact'
    BY <1>1, <1>2, <1>3, <2>1, <2>3, <2>7, <2>8, UploadCharged DEF IndInv, Available
  <2>10. UndisturbedAt(u) /\ IntentOK(u)' /\ AssetOK(u)'
    <3>1. u \in private /\ u \notin sweep
      BY <1>3, <2>1 DEF Pending, IntentOK
    <3>2. Standing(u)' /\ ~Pending(u)'
      BY <2>2, <2>3, <2>4, <2>7 DEF Standing, Pending
    <3> QED
      BY <1>1, <1>3, <2>4, <2>7, <3>1, <3>2 DEF UndisturbedAt, IntentOK, AssetOK,
         Unused, Shown
  <2>11. \A v \in Uploads \ {u} : UploadSame(v)
    BY <1>1, <2>3, <2>4 DEF UploadSame, Shown
  <2>12. \A v \in Uploads \cap {u} : UndisturbedAt(v) /\ IntentOK(v)' /\ AssetOK(v)'
    BY <2>10
  <2> QED
    BY <1>4, <2>6, <2>9, <2>11, <2>12, StepKeeps
<1> QED
  BY <1>5, <1>6 DEF Commit

LEMMA ClaimFlashKeepsInv ==
    ASSUME IndInv, NEW r \in Requests, ClaimFlash(r) PROVE IndInv'
<1> SUFFICES ASSUME NEW u, u = request[r].upload PROVE IndInv'
  OBVIOUS
<1>1. /\ At(r, "claim") /\ Finish(r)
      /\ claims' = claims \/ claims' = [claims EXCEPT ![u] = claims[u] + 1]
      /\ UNCHANGED <<intent, staging, private, asset, slot, attachment, archived, used,
                     sweep, lost, faults>>
  BY DEF ClaimFlash
<1>2. TypeOK /\ u \in Uploads
  BY <1>1 DEF RequestOK, IndInv
<1>3. /\ request' \in [Requests -> Handler] /\ RequestOK(r)'
      /\ \A q \in Requests \ {r} : request'[q] = request[q]
  BY <1>1, <1>2, FinishFacts
<1>4. claims' \in [Uploads -> Nat]
  BY <1>1, <1>2 DEF TypeOK
<1>5. TypeOK'
  BY <1>1, <1>3, <1>4 DEF IndInv, TypeOK
<1>6. LedgerIsExact'
  BY <1>1, LedgerKept DEF IndInv, Available
<1> QED
  BY <1>1, <1>3, <1>5, <1>6, NoUploadWritten

-----------------------------------------------------------------------------
(* The client's upload and the archive *)

LEMMA PutStagingKeepsInv ==
    ASSUME IndInv, NEW u \in Uploads, PutStaging(u) PROVE IndInv'
<1>1. TypeOK'
  BY DEF PutStaging, IndInv, TypeOK
<1>2. LedgerIsExact'
  BY LedgerKept DEF PutStaging, IndInv, Available
<1> QED
  BY <1>1, <1>2, NoUploadWritten DEF PutStaging

LEMMA ArchiveKeepsInv ==
    ASSUME IndInv, NEW a \in Archives, ReserveArchive(a) \/ ReleaseArchive(a)
    PROVE  IndInv'
<1>1. UNCHANGED <<intent, staging, private, asset, slot, attachment, claims, request,
                  sweep, lost, faults>>
  BY DEF ReserveArchive, ReleaseArchive
<1>2. TypeOK /\ LedgerIsExact
  BY DEF IndInv
<1>3. archived' \subseteq Archives
  BY <1>2 DEF ReserveArchive, ReleaseArchive, TypeOK
<1>4. CASE ReserveArchive(a)
  <2>1. used' \in [Ledgers -> Int]
    BY <1>2, <1>4, ChargeTyped DEF ReserveArchive
  <2>2. LedgerIsExact'
    BY <1>1, <1>2, <1>4, FileCharged DEF ReserveArchive
  <2>3. TypeOK'
    BY <1>1, <1>2, <1>3, <2>1 DEF TypeOK
  <2> QED
    BY <1>1, <2>2, <2>3, NoUploadWritten
<1>5. CASE ReleaseArchive(a)
  <2>1. used' \in [Ledgers -> Int]
    BY <1>2, <1>5, ChargeTyped DEF ReleaseArchive
  <2>2. LedgerIsExact'
    BY <1>1, <1>2, <1>5, FileCharged DEF ReleaseArchive
  <2>3. TypeOK'
    BY <1>1, <1>2, <1>3, <2>1 DEF TypeOK
  <2> QED
    BY <1>1, <2>2, <2>3, NoUploadWritten
<1> QED
  BY <1>4, <1>5

-----------------------------------------------------------------------------
(* Steps on the rows of one upload *)

\* Steps that write the intent of an upload and no object.
LEMMA IntentStepKeepsInv ==
    ASSUME IndInv, NEW u \in Uploads, NEW i \in Intent,
           intent' = [intent EXCEPT ![u] = i],
           sweep' = sweep \/ sweep' = sweep \ {u},
           UNCHANGED <<staging, private, asset, slot, attachment, claims, archived,
                       used, request, lost, faults>>,
           ~NotCompleting(u) /\ Standing(u) => Standing(u)',
           i.status = "pending" => Pending(u) \/ intent[u].status = "absent",
           intent[u].expired => i.expired,
           i.status \in {"absent", "pending"} => ~i.mature,
           asset[u].status # "absent" => i.status = "completed",
           u \in sweep' => i.status = "cancelled" /\ i.mature,
           u \in private => Available(u) \/ i.status \in {"pending", "cancelled"}
    PROVE  IndInv'
<1>1. TypeOK /\ IntentOK(u) /\ AssetOK(u)
  BY DEF IndInv
<1>2. /\ intent' \in [Uploads -> Intent] /\ intent'[u] = i
      /\ \A v \in Uploads \ {u} : intent'[v] = intent[v]
  BY <1>1, IntentWritten
<1>3. TypeOK'
  BY <1>1, <1>2 DEF TypeOK
<1>4. LedgerIsExact'
  BY LedgerKept DEF IndInv, Available
<1>5. UndisturbedAt(u) /\ IntentOK(u)' /\ AssetOK(u)'
  BY <1>1, <1>2 DEF UndisturbedAt, Pending, IntentOK, AssetOK, Unused, Shown, Available
<1>6. \A v \in Uploads \ {u} : UploadSame(v)
  BY <1>2 DEF UploadSame, Shown
<1>7. \A v \in Uploads \cap {u} : UndisturbedAt(v) /\ IntentOK(v)' /\ AssetOK(v)'
  BY <1>5
<1> QED
  BY <1>3, <1>4, <1>6, <1>7, StepKeeps

\* intent[u] with one column changed.
WithStatus(u, s) == [intent[u] EXCEPT !.status = s]

LEMMA WithStatusFacts ==
    ASSUME TypeOK, NEW u \in Uploads, NEW s \in IntentStatuses
    PROVE  /\ WithStatus(u, s) \in Intent /\ WithStatus(u, s).status = s
           /\ WithStatus(u, s).expired = intent[u].expired
           /\ WithStatus(u, s).mature = intent[u].mature
BY DEF TypeOK, Intent, WithStatus

LEMMA CreateIntentKeepsInv ==
    ASSUME IndInv, NEW u \in Uploads, CreateIntent(u) PROVE IndInv'
<1> DEFINE i == WithStatus(u, "pending")
<1>1. /\ intent' = [intent EXCEPT ![u] = i] /\ intent[u].status = "absent"
      /\ UNCHANGED <<staging, private, asset, slot, attachment, claims, archived,
                     used, request, sweep, lost, faults>>
  BY DEF CreateIntent, WithStatus
<1>2. /\ i \in Intent /\ i.status = "pending"
      /\ i.expired = intent[u].expired /\ i.mature = intent[u].mature
  BY WithStatusFacts DEF IndInv, IntentStatuses
<1>3. IntentOK(u)
  BY DEF IndInv
<1> HIDE DEF i
<1>4. ~Standing(u) /\ u \notin sweep /\ ~i.mature /\ asset[u].status = "absent"
  BY <1>1, <1>2, <1>3 DEF Standing, Pending, Available, IntentOK
<1> QED
  BY <1>1, <1>2, <1>4, IntentStepKeepsInv

LEMMA FenceIntentKeepsInv ==
    ASSUME IndInv, NEW u \in Uploads, FenceIntent(u) PROVE IndInv'
<1> DEFINE i == WithStatus(u, "cancelled")
<1>1. /\ intent' = [intent EXCEPT ![u] = i] /\ Pending(u)
      /\ UNCHANGED <<staging, private, asset, slot, attachment, claims, archived,
                     used, request, sweep, lost, faults>>
  BY DEF FenceIntent, WithStatus
<1>2. /\ i \in Intent /\ i.status = "cancelled"
      /\ i.expired = intent[u].expired /\ i.mature = intent[u].mature
  BY WithStatusFacts DEF IndInv, IntentStatuses
<1>3. IntentOK(u)
  BY DEF IndInv
<1> HIDE DEF i
<1>4. ~i.mature /\ u \notin sweep /\ asset[u].status = "absent"
  BY <1>1, <1>2, <1>3 DEF Pending, IntentOK
<1>5. Standing(u)'
  BY <1>1, <1>2, <1>4 DEF Standing, IndInv, TypeOK
<1> QED
  BY <1>1, <1>2, <1>4, <1>5, IntentStepKeepsInv

LEMMA DeleteIntentKeepsInv ==
    ASSUME IndInv, NEW u \in Uploads, DeleteIntent(u) PROVE IndInv'
<1> DEFINE i == WithStatus(u, "gone")
<1>1. IntentOK(u) /\ u \in sweep
  BY DEF IndInv, DeleteIntent
<1>2. intent[u].status = "cancelled" /\ intent[u].mature /\ u \notin private
  BY <1>1 DEF IntentOK
<1>3. /\ intent' = [intent EXCEPT ![u] = i] /\ sweep' = sweep \ {u}
      /\ UNCHANGED <<staging, private, asset, slot, attachment, claims, archived,
                     used, request, lost, faults>>
  BY <1>2 DEF DeleteIntent, WithStatus
<1>4. /\ i \in Intent /\ i.status = "gone"
      /\ i.expired = intent[u].expired /\ i.mature = intent[u].mature
  BY WithStatusFacts DEF IndInv, IntentStatuses
<1> HIDE DEF i
<1>5. ~Standing(u) /\ asset[u].status = "absent"
  BY <1>1, <1>2 DEF Standing, Pending, Available, IntentOK
<1> QED
  BY <1>2, <1>3, <1>4, <1>5, IntentStepKeepsInv

LEMMA IntentAgesKeepsInv ==
    ASSUME IndInv, NEW u \in Uploads, IntentExpires(u) \/ GracePasses(u)
    PROVE  IndInv'
<1>1. IntentOK(u) /\ AssetOK(u) /\ TypeOK
  BY DEF IndInv
<1>2. CASE IntentExpires(u)
  <2> DEFINE i == [intent[u] EXCEPT !.expired = TRUE]
  <2>1. /\ intent' = [intent EXCEPT ![u] = i]
        /\ UNCHANGED <<staging, private, asset, slot, attachment, claims, archived,
                       used, request, sweep, lost, faults>>
    BY <1>2 DEF IntentExpires
  <2>2. /\ i \in Intent /\ i.status = intent[u].status
        /\ i.expired = TRUE /\ i.mature = intent[u].mature
    BY <1>1 DEF TypeOK, Intent
  <2> HIDE DEF i
  <2>3. Standing(u) => Standing(u)'
    BY <1>1, <2>1, <2>2 DEF Standing, Pending, Available, TypeOK
  <2> QED
    BY <1>1, <2>1, <2>2, <2>3, IntentStepKeepsInv DEF IntentOK, AssetOK, Pending
<1>3. CASE GracePasses(u)
  <2> DEFINE i == [intent[u] EXCEPT !.mature = TRUE]
  <2>1. /\ intent' = [intent EXCEPT ![u] = i]
        /\ NotCompleting(u) /\ intent[u].status = "cancelled" /\ ~intent[u].mature
        /\ UNCHANGED <<staging, private, asset, slot, attachment, claims, archived,
                       used, request, sweep, lost, faults>>
    BY <1>3 DEF GracePasses
  <2>2. /\ i \in Intent /\ i.status = intent[u].status
        /\ i.expired = intent[u].expired /\ i.mature
    BY <1>1 DEF TypeOK, Intent
  <2> HIDE DEF i
  <2> QED
    BY <1>1, <2>1, <2>2, IntentStepKeepsInv DEF IntentOK, AssetOK, Pending
<1> QED
  BY <1>2, <1>3

\* The objects of an intent that nobody can complete any more.
LEMMA DeleteArtifactsKeepsInv ==
    ASSUME IndInv, NEW u \in Uploads, DeleteArtifacts(u) PROVE IndInv'
<1>1. /\ intent[u].status = "cancelled" /\ intent[u].mature
      /\ staging' = staging \ {u} /\ private' = private \ {u}
      /\ sweep' = sweep \cup {u}
      /\ UNCHANGED <<intent, asset, slot, attachment, claims, archived, used, request,
                     lost, faults>>
  BY DEF DeleteArtifacts, Sweepable
<1>2. TypeOK /\ IntentOK(u) /\ AssetOK(u)
  BY DEF IndInv
<1>3. TypeOK'
  BY <1>1, <1>2 DEF TypeOK
<1>4. LedgerIsExact'
  BY <1>1, LedgerKept DEF IndInv, Available
<1>5. ~Pending(u) /\ ~Available(u)
  BY <1>1, <1>2 DEF Pending, Available, IntentOK
<1>6. UndisturbedAt(u) /\ IntentOK(u)' /\ AssetOK(u)'
  BY <1>1, <1>2, <1>5 DEF UndisturbedAt, Standing, Pending, IntentOK, AssetOK, Unused,
     Shown, Available
<1>7. \A v \in Uploads \ {u} : UploadSame(v)
  BY <1>1 DEF UploadSame, Shown
<1>8. \A v \in Uploads \cap {u} : UndisturbedAt(v) /\ IntentOK(v)' /\ AssetOK(v)'
  BY <1>6
<1> QED
  BY <1>1, <1>3, <1>4, <1>7, <1>8, StepKeeps

LEMMA CleanupDiesKeepsInv ==
    ASSUME IndInv, CleanupDies PROVE IndInv'
<1>1. /\ sweep' = {} /\ faults < MaxFaults /\ faults' = faults + 1
      /\ UNCHANGED <<intent, staging, private, asset, slot, attachment, claims,
                     archived, used, request, lost>>
  BY DEF CleanupDies
<1>2. TypeOK'
  BY <1>1, MediaAssumption DEF IndInv, TypeOK
<1>3. LedgerIsExact'
  BY <1>1, LedgerKept DEF IndInv, Available
<1>4. ASSUME NEW u \in Uploads PROVE UndisturbedAt(u) /\ IntentOK(u)' /\ AssetOK(u)'
  <2>1. IntentOK(u) /\ AssetOK(u)
    BY DEF IndInv
  <2> QED
    BY <1>1, <2>1 DEF UndisturbedAt, Standing, Pending, IntentOK, AssetOK, Unused,
       Shown, Available
<1> QED
  BY <1>1, <1>2, <1>3, <1>4, StepKeeps

-----------------------------------------------------------------------------
(* Uses of an asset *)

\* A step that writes expires_at, or the slots and attachments of the uploads in S.
LEMMA UseKeepsInv ==
    ASSUME IndInv, NEW S,
           asset' \in [Uploads -> Asset],
           slot' \in [Slots -> Uploads \cup {NoUpload}],
           attachment' \in [Uploads -> {"none", "sent", "revoked"}],
           UNCHANGED <<intent, staging, private, claims, archived, used, request, sweep,
                       lost, faults>>,
           \A v \in Uploads : asset'[v].status = asset[v].status,
           \A v \in Uploads \ S : /\ asset'[v] = asset[v]
                                  /\ attachment'[v] = attachment[v]
                                  /\ Shown(v)' = Shown(v),
           \A v \in Uploads \cap S :
               /\ ~NotCompleting(v) /\ Available(v) /\ ~asset[v].old
                  /\ asset[v].expires # "past"
                  => ~asset'[v].old /\ asset'[v].expires # "past"
               /\ ~Unused(v)' => Available(v)
               /\ ~(Shown(v)' /\ attachment'[v] # "none")
    PROVE  IndInv'
<1>1. \A v \in Uploads : Available(v)' = Available(v)
  BY DEF Available
<1>2. TypeOK'
  BY DEF IndInv, TypeOK
<1>3. LedgerIsExact'
  BY <1>1, LedgerKept DEF IndInv
<1>4. \A v \in Uploads \ S : UploadSame(v)
  BY DEF UploadSame
<1>5. ASSUME NEW v \in Uploads \cap S
      PROVE  UndisturbedAt(v) /\ IntentOK(v)' /\ AssetOK(v)'
  <2>1. IntentOK(v) /\ AssetOK(v)
    BY DEF IndInv
  <2>2. UndisturbedAt(v)
    BY <1>1 DEF UndisturbedAt, Standing, Pending
  <2>3. IntentOK(v)'
    BY <2>1 DEF IntentOK
  <2>4. AssetOK(v)'
    BY <1>1, <2>1 DEF AssetOK
  <2> QED
    BY <2>2, <2>3, <2>4
<1> QED
  BY <1>2, <1>3, <1>4, <1>5, StepKeeps

LEMMA ReleasedFacts ==
    ASSUME TypeOK, NEW v \in Uploads
    PROVE  /\ ReleasedAsset(v) \in Asset
           /\ ReleasedAsset(v).status = asset[v].status
           /\ ReleasedAsset(v).old = asset[v].old
           /\ asset[v].expires # "past" => ReleasedAsset(v).expires # "past"
BY DEF TypeOK, Asset, ReleasedAsset

\* asset[u] with another expires_at.
WithExpires(u, e) == [asset[u] EXCEPT !.expires = e]

LEMMA WithExpiresFacts ==
    ASSUME TypeOK, NEW u \in Uploads, NEW e \in {"never", "later", "past"}
    PROVE  /\ WithExpires(u, e) \in Asset
           /\ WithExpires(u, e).status = asset[u].status
           /\ WithExpires(u, e).old = asset[u].old
           /\ WithExpires(u, e).expires = e
BY DEF TypeOK, Asset, WithExpires

LEMMA BindKeepsInv ==
    ASSUME IndInv, NEW s \in Slots, NEW u \in Uploads, Bind(s, u) PROVE IndInv'
<1> SUFFICES ASSUME NEW w, w = slot[s] PROVE IndInv'
  OBVIOUS
<1>1. /\ Available(u) /\ attachment[u] = "none"
      /\ slot' = [slot EXCEPT ![s] = u]
      /\ UNCHANGED <<intent, staging, private, attachment, claims, archived, used,
                     request, sweep, lost, faults>>
  BY DEF Bind, Usable
<1>2. TypeOK
  BY DEF IndInv
<1>3. asset' = [v \in Uploads |-> IF v = u THEN WithExpires(v, "never")
                                  ELSE IF v = w THEN ReleasedAsset(v) ELSE asset[v]]
  BY DEF Bind, WithExpires
<1>4. /\ asset' \in [Uploads -> Asset]
      /\ \A v \in Uploads : asset'[v].status = asset[v].status
      /\ \A v \in Uploads \ {u, w} : asset'[v] = asset[v]
      /\ \A v \in {u, w} \cap Uploads :
           /\ asset'[v].old = asset[v].old
           /\ asset[v].expires # "past" => asset'[v].expires # "past"
  BY <1>2, <1>3, ReleasedFacts, WithExpiresFacts DEF TypeOK
<1>5. slot' \in [Slots -> Uploads \cup {NoUpload}]
  BY <1>1, <1>2 DEF TypeOK
<1>6. Shown(u)' /\ \A v \in Uploads \ {u} : Shown(v)' => Shown(v)
  BY <1>1, <1>2 DEF Shown, TypeOK
<1>7. \A v \in Uploads \ {u, w} : Shown(v)' = Shown(v)
  BY <1>1, <1>2 DEF Shown, TypeOK
<1>8. ASSUME NEW v \in Uploads \cap {u, w}
      PROVE  /\ ~NotCompleting(v) /\ Available(v) /\ ~asset[v].old
                /\ asset[v].expires # "past"
                => ~asset'[v].old /\ asset'[v].expires # "past"
             /\ ~Unused(v)' => Available(v)
             /\ ~(Shown(v)' /\ attachment'[v] # "none")
  <2>1. AssetOK(v)
    BY DEF IndInv
  <2> QED
    BY <1>1, <1>4, <1>6, <2>1 DEF AssetOK, Unused
<1>9. attachment' \in [Uploads -> {"none", "sent", "revoked"}]
  BY <1>1, <1>2 DEF TypeOK
<1> QED
  BY <1>1, <1>4, <1>5, <1>7, <1>8, <1>9, UseKeepsInv

LEMMA ReleaseKeepsInv ==
    ASSUME IndInv, NEW s \in Slots, Release(s) PROVE IndInv'
<1> SUFFICES ASSUME NEW w, w = slot[s] PROVE IndInv'
  OBVIOUS
<1>1. /\ w # NoUpload
      /\ slot' = [slot EXCEPT ![s] = NoUpload]
      /\ asset' = [asset EXCEPT ![w] = ReleasedAsset(w)]
      /\ UNCHANGED <<intent, staging, private, attachment, claims, archived, used,
                     request, sweep, lost, faults>>
  BY DEF Release
<1>2. TypeOK /\ w \in Uploads
  BY <1>1 DEF IndInv, TypeOK
<1>3. /\ asset' \in [Uploads -> Asset] /\ asset'[w] = ReleasedAsset(w)
      /\ \A v \in Uploads \ {w} : asset'[v] = asset[v]
  BY <1>1, <1>2, ReleasedFacts, AssetWritten
<1>4. slot' \in [Slots -> Uploads \cup {NoUpload}]
  BY <1>1, <1>2 DEF TypeOK
<1>5. \A v \in Uploads : Shown(v)' => Shown(v)
  BY <1>1, <1>2, MediaAssumption DEF Shown, TypeOK
<1>6. \A v \in Uploads \ {w} : Shown(v)' = Shown(v)
  BY <1>1, <1>2, MediaAssumption DEF Shown, TypeOK
<1>7. \A v \in Uploads : asset'[v].status = asset[v].status
  BY <1>2, <1>3, ReleasedFacts
<1>8. ASSUME NEW v \in Uploads \cap {w}
      PROVE  /\ ~NotCompleting(v) /\ Available(v) /\ ~asset[v].old
                /\ asset[v].expires # "past"
                => ~asset'[v].old /\ asset'[v].expires # "past"
             /\ ~Unused(v)' => Available(v)
             /\ ~(Shown(v)' /\ attachment'[v] # "none")
  <2>1. AssetOK(v)
    BY DEF IndInv
  <2> QED
    BY <1>1, <1>2, <1>3, <1>5, <2>1, ReleasedFacts DEF AssetOK, Unused
<1>9. attachment' \in [Uploads -> {"none", "sent", "revoked"}]
  BY <1>1, <1>2 DEF TypeOK
<1> QED
  BY <1>1, <1>3, <1>4, <1>6, <1>7, <1>8, <1>9, UseKeepsInv

LEMMA AttachKeepsInv ==
    ASSUME IndInv, NEW u \in Uploads, Attach(u) PROVE IndInv'
<1> DEFINE a == WithExpires(u, "later")
<1>1. /\ Available(u) /\ ~Shown(u)
      /\ asset' = [asset EXCEPT ![u] = a]
      /\ attachment' = [attachment EXCEPT ![u] = "sent"]
      /\ UNCHANGED <<intent, staging, private, slot, claims, archived, used, request,
                     sweep, lost, faults>>
  BY DEF Attach, Attachable, Usable, WithExpires
<1>2. /\ TypeOK /\ a \in Asset /\ a.status = asset[u].status /\ a.old = asset[u].old
      /\ a.expires = "later"
  BY WithExpiresFacts DEF IndInv
<1> HIDE DEF a
<1>3. /\ asset' \in [Uploads -> Asset] /\ asset'[u] = a
      /\ \A v \in Uploads \ {u} : asset'[v] = asset[v]
  BY <1>1, <1>2, AssetWritten
<1>4. /\ attachment' \in [Uploads -> {"none", "sent", "revoked"}]
      /\ \A v \in Uploads \ {u} : attachment'[v] = attachment[v]
      /\ slot' \in [Slots -> Uploads \cup {NoUpload}]
  BY <1>1, <1>2 DEF TypeOK
<1>5. \A v \in Uploads : Shown(v)' = Shown(v)
  BY <1>1 DEF Shown
<1>6. \A v \in Uploads \ {u} : /\ asset'[v] = asset[v]
                                  /\ attachment'[v] = attachment[v]
                                  /\ Shown(v)' = Shown(v)
  BY <1>3, <1>4, <1>5
<1>7. ASSUME NEW v \in Uploads \cap {u}
      PROVE  /\ ~NotCompleting(v) /\ Available(v) /\ ~asset[v].old
                /\ asset[v].expires # "past"
                => ~asset'[v].old /\ asset'[v].expires # "past"
             /\ ~Unused(v)' => Available(v)
             /\ ~(Shown(v)' /\ attachment'[v] # "none")
  BY <1>1, <1>2, <1>3, <1>5
<1>8. \A v \in Uploads : asset'[v].status = asset[v].status
  BY <1>2, <1>3
<1> QED
  BY <1>1, <1>3, <1>4, <1>6, <1>7, <1>8, UseKeepsInv

LEMMA DetachKeepsInv ==
    ASSUME IndInv, NEW u \in Uploads, Revoke(u) \/ PurgeMessage(u) PROVE IndInv'
<1>1. /\ attachment[u] # "none"
      /\ \E a \in {"none", "revoked"} : attachment' = [attachment EXCEPT ![u] = a]
      /\ UNCHANGED <<intent, staging, private, asset, slot, claims, archived, used,
                     request, sweep, lost, faults>>
  BY DEF Revoke, PurgeMessage
<1>2. TypeOK /\ AssetOK(u)
  BY DEF IndInv
<1>3. /\ attachment' \in [Uploads -> {"none", "sent", "revoked"}]
      /\ \A v \in Uploads \ {u} : attachment'[v] = attachment[v]
      /\ slot' \in [Slots -> Uploads \cup {NoUpload}]
      /\ asset' \in [Uploads -> Asset]
  BY <1>1, <1>2 DEF TypeOK
<1>4. \A v \in Uploads : Shown(v)' = Shown(v)
  BY <1>1 DEF Shown
<1>5. Available(u) /\ ~Shown(u)
  BY <1>1, <1>2 DEF AssetOK, Unused
<1>6. \A v \in Uploads \ {u} : /\ asset'[v] = asset[v]
                                  /\ attachment'[v] = attachment[v]
                                  /\ Shown(v)' = Shown(v)
  BY <1>1, <1>3, <1>4
<1>7. ASSUME NEW v \in Uploads \cap {u}
      PROVE  /\ ~NotCompleting(v) /\ Available(v) /\ ~asset[v].old
                /\ asset[v].expires # "past"
                => ~asset'[v].old /\ asset'[v].expires # "past"
             /\ ~Unused(v)' => Available(v)
             /\ ~(Shown(v)' /\ attachment'[v] # "none")
  BY <1>1, <1>4, <1>5
<1>8. \A v \in Uploads : asset'[v].status = asset[v].status
  BY <1>1
<1> QED
  BY <1>1, <1>3, <1>6, <1>7, <1>8, UseKeepsInv

LEMMA AssetAgesKeepsInv ==
    ASSUME IndInv, NEW u \in Uploads, AssetAges(u) \/ AssetExpires(u) PROVE IndInv'
<1>1. /\ Available(u) /\ NotCompleting(u)
      /\ UNCHANGED <<intent, staging, private, slot, attachment, claims, archived, used,
                     request, sweep, lost, faults>>
  BY DEF AssetAges, AssetExpires
<1>2. TypeOK /\ AssetOK(u)
  BY DEF IndInv
<1>3. /\ asset' \in [Uploads -> Asset] /\ asset'[u].status = asset[u].status
      /\ \A v \in Uploads \ {u} : asset'[v] = asset[v]
  <2>1. CASE AssetAges(u)
    <3> DEFINE a == [asset[u] EXCEPT !.old = TRUE]
    <3>1. asset' = [asset EXCEPT ![u] = a]
      BY <2>1 DEF AssetAges
    <3>2. a \in Asset /\ a.status = asset[u].status
      BY <1>2 DEF TypeOK, Asset
    <3> HIDE DEF a
    <3> QED
      BY <1>2, <3>1, <3>2, AssetWritten
  <2>2. CASE AssetExpires(u)
    <3> DEFINE a == WithExpires(u, "past")
    <3>1. asset' = [asset EXCEPT ![u] = a]
      BY <2>2 DEF AssetExpires, WithExpires
    <3>2. a \in Asset /\ a.status = asset[u].status
      BY <1>2, WithExpiresFacts
    <3> HIDE DEF a
    <3> QED
      BY <1>2, <3>1, <3>2, AssetWritten
  <2> QED
    BY <2>1, <2>2
<1>4. /\ attachment' \in [Uploads -> {"none", "sent", "revoked"}]
      /\ slot' \in [Slots -> Uploads \cup {NoUpload}]
  BY <1>1, <1>2 DEF TypeOK
<1>5. \A v \in Uploads : Shown(v)' = Shown(v) /\ attachment'[v] = attachment[v]
  BY <1>1 DEF Shown
<1>6. \A v \in Uploads : asset'[v].status = asset[v].status
  BY <1>3
<1>7. ~(Shown(u)' /\ attachment'[u] # "none")
  BY <1>2, <1>5 DEF AssetOK
<1>8. \A v \in Uploads \ {u} : /\ asset'[v] = asset[v]
                                  /\ attachment'[v] = attachment[v]
                                  /\ Shown(v)' = Shown(v)
  BY <1>3, <1>5
<1>9. ASSUME NEW v \in Uploads \cap {u}
      PROVE  /\ ~NotCompleting(v) /\ Available(v) /\ ~asset[v].old
                /\ asset[v].expires # "past"
                => ~asset'[v].old /\ asset'[v].expires # "past"
             /\ ~Unused(v)' => Available(v)
             /\ ~(Shown(v)' /\ attachment'[v] # "none")
  BY <1>1, <1>7
<1> QED
  BY <1>1, <1>3, <1>4, <1>6, <1>8, <1>9, UseKeepsInv

-----------------------------------------------------------------------------
(* The deletion of an asset *)

\* Nobody is completing an upload whose asset may be deleted.
LEMMA DeleteAssetKeepsInv ==
    ASSUME IndInv, NEW u \in Uploads, DeleteAsset(u) PROVE IndInv'
<1> DEFINE a == [asset[u] EXCEPT !.status = "deleted"]
<1>1. /\ Available(u) /\ Eligible(u) /\ Unused(u)
      /\ private' = private \ {u}
      /\ asset' = [asset EXCEPT ![u] = a]
      /\ Charge(u, -1)
      /\ UNCHANGED <<intent, staging, slot, attachment, claims, archived, request,
                     sweep, lost, faults>>
  BY DEF DeleteAsset, Deletable
<1>2. TypeOK /\ IntentOK(u) /\ AssetOK(u)
  BY DEF IndInv
<1>3. a \in Asset /\ a.status = "deleted"
  BY <1>2 DEF TypeOK, Asset
<1> HIDE DEF a
<1>4. /\ asset' \in [Uploads -> Asset] /\ asset'[u] = a
      /\ \A v \in Uploads \ {u} : asset'[v] = asset[v]
  BY <1>1, <1>2, <1>3, AssetWritten
<1>5. used' \in [Ledgers -> Int]
  BY <1>1, <1>2, ChargeTyped
<1>6. TypeOK'
  BY <1>1, <1>2, <1>4, <1>5 DEF TypeOK
<1>7. ~Available(u)' /\ \A v \in Uploads \ {u} : Available(v)' = Available(v)
  BY <1>3, <1>4 DEF Available
<1>8. LedgerIsExact'
  BY <1>1, <1>2, <1>7, UploadReleased DEF IndInv
<1>9. UndisturbedAt(u)
  <2>1. intent[u].status = "completed"
    BY <1>1, <1>2 DEF Available, IntentOK
  <2>2. ~Standing(u)
    BY <1>1, <2>1 DEF Standing, Pending, Eligible
  <2> QED
    BY <1>1, <2>1, <2>2 DEF UndisturbedAt, Pending
<1>10. IntentOK(u)' /\ AssetOK(u)'
  <2>1. Unused(u)'
    BY <1>1 DEF Unused, Shown
  <2> QED
    BY <1>1, <1>2, <1>4, <1>7, <2>1 DEF IntentOK, AssetOK, Unused, Available
<1>11. \A v \in Uploads \ {u} : UploadSame(v)
  BY <1>1, <1>4 DEF UploadSame, Shown
<1>12. \A v \in Uploads \cap {u} : UndisturbedAt(v) /\ IntentOK(v)' /\ AssetOK(v)'
  BY <1>9, <1>10
<1> QED
  BY <1>1, <1>6, <1>8, <1>11, <1>12, StepKeeps

LEMMA LoseDeleteKeepsInv ==
    ASSUME IndInv, NEW u \in Uploads, LoseDelete(u) PROVE IndInv'
<1>1. /\ Available(u) /\ faults < MaxFaults
      /\ private' = private \ {u} /\ lost' = lost \cup {u} /\ faults' = faults + 1
      /\ UNCHANGED <<intent, staging, asset, slot, attachment, claims, archived, used,
                     request, sweep>>
  BY DEF LoseDelete, Deletable
<1>2. TypeOK /\ IntentOK(u) /\ AssetOK(u)
  BY DEF IndInv
<1>3. TypeOK'
  BY <1>1, <1>2, MediaAssumption DEF TypeOK
<1>4. LedgerIsExact'
  BY <1>1, LedgerKept DEF IndInv, Available
<1>5. intent[u].status = "completed"
  BY <1>1, <1>2 DEF Available, IntentOK
<1>6. UndisturbedAt(u) /\ IntentOK(u)' /\ AssetOK(u)'
  BY <1>1, <1>2, <1>5 DEF UndisturbedAt, Standing, Pending, IntentOK, AssetOK, Unused,
     Shown, Available
<1>7. \A v \in Uploads \ {u} : UploadSame(v)
  BY <1>1 DEF UploadSame, Shown
<1>8. \A v \in Uploads \cap {u} : UndisturbedAt(v) /\ IntentOK(v)' /\ AssetOK(v)'
  BY <1>6
<1> QED
  BY <1>1, <1>3, <1>4, <1>7, <1>8, StepKeeps

-----------------------------------------------------------------------------
(* The theorems *)

LEMMA InitInv == Init => IndInv
<1> SUFFICES ASSUME Init PROVE IndInv
  OBVIOUS
<1>1. TypeOK
  BY MediaAssumption DEF Init, TypeOK, Intent, IntentStatuses, Asset, Handler, Idle, PCs
<1>2. \A l \in Ledgers : Counted(l) = {} /\ Filed(l) = {}
  BY DEF Init, Counted, Filed, Available
<1>3. LedgerIsExact
  <2> SUFFICES ASSUME NEW l \in Ledgers
               PROVE  /\ used[l] = Cardinality(Counted(l)) + Cardinality(Filed(l))
                      /\ used[l] <= Limit[l]
    BY DEF LedgerIsExact, Counted, Filed
  <2>1. used[l] = 0 /\ Limit[l] \in Nat
    BY MediaAssumption DEF Init
  <2>2. Cardinality(Counted(l)) = 0 /\ Cardinality(Filed(l)) = 0
    BY <1>2, FS_EmptySet
  <2> QED
    BY <2>1, <2>2
<1>4. \A r \in Requests : RequestOK(r)
  BY DEF Init, RequestOK, Idle, Completing, At
<1>5. \A u \in Uploads : IntentOK(u) /\ AssetOK(u)
  BY MediaAssumption DEF Init, IntentOK, AssetOK, Unused, Shown, Available
<1> QED
  BY <1>1, <1>3, <1>4, <1>5 DEF IndInv

LEMMA StepKeepsInv == IndInv /\ [Next]_vars => IndInv'
<1> SUFFICES ASSUME IndInv, [Next]_vars PROVE IndInv'
  OBVIOUS
<1>1. ASSUME NEW r \in Requests, Complete(r) \/ ClaimFlash(r) \/ GiveUp(r)
      PROVE  IndInv'
  BY <1>1, LookingKeepsInv, CopyKeepsInv, CommitKeepsInv, ClaimFlashKeepsInv
     DEF Complete
<1>2. ASSUME NEW u \in Uploads, TimePasses(u) \/ Cleanup(u) \/ LoseDelete(u)
      PROVE  IndInv'
  BY <1>2, IntentAgesKeepsInv, AssetAgesKeepsInv, FenceIntentKeepsInv,
     DeleteArtifactsKeepsInv, DeleteIntentKeepsInv, DeleteAssetKeepsInv,
     DetachKeepsInv, LoseDeleteKeepsInv DEF TimePasses, Cleanup
<1>3. CASE UNCHANGED vars
  <2>1. TypeOK'
    BY <1>3 DEF vars, IndInv, TypeOK
  <2>2. LedgerIsExact'
    BY <1>3, LedgerKept DEF vars, IndInv, Available
  <2> QED
    BY <1>3, <2>1, <2>2, NoUploadWritten DEF vars
<1> QED
  BY <1>1, <1>2, <1>3, CreateIntentKeepsInv, PutStagingKeepsInv,
     StartCompletionKeepsInv, StartClaimKeepsInv, BindKeepsInv, ReleaseKeepsInv,
     AttachKeepsInv, DetachKeepsInv, ArchiveKeepsInv, CleanupDiesKeepsInv DEF Next

\* The inductive invariant: types and ledgers, completions that no cleanup has
\* reached, and rows and objects that agree.
THEOREM Invariant == Spec => []IndInv
BY InitInv, StepKeepsInv, PTL DEF Spec

\* Every variable has its type in every reachable state.
THEOREM TypeCorrect == Spec => []TypeOK
<1>1. IndInv => TypeOK
  BY DEF IndInv
<1> QED
  BY <1>1, Invariant, PTL

\* used_bytes of every ledger is what available assets and archived files take,
\* and never more than the quota, however completions, cleanup, archive and
\* faults interleave.
THEOREM LedgersAreExact == Spec => []LedgerIsExact
<1>1. IndInv => LedgerIsExact
  BY DEF IndInv
<1> QED
  BY <1>1, Invariant, PTL

\* No private object is orphaned: a row leads to each, also to the copy of a
\* completion that ends after the cleanup has begun.
THEOREM ObjectsAreListed == Spec => []NoObjectIsForgotten
<1>1. IndInv => NoObjectIsForgotten
  BY DEF IndInv, TypeOK, AssetOK, NoObjectIsForgotten
<1> QED
  BY <1>1, Invariant, PTL

\* What a slot shows or a message carries has its object and no second use, unless
\* the commit of its deletion was lost.
THEOREM UsedAssetsHaveObjects == Spec => []UsedHasObject
<1>1. IndInv => UsedHasObject
  BY DEF IndInv, AssetOK, UsedHasObject
<1> QED
  BY <1>1, Invariant, PTL

-----------------------------------------------------------------------------
(* Reservations *)

Overdue == {u \in Uploads : intent[u].expired}

\* A step that announces nothing and charges nothing promises no more.
LEMMA NothingPromised ==
    ASSUME TypeOK, TypeOK', NEW l \in Ledgers, used'[l] <= used[l],
           \A u \in Uploads : Pending(u)' => Pending(u),
           \A u \in Uploads : intent[u].expired => intent'[u].expired
    PROVE  Promised(l)' <= Promised(l)
<1>1. Announced(l, Overdue)' \subseteq Announced(l, Overdue)
  BY DEF Announced, Overdue, Charges
<1>2. /\ IsFiniteSet(Announced(l, Overdue))
      /\ Cardinality(Announced(l, Overdue)) \in Nat
      /\ Cardinality(Announced(l, Overdue)') <= Cardinality(Announced(l, Overdue))
      /\ Cardinality(Announced(l, Overdue)') \in Nat
  BY <1>1, LedgerSetsFinite, FS_Subset, FS_CardinalityType
<1>3. used[l] \in Int /\ used'[l] \in Int
  BY DEF TypeOK
<1> QED
  BY <1>2, <1>3 DEF Promised, Reserved, Announced, Overdue

LEMMA AnnouncedFits ==
    ASSUME IndInv, NEW u \in Uploads, CreateIntent(u), NEW l \in Ledgers,
           Promised(l)' > Promised(l)
    PROVE  Promised(l)' <= Limit[l]
<1>1. TypeOK /\ IntentOK(u)
  BY DEF IndInv
<1>2. /\ \A v \in Uploads \ {u} : Pending(v)' = Pending(v)
      /\ \A v \in Uploads : intent'[v].expired = intent[v].expired
      /\ used' = used
  BY <1>1, StatusWritten DEF CreateIntent, Pending, IntentStatuses
<1>3. Announced(l, Overdue)' \subseteq Announced(l, Overdue) \cup {u}
  BY <1>2 DEF Announced, Overdue, Charges
<1>4. /\ IsFiniteSet(Announced(l, Overdue))
      /\ Cardinality(Announced(l, Overdue)) \in Nat
  BY <1>1, LedgerSetsFinite
<1>5. used[l] \in Int /\ Limit[l] \in Nat
  BY <1>1, MediaAssumption DEF TypeOK
<1>6. CASE Charges(l, u)
  <2>1. u \notin Announced(l, Overdue)
    BY DEF Announced, Pending, CreateIntent
  <2>2. /\ IsFiniteSet(Announced(l, Overdue) \cup {u})
        /\ Cardinality(Announced(l, Overdue) \cup {u})
             = Cardinality(Announced(l, Overdue)) + 1
    BY <1>4, <2>1, FS_AddElement
  <2>3. /\ Cardinality(Announced(l, Overdue)') <= Cardinality(Announced(l, Overdue)) + 1
        /\ Cardinality(Announced(l, Overdue)') \in Nat
    BY <1>3, <2>2, FS_Subset, FS_CardinalityType
  <2>4. l \in {Owner[u], System}
    BY <1>6 DEF Charges
  <2>5. used[l] + Cardinality(Announced(l, Overdue)) + 1 <= Limit[l]
    BY <2>4 DEF CreateIntent, Fits, Reserved, Announced, Overdue
  <2> QED
    BY <1>2, <1>4, <1>5, <2>3, <2>5 DEF Promised, Reserved, Announced, Overdue
<1>7. CASE ~Charges(l, u)
  <2>1. Announced(l, Overdue)' = Announced(l, Overdue)
    BY <1>2, <1>7 DEF Announced, Overdue, Charges
  <2> QED
    BY <1>2, <1>4, <1>5, <2>1 DEF Promised, Reserved, Announced, Overdue
<1> QED
  BY <1>6, <1>7

\* The check at the commit counts the upload itself among what is announced, even
\* when its intent has expired since the request read the clock.
LEMMA CommitFits ==
    ASSUME IndInv, NEW r \in Requests, Commit(r), NEW l \in Ledgers,
           Promised(l)' > Promised(l)
    PROVE  Promised(l)' <= Limit[l]
<1> SUFFICES ASSUME NEW u, u = request[r].upload, NEW past, past = request[r].past
             PROVE  Promised(l)' <= Limit[l]
  OBVIOUS
<1>1. TypeOK /\ RequestOK(r)
  BY DEF IndInv
<1>2. u \in Uploads /\ u \notin past /\ past \subseteq Overdue
  <2>1. request[r] \in Handler
    BY <1>1 DEF TypeOK
  <2> QED
    BY <1>1, <2>1 DEF Commit, RequestOK, Completing, At, Overdue, Handler
<1>3. used[l] \in Int /\ Limit[l] \in Nat
  BY <1>1, MediaAssumption DEF TypeOK
<1>4. /\ IsFiniteSet(Announced(l, Overdue))
      /\ Cardinality(Announced(l, Overdue)) \in Nat
      /\ IsFiniteSet(Announced(l, past)) /\ Cardinality(Announced(l, past)) \in Nat
  BY <1>1, LedgerSetsFinite
<1>5. CASE UNCHANGED <<asset, used, intent>>
  <2>1. Promised(l)' = Promised(l)
    BY <1>5 DEF Promised, Reserved, Pending, Charges
  <2> QED
    BY <1>3, <1>4, <2>1 DEF Promised, Reserved, Announced, Overdue
<1>6. CASE Committable(r)
  <2>1. /\ Pending(u) /\ Fits(u, past, 0) /\ Charge(u, 1)
        /\ intent' = [intent EXCEPT ![u].status = "completed"]
    BY <1>6 DEF Commit, Committable
  <2>2. /\ intent'[u].status = "completed"
        /\ \A v \in Uploads \ {u} : Pending(v)' = Pending(v)
        /\ \A v \in Uploads : intent'[v].expired = intent[v].expired
    BY <1>1, <1>2, <2>1, StatusWritten DEF IntentStatuses, Pending
  <2>3. Announced(l, Overdue)' = Announced(l, Overdue) \ {u}
    BY <2>2 DEF Announced, Overdue, Charges, Pending
  <2>4. CASE ~Charges(l, u)
    <3>1. u \notin Announced(l, Overdue)
      BY <2>4 DEF Announced
    <3>2. Announced(l, Overdue)' = Announced(l, Overdue)
      BY <2>3, <3>1
    <3>3. used'[l] = used[l]
      BY <2>1, <2>4 DEF Charge
    <3>4. /\ Promised(l)' = used'[l] + Cardinality(Announced(l, Overdue)')
          /\ Promised(l) = used[l] + Cardinality(Announced(l, Overdue))
      BY DEF Promised, Reserved, Announced, Overdue
    <3>5. Promised(l)' = Promised(l)
      BY <3>2, <3>3, <3>4
    <3>6. Promised(l) \in Int
      BY <1>3, <1>4, <3>4
    <3> QED
      BY <1>3, <3>5, <3>6
  <2>5. CASE Charges(l, u)
    <3>1. used'[l] = used[l] + 1
      BY <2>1, <2>5 DEF Charge
    <3>2. u \in Announced(l, past)
      BY <1>2, <2>1, <2>5 DEF Announced
    <3>3. Announced(l, Overdue)' \subseteq Announced(l, past) \ {u}
      BY <1>2, <2>3 DEF Announced
    <3>4. Cardinality(Announced(l, past) \ {u}) = Cardinality(Announced(l, past)) - 1
          /\ IsFiniteSet(Announced(l, past) \ {u})
      BY <1>4, <3>2, FS_RemoveElement
    <3>5. /\ Cardinality(Announced(l, Overdue)') <= Cardinality(Announced(l, past)) - 1
          /\ Cardinality(Announced(l, Overdue)') \in Nat
      BY <3>3, <3>4, FS_Subset, FS_CardinalityType
    <3>6. used[l] + Cardinality(Announced(l, past)) + 0 <= Limit[l]
      BY <2>1, <2>5 DEF Fits, Charges, Reserved, Announced
    <3> QED
      BY <1>3, <1>4, <3>1, <3>5, <3>6 DEF Promised, Reserved, Announced, Overdue
  <2> QED
    BY <2>4, <2>5
<1> QED
  BY <1>5, <1>6 DEF Commit

LEMMA OthersPromiseNothing ==
    ASSUME IndInv, IndInv', Next, NEW l \in Ledgers, archived' = archived,
           \A u \in Uploads : ~CreateIntent(u), \A r \in Requests : ~Commit(r)
    PROVE  Promised(l)' <= Promised(l)
<1>1. TypeOK /\ TypeOK'
  BY DEF IndInv
<1>2. used[l] \in Int
  BY <1>1 DEF TypeOK
<1>3. CASE used' = used /\ intent' = intent
  BY <1>1, <1>2, <1>3, NothingPromised DEF Pending
<1>4. ASSUME NEW u \in Uploads, FenceIntent(u) \/ DeleteIntent(u)
      PROVE  Promised(l)' <= Promised(l)
  <2>1. used' = used /\ \E s \in {"cancelled", "gone", intent[u].status} :
            intent' = [intent EXCEPT ![u].status = s]
    BY <1>4 DEF FenceIntent, DeleteIntent
  <2>2. PICK s \in {"cancelled", "gone", intent[u].status} :
            intent' = [intent EXCEPT ![u].status = s]
    BY <2>1
  <2>3. s \in IntentStatuses
    BY <1>1 DEF TypeOK, Intent, IntentStatuses
  <2>4. /\ intent'[u].status = s /\ intent'[u].expired = intent[u].expired
        /\ \A v \in Uploads \ {u} : intent'[v] = intent[v]
    BY <1>1, <2>2, <2>3, StatusWritten
  <2> QED
    BY <1>1, <1>2, <2>1, <2>4, NothingPromised DEF Pending
<1>5. ASSUME NEW u \in Uploads, IntentExpires(u) \/ GracePasses(u)
      PROVE  Promised(l)' <= Promised(l)
  <2>1. /\ intent'[u].status = intent[u].status
        /\ intent[u].expired => intent'[u].expired
        /\ \A v \in Uploads \ {u} : intent'[v] = intent[v]
        /\ used' = used
    BY <1>1, <1>5 DEF IntentExpires, GracePasses, TypeOK, Intent
  <2> QED
    BY <1>1, <1>2, <2>1, NothingPromised DEF Pending
<1>6. ASSUME NEW u \in Uploads, DeleteAsset(u) PROVE Promised(l)' <= Promised(l)
  <2>1. used'[l] <= used[l] /\ intent' = intent
    BY <1>2, <1>6 DEF DeleteAsset, Charge
  <2> QED
    BY <1>1, <2>1, NothingPromised DEF Pending
<1>7. ASSUME NEW a \in Archives PROVE ~ReserveArchive(a) /\ ~ReleaseArchive(a)
  BY DEF ReserveArchive, ReleaseArchive
<1> QED
  BY <1>3, <1>4, <1>5, <1>6, <1>7 DEF Next, Complete, Cleanup, TimePasses, PutStaging,
     StartCompletion, StartClaim, Inspect, Promote, Copy, ClaimFlash, GiveUp, Bind,
     Release, Attach, Revoke, DeleteArtifacts, PurgeMessage, AssetAges, AssetExpires,
     LoseDelete, CleanupDies

\* What is used and announced together grows only within the quota, in whatever
\* order uploads are announced, expire, and are completed.
THEOREM ReservationsHold == Spec => ReservationsFit
<1>1. IndInv /\ IndInv' /\ [Next]_vars =>
        [archived' = archived =>
           \A l \in Ledgers : Promised(l)' > Promised(l) => Promised(l)' <= Limit[l]]_vars
  <2> SUFFICES ASSUME IndInv, IndInv', Next, archived' = archived, NEW l \in Ledgers,
                      Promised(l)' > Promised(l)
               PROVE  Promised(l)' <= Limit[l]
    OBVIOUS
  <2>1. Promised(l) \in Int /\ Promised(l)' \in Int
    <3>1. /\ Promised(l) = used[l] + Cardinality(Announced(l, Overdue))
          /\ Promised(l)' = used'[l] + Cardinality(Announced(l, Overdue)')
      BY DEF Promised, Reserved, Announced, Overdue
    <3>2. Cardinality(Announced(l, Overdue)) \in Nat
      BY LedgerSetsFinite DEF IndInv
    <3>3. Announced(l, Overdue)' \subseteq Uploads
      BY DEF Announced
    <3>4. Cardinality(Announced(l, Overdue)') \in Nat
      BY <3>3, MediaAssumption, FS_Subset, FS_CardinalityType
    <3> QED
      BY <3>1, <3>2, <3>4 DEF IndInv, TypeOK
  <2> QED
    BY <2>1, OthersPromiseNothing, AnnouncedFits, CommitFits
<1> QED
  BY <1>1, Invariant, StepKeepsInv, PTL DEF Spec, ReservationsFit

-----------------------------------------------------------------------------
(* One-time pictures *)

\* Only the step under the lock of the attachment hands a picture out.
LEMMA ClaimsStay ==
    ASSUME Next, ~\E r \in Requests : ClaimFlash(r)
    PROVE  claims' = claims
<1>1. ASSUME NEW u \in Uploads, TimePasses(u) \/ Cleanup(u) \/ LoseDelete(u)
      PROVE  claims' = claims
  BY <1>1 DEF TimePasses, Cleanup, LoseDelete, IntentExpires, GracePasses, AssetAges,
     AssetExpires, FenceIntent, DeleteArtifacts, DeleteIntent, DeleteAsset, PurgeMessage
<1>2. ASSUME NEW r \in Requests, Complete(r) \/ GiveUp(r)
      PROVE  claims' = claims
  BY <1>2 DEF Complete, Inspect, Promote, Copy, Commit, GiveUp
<1>3. ASSUME NEW u \in Uploads, CreateIntent(u) \/ PutStaging(u) \/ Attach(u) \/ Revoke(u)
      PROVE  claims' = claims
  BY <1>3 DEF CreateIntent, PutStaging, Attach, Revoke
<1>4. ASSUME NEW r \in Requests, NEW u \in Uploads,
             StartCompletion(r, u) \/ StartClaim(r, u)
      PROVE  claims' = claims
  BY <1>4 DEF StartCompletion, StartClaim
<1>5. ASSUME NEW s \in Slots, Release(s) \/ \E u \in Uploads : Bind(s, u)
      PROVE  claims' = claims
  BY <1>5 DEF Release, Bind
<1>6. ASSUME NEW a \in Archives, ReserveArchive(a) \/ ReleaseArchive(a)
      PROVE  claims' = claims
  BY <1>6 DEF ReserveArchive, ReleaseArchive
<1> QED
  BY <1>1, <1>2, <1>3, <1>4, <1>5, <1>6 DEF Next, CleanupDies

\* A one-time picture is handed out once and never after the sender took it back,
\* whatever devices had passed the checks of the service before the lock.
THEOREM PicturesAreShownOnce == Spec => ShownOnce
<1>1. IndInv /\ [Next]_vars =>
        [\A u \in Uploads : claims'[u] # claims[u] =>
           claims'[u] = 1 /\ attachment[u] = "sent"]_vars
  <2> SUFFICES ASSUME IndInv, Next, NEW u \in Uploads, claims'[u] # claims[u]
               PROVE  claims'[u] = 1 /\ attachment[u] = "sent"
    OBVIOUS
  <2>1. PICK r \in Requests : ClaimFlash(r)
    BY ClaimsStay
  <2> DEFINE v == request[r].upload
  <2>2. /\ claims \in [Uploads -> Nat]
        /\ claims' = IF Claimable(v) THEN [claims EXCEPT ![v] = claims[v] + 1] ELSE claims
    BY <2>1 DEF ClaimFlash, IndInv, TypeOK
  <2> HIDE DEF v
  <2>3. Claimable(v) /\ u = v
    BY <2>2
  <2> QED
    BY <2>2, <2>3 DEF Claimable
<1> QED
  BY <1>1, Invariant, PTL DEF Spec, ShownOnce

=============================================================================
