-------------------------- MODULE SocialRelations --------------------------
(***************************************************************************)
(* Follows, friendships, friend requests and blocks between accounts.      *)
(*                                                                         *)
(* Rows written by this server are authoritative.  Rows imported from the  *)
(* provider the accounts came from count only while there is no local row  *)
(* for the same edge, and may be imported again at any time.  Every        *)
(* operation runs in one transaction that first locks both users in the    *)
(* order of their ids and then claims its operation_id; an operation that  *)
(* raises rolls its claim back.                                            *)
(***************************************************************************)
EXTENDS Integers

CONSTANTS
    Users,
    Retried,    \* <<user, operation_id>>: the ids a client may send again
    NewId,      \* stands for every operation_id that is sent once
    Imported    \* legacy rows the provider may report

Pairs == {p \in Users \X Users : p[1] # p[2]}
EdgeKinds == {"follow", "friend", "blacklist"}
\* A request row of the requester is direct, one of the target is its mirror.
LegacyKinds == EdgeKinds \cup {"follower", "blacklisted_by", "request", "mirror"}
Rows(kinds) == {<<p[1], p[2], k>> : p \in Pairs, k \in kinds}
LocalRows == Rows(EdgeKinds)
LegacyRows == Rows(LegacyKinds)

ASSUME ConstantsAssumption ==
    /\ Imported \subseteq LegacyRows
    /\ \A r \in Retried : r[2] # NewId

VARIABLES
    local,     \* status of the local edge rows <<owner, subject, kind>>
    request,   \* state of the local request row of <<requester, target>>
    legacy,    \* the trusted legacy rows
    event,     \* the retried operation_ids that are claimed
    asked      \* history: what a user last asked for, block or unblock

vars == <<local, request, legacy, event, asked>>

-----------------------------------------------------------------------------
(* Types and initial state *)

RequestStates == {"pending", "accepted", "rejected", "cancelled", "blocked"}
\* What the provider reports: a request may say how it was resolved.
LegacyStates(kind) ==
    {"active", "inactive"} \cup
        (IF kind \in {"request", "mirror"} THEN {"accepted", "rejected"} ELSE {})

Init ==
    /\ local = [r \in LocalRows |-> "none"]
    /\ request = [p \in Pairs |-> "none"]
    /\ legacy = [r \in LegacyRows |-> "none"]
    /\ event = {}
    /\ asked = [p \in Pairs |-> "none"]

-----------------------------------------------------------------------------
(* What the rows say *)

Reported(kind) ==
    CASE kind = "follow" -> "follower"
      [] kind = "friend" -> "friend"
      [] kind = "blacklist" -> "blacklisted_by"

\* The local row, else what the owner's snapshot says, else the subject's.
Edge(u, v, kind) ==
    IF local[<<u, v, kind>>] # "none" THEN local[<<u, v, kind>>]
    ELSE IF legacy[<<u, v, kind>>] # "none" THEN legacy[<<u, v, kind>>]
    ELSE legacy[<<v, u, Reported(kind)>>]

\* An open legacy request is pending; a closed one of unknown fate cancelled.
Normalized(status) ==
    CASE status = "active" -> "pending"
      [] status = "inactive" -> "cancelled"
      [] OTHER -> status

Request(u, v) ==
    IF request[<<u, v>>] # "none" THEN request[<<u, v>>]
    ELSE Normalized(IF legacy[<<u, v, "request">>] # "none"
                    THEN legacy[<<u, v, "request">>]
                    ELSE legacy[<<v, u, "mirror">>])

Friends(u, v) == Edge(u, v, "friend") = "active" /\ Edge(v, u, "friend") = "active"
Blocked(u, v) ==
    Edge(u, v, "blacklist") = "active" \/ Edge(v, u, "blacklist") = "active"

MessagingBlocksSwapped(u, v) ==
    \/ local[<<u, v, "blacklist">>] = "active"
    \/ /\ local[<<u, v, "blacklist">>] = "none"
       /\ legacy[<<u, v, "blacklist">>] = "active"
    \/ /\ local[<<v, u, "blacklist">>] = "none"
       /\ legacy[<<v, u, "blacklisted_by">>] = "active"
\* The query that messaging, media and the private message policy repeat: an
\* active legacy row of either user counts unless the blocker has a local row.
MessagingBlocks(u, v) ==
    \/ local[<<u, v, "blacklist">>] = "active"
    \/ /\ local[<<u, v, "blacklist">>] = "none"
       /\ \/ legacy[<<u, v, "blacklist">>] = "active"
          \/ legacy[<<v, u, "blacklisted_by">>] = "active"
MayNotMessage(u, v) == MessagingBlocks(u, v) \/ MessagingBlocks(v, u)

\* Matching takes every active row, also one a local row has overridden.
MayNotMatch(u, v) ==
    \E p \in {<<u, v>>, <<v, u>>} :
        "active" \in {local[<<p[1], p[2], "blacklist">>],
                      legacy[<<p[1], p[2], "blacklist">>],
                      legacy[<<p[1], p[2], "blacklisted_by">>]}

-----------------------------------------------------------------------------
(* Writing rows *)

\* The transaction goes on only if it is the first with this operation_id;
\* a later one repeats the result of the first, or raises a conflict if it is
\* another call, and changes no row.
ClaimAgain(u, id) ==
    IF id = NewId THEN UNCHANGED event
    ELSE <<u, id>> \in Retried /\ event' = event \cup {<<u, id>>}
Claim(u, id) ==
    IF id = NewId THEN UNCHANGED event
    ELSE <<u, id>> \in Retried \ event /\ event' = event \cup {<<u, id>>}

\* A client asks once with each operation_id: to send it again asks nothing.
Ask(u, v, id, what) ==
    asked' = IF <<u, id>> \in event THEN asked
             ELSE [asked EXCEPT ![<<u, v>>] = what]

\* _set_active_relation leaves a local row even where nothing changes, so a
\* later import cannot revive the edge.
WriteChanged(rows, status) ==
    [r \in LocalRows |->
       IF /\ r \in rows
          /\ (Edge(r[1], r[2], r[3]) = "active") # (status = "active")
       THEN status ELSE local[r]]
Write(rows, status) ==
    [r \in LocalRows |-> IF r \in rows THEN status ELSE local[r]]

Both(u, v, kinds) == {<<u, v, k>> : k \in kinds} \cup {<<v, u, k>> : k \in kinds}

-----------------------------------------------------------------------------
(* Operations of user u on user v *)

Follow(u, v, id) ==
    /\ Claim(u, id)
    /\ ~Blocked(u, v)
    /\ local' = Write({<<u, v, "follow">>}, "active")
    /\ UNCHANGED <<request, legacy, asked>>

Unfollow(u, v, id) ==
    /\ Claim(u, id)
    /\ local' = Write({<<u, v, "follow">>}, "inactive")
    /\ UNCHANGED <<request, legacy, asked>>

\* From every state but pending the request becomes pending again.
CreateFriendRequest(u, v, id) ==
    /\ Claim(u, id)
    /\ ~Blocked(u, v)
    /\ ~Friends(u, v)
    /\ request' = [request EXCEPT ![<<u, v>>] = "pending"]
    /\ UNCHANGED <<local, legacy, asked>>

\* u accepts the request of v and with it an open request of its own.
AcceptAnyFriendRequest(u, v, id) ==
    /\ Claim(u, id)
    /\ ~Blocked(u, v)
    /\ Request(v, u) # "none"
    /\ local' = Write(Both(u, v, {"friend"}), "active")
    /\ request' = [request EXCEPT ![<<v, u>>] = "accepted",
                                  ![<<u, v>>] = IF Request(u, v) = "pending"
                                            THEN "accepted" ELSE Request(u, v)]
    /\ UNCHANGED <<legacy, asked>>
AcceptFriendRequest(u, v, id) ==
    /\ Claim(u, id)
    /\ ~Blocked(u, v)
    /\ \/ /\ Request(v, u) = "pending"
          /\ local' = Write(Both(u, v, {"friend"}), "active")
          /\ request' = [request EXCEPT
               ![<<v, u>>] = "accepted",
               ![<<u, v>>] = IF Request(u, v) = "pending" THEN "accepted"
                         ELSE Request(u, v)]
       \/ /\ Request(v, u) = "accepted" /\ Friends(u, v)
          /\ request' = [request EXCEPT ![<<v, u>>] = "accepted"]
          /\ UNCHANGED local
    /\ UNCHANGED <<legacy, asked>>

RejectFriendRequest(u, v, id) ==
    /\ Claim(u, id)
    /\ Request(v, u) \in {"pending", "rejected"}
    /\ request' = [request EXCEPT ![<<v, u>>] = "rejected"]
    /\ UNCHANGED <<local, legacy, asked>>

CancelFriendRequest(u, v, id) ==
    /\ Claim(u, id)
    /\ Request(u, v) \in {"pending", "cancelled"}
    /\ request' = [request EXCEPT ![<<u, v>>] = "cancelled"]
    /\ UNCHANGED <<local, legacy, asked>>

DeleteFriendOneSided(u, v, id) ==
    /\ Claim(u, id)
    /\ local' = Write({<<u, v, "friend">>}, "inactive")
    /\ UNCHANGED <<request, legacy, asked>>
DeleteFriend(u, v, id) ==
    /\ Claim(u, id)
    /\ local' = Write(Both(u, v, {"friend"}), "inactive")
    /\ UNCHANGED <<request, legacy, asked>>

\* Blocking ends follows, friendship and open requests in both directions.
Block(u, v, id) ==
    LET closed == Write(Both(u, v, {"friend", "follow"}), "inactive") IN
    /\ Claim(u, id)
    /\ Ask(u, v, id, "block")
    /\ local' = [closed EXCEPT ![<<u, v, "blacklist">>] = "active"]
    /\ request' = [p \in Pairs |->
         IF p \notin {<<u, v>>, <<v, u>>} THEN request[p]
         ELSE IF Request(p[1], p[2]) = "pending" THEN "blocked"
         ELSE Request(p[1], p[2])]
    /\ UNCHANGED legacy

Unblock(u, v, id) ==
    /\ Claim(u, id)
    /\ Ask(u, v, id, "unblock")
    /\ local' = Write({<<u, v, "blacklist">>}, "inactive")
    /\ UNCHANGED <<request, legacy>>

\* A snapshot of the provider; one request row cannot have both roles.
Import(row, status) ==
    /\ legacy' = [r \in LegacyRows |->
         IF r = row THEN status
         ELSE IF /\ r[1] = row[1] /\ r[2] = row[2]
                 /\ {r[3], row[3]} = {"request", "mirror"}
              THEN "none" ELSE legacy[r]]
    /\ UNCHANGED <<local, request, event, asked>>

-----------------------------------------------------------------------------
(* Next-state relation *)

Operation(u, v, id) ==
    \/ Follow(u, v, id) \/ Unfollow(u, v, id)
    \/ CreateFriendRequest(u, v, id) \/ AcceptFriendRequest(u, v, id)
    \/ RejectFriendRequest(u, v, id) \/ CancelFriendRequest(u, v, id)
    \/ DeleteFriend(u, v, id) \/ Block(u, v, id) \/ Unblock(u, v, id)

Ids == {NewId} \cup {r[2] : r \in Retried}

Next ==
    \/ \E p \in Pairs, id \in Ids : Operation(p[1], p[2], id)
    \/ \E row \in Imported : \E status \in LegacyStates(row[3]) :
         Import(row, status)

Spec == Init /\ [][Next]_vars

-----------------------------------------------------------------------------
(* Properties *)

\* Every variable has its type; a localised request has a state of the local
\* state machine, never the raw status of the legacy row it came from.
TypeOK ==
    /\ local \in [LocalRows -> {"none", "active", "inactive"}]
    /\ request \in [Pairs -> {"none"} \cup RequestStates]
    /\ legacy \in [LegacyRows -> {"none", "active", "inactive", "accepted",
                                  "rejected"}]
    /\ event \subseteq Retried
    /\ asked \in [Pairs -> {"none", "block", "unblock"}]

\* While a local block stands, in either direction, neither user follows or
\* befriends the other, whatever the provider reports, and no local request
\* between them is open.
BlockSeparates ==
    \A p \in Pairs :
        local[<<p[1], p[2], "blacklist">>] = "active" =>
            /\ \A kind \in {"follow", "friend"} :
                 /\ Edge(p[1], p[2], kind) # "active"
                 /\ Edge(p[2], p[1], kind) # "active"
            /\ request[p] # "pending" /\ request[<<p[2], p[1]>>] # "pending"

\* The two rows of a friendship never disagree, whoever deletes or blocks, and no
\* request between local friends stays open, so none of before can undo the end
\* of the friendship.
FriendshipIsMutual ==
    \A p \in Pairs :
        /\ local[<<p[1], p[2], "friend">>] = local[<<p[2], p[1], "friend">>]
        /\ local[<<p[1], p[2], "friend">>] = "active" => request[p] # "pending"

\* The last word counts.  Who asked for a block is kept apart from the other, in
\* relations, messages and matching, until they ask to lift it; when both have
\* lifted theirs, no relation and no message rule keeps them apart.  Neither a
\* snapshot of the provider nor a call that is sent again long afterwards, an
\* unblock after a new block say, changes that.
LastWordCounts ==
    \A p \in Pairs :
        LET q == <<p[2], p[1]>> IN
        /\ asked[p] = "block" => /\ Blocked(p[1], p[2])
                                 /\ MayNotMessage(p[1], p[2])
                                 /\ MayNotMatch(p[1], p[2])
        /\ asked[p] = "unblock" /\ asked[q] = "unblock" =>
                ~Blocked(p[1], p[2]) /\ ~MayNotMessage(p[1], p[2])

\* Whom the relations call blocked is blocked for messages and for matching,
\* although each of the three has a query of its own.
BlockIsHonoured ==
    \A p \in Pairs :
        Blocked(p[1], p[2]) => MayNotMessage(p[1], p[2]) /\ MayNotMatch(p[1], p[2])

\* A local friendship begins only with an open request of one of the two, so
\* that each of them has asked for it or accepted it.
FriendshipNeedsConsent ==
    [][\A p \in Pairs :
         /\ local[<<p[1], p[2], "friend">>] # "active"
         /\ local'[<<p[1], p[2], "friend">>] = "active"
         => Request(p[1], p[2]) = "pending" \/ Request(p[2], p[1]) = "pending"]_vars
=============================================================================
