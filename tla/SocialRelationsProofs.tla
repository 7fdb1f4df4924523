----------------------- MODULE SocialRelationsProofs -----------------------
(***************************************************************************)
(* Proofs about SocialRelations, for every set of accounts, of repeated    *)
(* operation_ids and of imported rows.                                     *)
(***************************************************************************)
EXTENDS SocialRelations, TLAPS

\* A local block has closed the local rows of every edge it forbids, so no
\* legacy row counts for them.
BlockCloses ==
    \A p \in Pairs :
        local[<<p[1], p[2], "blacklist">>] = "active" =>
            /\ \A kind \in {"follow", "friend"} :
                 /\ local[<<p[1], p[2], kind>>] = "inactive"
                 /\ local[<<p[2], p[1], kind>>] = "inactive"
            /\ request[p] # "pending" /\ request[<<p[2], p[1]>>] # "pending"

\* The two parts of FriendshipIsMutual.
RowsAgree ==
    \A p \in Pairs : local[<<p[1], p[2], "friend">>] = local[<<p[2], p[1], "friend">>]
NoRequestOfFriends ==
    \A p \in Pairs :
        local[<<p[1], p[2], "friend">>] = "active" => request[p] # "pending"

LocalInv ==
    /\ TypeOK
    /\ BlockCloses
    /\ RowsAgree
    /\ NoRequestOfFriends

-----------------------------------------------------------------------------
(* Rows and pairs *)

LEMMA PairParts ==
    ASSUME NEW p \in Pairs
    PROVE  /\ p = <<p[1], p[2]>> /\ p[1] \in Users /\ p[2] \in Users
           /\ p[1] # p[2] /\ <<p[2], p[1]>> \in Pairs
BY DEF Pairs

LEMMA RowOfPair ==
    ASSUME NEW kinds, NEW p \in Pairs, NEW k \in kinds
    PROVE  <<p[1], p[2], k>> \in Rows(kinds) /\ <<p[2], p[1], k>> \in Rows(kinds)
<1> DEFINE q == <<p[2], p[1]>>
<1>1. q \in Pairs /\ q[1] = p[2] /\ q[2] = p[1]
  BY PairParts
<1> QED
  BY <1>1 DEF Rows

LEMMA RowParts ==
    ASSUME NEW kinds, NEW r \in Rows(kinds)
    PROVE  /\ r = <<r[1], r[2], r[3]>> /\ <<r[1], r[2]>> \in Pairs
           /\ r[3] \in kinds
<1>1. PICK p \in Pairs, k \in kinds : r = <<p[1], p[2], k>>
  BY DEF Rows
<1> QED
  BY <1>1, PairParts

LEMMA SameRow ==
    ASSUME NEW a, NEW b, NEW k, NEW u, NEW v, NEW kind
    PROVE  <<a, b, k>> \in {<<u, v, kind>>} <=> (a = u /\ b = v /\ k = kind)
OBVIOUS

LEMMA RowOfBoth ==
    ASSUME NEW a, NEW b, NEW k, NEW u, NEW v, NEW kinds
    PROVE  <<a, b, k>> \in Both(u, v, kinds)
             <=> (k \in kinds /\ ((a = u /\ b = v) \/ (a = v /\ b = u)))
BY DEF Both

LEMMA SamePair ==
    ASSUME NEW p \in Pairs, NEW u, NEW v
    PROVE  /\ (p = <<u, v>>) <=> (p[1] = u /\ p[2] = v)
           /\ (<<p[2], p[1]>> = <<u, v>>) <=> (p[1] = v /\ p[2] = u)
<1>1. /\ (<<p[1], p[2]>> = <<u, v>>) <=> (p[1] = u /\ p[2] = v)
      /\ (<<p[2], p[1]>> = <<u, v>>) <=> (p[1] = v /\ p[2] = u)
  OBVIOUS
<1>2. p = <<p[1], p[2]>>
  BY PairParts
<1> QED
  BY <1>1, <1>2

\* What an operation leaves in the rows of two accounts.
LEMMA Written ==
    ASSUME NEW rows, NEW status, NEW p \in Pairs, NEW k \in EdgeKinds,
           local' = Write(rows, status)
    PROVE  /\ local'[<<p[1], p[2], k>>] = IF <<p[1], p[2], k>> \in rows THEN status
                                          ELSE local[<<p[1], p[2], k>>]
           /\ local'[<<p[2], p[1], k>>] = IF <<p[2], p[1], k>> \in rows THEN status
                                          ELSE local[<<p[2], p[1], k>>]
<1>1. <<p[1], p[2], k>> \in LocalRows /\ <<p[2], p[1], k>> \in LocalRows
  BY RowOfPair DEF LocalRows
<1> QED
  BY <1>1 DEF Write

LEMMA RowWritten ==
    ASSUME NEW rows, NEW status, NEW p \in Pairs, NEW k \in EdgeKinds,
           local' = Write(rows, status)
    PROVE  local'[<<p[1], p[2], k>>] = IF <<p[1], p[2], k>> \in rows THEN status
                                       ELSE local[<<p[1], p[2], k>>]
<1>1. <<p[1], p[2], k>> \in LocalRows
  BY RowOfPair DEF LocalRows
<1> QED
  BY <1>1 DEF Write

LEMMA WriteTyped ==
    ASSUME TypeOK, NEW rows, NEW status \in {"active", "inactive"}
    PROVE  Write(rows, status) \in [LocalRows -> {"none", "active", "inactive"}]
BY DEF Write, TypeOK

\* A legacy request is localised with a state of the local state machine.
LEMMA RequestTyped ==
    ASSUME TypeOK, NEW p \in Pairs
    PROVE  Request(p[1], p[2]) \in {"none"} \cup RequestStates
<1>1. <<p[1], p[2], "request">> \in LegacyRows
      /\ <<p[2], p[1], "mirror">> \in LegacyRows
  BY RowOfPair DEF LegacyRows, LegacyKinds
<1>2. \A s \in {"none", "active", "inactive", "accepted", "rejected"} :
        Normalized(s) \in {"none"} \cup RequestStates
  BY DEF Normalized, RequestStates
<1>3. /\ legacy[<<p[1], p[2], "request">>]
           \in {"none", "active", "inactive", "accepted", "rejected"}
      /\ legacy[<<p[2], p[1], "mirror">>]
           \in {"none", "active", "inactive", "accepted", "rejected"}
      /\ request[<<p[1], p[2]>>] \in {"none"} \cup RequestStates
  BY <1>1, PairParts DEF TypeOK
<1> QED
  BY <1>2, <1>3 DEF Request

LEMMA LocalBlockCounts ==
    ASSUME NEW p \in Pairs, ~Blocked(p[1], p[2])
    PROVE  /\ local[<<p[1], p[2], "blacklist">>] # "active"
           /\ local[<<p[2], p[1], "blacklist">>] # "active"
BY DEF Blocked, Edge

LEMMA LocalFriendsCount ==
    ASSUME RowsAgree, NEW p \in Pairs,
           local[<<p[1], p[2], "friend">>] = "active"
    PROVE  Friends(p[1], p[2])
BY DEF RowsAgree, Friends, Edge

-----------------------------------------------------------------------------
(* Types *)

LEMMA ClaimTyped ==
    ASSUME TypeOK, NEW u, NEW id, Claim(u, id)
    PROVE  event' \subseteq Retried /\ <<u, id>> \notin event
<1>1. CASE id = NewId
  <2>1. <<u, id>>[2] = NewId
    BY <1>1
  <2> QED
    BY <1>1, <2>1, ConstantsAssumption DEF Claim, TypeOK
<1>2. CASE id # NewId
  BY <1>2 DEF Claim, TypeOK
<1> QED
  BY <1>1, <1>2

LEMMA OperationTyped ==
    ASSUME TypeOK, NEW p \in Pairs, NEW id, Operation(p[1], p[2], id)
    PROVE  TypeOK'
<1> DEFINE u == p[1]
           v == p[2]
<1>0. /\ u \in Users /\ v \in Users /\ u # v /\ <<u, v>> \in Pairs
      /\ <<v, u>> \in Pairs /\ p = <<u, v>>
  BY PairParts
<1>1. Claim(u, id) /\ legacy' = legacy
  BY DEF Operation, Follow, Unfollow, CreateFriendRequest, AcceptFriendRequest,
     RejectFriendRequest, CancelFriendRequest, DeleteFriend, Block, Unblock
<1>2. event' \subseteq Retried
  BY <1>1, ClaimTyped
<1>3. local' \in [LocalRows -> {"none", "active", "inactive"}]
  <2>1. CASE Block(u, v, id)
    <3>1. PICK closed \in [LocalRows -> {"none", "active", "inactive"}] :
             local' = [closed EXCEPT ![<<u, v, "blacklist">>] = "active"]
      BY <2>1, WriteTyped DEF Block
    <3> QED
      BY <3>1
  <2>2. CASE ~Block(u, v, id)
    <3>1. local' = local \/ \E rows : \E status \in {"active", "inactive"} :
                               local' = Write(rows, status)
      BY <2>2 DEF Operation, Follow, Unfollow, CreateFriendRequest,
         AcceptFriendRequest, RejectFriendRequest, CancelFriendRequest,
         DeleteFriend, Unblock
    <3> QED
      BY <3>1, WriteTyped DEF TypeOK
  <2> QED
    BY <2>1, <2>2
<1>4. request' \in [Pairs -> {"none"} \cup RequestStates]
  <2>1. Request(u, v) \in {"none"} \cup RequestStates
    BY RequestTyped
  <2>2. CASE Block(u, v, id)
    <3>1. \A q \in Pairs : Request(q[1], q[2]) \in {"none"} \cup RequestStates
      BY RequestTyped
    <3> QED
      BY <2>2, <3>1 DEF Block, TypeOK, RequestStates
  <2>3. CASE ~Block(u, v, id)
    <3>1. \/ request' = request
          \/ \E q \in Pairs : \E s \in RequestStates :
               request' = [request EXCEPT ![q] = s]
          \/ \E s \in {"none"} \cup RequestStates :
               request' = [request EXCEPT ![<<v, u>>] = "accepted", ![<<u, v>>] = s]
      BY <1>0, <2>1, <2>3 DEF Operation, Follow, Unfollow, CreateFriendRequest,
         AcceptFriendRequest, RejectFriendRequest, CancelFriendRequest,
         DeleteFriend, Unblock, RequestStates
    <3> QED
      BY <3>1 DEF TypeOK, RequestStates
  <2> QED
    BY <2>2, <2>3
<1>5. asked' \in [Pairs -> {"none", "block", "unblock"}]
  <2>1. asked' = asked \/ \E what \in {"block", "unblock"} : Ask(u, v, id, what)
    BY DEF Operation, Follow, Unfollow, CreateFriendRequest, AcceptFriendRequest,
       RejectFriendRequest, CancelFriendRequest, DeleteFriend, Block, Unblock
  <2> QED
    BY <2>1 DEF Ask, TypeOK
<1> QED
  BY <1>1, <1>2, <1>3, <1>4, <1>5 DEF TypeOK

LEMMA ImportTyped ==
    ASSUME TypeOK, NEW row \in Imported, NEW status \in LegacyStates(row[3]),
           Import(row, status)
    PROVE  TypeOK'
<1>1. status \in {"none", "active", "inactive", "accepted", "rejected"}
  BY DEF LegacyStates
<1>2. legacy' \in [LegacyRows -> {"none", "active", "inactive", "accepted",
                                  "rejected"}]
  BY <1>1 DEF Import, TypeOK
<1> QED
  BY <1>2 DEF Import, TypeOK

\* Every reachable state is well typed; in particular a localised request has
\* a state of the local state machine.
THEOREM TypeCorrect == Spec => []TypeOK
<1>1. Init => TypeOK
  BY DEF Init, TypeOK
<1>2. TypeOK /\ [Next]_vars => TypeOK'
  <2>1. TypeOK /\ UNCHANGED vars => TypeOK'
    BY DEF TypeOK, vars
  <2> QED
    BY <2>1, OperationTyped, ImportTyped DEF Next
<1> QED
  BY <1>1, <1>2, PTL DEF Spec

-----------------------------------------------------------------------------
(* The edges of two accounts *)

LEMMA InitLocalInv == Init => LocalInv
<1> SUFFICES ASSUME Init PROVE LocalInv
  OBVIOUS
<1>1. TypeOK
  BY DEF Init, TypeOK
<1>2. ASSUME NEW p \in Pairs, NEW k \in EdgeKinds
      PROVE  local[<<p[1], p[2], k>>] = "none" /\ local[<<p[2], p[1], k>>] = "none"
  BY <1>2, RowOfPair DEF Init, LocalRows
<1> QED
  BY <1>1, <1>2 DEF LocalInv, BlockCloses, RowsAgree,
     NoRequestOfFriends, EdgeKinds

\* A single follow or block row is closed, or a follow row is opened where
\* neither account blocks the other.
LEMMA OneRowKeeps ==
    ASSUME LocalInv, NEW u, NEW v, <<u, v>> \in Pairs,
           NEW kind \in {"follow", "blacklist"}, NEW status \in {"active", "inactive"},
           local' = Write({<<u, v, kind>>}, status), request' = request,
           status = "active" => kind = "follow" /\ ~Blocked(u, v)
    PROVE  (BlockCloses /\ RowsAgree /\ NoRequestOfFriends)'
<1>1. ASSUME NEW p \in Pairs, NEW k \in EdgeKinds
      PROVE  /\ local'[<<p[1], p[2], k>>] =
                  IF p[1] = u /\ p[2] = v /\ k = kind THEN status
                  ELSE local[<<p[1], p[2], k>>]
             /\ local'[<<p[2], p[1], k>>] =
                  IF p[2] = u /\ p[1] = v /\ k = kind THEN status
                  ELSE local[<<p[2], p[1], k>>]
  BY <1>1, Written, SameRow
<1>2. status = "active" => /\ kind = "follow"
                           /\ local[<<u, v, "blacklist">>] # "active"
                           /\ local[<<v, u, "blacklist">>] # "active"
  BY LocalBlockCounts
<1>3. BlockCloses'
  <2> SUFFICES ASSUME NEW p \in Pairs, local'[<<p[1], p[2], "blacklist">>] = "active"
               PROVE  /\ \A k \in {"follow", "friend"} :
                           /\ local'[<<p[1], p[2], k>>] = "inactive"
                           /\ local'[<<p[2], p[1], k>>] = "inactive"
                      /\ request'[p] # "pending"
                      /\ request'[<<p[2], p[1]>>] # "pending"
    BY DEF BlockCloses
  <2>1. local[<<p[1], p[2], "blacklist">>] = "active"
    BY <1>1, <1>2 DEF EdgeKinds
  <2>2. /\ \A k \in {"follow", "friend"} : /\ local[<<p[1], p[2], k>>] = "inactive"
                                           /\ local[<<p[2], p[1], k>>] = "inactive"
        /\ request[p] # "pending" /\ request[<<p[2], p[1]>>] # "pending"
    BY <2>1 DEF LocalInv, BlockCloses
  <2> QED
    BY <1>1, <1>2, <2>1, <2>2 DEF EdgeKinds
<1>4. \A p \in Pairs :
        /\ local'[<<p[1], p[2], "friend">>] = local[<<p[1], p[2], "friend">>]
        /\ local'[<<p[2], p[1], "friend">>] = local[<<p[2], p[1], "friend">>]
  BY <1>1 DEF EdgeKinds
<1>5. RowsAgree' /\ NoRequestOfFriends'
  BY <1>4 DEF LocalInv, RowsAgree, NoRequestOfFriends
<1> QED
  BY <1>3, <1>5

\* One request row is written; it opens only between accounts that are neither
\* blocked nor friends.
LEMMA OneRequestKeeps ==
    ASSUME LocalInv, NEW u, NEW v, <<u, v>> \in Pairs, NEW state \in RequestStates,
           request' = [request EXCEPT ![<<u, v>>] = state], local' = local,
           state = "pending" => ~Blocked(u, v) /\ ~Friends(u, v)
    PROVE  (BlockCloses /\ RowsAgree /\ NoRequestOfFriends)'
<1>1. state = "pending" => /\ local[<<u, v, "blacklist">>] # "active"
                           /\ local[<<v, u, "blacklist">>] # "active"
                           /\ local[<<u, v, "friend">>] # "active"
  <2> DEFINE q == <<u, v>>
  <2>2. q[1] = u /\ q[2] = v
    OBVIOUS
  <2> QED
    BY <2>2, LocalBlockCounts, LocalFriendsCount DEF LocalInv
<1>2. ASSUME NEW p \in Pairs
      PROVE  /\ request'[p] = IF p[1] = u /\ p[2] = v THEN state ELSE request[p]
             /\ request'[<<p[2], p[1]>>] = IF p[2] = u /\ p[1] = v THEN state
                                           ELSE request[<<p[2], p[1]>>]
  BY <1>2, PairParts, SamePair DEF LocalInv, TypeOK
<1>3. BlockCloses'
  <2> SUFFICES ASSUME NEW p \in Pairs, local[<<p[1], p[2], "blacklist">>] = "active"
               PROVE  request'[p] # "pending" /\ request'[<<p[2], p[1]>>] # "pending"
    BY DEF LocalInv, BlockCloses
  <2>1. request[p] # "pending" /\ request[<<p[2], p[1]>>] # "pending"
    BY DEF LocalInv, BlockCloses
  <2> QED
    BY <1>1, <1>2, <2>1
<1>4. RowsAgree' /\ NoRequestOfFriends'
  BY <1>1, <1>2 DEF LocalInv, RowsAgree, NoRequestOfFriends
<1> QED
  BY <1>3, <1>4

\* Both friend rows of two accounts become status; they open only where neither
\* blocks the other and their requests are closed.
LEMMA FriendRowsKeep ==
    ASSUME LocalInv, NEW u, NEW v, <<u, v>> \in Pairs,
           NEW status \in {"active", "inactive"},
           local' = Write(Both(u, v, {"friend"}), status),
           \A p \in Pairs : request'[p] = request[p] \/ request'[p] # "pending",
           status = "active" => /\ ~Blocked(u, v)
                                /\ request'[<<u, v>>] # "pending"
                                /\ request'[<<v, u>>] # "pending"
    PROVE  (BlockCloses /\ RowsAgree /\ NoRequestOfFriends)'
<1>1. ASSUME NEW p \in Pairs, NEW k \in EdgeKinds
      PROVE  /\ local'[<<p[1], p[2], k>>] =
                  IF /\ (p[1] = u /\ p[2] = v) \/ (p[1] = v /\ p[2] = u)
                     /\ k = "friend"
                  THEN status ELSE local[<<p[1], p[2], k>>]
             /\ local'[<<p[2], p[1], k>>] =
                  IF /\ (p[1] = u /\ p[2] = v) \/ (p[1] = v /\ p[2] = u)
                     /\ k = "friend"
                  THEN status ELSE local[<<p[2], p[1], k>>]
  BY <1>1, Written, RowOfBoth
<1>2. status = "active" => /\ local[<<u, v, "blacklist">>] # "active"
                           /\ local[<<v, u, "blacklist">>] # "active"
  BY LocalBlockCounts
<1>3. \A p \in Pairs : /\ <<p[2], p[1]>> \in Pairs
                       /\ request'[<<p[2], p[1]>>] = request[<<p[2], p[1]>>]
                          \/ request'[<<p[2], p[1]>>] # "pending"
  BY PairParts
<1>4. BlockCloses'
  <2> SUFFICES ASSUME NEW p \in Pairs, local'[<<p[1], p[2], "blacklist">>] = "active"
               PROVE  /\ \A k \in {"follow", "friend"} :
                           /\ local'[<<p[1], p[2], k>>] = "inactive"
                           /\ local'[<<p[2], p[1], k>>] = "inactive"
                      /\ request'[p] # "pending"
                      /\ request'[<<p[2], p[1]>>] # "pending"
    BY DEF BlockCloses
  <2>1. local[<<p[1], p[2], "blacklist">>] = "active"
    BY <1>1 DEF EdgeKinds
  <2>2. /\ \A k \in {"follow", "friend"} : /\ local[<<p[1], p[2], k>>] = "inactive"
                                           /\ local[<<p[2], p[1], k>>] = "inactive"
        /\ request[p] # "pending" /\ request[<<p[2], p[1]>>] # "pending"
    BY <2>1 DEF LocalInv, BlockCloses
  <2>3. status = "active" => ~((p[1] = u /\ p[2] = v) \/ (p[1] = v /\ p[2] = u))
    BY <1>2, <2>1
  <2>4. request'[p] # "pending" /\ request'[<<p[2], p[1]>>] # "pending"
    BY <1>3, <2>2
  <2>5. ASSUME NEW k \in {"follow", "friend"}
        PROVE  /\ local'[<<p[1], p[2], k>>] = "inactive"
               /\ local'[<<p[2], p[1], k>>] = "inactive"
    <3>1. CASE k = "follow"
      BY <1>1, <2>2, <3>1 DEF EdgeKinds
    <3>2. CASE k = "friend"
      BY <1>1, <2>2, <2>3, <3>2 DEF EdgeKinds
    <3> QED
      BY <3>1, <3>2
  <2> QED
    BY <2>4, <2>5
<1>5. RowsAgree'
  BY <1>1 DEF LocalInv, RowsAgree, EdgeKinds
<1>6. NoRequestOfFriends'
  <2> SUFFICES ASSUME NEW p \in Pairs, local'[<<p[1], p[2], "friend">>] = "active"
               PROVE  request'[p] # "pending"
    BY DEF NoRequestOfFriends
  <2>1. CASE local[<<p[1], p[2], "friend">>] = "active"
    BY <2>1 DEF LocalInv, NoRequestOfFriends
  <2>2. CASE local[<<p[1], p[2], "friend">>] # "active"
    <3>1. /\ status = "active"
          /\ (p[1] = u /\ p[2] = v) \/ (p[1] = v /\ p[2] = u)
      BY <1>1, <2>2 DEF EdgeKinds
    <3>2. p = <<p[1], p[2]>>
      BY PairParts
    <3>3. p = <<u, v>> \/ p = <<v, u>>
      BY <3>1, <3>2
    <3> QED
      BY <3>1, <3>3
  <2> QED
    BY <2>1, <2>2
<1> QED
  BY <1>4, <1>5, <1>6

\* An accepted request opens both friend rows and closes both requests.
LEMMA AcceptKeeps ==
    ASSUME LocalInv, NEW u, NEW v, <<u, v>> \in Pairs, NEW id,
           AcceptFriendRequest(u, v, id)
    PROVE  (BlockCloses /\ RowsAgree /\ NoRequestOfFriends)'
<1> DEFINE q == <<u, v>>
<1>0. q[1] = u /\ q[2] = v /\ <<v, u>> \in Pairs /\ u # v
  BY PairParts
<1>1. CASE local' = local /\ request' = [request EXCEPT ![<<v, u>>] = "accepted"]
  <2>1. "accepted" \in RequestStates
    BY DEF RequestStates
  <2> QED
    BY <1>0, <1>1, <2>1, OneRequestKeeps
<1>2. CASE /\ local' = Write(Both(u, v, {"friend"}), "active")
           /\ request' = [request EXCEPT
                ![<<v, u>>] = "accepted",
                ![<<u, v>>] = IF Request(u, v) = "pending" THEN "accepted"
                              ELSE Request(u, v)]
  <2>1. ~Blocked(u, v)
    BY DEF AcceptFriendRequest
  <2>2. /\ request'[<<u, v>>] # "pending" /\ request'[<<v, u>>] # "pending"
        /\ \A p \in Pairs \ {<<u, v>>, <<v, u>>} : request'[p] = request[p]
    BY <1>0, <1>2 DEF LocalInv, TypeOK
  <2>3. \A p \in Pairs : request'[p] = request[p] \/ request'[p] # "pending"
    BY <2>2
  <2> QED
    BY <1>2, <2>1, <2>2, <2>3, FriendRowsKeep
<1> QED
  BY <1>1, <1>2 DEF AcceptFriendRequest

LEMMA DeleteKeeps ==
    ASSUME LocalInv, NEW u, NEW v, <<u, v>> \in Pairs, NEW id, DeleteFriend(u, v, id)
    PROVE  (BlockCloses /\ RowsAgree /\ NoRequestOfFriends)'
BY FriendRowsKeep DEF DeleteFriend

\* What a block leaves in the rows of two accounts.
LEMMA BlockWritten ==
    ASSUME NEW u, NEW v, NEW id, Block(u, v, id), NEW p \in Pairs, NEW k \in EdgeKinds
    PROVE  local'[<<p[1], p[2], k>>] =
             IF p[1] = u /\ p[2] = v /\ k = "blacklist" THEN "active"
             ELSE IF /\ (p[1] = u /\ p[2] = v) \/ (p[1] = v /\ p[2] = u)
                     /\ k # "blacklist" THEN "inactive"
             ELSE local[<<p[1], p[2], k>>]
<1> DEFINE closed == Write(Both(u, v, {"friend", "follow"}), "inactive")
           Of == (p[1] = u /\ p[2] = v) \/ (p[1] = v /\ p[2] = u)
<1>1. <<p[1], p[2], k>> \in Both(u, v, {"friend", "follow"})
        <=> (Of /\ k # "blacklist")
  BY RowOfBoth DEF EdgeKinds
<1>2. <<p[1], p[2], k>> \in LocalRows
  BY RowOfPair DEF LocalRows
<1>3. closed[<<p[1], p[2], k>>] =
        IF Of /\ k # "blacklist" THEN "inactive" ELSE local[<<p[1], p[2], k>>]
  BY <1>1, <1>2 DEF Write
<1>4. local' = [closed EXCEPT ![<<u, v, "blacklist">>] = "active"]
  BY DEF Block
<1>5. closed = [r \in LocalRows |-> closed[r]]
  BY DEF Write
<1>6. <<p[1], p[2], k>> = <<u, v, "blacklist">>
        <=> (p[1] = u /\ p[2] = v /\ k = "blacklist")
  OBVIOUS
<1> HIDE DEF closed
<1>7. local'[<<p[1], p[2], k>>] =
        IF <<p[1], p[2], k>> = <<u, v, "blacklist">> THEN "active"
        ELSE closed[<<p[1], p[2], k>>]
  BY <1>2, <1>4, <1>5
<1> QED
  BY <1>3, <1>6, <1>7

\* Blocking closes every edge and every open request of the two accounts.
LEMMA BlockKeeps ==
    ASSUME LocalInv, NEW u, NEW v, <<u, v>> \in Pairs, NEW id, Block(u, v, id)
    PROVE  (BlockCloses /\ RowsAgree /\ NoRequestOfFriends)'
<1> DEFINE Of(p) == (p[1] = u /\ p[2] = v) \/ (p[1] = v /\ p[2] = u)
<1>0. \A p \in Pairs : <<p[2], p[1]>> \in Pairs
  BY PairParts
<1>1. ASSUME NEW p \in Pairs, NEW k \in EdgeKinds
      PROVE  local'[<<p[1], p[2], k>>] =
               IF p[1] = u /\ p[2] = v /\ k = "blacklist" THEN "active"
               ELSE IF Of(p) /\ k # "blacklist" THEN "inactive"
               ELSE local[<<p[1], p[2], k>>]
  BY BlockWritten
<1>2. ASSUME NEW p \in Pairs
      PROVE  IF Of(p) THEN request'[p] # "pending" ELSE request'[p] = request[p]
  <2>1. p \in {<<u, v>>, <<v, u>>} <=> Of(p)
    BY SamePair
  <2> HIDE DEF Of
  <2> QED
    BY <2>1 DEF Block
<1>3. ASSUME NEW p \in Pairs, NEW k \in EdgeKinds
      PROVE  local'[<<p[2], p[1], k>>] =
               IF p[2] = u /\ p[1] = v /\ k = "blacklist" THEN "active"
               ELSE IF Of(p) /\ k # "blacklist" THEN "inactive"
               ELSE local[<<p[2], p[1], k>>]
  <2> DEFINE q == <<p[2], p[1]>>
  <2>1. q \in Pairs /\ q[1] = p[2] /\ q[2] = p[1] /\ (Of(q) <=> Of(p))
    BY <1>0
  <2> HIDE DEF q
  <2> QED
    BY <1>1, <2>1
<1>4. ASSUME NEW p \in Pairs
      PROVE  IF Of(p) THEN request'[<<p[2], p[1]>>] # "pending"
             ELSE request'[<<p[2], p[1]>>] = request[<<p[2], p[1]>>]
  <2> DEFINE q == <<p[2], p[1]>>
  <2>1. q \in Pairs /\ (Of(q) <=> Of(p))
    BY <1>0
  <2> HIDE DEF q, Of
  <2>2. IF Of(p) THEN request'[q] # "pending" ELSE request'[q] = request[q]
    BY <1>2, <2>1
  <2> QED
    BY <2>2 DEF q
<1>5. BlockCloses'
  <2> SUFFICES ASSUME NEW p \in Pairs, local'[<<p[1], p[2], "blacklist">>] = "active"
               PROVE  /\ \A k \in {"follow", "friend"} :
                           /\ local'[<<p[1], p[2], k>>] = "inactive"
                           /\ local'[<<p[2], p[1], k>>] = "inactive"
                      /\ request'[p] # "pending"
                      /\ request'[<<p[2], p[1]>>] # "pending"
    BY DEF BlockCloses
  <2>1. CASE Of(p)
    <3> HIDE DEF Of
    <3> QED
      BY <1>1, <1>2, <1>3, <1>4, <2>1 DEF EdgeKinds
  <2>2. CASE ~Of(p)
    <3>1. local[<<p[1], p[2], "blacklist">>] = "active"
      BY <1>1, <2>2 DEF EdgeKinds
    <3>2. /\ \A k \in {"follow", "friend"} : /\ local[<<p[1], p[2], k>>] = "inactive"
                                             /\ local[<<p[2], p[1], k>>] = "inactive"
          /\ request[p] # "pending" /\ request[<<p[2], p[1]>>] # "pending"
      BY <3>1 DEF LocalInv, BlockCloses
    <3> HIDE DEF Of
    <3> QED
      BY <1>1, <1>2, <1>3, <1>4, <2>2, <3>2 DEF EdgeKinds
  <2> QED
    BY <2>1, <2>2
<1>6. \A p \in Pairs :
        /\ local'[<<p[1], p[2], "friend">>] =
             IF Of(p) THEN "inactive" ELSE local[<<p[1], p[2], "friend">>]
        /\ local'[<<p[2], p[1], "friend">>] =
             IF Of(p) THEN "inactive" ELSE local[<<p[2], p[1], "friend">>]
  <2> HIDE DEF Of
  <2> QED
    BY <1>1, <1>3 DEF EdgeKinds
<1> HIDE DEF Of
<1>7. RowsAgree' /\ NoRequestOfFriends'
  BY <1>2, <1>6 DEF LocalInv, RowsAgree, NoRequestOfFriends
<1> QED
  BY <1>5, <1>7

LEMMA LocalInvStep == LocalInv /\ [Next]_vars => LocalInv'
<1> SUFFICES ASSUME LocalInv, [Next]_vars PROVE LocalInv'
  OBVIOUS
<1>1. ASSUME NEW p \in Pairs, NEW id, Operation(p[1], p[2], id)
      PROVE  LocalInv'
  <2> DEFINE u == p[1]
             v == p[2]
  <2>0. <<u, v>> \in Pairs /\ <<v, u>> \in Pairs
    BY PairParts
  <2>1. TypeOK'
    BY <1>1, OperationTyped DEF LocalInv
  <2>2. CASE Follow(u, v, id) \/ Unfollow(u, v, id) \/ Unblock(u, v, id)
    <3>1. (BlockCloses /\ RowsAgree /\ NoRequestOfFriends)'
      BY <2>0, <2>2, OneRowKeeps DEF Follow, Unfollow, Unblock
    <3> QED
      BY <2>1, <3>1 DEF LocalInv
  <2>3. CASE \/ CreateFriendRequest(u, v, id) \/ RejectFriendRequest(u, v, id)
             \/ CancelFriendRequest(u, v, id)
    <3>1. (BlockCloses /\ RowsAgree /\ NoRequestOfFriends)'
      BY <2>0, <2>3, OneRequestKeeps DEF CreateFriendRequest,
         RejectFriendRequest, CancelFriendRequest, RequestStates
    <3> QED
      BY <2>1, <3>1 DEF LocalInv
  <2>4. CASE AcceptFriendRequest(u, v, id) \/ DeleteFriend(u, v, id) \/ Block(u, v, id)
    <3>1. (BlockCloses /\ RowsAgree /\ NoRequestOfFriends)'
      BY <2>0, <2>4, AcceptKeeps, DeleteKeeps, BlockKeeps
    <3> QED
      BY <2>1, <3>1 DEF LocalInv
  <2> QED
    BY <1>1, <2>2, <2>3, <2>4 DEF Operation
<1>2. ASSUME NEW row \in Imported, NEW status \in LegacyStates(row[3]),
             Import(row, status)
      PROVE  LocalInv'
  BY <1>2, ImportTyped DEF Import, LocalInv, BlockCloses, RowsAgree,
     NoRequestOfFriends
<1>3. CASE UNCHANGED vars
  BY <1>3 DEF vars, LocalInv, TypeOK, BlockCloses, RowsAgree,
     NoRequestOfFriends
<1> QED
  BY <1>1, <1>2, <1>3 DEF Next

LEMMA LocalInvariant == Spec => []LocalInv
BY InitLocalInv, LocalInvStep, PTL DEF Spec

\* While a local block stands, no follow or friendship counts between the two
\* and no local request is open, whatever the provider reports.
THEOREM BlocksSeparate == Spec => []BlockSeparates
<1>1. LocalInv => BlockSeparates
  BY DEF LocalInv, BlockCloses, BlockSeparates, Edge
<1> QED
  BY <1>1, LocalInvariant, PTL

\* The two rows of a friendship never disagree, and friends have no open request.
THEOREM FriendshipsAreMutual == Spec => []FriendshipIsMutual
<1>1. LocalInv => FriendshipIsMutual
  BY DEF LocalInv, RowsAgree, NoRequestOfFriends, FriendshipIsMutual
<1> QED
  BY <1>1, LocalInvariant, PTL

-----------------------------------------------------------------------------
(* Policies, operation_ids and consent *)

\* Whom the relations call blocked can neither be messaged nor be matched.
THEOREM BlocksAreHonoured == Spec => []BlockIsHonoured
<1>1. BlockIsHonoured
  BY DEF BlockIsHonoured, Blocked, Edge, Reported, MayNotMessage,
     MessagingBlocks, MayNotMatch
<1> QED
  BY <1>1, PTL

\* The block row of a user about another is as that user last asked.
RowAsAsked(p) ==
    local[<<p[1], p[2], "blacklist">>] =
        IF asked[p] = "block" THEN "active"
        ELSE IF asked[p] = "unblock" THEN "inactive" ELSE "none"
WordInv == TypeOK /\ \A p \in Pairs : RowAsAsked(p)

\* A call changes what is asked and the block row together, because a call with
\* a claimed operation_id does neither.
LEMMA OperationKeepsWord ==
    ASSUME WordInv, NEW q \in Pairs, NEW id, Operation(q[1], q[2], id)
    PROVE  WordInv'
<1> DEFINE u == q[1]
           v == q[2]
<1>0. <<u, v>> \in Pairs /\ u # v
  BY PairParts
<1>1. TypeOK'
  BY OperationTyped DEF WordInv
<1>2. <<u, id>> \notin event
  <2>1. Claim(u, id)
    BY DEF Operation, Follow, Unfollow, CreateFriendRequest, AcceptFriendRequest,
       RejectFriendRequest, CancelFriendRequest, DeleteFriend, Block, Unblock
  <2> QED
    BY <2>1, ClaimTyped DEF WordInv
<1> SUFFICES ASSUME NEW p \in Pairs PROVE RowAsAsked(p)'
  BY <1>1 DEF WordInv
<1>3. RowAsAsked(p)
  BY DEF WordInv
<1>4. ASSUME NEW what, Ask(u, v, id, what)
      PROVE  asked'[p] = IF p[1] = u /\ p[2] = v THEN what ELSE asked[p]
  BY <1>0, <1>2, <1>4, SamePair DEF Ask, WordInv, TypeOK
<1>5. CASE Block(u, v, id)
  <2>1. local'[<<p[1], p[2], "blacklist">>] =
          IF p[1] = u /\ p[2] = v THEN "active"
          ELSE local[<<p[1], p[2], "blacklist">>]
    <3>1. "blacklist" \in EdgeKinds
      BY DEF EdgeKinds
    <3>2. local'[<<p[1], p[2], "blacklist">>] =
            IF p[1] = u /\ p[2] = v /\ "blacklist" = "blacklist" THEN "active"
            ELSE IF /\ (p[1] = u /\ p[2] = v) \/ (p[1] = v /\ p[2] = u)
                    /\ "blacklist" # "blacklist" THEN "inactive"
            ELSE local[<<p[1], p[2], "blacklist">>]
      BY <1>5, <3>1, BlockWritten
    <3> QED
      BY <3>2
  <2>2. asked'[p] = IF p[1] = u /\ p[2] = v THEN "block" ELSE asked[p]
    BY <1>4, <1>5 DEF Block
  <2> QED
    BY <1>3, <2>1, <2>2 DEF RowAsAsked
<1>6. CASE Unblock(u, v, id)
  <2>1. local'[<<p[1], p[2], "blacklist">>] =
          IF p[1] = u /\ p[2] = v THEN "inactive"
          ELSE local[<<p[1], p[2], "blacklist">>]
    <3>1. ASSUME NEW k \in EdgeKinds
          PROVE  local'[<<p[1], p[2], k>>] =
                   IF p[1] = u /\ p[2] = v /\ k = "blacklist" THEN "inactive"
                   ELSE local[<<p[1], p[2], k>>]
      BY <1>6, <3>1, RowWritten, SameRow DEF Unblock
    <3> QED
      BY <3>1 DEF EdgeKinds
  <2>2. asked'[p] = IF p[1] = u /\ p[2] = v THEN "unblock" ELSE asked[p]
    BY <1>4, <1>6 DEF Unblock
  <2> QED
    BY <1>3, <2>1, <2>2 DEF RowAsAsked
<1>7. CASE ~Block(u, v, id) /\ ~Unblock(u, v, id)
  <2>1. asked' = asked
    BY <1>7 DEF Operation, Follow, Unfollow, CreateFriendRequest,
       AcceptFriendRequest, RejectFriendRequest, CancelFriendRequest, DeleteFriend
  <2>2. \/ local' = local
        \/ \E status : local' = Write(Both(u, v, {"friend"}), status)
        \/ \E status : local' = Write({<<u, v, "follow">>}, status)
    BY <1>7 DEF Operation, Follow, Unfollow, CreateFriendRequest,
       AcceptFriendRequest, RejectFriendRequest, CancelFriendRequest, DeleteFriend
  <2>3. local'[<<p[1], p[2], "blacklist">>] = local[<<p[1], p[2], "blacklist">>]
    <3>1. /\ <<p[1], p[2], "blacklist">> \notin Both(u, v, {"friend"})
          /\ <<p[1], p[2], "blacklist">> \notin {<<u, v, "follow">>}
          /\ "blacklist" \in EdgeKinds
      BY RowOfBoth, SameRow DEF EdgeKinds
    <3>2. CASE local' = local
      BY <3>2
    <3>3. CASE \E status : local' = Write(Both(u, v, {"friend"}), status)
      BY <3>1, <3>3, RowWritten
    <3>4. CASE \E status : local' = Write({<<u, v, "follow">>}, status)
      BY <3>1, <3>4, RowWritten
    <3> QED
      BY <2>2, <3>2, <3>3, <3>4
  <2> QED
    BY <1>3, <2>1, <2>3 DEF RowAsAsked
<1> QED
  BY <1>5, <1>6, <1>7

\* Each user's last block or unblock decides, whatever the provider reports and
\* however late an earlier call is sent again.
THEOREM LastWordHolds == Spec => []LastWordCounts
<1>1. Init => WordInv
  <2> SUFFICES ASSUME Init PROVE WordInv
    OBVIOUS
  <2>1. ASSUME NEW p \in Pairs PROVE RowAsAsked(p)
    BY RowOfPair DEF Init, RowAsAsked, LocalRows, EdgeKinds
  <2> QED
    BY <2>1 DEF Init, WordInv, TypeOK
<1>2. WordInv /\ [Next]_vars => WordInv'
  <2> SUFFICES ASSUME WordInv, [Next]_vars PROVE WordInv'
    OBVIOUS
  <2>1. ASSUME NEW row \in Imported, NEW status \in LegacyStates(row[3]),
               Import(row, status)
        PROVE  WordInv'
    BY <2>1, ImportTyped DEF Import, WordInv, RowAsAsked
  <2>2. CASE UNCHANGED vars
    BY <2>2 DEF vars, WordInv, TypeOK, RowAsAsked
  <2> QED
    BY <2>1, <2>2, OperationKeepsWord DEF Next
<1>3. WordInv => LastWordCounts
  <2> SUFFICES ASSUME WordInv, NEW p \in Pairs
               PROVE  LET q == <<p[2], p[1]>> IN
                      /\ asked[p] = "block" => /\ Blocked(p[1], p[2])
                                               /\ MayNotMessage(p[1], p[2])
                                               /\ MayNotMatch(p[1], p[2])
                      /\ asked[p] = "unblock" /\ asked[q] = "unblock" =>
                           ~Blocked(p[1], p[2]) /\ ~MayNotMessage(p[1], p[2])
    BY DEF LastWordCounts
  <2> DEFINE q == <<p[2], p[1]>>
  <2>1. q \in Pairs /\ q[1] = p[2] /\ q[2] = p[1]
    BY PairParts
  <2> HIDE DEF q
  <2>2. RowAsAsked(p) /\ RowAsAsked(q)
    BY <2>1 DEF WordInv
  <2>3. asked[p] = "block" => local[<<p[1], p[2], "blacklist">>] = "active"
    BY <2>2 DEF RowAsAsked
  <2>4. asked[p] = "unblock" /\ asked[q] = "unblock" =>
          /\ local[<<p[1], p[2], "blacklist">>] = "inactive"
          /\ local[<<p[2], p[1], "blacklist">>] = "inactive"
    BY <2>1, <2>2 DEF RowAsAsked
  <2>5. local[<<p[1], p[2], "blacklist">>] = "active" =>
          Blocked(p[1], p[2]) /\ MayNotMessage(p[1], p[2]) /\ MayNotMatch(p[1], p[2])
    BY DEF Blocked, Edge, MayNotMessage, MessagingBlocks, MayNotMatch
  <2>6. /\ local[<<p[1], p[2], "blacklist">>] = "inactive"
        /\ local[<<p[2], p[1], "blacklist">>] = "inactive"
        => ~Blocked(p[1], p[2]) /\ ~MayNotMessage(p[1], p[2])
    BY DEF Blocked, Edge, MayNotMessage, MessagingBlocks
  <2> QED
    BY <2>3, <2>4, <2>5, <2>6 DEF q
<1> QED
  BY <1>1, <1>2, <1>3, PTL DEF Spec

\* A local friendship begins only with an open request of one of the two.
THEOREM ConsentNeeded == Spec => FriendshipNeedsConsent
<1> DEFINE Begins(p) == /\ local[<<p[1], p[2], "friend">>] # "active"
                        /\ local'[<<p[1], p[2], "friend">>] = "active"
           Agreed(p) == \/ Request(p[1], p[2]) = "pending"
                        \/ Request(p[2], p[1]) = "pending"
<1>1. TypeOK /\ [Next]_vars => [\A p \in Pairs : Begins(p) => Agreed(p)]_vars
  <2> SUFFICES ASSUME TypeOK, Next, NEW p \in Pairs, Begins(p)
               PROVE  Agreed(p)
    OBVIOUS
  <2>1. PICK q \in Pairs, id \in Ids : Operation(q[1], q[2], id)
    BY DEF Next, Import
  <2> DEFINE u == q[1]
             v == q[2]
  <2>0. ASSUME NEW rows, NEW status, local' = Write(rows, status)
        PROVE  status = "active" /\ <<p[1], p[2], "friend">> \in rows
    <3>1. <<p[1], p[2], "friend">> \in LocalRows
      BY RowOfPair DEF LocalRows, EdgeKinds
    <3>2. local'[<<p[1], p[2], "friend">>] =
            IF <<p[1], p[2], "friend">> \in rows THEN status
            ELSE local[<<p[1], p[2], "friend">>]
      BY <2>0, <3>1 DEF Write
    <3> QED
      BY <3>2
  <2>2. CASE AcceptFriendRequest(u, v, id)
    <3>0. CASE local' = local
      BY <3>0
    <3> SUFFICES ASSUME local' # local PROVE Agreed(p)
      BY <3>0
    <3>1. /\ Request(v, u) = "pending"
          /\ local' = Write(Both(u, v, {"friend"}), "active")
      BY <2>2 DEF AcceptFriendRequest
    <3>2. <<p[1], p[2], "friend">> \in Both(u, v, {"friend"})
      BY <2>0, <3>1
    <3>3. (p[1] = u /\ p[2] = v) \/ (p[1] = v /\ p[2] = u)
      BY <3>2, RowOfBoth
    <3> QED
      BY <3>1, <3>3
  <2>3. CASE DeleteFriend(u, v, id)
    BY <2>0, <2>3 DEF DeleteFriend
  <2>4. CASE Follow(u, v, id) \/ Unfollow(u, v, id) \/ Unblock(u, v, id)
    <3>1. PICK kind \in {"follow", "blacklist"}, status \in {"active", "inactive"} :
             local' = Write({<<u, v, kind>>}, status)
      BY <2>4 DEF Follow, Unfollow, Unblock
    <3>2. <<p[1], p[2], "friend">> \in {<<u, v, kind>>}
      BY <2>0, <3>1
    <3> QED
      BY <3>2, SameRow
  <2>5. CASE Block(u, v, id)
    <3> DEFINE closed == Write(Both(u, v, {"friend", "follow"}), "inactive")
    <3>1. closed[<<p[1], p[2], "friend">>]
            \in {"inactive", local[<<p[1], p[2], "friend">>]}
      BY RowOfPair DEF Write, LocalRows, EdgeKinds
    <3>2. /\ <<p[1], p[2], "friend">> # <<u, v, "blacklist">>
          /\ <<p[1], p[2], "friend">> \in LocalRows
      BY RowOfPair DEF LocalRows, EdgeKinds
    <3>3. /\ local' = [closed EXCEPT ![<<u, v, "blacklist">>] = "active"]
          /\ closed = [r \in LocalRows |-> closed[r]]
      BY <2>5 DEF Block, Write
    <3> HIDE DEF closed
    <3>4. local'[<<p[1], p[2], "friend">>] = closed[<<p[1], p[2], "friend">>]
      BY <3>2, <3>3
    <3> QED
      BY <3>1, <3>4
  <2>6. CASE local' = local
    BY <2>6
  <2> QED
    BY <2>1, <2>2, <2>3, <2>4, <2>5, <2>6 DEF Operation, CreateFriendRequest,
       RejectFriendRequest, CancelFriendRequest
<1>2. TypeOK /\ [Next]_vars =>
        [\A p \in Pairs :
           /\ local[<<p[1], p[2], "friend">>] # "active"
           /\ local'[<<p[1], p[2], "friend">>] = "active"
           => Request(p[1], p[2]) = "pending" \/ Request(p[2], p[1]) = "pending"]_vars
  BY <1>1
<1> QED
  BY <1>2, TypeCorrect, PTL DEF Spec, FriendshipNeedsConsent
=============================================================================
