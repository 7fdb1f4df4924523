--------------------------- MODULE WebLoginProofs ---------------------------
(***************************************************************************)
(* Proofs about WebLogin, for every number of logins, accounts, invites    *)
(* and request handlers.  The argument is one of locks: what a handler has *)
(* read stays true until it writes, because it either holds the lock that  *)
(* every other writer needs or works for a login nobody else can know yet. *)
(***************************************************************************)
EXTENDS WebLogin, FiniteSetTheorems, TLAPS

-----------------------------------------------------------------------------
(* The inductive invariant *)

Past == {"account", "invite", "commit"}

\* A login that nobody else can know of yet.
Fresh(r) ==
    At(r, "provider") \/ (handler[r].pc \in Past /\ handler[r].invite = NoInvite)

Unborn(s) == session[s].status = "absent" /\ s \notin pending \cup cancelled

FreshOK(r) ==
    LET s == handler[r].sid IN
    Fresh(r) =>
        /\ Unborn(s) /\ runtime[s] = "none" /\ handler[r].invite = NoInvite
        /\ \A q \in Requests \ {r} : handler[q].sid # s

\* A login that took its pending key holds the lock of its runtime.
InvitedOK(r) ==
    LET s == handler[r].sid IN
    /\ handler[r].pc \in Past /\ handler[r].invite # NoInvite =>
         Unborn(s) /\ <<"runtime", s>> \in handler[r].held
    /\ handler[r].pc \in {"validate", "claim"} => <<"runtime", s>> \in handler[r].held

\* What a login has read stays true under the locks it holds.
LockedOK(r) ==
    LET i == handler[r].invite IN
    /\ handler[r].pc \in {"invite", "commit"} =>
         handler[r].new \/ <<"account", PhoneOf(handler[r].sid)>> \in handler[r].held
    /\ At(r, "commit") /\ i # NoInvite =>
         /\ <<"invite", i>> \in handler[r].held
         /\ handler[r].uses = invite[i].uses /\ invite[i].uses < MaxUses[i]

\* What is about to be revoked has no copy, and keeps none.
RevokingOK(r) ==
    LET s == handler[r].sid IN
    /\ handler[r].pc \in {"touch", "row", "identity", "revoke", "revoked"} =>
         session[s].status # "absent"
    /\ \A t \in Sids : <<"session", t>> \in handler[r].held =>
         session[t].status # "absent"
    /\ At(r, "revoked") => <<"session", s>> \in handler[r].held /\ s \notin cache

\* An account that is being disabled has no session but those that go with it.
DisablingOK(r) ==
    LET p == handler[r].phone IN
    /\ handler[r].pc \in {"disable", "disabled"} =>
         Known(p) /\ <<"account", p>> \in handler[r].held
    /\ At(r, "disable") => handler[r].held = {<<"account", p>>}
    /\ At(r, "disabled") =>
         /\ \A t \in Sids : <<"session", t>> \in handler[r].held => t \notin cache
         /\ \A t \in SessionsOf(p) : <<"session", t>> \in handler[r].held

NamedOK(r) ==
    /\ handler[r].pc \notin {"idle", "disable", "disabled"} => handler[r].sid \in Sids
    /\ handler[r].pc \in {"enter", "validate", "claim", "invite"} =>
         handler[r].invite \in Invites

HandlerOK(r) ==
    /\ FreshOK(r) /\ InvitedOK(r) /\ LockedOK(r)
    /\ RevokingOK(r) /\ DisablingOK(r) /\ NamedOK(r)

LocksApart ==
    \A q, r \in Requests : q # r => handler[q].held \cap handler[r].held = {}

\* Keys, runtimes and sessions of one login do not contradict each other.
LoginsOK ==
    \A s \in Sids :
        /\ s \in pending => session[s].status = "absent" /\ s \notin cancelled
        /\ s \in cancelled \/ runtime[s] = "pending" => session[s].status = "absent"
        /\ session[s].status = "absent" => session[s].via = NoInvite

IndInv ==
    /\ TypeOK /\ LocksApart /\ LoginsOK
    /\ \A r \in Requests : HandlerOK(r)
    /\ RevocationIsComplete /\ InviteUsesAreExact

-----------------------------------------------------------------------------
(* What a step of one handler must leave alone for another one *)

LeavesLogin(q) ==
    LET s == handler[q].sid IN
    /\ At(q, "provider") \/ handler[q].pc \in Past => Unborn(s)'
    /\ Fresh(q) => /\ runtime'[s] = "none"
                   /\ \A p \in Requests \ {q} : handler'[p].sid # s
    /\ handler[q].pc \in {"invite", "commit"} => login'[s].phone = login[s].phone
    /\ At(q, "commit") /\ handler[q].invite # NoInvite =>
         invite'[handler[q].invite].uses = invite[handler[q].invite].uses

LeavesSessions(q) ==
    LET p == handler[q].phone IN
    /\ \A s \in Sids : <<"session", s>> \in handler[q].held /\ s \notin cache =>
         s \notin cache'
    /\ Known(p) /\ handler[q].pc \in {"disable", "disabled"} => Known(p)'
    /\ At(q, "disabled") => \A s \in SessionsOf(p)' : <<"session", s>> \in handler[q].held

SessionsStay == \A s \in Sids : session[s].status # "absent" => session'[s].status # "absent"

LEMMA OtherKept ==
    ASSUME NEW q \in Requests, HandlerOK(q), TypeOK, handler'[q] = handler[q],
           LeavesLogin(q), LeavesSessions(q), SessionsStay
    PROVE  HandlerOK(q)'
<1>1. FreshOK(q)'
  BY DEF HandlerOK, FreshOK, InvitedOK, Fresh, At, LeavesLogin, Unborn
<1>2. InvitedOK(q)'
  BY DEF HandlerOK, InvitedOK, FreshOK, Fresh, At, LeavesLogin, Unborn
<1>3. LockedOK(q)'
  BY DEF HandlerOK, LockedOK, At, LeavesLogin, PhoneOf
<1>4. RevokingOK(q)'
  <2>1. handler[q].pc \in {"touch", "row", "identity", "revoke", "revoked"} =>
          handler[q].sid \in Sids
    BY DEF HandlerOK, NamedOK
  <2> QED
    BY <2>1 DEF HandlerOK, RevokingOK, At, LeavesSessions, SessionsStay
<1>5. DisablingOK(q)'
  BY DEF HandlerOK, DisablingOK, At, LeavesSessions
<1>6. NamedOK(q)'
  BY DEF HandlerOK, NamedOK
<1> QED
  BY <1>1, <1>2, <1>3, <1>4, <1>5, <1>6 DEF HandlerOK

\* A step of handler r that takes no lock another handler holds.
Alone(r) == \A q \in Requests \ {r} : handler'[q] = handler[q]
TakesFree(r) ==
    \A q \in Requests \ {r} : handler'[r].held \cap handler[q].held = {}

LEMMA IdleOK ==
    ASSUME NEW r \in Requests, handler'[r] = Idle
    PROVE  HandlerOK(r)' /\ TakesFree(r)
BY DEF HandlerOK, FreshOK, InvitedOK, LockedOK, RevokingOK, DisablingOK, NamedOK,
   Fresh, At, Past, Idle, TakesFree

LEMMA IdleTyped == Idle \in Handler
BY LoginAssumption DEF Idle, Handler, PCs, Locks

LEMMA ApartKept ==
    ASSUME LocksApart, NEW r \in Requests, Alone(r), TakesFree(r)
    PROVE  LocksApart'
BY DEF LocksApart, Alone, TakesFree

\* Nobody else works for the login handler r turns to.
Owns(r) ==
    \A q \in Requests \ {r} : Fresh(q) => handler'[r].sid # handler[q].sid

LEMMA OwnsSame ==
    ASSUME IndInv, NEW r \in Requests,
           handler'[r].sid = handler[r].sid \/ handler'[r] = Idle
    PROVE  Owns(r)
<1>1. ASSUME NEW q \in Requests \ {r}, Fresh(q)
      PROVE  handler[q].sid # handler[r].sid /\ handler[q].sid \in Sids
  BY <1>1 DEF IndInv, HandlerOK, FreshOK, NamedOK, Fresh, At, Past
<1> QED
  BY <1>1, LoginAssumption DEF Owns, Idle

\* A login somebody can know of.
LEMMA KnownLogin ==
    ASSUME IndInv, NEW q \in Requests, Fresh(q), NEW s \in Sids,
           ~Unborn(s) \/ runtime[s] # "none" \/ MaySendPending(s)
    PROVE  handler[q].sid # s
<1>1. LET t == handler[q].sid IN
      /\ Unborn(t) /\ runtime[t] = "none" /\ handler[q].invite = NoInvite
  BY DEF IndInv, HandlerOK, FreshOK
<1>2. handler[q].pc \in {"provider", "account", "commit"} \/ handler[q].pc = "invite"
  BY DEF Fresh, At, Past
<1>3. handler[q].pc # "invite"
  BY <1>1, LoginAssumption DEF IndInv, HandlerOK, NamedOK
<1> SUFFICES ASSUME handler[q].sid = s PROVE FALSE
  OBVIOUS
<1>4. MaySendPending(s)
  BY <1>1
<1> QED
  BY <1>1, <1>2, <1>3, <1>4 DEF MaySendPending

Unwritten ==
    UNCHANGED <<account, invite, login, pending, runtime, session, cache, cancelled>>

LEMMA HandlerSteps ==
    ASSUME IndInv, NEW r \in Requests, Unwritten, handler' \in [Requests -> Handler],
           Alone(r), TakesFree(r), Owns(r), HandlerOK(r)'
    PROVE  IndInv'
<1>1. ASSUME NEW q \in Requests \ {r} PROVE HandlerOK(q)'
  <2>1. HandlerOK(q) /\ TypeOK /\ handler'[q] = handler[q]
    BY DEF IndInv, Alone
  <2>2. LeavesLogin(q)
    BY <2>1 DEF LeavesLogin, HandlerOK, FreshOK, InvitedOK, Fresh, At, Unborn, Unwritten,
       Owns, Alone
  <2>3. LeavesSessions(q) /\ SessionsStay
    BY <2>1 DEF LeavesSessions, SessionsStay, HandlerOK, DisablingOK, At, Unwritten,
       SessionsOf, Active, PhoneOf, Known
  <2> QED
    BY <2>1, <2>2, <2>3, OtherKept
<1>2. TypeOK'
  BY DEF IndInv, TypeOK, Unwritten
<1>3. LoginsOK' /\ RevocationIsComplete' /\ InviteUsesAreExact'
  BY DEF IndInv, LoginsOK, RevocationIsComplete, InviteUsesAreExact, Unwritten,
     SessionsOf, Active, PhoneOf
<1>4. LocksApart'
  BY ApartKept DEF IndInv
<1> QED
  BY <1>1, <1>2, <1>3, <1>4 DEF IndInv

-----------------------------------------------------------------------------
(* The ways a handler moves *)

\* Another record in the place of handler r.
LEMMA Replaced ==
    ASSUME TypeOK, NEW r \in Requests, NEW h \in Handler,
           handler' = [handler EXCEPT ![r] = h]
    PROVE  handler' \in [Requests -> Handler] /\ Alone(r) /\ handler'[r] = h
BY DEF TypeOK, Alone

LEMMA EndFacts ==
    ASSUME TypeOK, NEW r \in Requests, End(r)
    PROVE  /\ handler' \in [Requests -> Handler] /\ Alone(r) /\ handler'[r] = Idle
           /\ HandlerOK(r)' /\ TakesFree(r)
BY Replaced, IdleTyped, IdleOK DEF End

LEMMA FailFacts ==
    ASSUME TypeOK, NEW r \in Requests, Fail(r), handler[r].sid \in Sids
    PROVE  /\ handler' \in [Requests -> Handler] /\ Alone(r)
           /\ handler'[r].sid = handler[r].sid
           /\ HandlerOK(r)' /\ TakesFree(r)
<1> DEFINE h == [Idle EXCEPT !.pc = "cancel", !.sid = handler[r].sid]
<1>1. /\ h \in Handler /\ h.pc = "cancel" /\ h.sid = handler[r].sid /\ h.held = {}
  BY IdleTyped DEF Handler, PCs, Idle
<1>2. handler' = [handler EXCEPT ![r] = h]
  BY DEF Fail
<1> HIDE DEF h
<1>3. handler' \in [Requests -> Handler] /\ Alone(r) /\ handler'[r] = h
  BY <1>1, <1>2, Replaced
<1> QED
  BY <1>1, <1>3 DEF HandlerOK, FreshOK, InvitedOK, LockedOK, RevokingOK, DisablingOK,
     NamedOK, Fresh, At, Past, TakesFree

LEMMA GoFacts ==
    ASSUME TypeOK, NEW r \in Requests, NEW pc \in PCs, Go(r, pc)
    PROVE  /\ handler' \in [Requests -> Handler] /\ Alone(r)
           /\ handler'[r] = [handler[r] EXCEPT !.pc = pc]
<1> DEFINE h == [handler[r] EXCEPT !.pc = pc]
<1>1. h \in Handler
  BY DEF TypeOK, Handler
<1>2. handler' = [handler EXCEPT ![r] = h]
  BY DEF Go
<1> HIDE DEF h
<1>3. handler' \in [Requests -> Handler] /\ Alone(r) /\ handler'[r] = h
  BY <1>1, <1>2, Replaced
<1> QED
  BY <1>3 DEF h

LEMMA TakeFacts ==
    ASSUME TypeOK, NEW r \in Requests, NEW pc \in PCs, NEW locks \in SUBSET Locks,
           Take(r, locks, pc)
    PROVE  /\ handler' \in [Requests -> Handler] /\ Alone(r)
           /\ handler'[r].pc = pc /\ handler'[r].held = handler[r].held \cup locks
           /\ handler'[r].sid = handler[r].sid /\ handler'[r].phone = handler[r].phone
           /\ handler'[r].invite = handler[r].invite
           /\ handler'[r].new = handler[r].new /\ handler'[r].uses = handler[r].uses
BY DEF TypeOK, Handler, Take, Alone

-----------------------------------------------------------------------------
(* Steps that write nothing but the handler *)

LEMMA EndsKeepsInv ==
    ASSUME IndInv, NEW r \in Requests, Unwritten, End(r) PROVE IndInv'
<1>1. TypeOK
  BY DEF IndInv
<1> QED
  BY <1>1, EndFacts, OwnsSame, HandlerSteps

LEMMA FailsKeepsInv ==
    ASSUME IndInv, NEW r \in Requests, Unwritten, Fail(r), handler[r].sid \in Sids
    PROVE  IndInv'
<1>1. TypeOK
  BY DEF IndInv
<1> QED
  BY <1>1, FailFacts, OwnsSame, HandlerSteps

LEMMA PrecheckKeepsInv ==
    ASSUME IndInv, NEW r \in Requests, NEW s \in Sids, NEW p \in Phones,
           Precheck(r, s, p)
    PROVE  IndInv'
<1> DEFINE b == ~Known(p)
           h == [Idle EXCEPT !.pc = "provider", !.sid = s, !.phone = p, !.new = b]
<1>1. b \in BOOLEAN
  BY DEF Known
<1>3. handler' = [handler EXCEPT ![r] = h]
  BY DEF Precheck
<1> HIDE DEF b
<1>2. /\ h \in Handler /\ h.pc = "provider" /\ h.sid = s /\ h.held = {}
      /\ h.invite = NoInvite
  BY <1>1, IdleTyped DEF Handler, PCs, Idle
<1> HIDE DEF h
<1>4. handler' \in [Requests -> Handler] /\ Alone(r) /\ handler'[r] = h
  BY <1>2, <1>3, Replaced DEF IndInv
<1>5. /\ Unwritten /\ Unborn(s) /\ runtime[s] = "none"
      /\ \A q \in Requests : handler[q].sid # s
  BY DEF Precheck, Unwritten, Unborn
<1>6. FreshOK(r)'
  BY <1>2, <1>4, <1>5 DEF FreshOK, Unwritten, Unborn, Alone
<1>7. HandlerOK(r)' /\ TakesFree(r)
  BY <1>2, <1>4, <1>6 DEF HandlerOK, InvitedOK, LockedOK, RevokingOK, DisablingOK, NamedOK,
     Fresh, At, Past, TakesFree
<1>8. Owns(r)
  BY <1>2, <1>4, <1>5 DEF Owns
<1> QED
  BY <1>4, <1>5, <1>7, <1>8, HandlerSteps

\* A handler that takes up a login, a session or a pending key that exists.
LEMMA StartsKeepInv ==
    ASSUME IndInv, NEW r \in Requests, NEW s \in Sids, NEW h \in Handler,
           h.pc \in {"enter", "cancel", "touch", "revoke"},
           h.sid = s, h.held = {},
           h.pc = "enter" => h.invite \in Invites,
           h.pc \in {"touch", "revoke"} => session[s].status # "absent",
           ~Unborn(s) \/ runtime[s] # "none" \/ MaySendPending(s),
           handler' = [handler EXCEPT ![r] = h],
           Unwritten
    PROVE  IndInv'
<1>1. handler' \in [Requests -> Handler] /\ Alone(r) /\ handler'[r] = h
  BY Replaced DEF IndInv
<1>2. session[s].status # "absent" => session'[s].status # "absent"
  BY DEF Unwritten
<1>3. HandlerOK(r)' /\ TakesFree(r)
  BY <1>1, <1>2 DEF HandlerOK, FreshOK, InvitedOK, LockedOK, RevokingOK,
     DisablingOK, NamedOK, Fresh, At, Past, TakesFree
<1>4. Owns(r)
  BY <1>1, KnownLogin DEF Owns
<1> QED
  BY <1>1, <1>3, <1>4, HandlerSteps

LEMMA StartFinishKeepsInv ==
    ASSUME IndInv, NEW r \in Requests, NEW s \in Sids, NEW i \in Invites,
           StartFinish(r, s, i)
    PROVE  IndInv'
<1> DEFINE h == [Idle EXCEPT !.pc = "enter", !.sid = s, !.invite = i]
<1>1. handler' = [handler EXCEPT ![r] = h] /\ runtime[s] # "none" /\ Unwritten
  BY DEF StartFinish, Unwritten
<1>2. h \in Handler /\ h.pc = "enter" /\ h.sid = s /\ h.held = {} /\ h.invite = i
  BY IdleTyped DEF Handler, PCs, Idle
<1> HIDE DEF h
<1> QED
  BY <1>1, <1>2, StartsKeepInv

LEMMA OtherStartsKeepInv ==
    ASSUME IndInv, NEW r \in Requests, NEW s \in Sids,
           StartCancel(r, s) \/ StartRequest(r, s) \/ StartLogout(r, s)
    PROVE  IndInv'
<1>1. PICK pc \in {"cancel", "touch", "revoke"} :
        /\ handler' = [handler EXCEPT ![r] = [Idle EXCEPT !.pc = pc, !.sid = s]]
        /\ IF pc = "cancel" THEN MaySendPending(s) ELSE session[s].status # "absent"
        /\ Unwritten
  BY DEF StartCancel, StartRequest, StartLogout, Active, Unwritten
<1> DEFINE h == [Idle EXCEPT !.pc = pc, !.sid = s]
<1>2. h \in Handler /\ h.pc = pc /\ h.sid = s /\ h.held = {}
  BY IdleTyped DEF Handler, PCs, Idle
<1>3. handler' = [handler EXCEPT ![r] = h]
  BY <1>1
<1> HIDE DEF h
<1>4. ~Unborn(s) \/ MaySendPending(s)
  BY <1>1 DEF Unborn
<1> QED
  BY <1>1, <1>2, <1>3, <1>4, StartsKeepInv

LEMMA EnterKeepsInv ==
    ASSUME IndInv, NEW r \in Requests, Enter(r) PROVE IndInv'
<1> DEFINE s == handler[r].sid
<1>1. /\ Unwritten /\ At(r, "enter") /\ Free(r, <<"runtime", s>>)
      /\ Take(r, {<<"runtime", s>>}, "validate") \/ Fail(r)
  BY DEF Enter, Unwritten
<1>2. TypeOK /\ s \in Sids /\ handler[r].invite \in Invites
  BY <1>1 DEF IndInv, HandlerOK, NamedOK, At
<1>3. CASE Fail(r)
  BY <1>1, <1>2, <1>3, FailsKeepsInv
<1>4. CASE Take(r, {<<"runtime", s>>}, "validate")
  <2>1. {<<"runtime", s>>} \in SUBSET Locks
    BY <1>2 DEF Locks
  <2>2. /\ handler' \in [Requests -> Handler] /\ Alone(r)
        /\ handler'[r].pc = "validate"
        /\ handler'[r].held = handler[r].held \cup {<<"runtime", s>>}
        /\ handler'[r].sid = s /\ handler'[r].invite = handler[r].invite
    BY <1>2, <1>4, <2>1, TakeFacts DEF PCs
  <2>3. TakesFree(r)
    BY <1>1, <2>2 DEF TakesFree, Free, IndInv, LocksApart
  <2>4. RevokingOK(r)'
    BY <1>1, <2>2 DEF RevokingOK, IndInv, HandlerOK, At, Unwritten
  <2>5. HandlerOK(r)'
    BY <1>2, <2>2, <2>4 DEF HandlerOK, FreshOK, InvitedOK, LockedOK, DisablingOK,
       NamedOK, Fresh, At, Past
  <2> QED
    BY <1>1, <2>2, <2>3, <2>5, OwnsSame, HandlerSteps
<1> QED
  BY <1>1, <1>3, <1>4

LEMMA ValidateKeepsInv ==
    ASSUME IndInv, NEW r \in Requests, Validate(r) PROVE IndInv'
<1>1. /\ Unwritten /\ At(r, "validate")
      /\ Go(r, "claim") \/ End(r) \/ Fail(r)
  BY DEF Validate, Unwritten
<1>2. /\ TypeOK /\ handler[r].sid \in Sids /\ handler[r].invite \in Invites
      /\ <<"runtime", handler[r].sid>> \in handler[r].held
  BY <1>1 DEF IndInv, HandlerOK, NamedOK, InvitedOK, At
<1>3. CASE Go(r, "claim")
  <2>1. /\ handler' \in [Requests -> Handler] /\ Alone(r)
        /\ handler'[r] = [handler[r] EXCEPT !.pc = "claim"]
    BY <1>2, <1>3, GoFacts DEF PCs
  <2>2. /\ handler'[r].pc = "claim" /\ handler'[r].held = handler[r].held
        /\ handler'[r].sid = handler[r].sid /\ handler'[r].invite = handler[r].invite
    BY <1>2, <2>1 DEF TypeOK, Handler
  <2>3. TakesFree(r)
    BY <2>2 DEF TakesFree, IndInv, LocksApart
  <2>4. RevokingOK(r)'
    BY <1>1, <2>2 DEF RevokingOK, IndInv, HandlerOK, At, Unwritten
  <2>5. HandlerOK(r)'
    BY <1>2, <2>2, <2>4 DEF HandlerOK, FreshOK, InvitedOK, LockedOK, DisablingOK,
       NamedOK, Fresh, At, Past
  <2> QED
    BY <1>1, <2>1, <2>2, <2>3, <2>5, OwnsSame, HandlerSteps
<1> QED
  BY <1>1, <1>2, <1>3, EndsKeepsInv, FailsKeepsInv

LockedRows(r, pc, new, held) ==
    handler' = [handler EXCEPT ![r].pc = pc, ![r].new = new, ![r].held = held]
CountRead(r, uses, held) ==
    handler' = [handler EXCEPT ![r].pc = "commit", ![r].uses = uses, ![r].held = held]

LEMMA LockFacts ==
    ASSUME TypeOK, NEW r \in Requests, NEW pc \in PCs, NEW new \in BOOLEAN,
           NEW held \in SUBSET Locks, LockedRows(r, pc, new, held)
    PROVE  /\ handler' \in [Requests -> Handler] /\ Alone(r)
           /\ handler'[r].pc = pc /\ handler'[r].new = new /\ handler'[r].held = held
           /\ handler'[r].sid = handler[r].sid /\ handler'[r].phone = handler[r].phone
           /\ handler'[r].invite = handler[r].invite
BY DEF TypeOK, Handler, Alone, LockedRows

LEMMA CountFacts ==
    ASSUME TypeOK, NEW r \in Requests, NEW uses \in Nat, NEW held \in SUBSET Locks,
           CountRead(r, uses, held)
    PROVE  /\ handler' \in [Requests -> Handler] /\ Alone(r)
           /\ handler'[r].pc = "commit" /\ handler'[r].uses = uses
           /\ handler'[r].held = held /\ handler'[r].new = handler[r].new
           /\ handler'[r].sid = handler[r].sid /\ handler'[r].phone = handler[r].phone
           /\ handler'[r].invite = handler[r].invite
BY DEF TypeOK, Handler, Alone, PCs, CountRead

LEMMA LockAccountKeepsInv ==
    ASSUME IndInv, NEW r \in Requests, LockAccount(r) PROVE IndInv'
<1> DEFINE s == handler[r].sid
           rows == {q \in Phones : Known(q) /\ (q = PhoneOf(s) \/ account[q].uid = login[s].uid)}
           pc == IF handler[r].invite = NoInvite THEN "commit" ELSE "invite"
           new == (rows = {})
           held == handler[r].held \cup {<<"account", q>> : q \in rows}
<1>1. /\ Unwritten /\ At(r, "account")
      /\ \A q \in rows : Free(r, <<"account", q>>)
      /\ \/ /\ rows = {} \/ rows = {PhoneOf(s)}
            /\ LockedRows(r, pc, new, held)
         \/ Fail(r)
  BY DEF LockAccount, Unwritten, LockedRows
<1>2. TypeOK /\ s \in Sids /\ HandlerOK(r)
  BY <1>1 DEF IndInv, HandlerOK, NamedOK, At
<1>3. CASE Fail(r)
  BY <1>1, <1>2, <1>3, FailsKeepsInv
<1>4. CASE /\ rows = {} \/ rows = {PhoneOf(s)}
           /\ LockedRows(r, pc, new, held)
  <2>1. /\ pc \in {"commit", "invite"} /\ (pc = "invite" => handler[r].invite # NoInvite)
        /\ (pc = "commit" => handler[r].invite = NoInvite)
        /\ new \in BOOLEAN /\ held \in SUBSET Locks
    <3>1. handler[r].held \in SUBSET Locks
      BY <1>2 DEF TypeOK, Handler
    <3>2. {<<"account", q>> : q \in rows} \in SUBSET Locks
      BY DEF Locks
    <3>3. held \in SUBSET Locks
      BY <3>1, <3>2
    <3> QED
      BY <3>3
  <2>2. new \/ <<"account", PhoneOf(s)>> \in held
    BY <1>4
  <2>3. /\ handler[r].held \subseteq held
        /\ \A t : <<"session", t>> \in held => <<"session", t>> \in handler[r].held
        /\ \A q \in Requests \ {r} : held \cap handler[q].held = {}
    BY <1>1 DEF Free, IndInv, LocksApart
  <2> HIDE DEF pc, new, held, rows
  <2>4. /\ handler' \in [Requests -> Handler] /\ Alone(r)
        /\ handler'[r].pc = pc /\ handler'[r].new = new /\ handler'[r].held = held
        /\ handler'[r].sid = s /\ handler'[r].invite = handler[r].invite
    BY <1>2, <1>4, <2>1, LockFacts DEF PCs
  <2>5. TakesFree(r)
    BY <2>3, <2>4 DEF TakesFree
  <2>6. FreshOK(r)'
    BY <1>1, <1>2, <2>1, <2>4 DEF HandlerOK, FreshOK, Fresh, At, Past, Unwritten, Unborn,
       Alone
  <2>7. InvitedOK(r)' /\ NamedOK(r)'
    BY <1>1, <1>2, <2>1, <2>3, <2>4 DEF HandlerOK, InvitedOK, NamedOK, At, Past, Unwritten,
       Unborn, TypeOK, Handler
  <2>8. LockedOK(r)' /\ RevokingOK(r)' /\ DisablingOK(r)'
    <3>1. login' = login
      BY <1>1 DEF Unwritten
    <3>2. RevokingOK(r)' /\ DisablingOK(r)'
      BY <1>1, <1>2, <2>1, <2>3, <2>4 DEF HandlerOK, RevokingOK, DisablingOK, At,
         Unwritten
    <3>3. LockedOK(r)'
      BY <1>1, <2>1, <2>2, <2>4, <3>1 DEF LockedOK, At, PhoneOf
    <3> QED
      BY <3>2, <3>3
  <2> QED
    BY <1>1, <2>4, <2>5, <2>6, <2>7, <2>8, OwnsSame, HandlerSteps DEF HandlerOK
<1> QED
  BY <1>1, <1>3, <1>4

LEMMA LockInviteKeepsInv ==
    ASSUME IndInv, NEW r \in Requests, LockInvite(r) PROVE IndInv'
<1> DEFINE s == handler[r].sid
           i == handler[r].invite
           uses == invite[i].uses
           held == handler[r].held \cup {<<"invite", i>>}
<1>1. /\ Unwritten /\ At(r, "invite") /\ Free(r, <<"invite", i>>)
      /\ \/ /\ uses < MaxUses[i]
            /\ CountRead(r, uses, held)
         \/ Fail(r)
  BY DEF LockInvite, Unwritten, Usable, CountRead
<1>2. TypeOK /\ s \in Sids /\ i \in Invites /\ HandlerOK(r)
  BY <1>1 DEF IndInv, HandlerOK, NamedOK, At
<1>3. CASE Fail(r)
  BY <1>1, <1>2, <1>3, FailsKeepsInv
<1>4. CASE /\ uses < MaxUses[i]
           /\ CountRead(r, uses, held)
  <2>1. uses \in Nat /\ held \in SUBSET Locks /\ i # NoInvite
    <3>1. uses \in Nat /\ i # NoInvite
      BY <1>2, LoginAssumption DEF TypeOK, Invite
    <3>2. handler[r].held \in SUBSET Locks /\ <<"invite", i>> \in Locks
      BY <1>2 DEF TypeOK, Handler, Locks
    <3> QED
      BY <3>1, <3>2
  <2>2. /\ handler[r].held \subseteq held /\ <<"invite", i>> \in held
        /\ \A t : <<"session", t>> \in held => <<"session", t>> \in handler[r].held
        /\ \A q \in Requests \ {r} : held \cap handler[q].held = {}
    BY <1>1 DEF Free, IndInv, LocksApart
  <2>3. uses < MaxUses[i] /\ uses = invite[i].uses /\ invite' = invite
    BY <1>1, <1>4 DEF Unwritten
  <2> HIDE DEF uses, held
  <2>4. /\ handler' \in [Requests -> Handler] /\ Alone(r)
        /\ handler'[r].pc = "commit" /\ handler'[r].new = handler[r].new
        /\ handler'[r].held = held /\ handler'[r].uses = uses
        /\ handler'[r].sid = s /\ handler'[r].invite = i
    BY <1>2, <1>4, <2>1, CountFacts
  <2>5. TakesFree(r)
    BY <2>2, <2>4 DEF TakesFree
  <2>6. FreshOK(r)' /\ InvitedOK(r)' /\ NamedOK(r)'
    BY <1>1, <1>2, <2>1, <2>2, <2>4 DEF HandlerOK, FreshOK, Fresh, InvitedOK, NamedOK, At,
       Past, Unwritten, Unborn
  <2>7. RevokingOK(r)' /\ DisablingOK(r)'
    BY <1>1, <1>2, <2>2, <2>4 DEF HandlerOK, RevokingOK, DisablingOK, At, Unwritten
  <2>8. LockedOK(r)'
    <3>1. login' = login
      BY <1>1 DEF Unwritten
    <3>2. handler[r].new \/ <<"account", PhoneOf(s)>> \in held
      BY <1>1, <1>2, <2>2 DEF HandlerOK, LockedOK, At
    <3> QED
      BY <2>2, <2>3, <2>4, <3>1, <3>2 DEF LockedOK, PhoneOf
  <2> QED
    BY <1>1, <2>4, <2>5, <2>6, <2>7, <2>8, OwnsSame, HandlerSteps DEF HandlerOK
<1> QED
  BY <1>1, <1>3, <1>4

LEMMA TouchKeepsInv ==
    ASSUME IndInv, NEW r \in Requests, Touch(r) PROVE IndInv'
<1>1. PICK pc \in {"row", "identity"} : Go(r, pc)
  BY DEF Touch
<1>2. At(r, "touch") /\ Unwritten
  BY DEF Touch, Unwritten
<1>3. TypeOK /\ HandlerOK(r)
  BY DEF IndInv
<1>4. /\ handler' \in [Requests -> Handler] /\ Alone(r)
      /\ handler'[r] = [handler[r] EXCEPT !.pc = pc]
  BY <1>1, <1>3, GoFacts DEF PCs
<1>5. /\ handler'[r].pc = pc /\ handler'[r].held = handler[r].held
      /\ handler'[r].sid = handler[r].sid
  BY <1>3, <1>4 DEF TypeOK, Handler
<1>6. TakesFree(r)
  BY <1>5 DEF TakesFree, IndInv, LocksApart
<1>7. HandlerOK(r)'
  BY <1>2, <1>3, <1>5 DEF HandlerOK, FreshOK, InvitedOK, LockedOK, DisablingOK, RevokingOK,
     NamedOK, Fresh, At, Past, Unwritten
<1> QED
  BY <1>2, <1>4, <1>5, <1>6, <1>7, OwnsSame, HandlerSteps

LEMMA StartDisableKeepsInv ==
    ASSUME IndInv, NEW r \in Requests, NEW p \in Phones, StartDisable(r, p)
    PROVE  IndInv'
<1> DEFINE h == [Idle EXCEPT !.pc = "disable", !.phone = p, !.held = {<<"account", p>>}]
<1>1. /\ Unwritten /\ Known(p) /\ Free(r, <<"account", p>>)
      /\ handler' = [handler EXCEPT ![r] = h]
  BY DEF StartDisable, Unwritten
<1>2. /\ h \in Handler /\ h.pc = "disable" /\ h.phone = p /\ h.held = {<<"account", p>>}
      /\ h.sid = NoSid
  <2>1. {<<"account", p>>} \in SUBSET Locks
    BY DEF Locks
  <2> QED
    BY <2>1, IdleTyped DEF Handler, PCs, Idle
<1> HIDE DEF h
<1>3. handler' \in [Requests -> Handler] /\ Alone(r) /\ handler'[r] = h
  BY <1>1, <1>2, Replaced DEF IndInv
<1>4. TakesFree(r)
  BY <1>1, <1>2, <1>3 DEF TakesFree, Free
<1>5. Known(p)'
  BY <1>1 DEF Known, Unwritten
<1>6. HandlerOK(r)'
  BY <1>2, <1>3, <1>5 DEF HandlerOK, FreshOK, InvitedOK, LockedOK, DisablingOK, RevokingOK,
     NamedOK, Fresh, At, Past
<1>7. Owns(r)
  <2>1. \A q \in Requests : Fresh(q) => handler[q].sid # NoSid
    BY LoginAssumption DEF IndInv, HandlerOK, NamedOK, Fresh, At, Past
  <2> QED
    BY <1>2, <1>3, <2>1 DEF Owns
<1> QED
  BY <1>1, <1>3, <1>4, <1>6, <1>7, HandlerSteps

LEMMA GiveUpKeepsInv ==
    ASSUME IndInv, NEW r \in Requests, GiveUp(r) PROVE IndInv'
BY EndsKeepsInv DEF GiveUp, Unwritten

-----------------------------------------------------------------------------
(* Steps that write the tables *)

LeavesOthers(r) == \A q \in Requests \ {r} : LeavesLogin(q) /\ LeavesSessions(q)

LEMMA TableSteps ==
    ASSUME IndInv, NEW r \in Requests, TypeOK', Alone(r), TakesFree(r), HandlerOK(r)',
           LeavesOthers(r), SessionsStay,
           LoginsOK', RevocationIsComplete', InviteUsesAreExact'
    PROVE  IndInv'
<1>1. ASSUME NEW q \in Requests \ {r} PROVE HandlerOK(q)'
  BY OtherKept DEF IndInv, Alone, LeavesOthers
<1> QED
  BY <1>1, ApartKept DEF IndInv

\* The first part of LeavesLogin for a step that keeps to a login of its own.
LEMMA FreshElsewhere ==
    ASSUME IndInv, NEW r \in Requests, NEW q \in Requests \ {r}, Owns(r), Alone(r),
           Fresh(q)
    PROVE  \A p \in Requests \ {q} : handler'[p].sid # handler[q].sid
BY DEF IndInv, HandlerOK, FreshOK, Owns, Alone

LEMMA AuthenticatedKeepsInv ==
    ASSUME IndInv, NEW r \in Requests, NEW u \in Uids, Authenticated(r, u) PROVE IndInv'
<1> DEFINE s == handler[r].sid
           l == [phone |-> handler[r].phone, uid |-> u]
<1>1. /\ TypeOK /\ HandlerOK(r) /\ s \in Sids /\ At(r, "provider")
      /\ Unborn(s) /\ runtime[s] = "none" /\ handler[r].invite = NoInvite
      /\ \A q \in Requests \ {r} : handler[q].sid # s
  BY DEF IndInv, HandlerOK, NamedOK, FreshOK, Fresh, At, Authenticated
<1>2. /\ login' = [login EXCEPT ![s] = l]
      /\ pending' \subseteq pending \cup {s}
      /\ runtime' = runtime \/ runtime' = [runtime EXCEPT ![s] = "pending"]
      /\ \/ End(r)
         \/ Go(r, "account") /\ UNCHANGED <<pending, runtime>>
      /\ UNCHANGED <<account, invite, session, cache, cancelled>>
  BY DEF Authenticated
<1>3. l \in Login
  BY <1>1 DEF Login, TypeOK, Handler
<1> HIDE DEF l
<1>4. /\ login' \in [Sids -> Login]
      /\ \A t \in Sids \ {s} : login'[t] = login[t] /\ runtime'[t] = runtime[t]
      /\ runtime' \in [Sids -> {"none", "pending", "signed in"}]
  BY <1>1, <1>2, <1>3 DEF TypeOK
<1>5. /\ handler' \in [Requests -> Handler] /\ Alone(r) /\ TakesFree(r) /\ HandlerOK(r)'
      /\ handler'[r].sid = s \/ handler'[r] = Idle
  <2>1. CASE End(r)
    BY <1>1, <2>1, EndFacts
  <2>2. CASE Go(r, "account") /\ UNCHANGED <<pending, runtime>>
    <3>1. /\ handler' \in [Requests -> Handler] /\ Alone(r)
          /\ handler'[r] = [handler[r] EXCEPT !.pc = "account"]
      BY <1>1, <2>2, GoFacts DEF PCs
    <3>2. /\ handler'[r].pc = "account" /\ handler'[r].sid = s
          /\ handler'[r].invite = NoInvite /\ handler'[r].held = handler[r].held
      <4>1. handler[r] \in Handler /\ handler[r].invite = NoInvite
        BY <1>1 DEF TypeOK
      <4> QED
        BY <3>1, <4>1 DEF Handler
    <3>3. TakesFree(r)
      BY <3>2 DEF TakesFree, IndInv, LocksApart
    <3>4. FreshOK(r)'
      BY <1>1, <1>2, <2>2, <3>1, <3>2 DEF FreshOK, Alone, Unborn
    <3>5. RevokingOK(r)'
      BY <1>1, <1>2, <3>2 DEF HandlerOK, RevokingOK, At
    <3> QED
      BY <1>1, <3>1, <3>2, <3>3, <3>4, <3>5 DEF HandlerOK, InvitedOK, LockedOK, DisablingOK,
         NamedOK, At
  <2> QED
    BY <1>2, <2>1, <2>2
<1>6. TypeOK'
  BY <1>1, <1>2, <1>4, <1>5 DEF TypeOK
<1>7. \A p \in Phones : SessionsOf(p)' = SessionsOf(p)
  BY <1>1, <1>2, <1>4 DEF SessionsOf, Active, PhoneOf, Unborn
<1>8. LeavesOthers(r)
  <2> SUFFICES ASSUME NEW q \in Requests \ {r} PROVE LeavesLogin(q) /\ LeavesSessions(q)
    BY DEF LeavesOthers
  <2>1. HandlerOK(q) /\ handler[q] \in Handler /\ handler'[q] = handler[q]
    BY <1>1, <1>5 DEF IndInv, TypeOK, Alone
  <2>2. LeavesSessions(q)
    BY <1>2, <1>7, <2>1 DEF LeavesSessions, HandlerOK, DisablingOK, Known, Handler
  <2>3. Fresh(q) => \A p \in Requests \ {q} : handler'[p].sid # handler[q].sid
    BY <1>5, OwnsSame, FreshElsewhere
  <2>4. ASSUME At(q, "provider") \/ handler[q].pc \in Past
        PROVE  /\ handler[q].sid \in Sids \ {s} /\ Unborn(handler[q].sid)
               /\ Fresh(q) => runtime[handler[q].sid] = "none"
    BY <1>1, <2>1, <2>4 DEF HandlerOK, NamedOK, FreshOK, InvitedOK, Fresh, At, Past
  <2>5. LeavesLogin(q)
    BY <1>2, <1>4, <2>1, <2>3, <2>4 DEF LeavesLogin, Unborn, At, Past, Fresh
  <2> QED
    BY <2>2, <2>5
<1>9. LoginsOK' /\ RevocationIsComplete' /\ InviteUsesAreExact'
  <2>1. LoginsOK'
    BY <1>1, <1>2, <1>4 DEF IndInv, LoginsOK, Unborn
  <2>2. RevocationIsComplete'
    BY <1>2, <1>7 DEF IndInv, RevocationIsComplete, Active
  <2> QED
    BY <1>2, <2>1, <2>2 DEF IndInv, InviteUsesAreExact
<1>10. SessionsStay
  BY <1>2 DEF SessionsStay
<1> QED
  BY <1>5, <1>6, <1>8, <1>9, <1>10, TableSteps

LEMMA LoginFacts ==
    ASSUME IndInv, NEW q \in Requests, At(q, "provider") \/ handler[q].pc \in Past
    PROVE  LET s == handler[q].sid IN
           /\ s \in Sids /\ Unborn(s)
           /\ IF Fresh(q) THEN /\ runtime[s] = "none"
                              /\ \A p \in Requests \ {q} : handler[p].sid # s
              ELSE <<"runtime", s>> \in handler[q].held
BY DEF IndInv, HandlerOK, NamedOK, FreshOK, InvitedOK, Fresh, At, Past

\* A step that writes no row, except the keys in Redis and its own runtime.
LEMMA QuietLeaves ==
    ASSUME IndInv, NEW r \in Requests, Alone(r), Owns(r),
           UNCHANGED <<account, invite, login, session>>,
           pending' \subseteq pending,
           \A t \in cancelled' \ cancelled : \A q \in Requests \ {r} :
             At(q, "provider") \/ handler[q].pc \in Past => handler[q].sid # t,
           \A t \in Sids : runtime'[t] # runtime[t] => t = handler[r].sid,
           \A t \in cache' \ cache : Free(r, <<"session", t>>)
    PROVE  LeavesOthers(r) /\ SessionsStay
<1>1. ASSUME NEW q \in Requests \ {r} PROVE LeavesLogin(q)
  <2>1. handler'[q] = handler[q]
    BY DEF Alone
  <2>2. Fresh(q) => \A p \in Requests \ {q} : handler'[p].sid # handler[q].sid
    BY FreshElsewhere
  <2>3. Fresh(q) => At(q, "provider") \/ handler[q].pc \in Past
    BY DEF Fresh
  <2>4. At(q, "provider") \/ handler[q].pc \in Past => Unborn(handler[q].sid)'
    BY <2>1, LoginFacts DEF Unborn
  <2>5. Fresh(q) => runtime'[handler[q].sid] = "none"
    BY <2>3, LoginFacts
  <2> QED
    BY <2>1, <2>2, <2>4, <2>5 DEF LeavesLogin
<1>2. ASSUME NEW q \in Requests \ {r} PROVE LeavesSessions(q)
  <2>1. handler'[q] = handler[q] /\ HandlerOK(q)
    BY DEF Alone, IndInv
  <2> QED
    BY <2>1 DEF LeavesSessions, HandlerOK, DisablingOK, SessionsOf, Active, PhoneOf, Known,
       Free
<1> QED
  BY <1>1, <1>2 DEF LeavesOthers, SessionsStay

\* Then the accounts and invites stay as they are, too.
LEMMA QuietKeeps ==
    ASSUME IndInv, UNCHANGED <<account, invite, login, session>>,
           \A t \in cache' : t \in cache \/ Active(t)
    PROVE  RevocationIsComplete' /\ InviteUsesAreExact'
BY DEF IndInv, RevocationIsComplete, InviteUsesAreExact, SessionsOf, Active, PhoneOf

LEMMA ClaimKeepsInv ==
    ASSUME IndInv, NEW r \in Requests, Claim(r) PROVE IndInv'
<1> DEFINE s == handler[r].sid
<1>1. /\ TypeOK /\ HandlerOK(r) /\ s \in Sids /\ At(r, "claim")
      /\ handler[r].invite \in Invites /\ <<"runtime", s>> \in handler[r].held
  BY DEF IndInv, HandlerOK, NamedOK, InvitedOK, At, Claim
<1>2. /\ pending' = pending \ {s}
      /\ (s \in pending /\ Go(r, "account")) \/ Fail(r)
      /\ UNCHANGED <<account, invite, login, runtime, session, cache, cancelled>>
  BY DEF Claim
<1>3. /\ handler' \in [Requests -> Handler] /\ Alone(r) /\ TakesFree(r) /\ HandlerOK(r)'
      /\ handler'[r].sid = s
  <2>1. CASE Fail(r)
    BY <1>1, <2>1, FailFacts
  <2>2. CASE s \in pending /\ Go(r, "account")
    <3>1. /\ handler' \in [Requests -> Handler] /\ Alone(r)
          /\ handler'[r] = [handler[r] EXCEPT !.pc = "account"]
      BY <1>1, <2>2, GoFacts DEF PCs
    <3>2. /\ handler'[r].pc = "account" /\ handler'[r].sid = s
          /\ handler'[r].invite = handler[r].invite /\ handler'[r].held = handler[r].held
      <4>1. handler[r] \in Handler
        BY <1>1 DEF TypeOK
      <4> QED
        BY <3>1, <4>1 DEF Handler
    <3>3. TakesFree(r)
      BY <3>2 DEF TakesFree, IndInv, LocksApart
    <3>4. Unborn(s) \/ s \in pending
      BY <2>2
    <3>5. InvitedOK(r)'
      <4>1. session'[s].status = "absent" /\ s \notin pending' \cup cancelled'
        BY <1>1, <1>2, <2>2 DEF IndInv, LoginsOK
      <4> QED
        BY <1>1, <3>2, <4>1 DEF InvitedOK, Unborn, Past
    <3>6. FreshOK(r)'
      BY <1>1, <3>2, LoginAssumption DEF FreshOK, Fresh, At, Past
    <3>7. RevokingOK(r)' /\ DisablingOK(r)' /\ LockedOK(r)' /\ NamedOK(r)'
      BY <1>1, <1>2, <3>2 DEF HandlerOK, RevokingOK, DisablingOK, LockedOK, NamedOK, At
    <3> QED
      BY <3>1, <3>2, <3>3, <3>5, <3>6, <3>7 DEF HandlerOK
  <2> QED
    BY <1>2, <2>1, <2>2
<1>4. TypeOK'
  BY <1>1, <1>2, <1>3 DEF TypeOK
<1>5. LeavesOthers(r) /\ SessionsStay
  BY <1>2, <1>3, OwnsSame, QuietLeaves
<1>6. LoginsOK'
  BY <1>2 DEF IndInv, LoginsOK
<1>7. RevocationIsComplete' /\ InviteUsesAreExact'
  BY <1>2, QuietKeeps
<1> QED
  BY <1>3, <1>4, <1>5, <1>6, <1>7, TableSteps

LEMMA CancelKeepsInv ==
    ASSUME IndInv, NEW r \in Requests, Cancel(r) PROVE IndInv'
<1> DEFINE s == handler[r].sid
           promoted == runtime[s] # "none" /\ Active(s) /\ account[PhoneOf(s)].active
           done == ~promoted /\ (s \in pending \/ runtime[s] = "pending")
<1>1. /\ TypeOK /\ HandlerOK(r) /\ s \in Sids
      /\ runtime[s] # "none" => Free(r, <<"runtime", s>>) /\ Free(r, <<"session", s>>)
  BY DEF IndInv, HandlerOK, NamedOK, At, Cancel
<1>2. /\ pending' = IF promoted THEN pending ELSE pending \ {s}
      /\ cache' = IF promoted THEN cache \cup {s} ELSE cache
      /\ runtime' = IF done THEN [runtime EXCEPT ![s] = "none"] ELSE runtime
      /\ cancelled' = IF done THEN cancelled \cup {s} ELSE cancelled
      /\ End(r)
      /\ UNCHANGED <<account, invite, login, session>>
  BY DEF Cancel
<1>3. /\ promoted => runtime[s] # "none" /\ Active(s)
      /\ done => ~promoted /\ (s \in pending \/ runtime[s] = "pending")
      /\ promoted => ~done
  OBVIOUS
<1> HIDE DEF promoted, done
<1>4. /\ handler' \in [Requests -> Handler] /\ Alone(r) /\ TakesFree(r) /\ HandlerOK(r)'
      /\ handler'[r] = Idle
  BY <1>1, <1>2, EndFacts
<1>5. TypeOK'
  BY <1>1, <1>2, <1>4 DEF TypeOK
<1>6. ASSUME done, NEW q \in Requests \ {r}, At(q, "provider") \/ handler[q].pc \in Past
      PROVE  handler[q].sid # s
  <2> SUFFICES ASSUME handler[q].sid = s PROVE FALSE
    OBVIOUS
  <2>1. ~Fresh(q)
    BY <1>6, LoginFacts
  <2>2. Unborn(s) /\ <<"runtime", s>> \in handler[q].held
    BY <1>6, <2>1, LoginFacts
  <2> QED
    BY <1>1, <1>3, <1>6, <2>2 DEF Unborn, Free
<1>7. LeavesOthers(r) /\ SessionsStay
  <2>1. \A t \in Sids : runtime'[t] # runtime[t] => t = s
    BY <1>1, <1>2 DEF TypeOK
  <2>2. \A t \in cache' \ cache : Free(r, <<"session", t>>)
    BY <1>1, <1>2, <1>3
  <2>3. \A t \in cancelled' \ cancelled : t = s /\ done
    BY <1>2
  <2>4. pending' \subseteq pending
    BY <1>2
  <2>5. \A t \in cancelled' \ cancelled : \A q \in Requests \ {r} :
             At(q, "provider") \/ handler[q].pc \in Past => handler[q].sid # t
    BY <1>6, <2>3
  <2> QED
    BY <1>2, <1>4, <2>1, <2>2, <2>4, <2>5, OwnsSame, QuietLeaves
<1>8. LoginsOK'
  <2> SUFFICES ASSUME NEW t \in Sids
               PROVE  /\ t \in pending' => session'[t].status = "absent" /\ t \notin cancelled'
                      /\ t \in cancelled' \/ runtime'[t] = "pending" =>
                           session'[t].status = "absent"
                      /\ session'[t].status = "absent" => session'[t].via = NoInvite
    BY DEF LoginsOK
  <2>1. /\ t \in pending => session[t].status = "absent" /\ t \notin cancelled
        /\ t \in cancelled \/ runtime[t] = "pending" => session[t].status = "absent"
        /\ session[t].status = "absent" => session[t].via = NoInvite
    BY DEF IndInv, LoginsOK
  <2>2. /\ t \in pending' => t \in pending /\ (t = s => ~done)
        /\ t \in cancelled' => t \in cancelled \/ (t = s /\ done)
        /\ runtime'[t] = "pending" => runtime[t] = "pending"
    BY <1>1, <1>2, <1>3 DEF TypeOK
  <2> QED
    BY <1>2, <1>3, <2>1, <2>2
<1>9. RevocationIsComplete' /\ InviteUsesAreExact'
  BY <1>2, <1>3, QuietKeeps
<1> QED
  BY <1>4, <1>5, <1>7, <1>8, <1>9, TableSteps

LEMMA RefillKeepsInv ==
    ASSUME IndInv, NEW r \in Requests, Refill(r) PROVE IndInv'
<1> DEFINE s == handler[r].sid
<1>1. /\ TypeOK /\ HandlerOK(r) /\ s \in Sids /\ At(r, "row")
      /\ session[s].status # "absent"
  BY DEF IndInv, HandlerOK, NamedOK, RevokingOK, At, Refill
<1>2. /\ Free(r, <<"session", s>>)
      /\ \/ /\ Active(s) /\ cache' = cache \cup {s} /\ runtime' = runtime
            /\ Take(r, {<<"session", s>>}, "identity")
         \/ /\ cache' = cache \ {s}
            /\ runtime' = [runtime EXCEPT ![s] = "none"]
            /\ End(r)
      /\ UNCHANGED <<account, invite, login, pending, session, cancelled>>
  BY DEF Refill
<1>3. /\ handler' \in [Requests -> Handler] /\ Alone(r) /\ TakesFree(r) /\ HandlerOK(r)'
      /\ handler'[r].sid = s \/ handler'[r] = Idle
  <2>1. CASE End(r)
    BY <1>1, <2>1, EndFacts
  <2>2. CASE Take(r, {<<"session", s>>}, "identity")
    <3>1. {<<"session", s>>} \in SUBSET Locks
      BY <1>1 DEF Locks
    <3>2. /\ handler' \in [Requests -> Handler] /\ Alone(r)
          /\ handler'[r].pc = "identity"
          /\ handler'[r].held = handler[r].held \cup {<<"session", s>>}
          /\ handler'[r].sid = s /\ handler'[r].invite = handler[r].invite
      BY <1>1, <2>2, <3>1, TakeFacts DEF PCs
    <3>3. TakesFree(r)
      BY <1>2, <3>2 DEF TakesFree, IndInv, LocksApart, Free
    <3>4. RevokingOK(r)'
      BY <1>1, <1>2, <3>2 DEF HandlerOK, RevokingOK, At
    <3>5. FreshOK(r)' /\ InvitedOK(r)' /\ LockedOK(r)' /\ DisablingOK(r)' /\ NamedOK(r)'
      BY <1>1, <3>2 DEF FreshOK, InvitedOK, LockedOK, DisablingOK, NamedOK, Fresh, At, Past
    <3> QED
      BY <3>2, <3>3, <3>4, <3>5 DEF HandlerOK
  <2> QED
    BY <1>2, <2>1, <2>2
<1>4. TypeOK'
  BY <1>1, <1>2, <1>3 DEF TypeOK
<1>5. LeavesOthers(r) /\ SessionsStay
  <2>1. \A t \in Sids : runtime'[t] # runtime[t] => t = s
    BY <1>1, <1>2 DEF TypeOK
  <2>2. \A t \in cache' \ cache : Free(r, <<"session", t>>)
    BY <1>2
  <2> QED
    BY <1>2, <1>3, <2>1, <2>2, OwnsSame, QuietLeaves
<1>6. LoginsOK'
  BY <1>1, <1>2 DEF IndInv, LoginsOK, TypeOK
<1>7. RevocationIsComplete' /\ InviteUsesAreExact'
  BY <1>2, QuietKeeps
<1> QED
  BY <1>3, <1>4, <1>5, <1>6, <1>7, TableSteps

LEMMA IdentityKeepsInv ==
    ASSUME IndInv, NEW r \in Requests, Identity(r) PROVE IndInv'
<1> DEFINE s == handler[r].sid
<1>1. /\ TypeOK /\ HandlerOK(r) /\ s \in Sids /\ At(r, "identity")
      /\ session[s].status # "absent"
  BY DEF IndInv, HandlerOK, NamedOK, RevokingOK, At, Identity
<1>2. /\ \/ runtime' = [runtime EXCEPT ![s] = "signed in"] /\ End(r)
         \/ runtime' = [runtime EXCEPT ![s] = "none"] /\ End(r)
         \/ runtime' = runtime /\ Go(r, "revoke")
      /\ UNCHANGED <<account, invite, login, pending, session, cache, cancelled>>
  BY DEF Identity
<1>3. /\ handler' \in [Requests -> Handler] /\ Alone(r) /\ TakesFree(r) /\ HandlerOK(r)'
      /\ handler'[r].sid = s \/ handler'[r] = Idle
  <2>1. CASE End(r)
    BY <1>1, <2>1, EndFacts
  <2>2. CASE Go(r, "revoke")
    <3>1. /\ handler' \in [Requests -> Handler] /\ Alone(r)
          /\ handler'[r] = [handler[r] EXCEPT !.pc = "revoke"]
      BY <1>1, <2>2, GoFacts DEF PCs
    <3>2. /\ handler'[r].pc = "revoke" /\ handler'[r].sid = s
          /\ handler'[r].held = handler[r].held
      <4>1. handler[r] \in Handler
        BY <1>1 DEF TypeOK
      <4> QED
        BY <3>1, <4>1 DEF Handler
    <3>3. TakesFree(r)
      BY <3>2 DEF TakesFree, IndInv, LocksApart
    <3>4. RevokingOK(r)'
      BY <1>1, <1>2, <3>2 DEF HandlerOK, RevokingOK, At
    <3>5. FreshOK(r)' /\ InvitedOK(r)' /\ LockedOK(r)' /\ DisablingOK(r)' /\ NamedOK(r)'
      BY <1>1, <3>2 DEF FreshOK, InvitedOK, LockedOK, DisablingOK, NamedOK, Fresh, At, Past
    <3> QED
      BY <3>1, <3>2, <3>3, <3>4, <3>5 DEF HandlerOK
  <2> QED
    BY <1>2, <2>1, <2>2
<1>4. TypeOK'
  BY <1>1, <1>2, <1>3 DEF TypeOK
<1>5. LeavesOthers(r) /\ SessionsStay
  <2>1. \A t \in Sids : runtime'[t] # runtime[t] => t = s
    BY <1>1, <1>2 DEF TypeOK
  <2> QED
    BY <1>2, <1>3, <2>1, OwnsSame, QuietLeaves
<1>6. LoginsOK'
  BY <1>1, <1>2 DEF IndInv, LoginsOK, TypeOK
<1>7. RevocationIsComplete' /\ InviteUsesAreExact'
  BY <1>2, QuietKeeps
<1> QED
  BY <1>3, <1>4, <1>5, <1>6, <1>7, TableSteps

LEMMA RevokeKeepsInv ==
    ASSUME IndInv, NEW r \in Requests, Revoke(r) PROVE IndInv'
<1> DEFINE s == handler[r].sid
<1>1. /\ TypeOK /\ HandlerOK(r) /\ s \in Sids /\ At(r, "revoke")
      /\ session[s].status # "absent"
  BY DEF IndInv, HandlerOK, NamedOK, RevokingOK, At, Revoke
<1>2. /\ Free(r, <<"session", s>>) /\ cache' = cache \ {s}
      /\ Take(r, {<<"session", s>>}, "revoked")
      /\ UNCHANGED <<account, invite, login, pending, runtime, session, cancelled>>
  BY DEF Revoke
<1>3. {<<"session", s>>} \in SUBSET Locks
  BY <1>1 DEF Locks
<1>4. /\ handler' \in [Requests -> Handler] /\ Alone(r)
      /\ handler'[r].pc = "revoked"
      /\ handler'[r].held = handler[r].held \cup {<<"session", s>>}
      /\ handler'[r].sid = s
  BY <1>1, <1>2, <1>3, TakeFacts DEF PCs
<1>5. TakesFree(r)
  BY <1>2, <1>4 DEF TakesFree, IndInv, LocksApart, Free
<1>6. HandlerOK(r)'
  <2>1. RevokingOK(r)'
    BY <1>1, <1>2, <1>4 DEF HandlerOK, RevokingOK, At
  <2>2. FreshOK(r)' /\ InvitedOK(r)' /\ LockedOK(r)' /\ DisablingOK(r)' /\ NamedOK(r)'
    BY <1>1, <1>4 DEF FreshOK, InvitedOK, LockedOK, DisablingOK, NamedOK, Fresh, At, Past
  <2> QED
    BY <2>1, <2>2 DEF HandlerOK
<1>7. TypeOK'
  BY <1>1, <1>2, <1>4 DEF TypeOK
<1>8. LeavesOthers(r) /\ SessionsStay
  BY <1>2, <1>4, OwnsSame, QuietLeaves
<1>9. LoginsOK'
  BY <1>2 DEF IndInv, LoginsOK
<1>10. RevocationIsComplete' /\ InviteUsesAreExact'
  BY <1>2, QuietKeeps
<1> QED
  BY <1>4, <1>5, <1>6, <1>7, <1>8, <1>9, <1>10, TableSteps

LEMMA RevokeAllKeepsInv ==
    ASSUME IndInv, NEW r \in Requests, RevokeAll(r) PROVE IndInv'
<1> DEFINE p == handler[r].phone
           rows == SessionsOf(p)
<1>1. /\ TypeOK /\ HandlerOK(r) /\ At(r, "disable")
      /\ Known(p) /\ handler[r].held = {<<"account", p>>}
  BY DEF IndInv, HandlerOK, DisablingOK, At, RevokeAll
<1>2. /\ \A s \in rows : Free(r, <<"session", s>>)
      /\ cache' = cache \ rows
      /\ Take(r, {"session"} \X rows, "disabled")
      /\ UNCHANGED <<account, invite, login, pending, runtime, session, cancelled>>
  BY DEF RevokeAll
<1>3. {"session"} \X rows \in SUBSET Locks
  BY DEF Locks, SessionsOf
<1>4. /\ handler' \in [Requests -> Handler] /\ Alone(r)
      /\ handler'[r].pc = "disabled"
      /\ handler'[r].held = handler[r].held \cup ({"session"} \X rows)
      /\ handler'[r].sid = handler[r].sid /\ handler'[r].phone = p
  BY <1>1, <1>2, <1>3, TakeFacts DEF PCs
<1>5. TakesFree(r)
  BY <1>2, <1>4 DEF TakesFree, IndInv, LocksApart, Free
<1>6. HandlerOK(r)'
  <2>1. RevokingOK(r)'
    BY <1>1, <1>2, <1>4 DEF HandlerOK, RevokingOK, At, SessionsOf, Active
  <2>2. DisablingOK(r)'
    <3>1. SessionsOf(p)' = rows /\ Known(p)'
      BY <1>1, <1>2, <1>4 DEF SessionsOf, Active, PhoneOf, Known
    <3>2. \A t \in Sids : <<"session", t>> \in handler'[r].held => t \notin cache'
      BY <1>1, <1>2, <1>4
    <3> QED
      BY <1>1, <1>4, <3>1, <3>2 DEF DisablingOK, At
  <2>3. FreshOK(r)' /\ InvitedOK(r)' /\ LockedOK(r)' /\ NamedOK(r)'
    BY <1>1, <1>4 DEF FreshOK, InvitedOK, LockedOK, NamedOK, Fresh, At, Past
  <2> QED
    BY <2>1, <2>2, <2>3 DEF HandlerOK
<1>7. TypeOK'
  BY <1>1, <1>2, <1>4 DEF TypeOK
<1>8. LeavesOthers(r) /\ SessionsStay
  BY <1>2, <1>4, OwnsSame, QuietLeaves
<1>9. LoginsOK'
  BY <1>2 DEF IndInv, LoginsOK
<1>10. RevocationIsComplete' /\ InviteUsesAreExact'
  BY <1>2, QuietKeeps
<1> QED
  BY <1>4, <1>5, <1>6, <1>7, <1>8, <1>9, <1>10, TableSteps

-----------------------------------------------------------------------------
(* Steps that write rows *)

\* Two handlers past the claim never work for the same login.
LEMMA LoginsApart ==
    ASSUME IndInv, NEW r \in Requests, NEW q \in Requests \ {r},
           handler[r].pc \in Past, At(q, "provider") \/ handler[q].pc \in Past
    PROVE  handler[q].sid # handler[r].sid
<1>1. CASE Fresh(r)
  BY <1>1, LoginFacts
<1>2. CASE Fresh(q)
  BY <1>2, LoginFacts
<1>3. CASE ~Fresh(r) /\ ~Fresh(q)
  <2>1. /\ <<"runtime", handler[r].sid>> \in handler[r].held
        /\ <<"runtime", handler[q].sid>> \in handler[q].held
    BY <1>3, LoginFacts
  <2> QED
    BY <2>1 DEF IndInv, LocksApart
<1> QED
  BY <1>1, <1>2, <1>3

LEMMA ViaGrows ==
    ASSUME IndInv, NEW s \in Sids, session[s].via = NoInvite, NEW i \in Invites,
           session' = [session EXCEPT ![s] = [status |-> "active", via |-> i]]
    PROVE  Cardinality({t \in Sids : session'[t].via = i})
             = Cardinality({t \in Sids : session[t].via = i}) + 1
<1> DEFINE V == {t \in Sids : session[t].via = i}
           row == [status |-> "active", via |-> i]
<1>1. s \notin V /\ {t \in Sids : session'[t].via = i} = V \cup {s}
  <2>1. row.via = i /\ session' = [session EXCEPT ![s] = row]
    OBVIOUS
  <2> HIDE DEF row
  <2>2. session'[s] = row /\ \A t \in Sids \ {s} : session'[t] = session[t]
    BY <2>1 DEF IndInv, TypeOK
  <2> QED
    BY <2>1, <2>2, LoginAssumption
<1>2. IsFiniteSet(V)
  BY FS_Subset, LoginAssumption
<1> HIDE DEF V
<1>3. Cardinality(V \cup {s}) = Cardinality(V) + 1
  BY <1>1, <1>2, FS_AddElement
<1> QED
  BY <1>1, <1>3 DEF V

LEMMA CommitKeepsInv ==
    ASSUME IndInv, NEW r \in Requests, Commit(r), Unique(r) PROVE IndInv'
<1> DEFINE s == handler[r].sid
           i == handler[r].invite
           p == PhoneOf(s)
           a == [uid |-> login[s].uid, active |-> TRUE]
           row == [status |-> "active", via |-> i]
<1>1. /\ TypeOK /\ HandlerOK(r) /\ At(r, "commit") /\ handler[r].pc \in Past
      /\ handler[r] \in Handler
  BY DEF IndInv, TypeOK, Commit, At, Past
<1>2. /\ s \in Sids /\ Unborn(s) /\ p \in Phones /\ i \in Invites \cup {NoInvite}
      /\ a \in Account /\ a.uid # NoUid /\ a.active /\ session[s].via = NoInvite
  <2>1. s \in Sids /\ Unborn(s)
    BY <1>1, LoginFacts
  <2>2. login[s] \in Login
    BY <1>1, <2>1 DEF TypeOK
  <2> QED
    BY <1>1, <2>1, <2>2, LoginAssumption
       DEF Login, Account, PhoneOf, IndInv, LoginsOK, Unborn, Handler
<1>3. /\ account' = [account EXCEPT ![p] = a]
      /\ session' = [session EXCEPT ![s] = row]
      /\ invite' = IF i = NoInvite THEN invite
                   ELSE [invite EXCEPT ![i].uses = handler[r].uses + 1]
      /\ runtime' = IF i # NoInvite /\ runtime[s] = "none" THEN runtime
                    ELSE [runtime EXCEPT ![s] = "signed in"]
      /\ End(r)
      /\ UNCHANGED <<login, pending, cache, cancelled>>
  BY DEF Commit
<1>4. row \in Session /\ row.status = "active" /\ row.via = i
  BY <1>2 DEF Session
<1>5. i # NoInvite => /\ i \in Invites /\ <<"invite", i>> \in handler[r].held
                      /\ handler[r].uses = invite[i].uses
                      /\ invite[i].uses < MaxUses[i]
  BY <1>1, <1>2 DEF HandlerOK, LockedOK, At
<1>6. \/ handler[r].new /\ ~Known(p)
      \/ <<"account", p>> \in handler[r].held
  BY <1>1 DEF HandlerOK, LockedOK, At, Unique, PhoneOf
<1> HIDE DEF a, row, p
<1>7. /\ handler' \in [Requests -> Handler] /\ Alone(r) /\ TakesFree(r) /\ HandlerOK(r)'
      /\ handler'[r] = Idle
  BY <1>1, <1>3, EndFacts
<1>8. /\ account' \in [Phones -> Account] /\ account'[p] = a
      /\ \A x \in Phones \ {p} : account'[x] = account[x]
  BY <1>1, <1>2, <1>3 DEF TypeOK
<1>9. /\ session' \in [Sids -> Session] /\ session'[s] = row
      /\ \A t \in Sids \ {s} : session'[t] = session[t]
  BY <1>1, <1>2, <1>3, <1>4 DEF TypeOK
<1>10. /\ runtime' \in [Sids -> {"none", "pending", "signed in"}]
       /\ runtime'[s] \in {"none", "signed in"}
       /\ \A t \in Sids \ {s} : runtime'[t] = runtime[t]
  BY <1>1, <1>2, <1>3 DEF TypeOK
<1>11. /\ invite' \in [Invites -> Invite]
       /\ i # NoInvite => invite'[i].uses = invite[i].uses + 1
       /\ \A j \in Invites : j # i => invite'[j] = invite[j]
  <2>1. CASE i = NoInvite
    BY <1>1, <1>3, <2>1 DEF TypeOK
  <2>2. CASE i # NoInvite
    <3> DEFINE new == [invite[i] EXCEPT !.uses = handler[r].uses + 1]
    <3>1. invite' = [invite EXCEPT ![i] = new]
      BY <1>3, <2>2
    <3>2. new \in Invite /\ new.uses = invite[i].uses + 1
      <4>1. invite[i] \in Invite /\ handler[r].uses = invite[i].uses
        BY <1>1, <1>5, <2>2 DEF TypeOK
      <4> QED
        BY <4>1 DEF Invite
    <3> HIDE DEF new
    <3> QED
      BY <1>1, <1>5, <2>2, <3>1, <3>2 DEF TypeOK
  <2> QED
    BY <2>1, <2>2
<1>12. TypeOK'
  BY <1>1, <1>3, <1>7, <1>8, <1>9, <1>10, <1>11 DEF TypeOK
<1>13. \A x \in Phones \ {p} : SessionsOf(x)' = SessionsOf(x)
  BY <1>2, <1>3, <1>9 DEF SessionsOf, Active, PhoneOf, p
<1>14. LeavesOthers(r) /\ SessionsStay
  <2>1. ASSUME NEW q \in Requests \ {r} PROVE LeavesLogin(q)
    <3>1. handler'[q] = handler[q] /\ HandlerOK(q) /\ handler[q] \in Handler
      BY <1>1, <1>7 DEF Alone, IndInv, TypeOK
    <3>2. Fresh(q) => \A x \in Requests \ {q} : handler'[x].sid # handler[q].sid
      BY <1>7, OwnsSame, FreshElsewhere
    <3>3. ASSUME At(q, "provider") \/ handler[q].pc \in Past
          PROVE  /\ handler[q].sid \in Sids \ {s} /\ Unborn(handler[q].sid)
                 /\ Fresh(q) => runtime[handler[q].sid] = "none"
      BY <1>1, <3>3, LoginFacts, LoginsApart
    <3>4. ASSUME At(q, "commit"), handler[q].invite # NoInvite
          PROVE  handler[q].invite \in Invites \ {i}
      <4>1. handler[q].invite \in Invites /\ <<"invite", handler[q].invite>> \in handler[q].held
        BY <3>1, <3>4 DEF HandlerOK, LockedOK, Handler
      <4> QED
        BY <1>5, <3>4, <4>1 DEF IndInv, LocksApart
    <3>5. At(q, "provider") \/ handler[q].pc \in Past => Unborn(handler[q].sid)'
      BY <1>3, <1>9, <3>1, <3>3 DEF Unborn
    <3>6. Fresh(q) => runtime'[handler[q].sid] = "none"
      BY <1>10, <3>3 DEF Fresh
    <3> QED
      BY <1>3, <1>11, <3>2, <3>4, <3>5, <3>6 DEF LeavesLogin
  <2>2. ASSUME NEW q \in Requests \ {r} PROVE LeavesSessions(q)
    <3>1. handler'[q] = handler[q] /\ HandlerOK(q) /\ handler[q].phone \in Phones
      BY <1>1, <1>7 DEF Alone, IndInv, TypeOK, Handler
    <3>2. \A x \in Phones : Known(x) => Known(x)'
      BY <1>2, <1>8 DEF Known
    <3>3. ASSUME At(q, "disabled") PROVE handler[q].phone # p
      BY <1>6, <3>1, <3>3 DEF HandlerOK, DisablingOK, At, IndInv, LocksApart
    <3>4. At(q, "disabled") =>
            \A t \in SessionsOf(handler[q].phone) : <<"session", t>> \in handler[q].held
      BY <3>1 DEF HandlerOK, DisablingOK
    <3>5. At(q, "disabled") =>
            SessionsOf(handler[q].phone)' = SessionsOf(handler[q].phone)
      BY <1>13, <3>1, <3>3
    <3> QED
      BY <1>3, <3>1, <3>2, <3>4, <3>5 DEF LeavesSessions
  <2>3. SessionsStay
    BY <1>2, <1>4, <1>9 DEF SessionsStay
  <2> QED
    BY <2>1, <2>2, <2>3 DEF LeavesOthers
<1>15. LoginsOK'
  BY <1>2, <1>3, <1>4, <1>9, <1>10 DEF IndInv, LoginsOK, Unborn
<1>16. RevocationIsComplete'
  <2>1. \A t \in cache' : Active(t)'
    BY <1>1, <1>3, <1>4, <1>9 DEF IndInv, RevocationIsComplete, Active, TypeOK
  <2>2. \A x \in Phones : ~account'[x].active => x # p /\ SessionsOf(x) = {}
    BY <1>2, <1>8 DEF IndInv, RevocationIsComplete
  <2> QED
    BY <1>13, <2>1, <2>2 DEF RevocationIsComplete
<1>17. InviteUsesAreExact'
  <2> SUFFICES ASSUME NEW j \in Invites
               PROVE  /\ invite'[j].uses = Cardinality({t \in Sids : session'[t].via = j})
                      /\ invite'[j].uses <= MaxUses[j]
    BY DEF InviteUsesAreExact
  <2>1. /\ invite[j].uses = Cardinality({t \in Sids : session[t].via = j})
        /\ invite[j].uses <= MaxUses[j] /\ invite[j].uses \in Nat /\ MaxUses[j] \in Nat
    BY <1>1, LoginAssumption DEF IndInv, InviteUsesAreExact, TypeOK, Invite
  <2>2. CASE j # i
    <3>1. {t \in Sids : session'[t].via = j} = {t \in Sids : session[t].via = j}
      BY <1>2, <1>4, <1>9, <2>2, LoginAssumption
    <3> QED
      BY <1>11, <2>1, <2>2, <3>1
  <2>3. CASE j = i
    <3>1. i # NoInvite
      BY <2>3, LoginAssumption
    <3>2. Cardinality({t \in Sids : session'[t].via = j})
            = Cardinality({t \in Sids : session[t].via = j}) + 1
      <4>1. session' = [session EXCEPT ![s] = [status |-> "active", via |-> j]]
        BY <1>3, <2>3 DEF row
      <4> QED
        BY <1>2, <4>1, ViaGrows
    <3>3. invite'[j].uses = invite[j].uses + 1 /\ invite[j].uses < MaxUses[j]
      BY <1>5, <1>11, <2>3, <3>1
    <3> QED
      BY <2>1, <3>2, <3>3
  <2> QED
    BY <2>2, <2>3
<1> QED
  BY <1>7, <1>12, <1>14, <1>15, <1>16, <1>17, TableSteps

\* A step that revokes rows nobody has a copy of.
LEMMA RevokedKeepsInv ==
    ASSUME IndInv, NEW r \in Requests, End(r), NEW rows \in SUBSET Sids,
           \A t \in rows : session[t].status # "absent" /\ t \notin cache,
           UNCHANGED <<invite, login, pending, cache, cancelled>>,
           session' \in [Sids -> Session],
           \A t \in Sids : session'[t].via = session[t].via,
           \A t \in Sids :
             session'[t].status = IF t \in rows THEN "revoked" ELSE session[t].status,
           runtime' \in [Sids -> {"none", "pending", "signed in"}],
           \A t \in Sids : runtime'[t] \in {"none", runtime[t]},
           account' \in [Phones -> Account],
           \A x \in Phones : account'[x].uid = account[x].uid,
           \A x \in Phones : ~account'[x].active =>
             ~account[x].active \/ SessionsOf(x) \subseteq rows
    PROVE  IndInv'
<1>1. /\ TypeOK /\ handler' \in [Requests -> Handler] /\ Alone(r) /\ TakesFree(r)
      /\ HandlerOK(r)' /\ handler'[r] = Idle
  BY EndFacts DEF IndInv
<1>2. TypeOK'
  BY <1>1 DEF TypeOK
<1>3. \A x \in Phones : SessionsOf(x)' = SessionsOf(x) \ rows
  <2>1. ASSUME NEW t \in Sids
        PROVE  Active(t)' <=> Active(t) /\ t \notin rows
    BY <2>1 DEF Active
  <2>2. \A t \in Sids : PhoneOf(t)' = PhoneOf(t)
    BY DEF PhoneOf
  <2> QED
    BY ONLY <2>1, <2>2 DEF SessionsOf
<1>4. LeavesOthers(r) /\ SessionsStay
  <2>1. ASSUME NEW q \in Requests \ {r} PROVE LeavesLogin(q)
    <3>1. handler'[q] = handler[q]
      BY <1>1 DEF Alone
    <3>2. Fresh(q) => \A x \in Requests \ {q} : handler'[x].sid # handler[q].sid
      BY <1>1, OwnsSame, FreshElsewhere
    <3>3. ASSUME At(q, "provider") \/ handler[q].pc \in Past
          PROVE  /\ Unborn(handler[q].sid)'
                 /\ Fresh(q) => runtime'[handler[q].sid] = "none"
      BY <3>1, <3>3, LoginFacts DEF Unborn
    <3>4. Fresh(q) => runtime'[handler[q].sid] = "none"
      BY <3>3 DEF Fresh
    <3> QED
      BY <3>1, <3>2, <3>3, <3>4 DEF LeavesLogin
  <2>2. ASSUME NEW q \in Requests \ {r} PROVE LeavesSessions(q)
    <3>1. handler'[q] = handler[q] /\ HandlerOK(q) /\ handler[q].phone \in Phones
      BY <1>1 DEF Alone, IndInv, TypeOK, Handler
    <3> QED
      BY <1>3, <3>1 DEF LeavesSessions, HandlerOK, DisablingOK, Known
  <2> QED
    BY <2>1, <2>2 DEF LeavesOthers, SessionsStay
<1>5. LoginsOK'
  BY DEF IndInv, LoginsOK
<1>6. RevocationIsComplete'
  <2>1. \A t \in cache' : Active(t)'
    BY <1>1 DEF IndInv, RevocationIsComplete, Active, TypeOK
  <2> QED
    BY <1>3, <2>1 DEF IndInv, RevocationIsComplete
<1>7. InviteUsesAreExact'
  <2>1. \A j : {t \in Sids : session'[t].via = j} = {t \in Sids : session[t].via = j}
    OBVIOUS
  <2> QED
    BY <2>1 DEF IndInv, InviteUsesAreExact
<1> QED
  BY <1>1, <1>2, <1>4, <1>5, <1>6, <1>7, TableSteps

LEMMA CommitRevokeKeepsInv ==
    ASSUME IndInv, NEW r \in Requests, CommitRevoke(r) PROVE IndInv'
<1> DEFINE s == handler[r].sid
           row == [session[s] EXCEPT !.status = "revoked"]
<1>1. /\ TypeOK /\ HandlerOK(r) /\ s \in Sids
      /\ session[s].status # "absent" /\ s \notin cache
  BY DEF IndInv, HandlerOK, NamedOK, RevokingOK, At, CommitRevoke
<1>2. /\ session' = [session EXCEPT ![s] = row]
      /\ runtime' = [runtime EXCEPT ![s] = "none"]
      /\ End(r)
      /\ UNCHANGED <<account, invite, login, pending, cache, cancelled>>
  BY DEF CommitRevoke
<1>3. row \in Session /\ row.status = "revoked" /\ row.via = session[s].via
  <2>1. session[s] \in Session
    BY <1>1 DEF TypeOK
  <2> QED
    BY <2>1 DEF Session
<1> HIDE DEF row
<1>4. /\ session' \in [Sids -> Session] /\ session'[s] = row
      /\ \A t \in Sids \ {s} : session'[t] = session[t]
  BY <1>1, <1>2, <1>3 DEF TypeOK
<1>5. /\ runtime' \in [Sids -> {"none", "pending", "signed in"}]
      /\ \A t \in Sids : runtime'[t] \in {"none", runtime[t]}
  BY <1>1, <1>2 DEF TypeOK
<1>6. account' \in [Phones -> Account] /\ account' = account
  BY <1>1, <1>2 DEF TypeOK
<1>7. {s} \in SUBSET Sids /\ \A t \in {s} : session[t].status # "absent" /\ t \notin cache
  BY <1>1
<1>8. \A t \in Sids :
        /\ session'[t].via = session[t].via
        /\ session'[t].status = IF t \in {s} THEN "revoked" ELSE session[t].status
  BY <1>3, <1>4
<1> QED
  BY <1>2, <1>4, <1>5, <1>6, <1>7, <1>8, RevokedKeepsInv

LEMMA CommitDisableKeepsInv ==
    ASSUME IndInv, NEW r \in Requests, CommitDisable(r) PROVE IndInv'
<1> DEFINE p == handler[r].phone
           rows == {t \in Sids : <<"session", t>> \in handler[r].held}
           new == [account[p] EXCEPT !.active = FALSE]
<1>1. TypeOK /\ HandlerOK(r) /\ p \in Phones /\ At(r, "disabled")
  BY DEF IndInv, TypeOK, Handler, CommitDisable
<1>2. /\ account' = [account EXCEPT ![p] = new]
      /\ session' = [t \in Sids |-> IF t \in rows THEN [session[t] EXCEPT !.status = "revoked"]
                                    ELSE session[t]]
      /\ End(r)
      /\ UNCHANGED <<invite, login, pending, runtime, cache, cancelled>>
  BY DEF CommitDisable
<1>3. /\ \A t \in rows : session[t].status # "absent" /\ t \notin cache
      /\ SessionsOf(p) \subseteq rows
  BY <1>1 DEF HandlerOK, RevokingOK, DisablingOK, SessionsOf
<1>4. new \in Account /\ new.uid = account[p].uid
  <2>1. account[p] \in Account
    BY <1>1 DEF TypeOK
  <2> QED
    BY <2>1 DEF Account
<1> HIDE DEF new
<1>5. /\ account' \in [Phones -> Account]
      /\ \A x \in Phones : account'[x].uid = account[x].uid
      /\ \A x \in Phones \ {p} : account'[x] = account[x]
  BY <1>1, <1>2, <1>4 DEF TypeOK
<1>6. rows \in SUBSET Sids
  OBVIOUS
<1> HIDE DEF rows
<1>7. ASSUME NEW t \in Sids
      PROVE  /\ session'[t] \in Session /\ session'[t].via = session[t].via
             /\ session'[t].status = IF t \in rows THEN "revoked" ELSE session[t].status
  <2>1. session[t] \in Session
    BY <1>1 DEF TypeOK
  <2> DEFINE row == [session[t] EXCEPT !.status = "revoked"]
  <2>2. row \in Session /\ row.via = session[t].via /\ row.status = "revoked"
    BY <2>1 DEF Session
  <2>3. session'[t] = IF t \in rows THEN row ELSE session[t]
    BY <1>2
  <2> HIDE DEF row
  <2> QED
    BY <2>1, <2>2, <2>3
<1>8. session' \in [Sids -> Session]
  <2>1. session' = [t \in Sids |-> session'[t]]
    BY <1>2
  <2> QED
    BY <1>7, <2>1
<1>9. /\ runtime' \in [Sids -> {"none", "pending", "signed in"}]
      /\ \A t \in Sids : runtime'[t] \in {"none", runtime[t]}
  BY <1>1, <1>2 DEF TypeOK
<1>10. \A x \in Phones : ~account'[x].active =>
             ~account[x].active \/ SessionsOf(x) \subseteq rows
  BY <1>3, <1>5
<1> QED
  BY <1>2, <1>3, <1>5, <1>6, <1>7, <1>8, <1>9, <1>10, RevokedKeepsInv

-----------------------------------------------------------------------------
(* Steps of no handler *)

LEMMA WorldKeepsInv ==
    ASSUME IndInv, UNCHANGED <<login, session, handler, cancelled>>,
           pending' \subseteq pending, cache' \subseteq cache,
           runtime' \in [Sids -> {"none", "pending", "signed in"}],
           \A t \in Sids : runtime'[t] \in {"none", runtime[t]},
           account' \in [Phones -> Account],
           \A x \in Phones : /\ account'[x].uid = account[x].uid
                             /\ account[x].active => account'[x].active,
           invite' \in [Invites -> Invite],
           \A j \in Invites : invite'[j].uses = invite[j].uses
    PROVE  IndInv'
<1>1. TypeOK'
  BY DEF IndInv, TypeOK
<1>2. \A x \in Phones : SessionsOf(x)' = SessionsOf(x)
  BY DEF SessionsOf, Active, PhoneOf
<1>3. ASSUME NEW q \in Requests PROVE HandlerOK(q)'
  <2>1. HandlerOK(q) /\ TypeOK /\ handler[q] \in Handler
    BY DEF IndInv, TypeOK
  <2>2. Fresh(q) => \A x \in Requests \ {q} : handler'[x].sid # handler[q].sid
    BY <2>1 DEF HandlerOK, FreshOK
  <2>3. ASSUME At(q, "provider") \/ handler[q].pc \in Past
        PROVE  /\ Unborn(handler[q].sid)'
               /\ Fresh(q) => runtime'[handler[q].sid] = "none"
    BY <2>3, LoginFacts DEF Unborn
  <2>4. Fresh(q) => runtime'[handler[q].sid] = "none"
    BY <2>3 DEF Fresh
  <2>5. At(q, "commit") /\ handler[q].invite # NoInvite => handler[q].invite \in Invites
    BY <2>1 DEF Handler
  <2>6. LeavesLogin(q)
    BY <2>2, <2>3, <2>4, <2>5 DEF LeavesLogin
  <2>7. LeavesSessions(q) /\ SessionsStay
    <3>1. handler[q].phone \in Phones
      BY <2>1 DEF Handler
    <3> QED
      BY <1>2, <2>1, <3>1 DEF LeavesSessions, SessionsStay, HandlerOK, DisablingOK, Known
  <2> QED
    BY <2>1, <2>6, <2>7, OtherKept
<1>4. LocksApart'
  BY DEF IndInv, LocksApart
<1>5. LoginsOK'
  BY DEF IndInv, LoginsOK
<1>6. RevocationIsComplete'
  BY <1>2 DEF IndInv, RevocationIsComplete, Active, TypeOK
<1>7. InviteUsesAreExact'
  BY DEF IndInv, InviteUsesAreExact
<1> QED
  BY <1>1, <1>3, <1>4, <1>5, <1>6, <1>7 DEF IndInv

LEMMA EnableKeepsInv ==
    ASSUME IndInv, NEW p \in Phones, Enable(p) PROVE IndInv'
<1> DEFINE new == [account[p] EXCEPT !.active = TRUE]
<1>1. /\ account' = [account EXCEPT ![p] = new]
      /\ UNCHANGED <<invite, login, pending, runtime, session, cache, handler, cancelled>>
  BY DEF Enable
<1>2. TypeOK /\ account[p] \in Account
  BY DEF IndInv, TypeOK
<1>3. new \in Account /\ new.uid = account[p].uid /\ new.active
  BY <1>2 DEF Account
<1> HIDE DEF new
<1>4. /\ account' \in [Phones -> Account]
      /\ \A x \in Phones : /\ account'[x].uid = account[x].uid
                           /\ account[x].active => account'[x].active
  BY <1>1, <1>2, <1>3 DEF TypeOK
<1>5. /\ invite' \in [Invites -> Invite]
      /\ runtime' \in [Sids -> {"none", "pending", "signed in"}]
  BY <1>1, <1>2 DEF TypeOK
<1> QED
  BY <1>1, <1>4, <1>5, WorldKeepsInv

LEMMA DisableInviteKeepsInv ==
    ASSUME IndInv, NEW i \in Invites, DisableInvite(i) PROVE IndInv'
<1> DEFINE new == [invite[i] EXCEPT !.disabled = TRUE]
<1>1. /\ invite' = [invite EXCEPT ![i] = new]
      /\ UNCHANGED <<account, login, pending, runtime, session, cache, handler, cancelled>>
  BY DEF DisableInvite
<1>2. TypeOK /\ invite[i] \in Invite
  BY DEF IndInv, TypeOK
<1>3. new \in Invite /\ new.uses = invite[i].uses
  BY <1>2 DEF Invite
<1> HIDE DEF new
<1>4. /\ invite' \in [Invites -> Invite]
      /\ \A j \in Invites : invite'[j].uses = invite[j].uses
  BY <1>1, <1>2, <1>3 DEF TypeOK
<1>5. /\ account' \in [Phones -> Account]
      /\ runtime' \in [Sids -> {"none", "pending", "signed in"}]
  BY <1>1, <1>2 DEF TypeOK
<1> QED
  BY <1>1, <1>4, <1>5, WorldKeepsInv

LEMMA ExpiryKeepsInv ==
    ASSUME IndInv, NEW s \in Sids, KeyExpires(s) \/ RuntimeExpires(s) PROVE IndInv'
<1>1. /\ pending' \subseteq pending /\ cache' \subseteq cache
      /\ runtime' = runtime \/ runtime' = [runtime EXCEPT ![s] = "none"]
      /\ UNCHANGED <<account, invite, login, session, handler, cancelled>>
  BY DEF KeyExpires, RuntimeExpires
<1>2. /\ runtime' \in [Sids -> {"none", "pending", "signed in"}]
      /\ \A t \in Sids : runtime'[t] \in {"none", runtime[t]}
      /\ account' \in [Phones -> Account] /\ invite' \in [Invites -> Invite]
  BY <1>1 DEF IndInv, TypeOK
<1> QED
  BY <1>1, <1>2, WorldKeepsInv

LEMMA RestartKeepsInv ==
    ASSUME IndInv, Restart PROVE IndInv'
<1>1. /\ handler' = [r \in Requests |-> Idle]
      /\ runtime' = [s \in Sids |-> "none"]
      /\ UNCHANGED <<account, invite, login, pending, session, cache, cancelled>>
  BY DEF Restart
<1>2. TypeOK'
  BY <1>1, IdleTyped DEF IndInv, TypeOK
<1>3. \A r \in Requests : HandlerOK(r)'
  BY <1>1, IdleOK
<1>4. LocksApart'
  BY <1>1 DEF LocksApart, Idle
<1>5. LoginsOK'
  BY <1>1 DEF IndInv, LoginsOK
<1>6. RevocationIsComplete' /\ InviteUsesAreExact'
  BY <1>1 DEF IndInv, RevocationIsComplete, InviteUsesAreExact, SessionsOf, Active, PhoneOf
<1> QED
  BY <1>2, <1>3, <1>4, <1>5, <1>6 DEF IndInv

-----------------------------------------------------------------------------
(* The theorems *)

LEMMA InitInv == Init => IndInv
<1> SUFFICES ASSUME Init PROVE IndInv
  OBVIOUS
<1>1. /\ account \in [Phones -> Account] /\ \A p \in Phones : account[p].active
  <2>1. \A u \in Uids \cup {NoUid} :
          /\ [uid |-> u, active |-> TRUE] \in Account
          /\ [uid |-> u, active |-> TRUE].active
    BY DEF Account
  <2>2. account \in [Phones -> {a \in Account : a.active}]
    BY <2>1 DEF Init
  <2> QED
    BY <2>2
<1>2. TypeOK
  <2>1. Login # {} /\ (CHOOSE l \in Login : TRUE) \in Login
    <3>1. PICK p \in Phones, u \in Uids : TRUE
      BY LoginAssumption
    <3>2. [phone |-> p, uid |-> u] \in Login
      BY DEF Login
    <3> QED
      BY <3>2
  <2>2. [uses |-> 0, disabled |-> FALSE] \in Invite
    BY DEF Invite
  <2>3. [status |-> "absent", via |-> NoInvite] \in Session
    BY DEF Session
  <2> QED
    BY <1>1, <2>1, <2>2, <2>3, IdleTyped DEF Init, TypeOK
<1>3. \A r \in Requests : HandlerOK(r)
  BY DEF Init, HandlerOK, FreshOK, InvitedOK, LockedOK, RevokingOK, DisablingOK, NamedOK,
     Fresh, At, Past, Idle
<1>4. LocksApart /\ LoginsOK
  BY DEF Init, LocksApart, LoginsOK, Idle
<1>5. RevocationIsComplete
  BY <1>1 DEF Init, RevocationIsComplete
<1>6. InviteUsesAreExact
  <2>1. \A i \in Invites : {s \in Sids : session[s].via = i} = {}
    BY LoginAssumption DEF Init
  <2>2. \A i \in Invites : invite[i].uses = 0 /\ MaxUses[i] \in Nat
    BY LoginAssumption DEF Init
  <2> QED
    BY <2>1, <2>2, FS_EmptySet DEF InviteUsesAreExact
<1> QED
  BY <1>2, <1>3, <1>4, <1>5, <1>6 DEF IndInv

LEMMA FinishKeepsInv ==
    ASSUME IndInv, NEW r \in Requests, FinishLogin(r) PROVE IndInv'
<1>1. CASE Commit(r)
  <2>1. CASE Unique(r)
    BY <1>1, <2>1, CommitKeepsInv
  <2>2. CASE ~Unique(r)
    <3>1. Fail(r) /\ Unwritten /\ At(r, "commit")
      BY <1>1, <2>2 DEF Commit, Unwritten
    <3>2. handler[r].sid \in Sids
      BY <3>1 DEF IndInv, HandlerOK, NamedOK, At
    <3> QED
      BY <3>1, <3>2, FailsKeepsInv
  <2> QED
    BY <2>1, <2>2
<1> QED
  BY <1>1, EnterKeepsInv, ValidateKeepsInv, ClaimKeepsInv, LockAccountKeepsInv,
     LockInviteKeepsInv DEF FinishLogin

LEMMA StepKeepsInv == IndInv /\ [Next]_vars => IndInv'
<1> SUFFICES ASSUME IndInv, [Next]_vars PROVE IndInv'
  OBVIOUS
<1>1. CASE \E r \in Requests : \E s \in Sids :
             \/ \E p \in Phones : Precheck(r, s, p)
             \/ \E i \in Invites : StartFinish(r, s, i)
             \/ StartCancel(r, s) \/ StartRequest(r, s) \/ StartLogout(r, s)
  BY <1>1, PrecheckKeepsInv, StartFinishKeepsInv, OtherStartsKeepInv
<1>2. CASE \E r \in Requests : \E u \in Uids : Authenticated(r, u)
  BY <1>2, AuthenticatedKeepsInv
<1>3. CASE \E r \in Requests : FinishLogin(r) \/ Cancel(r) \/ UseSession(r)
  BY <1>3, FinishKeepsInv, CancelKeepsInv, TouchKeepsInv, RefillKeepsInv, IdentityKeepsInv,
     RevokeKeepsInv, CommitRevokeKeepsInv DEF UseSession
<1>4. CASE \E r \in Requests : \E p \in Phones : StartDisable(r, p)
  BY <1>4, StartDisableKeepsInv
<1>5. CASE \E r \in Requests : RevokeAll(r) \/ CommitDisable(r) \/ GiveUp(r)
  BY <1>5, RevokeAllKeepsInv, CommitDisableKeepsInv, GiveUpKeepsInv
<1>6. CASE \E p \in Phones : Enable(p)
  BY <1>6, EnableKeepsInv
<1>7. CASE \E i \in Invites : DisableInvite(i)
  BY <1>7, DisableInviteKeepsInv
<1>8. CASE \E s \in Sids : KeyExpires(s) \/ RuntimeExpires(s)
  BY <1>8, ExpiryKeepsInv
<1>9. CASE Restart
  BY <1>9, RestartKeepsInv
<1>10. CASE UNCHANGED vars
  <2>1. Unwritten /\ handler' = handler
    BY <1>10 DEF vars, Unwritten
  <2> QED
    BY <2>1, WorldKeepsInv DEF IndInv, TypeOK, Unwritten
<1> QED
  BY <1>1, <1>2, <1>3, <1>4, <1>5, <1>6, <1>7, <1>8, <1>9, <1>10 DEF Next

\* The locks protect what each handler has read until it writes: the whole
\* inductive invariant holds in every reachable state.
THEOREM Invariant == Spec => []IndInv
BY InitInv, StepKeepsInv, PTL DEF Spec

\* Accounts, invites, sessions, keys and handlers keep their types.
THEOREM TypeCorrect == Spec => []TypeOK
<1>1. IndInv => TypeOK
  BY DEF IndInv
<1> QED
  BY <1>1, Invariant, PTL

\* use_count of an invite is the number of sessions issued for it and never exceeds
\* max_uses, for any number of logins that finish at the same time.
THEOREM InviteUsesExact == Spec => []InviteUsesAreExact
<1>1. IndInv => InviteUsesAreExact
  BY DEF IndInv
<1> QED
  BY <1>1, Invariant, PTL

\* Redis never holds a copy of a revoked session, and a disabled account has no
\* active session, whatever logins and requests run while it is disabled.
THEOREM RevocationsComplete == Spec => []RevocationIsComplete
<1>1. IndInv => RevocationIsComplete
  BY DEF IndInv
<1> QED
  BY <1>1, Invariant, PTL

\* A pending login that was reported cancelled never becomes a session.
THEOREM CancelledNeverEnters == Spec => []CancelledStaysOut
<1>1. IndInv => CancelledStaysOut
  BY DEF IndInv, TypeOK, LoginsOK, CancelledStaysOut
<1> QED
  BY <1>1, Invariant, PTL

=============================================================================
