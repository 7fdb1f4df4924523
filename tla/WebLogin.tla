------------------------------- MODULE WebLogin -------------------------------
(***************************************************************************)
(* Login and sessions of the Web service.  A login whose phone is not yet  *)
(* known waits, authenticated by the provider, for an invite: in Redis     *)
(* under its sid and in the process as a runtime.  Finishing it takes the  *)
(* Redis key and binds the account, uses up the invite and issues the      *)
(* session in one transaction.  Sessions are rows with a copy in Redis     *)
(* that requests believe for a while; logging out and disabling an account *)
(* revoke the rows and delete the copies.  Row locks last as long as their *)
(* transaction, and handlers run at the same time.                         *)
(***************************************************************************)
EXTENDS Integers, FiniteSets

CONSTANTS
    Sids,       \* logins, named by the sid of their cookie
    Phones, Uids,
    NoUid,      \* the uid of a phone without an account
    Invites,
    NoInvite,
    MaxUses,    \* max_uses of each invite
    Requests,   \* request handlers that may run at the same time
    NoSid

ASSUME LoginAssumption ==
    /\ IsFiniteSet(Sids) /\ NoSid \notin Sids
    /\ Phones # {} /\ Uids # {}
    /\ NoUid \notin Uids /\ NoInvite \notin Invites
    /\ MaxUses \in [Invites -> Nat \ {0}]

VARIABLES
    account,    \* the account of each phone, with the status of its user
    invite,     \* the rows of invite_codes
    login,      \* the phone and uid each login has proved to hold
    pending,    \* logins whose key pending-login is in Redis
    runtime,    \* the process-local store: none, pending or signed in
    session,    \* the rows of web_sessions
    cache,      \* sessions with a copy in Redis
    handler,    \* local state and row locks of each request handler
    cancelled   \* history: pending logins that _cancel_pending_runtime cancelled

vars == <<account, invite, login, pending, runtime, session, cache, handler,
          cancelled>>

-----------------------------------------------------------------------------
(* Types and initial state *)

Account == [uid : Uids \cup {NoUid}, active : BOOLEAN]
Invite == [uses : Nat, disabled : BOOLEAN]
\* via: the invite the session was issued for.
Session == [status : {"absent", "active", "revoked"}, via : Invites \cup {NoInvite}]
Login == [phone : Phones, uid : Uids]

Locks == ({"account"} \X Phones) \cup ({"invite"} \X Invites)
         \cup ({"session", "runtime"} \X Sids)
PCs == {"idle", "provider", "enter", "validate", "claim", "account", "invite",
        "commit", "cancel", "touch", "row", "identity", "revoke", "revoked",
        "disable", "disabled"}
\* new: no account was found; uses: use_count as it was read.
Handler == [pc : PCs, sid : Sids \cup {NoSid}, phone : Phones,
            invite : Invites \cup {NoInvite}, new : BOOLEAN, uses : Nat,
            held : SUBSET Locks]

Idle == [pc |-> "idle", sid |-> NoSid, phone |-> CHOOSE p \in Phones : TRUE,
         invite |-> NoInvite, new |-> FALSE, uses |-> 0, held |-> {}]

Init ==
    /\ account \in [Phones -> {[uid |-> u, active |-> TRUE] : u \in Uids \cup {NoUid}}]
    /\ \A p, q \in Phones : account[p].uid = account[q].uid => p = q \/ account[p].uid = NoUid
    /\ invite = [i \in Invites |-> [uses |-> 0, disabled |-> FALSE]]
    /\ login = [s \in Sids |-> CHOOSE l \in Login : TRUE]
    /\ pending = {} /\ cache = {} /\ cancelled = {}
    /\ runtime = [s \in Sids |-> "none"]
    /\ session = [s \in Sids |-> [status |-> "absent", via |-> NoInvite]]
    /\ handler = [r \in Requests |-> Idle]

-----------------------------------------------------------------------------
(* Helpers *)

At(r, pc) == handler[r].pc = pc
Go(r, pc) == handler' = [handler EXCEPT ![r].pc = pc]
End(r) == handler' = [handler EXCEPT ![r] = Idle]
\* The exception leaves the transaction and the runtime's lock.
Fail(r) == handler' = [handler EXCEPT ![r] =
    [Idle EXCEPT !.pc = "cancel", !.sid = handler[r].sid]]
Take(r, locks, pc) ==
    handler' = [handler EXCEPT ![r].pc = pc,
                               ![r].held = handler[r].held \cup locks]

Free(r, lock) == \A q \in Requests \ {r} : lock \notin handler[q].held

Known(p) == account[p].uid # NoUid
Active(s) == session[s].status = "active"
Usable(i) == ~invite[i].disabled /\ invite[i].uses < MaxUses[i]
PhoneOf(s) == login[s].phone
SessionsOf(p) == {s \in Sids : Active(s) /\ PhoneOf(s) = p}

-----------------------------------------------------------------------------
(* Login *)

\* The precheck: who holds an account needs no invite, unless it is disabled.
Precheck(r, s, p) ==
    /\ At(r, "idle")
    /\ session[s].status = "absent" /\ runtime[s] = "none"
    /\ s \notin pending \cup cancelled
    /\ \A q \in Requests : handler[q].sid # s
    /\ Known(p) => account[p].active
    /\ handler' = [handler EXCEPT ![r] =
         [Idle EXCEPT !.pc = "provider", !.sid = s, !.phone = p, !.new = ~Known(p)]]
    /\ UNCHANGED <<account, invite, login, pending, runtime, session, cache, cancelled>>

\* The provider authenticates the phone and names its uid.
Authenticated(r, u) ==
    LET s == handler[r].sid IN
    /\ At(r, "provider")
    /\ login' = [login EXCEPT ![s] = [phone |-> handler[r].phone, uid |-> u]]
    /\ IF handler[r].new
       THEN /\ pending' = pending \cup {s}
            /\ runtime' = [runtime EXCEPT ![s] = "pending"]
            /\ End(r)
       ELSE Go(r, "account") /\ UNCHANGED <<pending, runtime>>
    /\ UNCHANGED <<account, invite, session, cache, cancelled>>

\* The client sends an invite for its pending login.
StartFinish(r, s, i) ==
    /\ At(r, "idle")
    /\ runtime[s] # "none"
    /\ handler' = [handler EXCEPT ![r] =
         [Idle EXCEPT !.pc = "enter", !.sid = s, !.invite = i]]
    /\ UNCHANGED <<account, invite, login, pending, runtime, session, cache, cancelled>>

\* Under the lock of the runtime; the pending login is only looked at.
Enter(r) ==
    LET s == handler[r].sid IN
    /\ At(r, "enter")
    /\ Free(r, <<"runtime", s>>)
    /\ IF s \in pending THEN Take(r, {<<"runtime", s>>}, "validate") ELSE Fail(r)
    /\ UNCHANGED <<account, invite, login, pending, runtime, session, cache, cancelled>>

\* Without a lock, so that a wrong code does not cost the pending login.
Validate(r) ==
    /\ At(r, "validate")
    /\ \/ Usable(handler[r].invite) /\ Go(r, "claim")
       \/ ~Usable(handler[r].invite) /\ handler[r].sid \in pending /\ End(r)
       \/ ~Usable(handler[r].invite) /\ handler[r].sid \notin pending /\ Fail(r)
    /\ UNCHANGED <<account, invite, login, pending, runtime, session, cache, cancelled>>

\* GETDEL: what another handler took or cancelled is not there any more.
ClaimPeeked(r) ==
    /\ At(r, "claim")
    /\ pending' = pending \ {handler[r].sid}
    /\ Go(r, "account")
    /\ UNCHANGED <<account, invite, login, runtime, session, cache, cancelled>>
Claim(r) ==
    LET s == handler[r].sid IN
    /\ At(r, "claim")
    /\ pending' = pending \ {s}
    /\ IF s \in pending THEN Go(r, "account") ELSE Fail(r)
    /\ UNCHANGED <<account, invite, login, runtime, session, cache, cancelled>>

\* The rows of the phone and of the uid are locked; they must be one account of an
\* active user, or none.
LockAccount(r) ==
    LET s == handler[r].sid
        p == PhoneOf(s)
        rows == {q \in Phones : Known(q) /\ (q = p \/ account[q].uid = login[s].uid)}
    IN
    /\ At(r, "account")
    /\ \A q \in rows : Free(r, <<"account", q>>)
    /\ IF rows = {} \/ (rows = {p} /\ account[p] = [uid |-> login[s].uid, active |-> TRUE])
       THEN handler' = [handler EXCEPT
              ![r].pc = IF handler[r].invite = NoInvite THEN "commit" ELSE "invite",
              ![r].new = (rows = {}),
              ![r].held = handler[r].held \cup {<<"account", q>> : q \in rows}]
       ELSE Fail(r)
    /\ UNCHANGED <<account, invite, login, pending, runtime, session, cache, cancelled>>

\* The invite is checked again under its lock, and its count read.
LockInviteNever(r) ==
    /\ At(r, "invite")
    /\ IF Usable(handler[r].invite)
       THEN handler' = [handler EXCEPT ![r].pc = "commit",
                                       ![r].uses = invite[handler[r].invite].uses]
       ELSE Fail(r)
    /\ UNCHANGED <<account, invite, login, pending, runtime, session, cache, cancelled>>
LockInvite(r) ==
    LET i == handler[r].invite IN
    /\ At(r, "invite")
    /\ Free(r, <<"invite", i>>)
    /\ IF Usable(i)
       THEN handler' = [handler EXCEPT ![r].pc = "commit", ![r].uses = invite[i].uses,
                          ![r].held = handler[r].held \cup {<<"invite", i>>}]
       ELSE Fail(r)
    /\ UNCHANGED <<account, invite, login, pending, runtime, session, cache, cancelled>>

\* A new account must be the first of its phone and of its uid.
Unique(r) ==
    LET l == login[handler[r].sid] IN
    handler[r].new =>
        ~Known(l.phone) /\ \A q \in Phones : account[q].uid # l.uid

Commit(r) ==
    LET s == handler[r].sid
        i == handler[r].invite
    IN
    /\ At(r, "commit")
    /\ IF Unique(r)
       THEN /\ account' = [account EXCEPT ![PhoneOf(s)] =
                 [uid |-> login[s].uid, active |-> TRUE]]
            /\ session' = [session EXCEPT ![s] = [status |-> "active", via |-> i]]
            /\ invite' = IF i = NoInvite THEN invite
                         ELSE [invite EXCEPT ![i].uses = handler[r].uses + 1]
            /\ runtime' = IF i # NoInvite /\ runtime[s] = "none" THEN runtime
                          ELSE [runtime EXCEPT ![s] = "signed in"]
            /\ End(r)
       ELSE Fail(r) /\ UNCHANGED <<account, session, invite, runtime>>
    /\ UNCHANGED <<login, pending, cache, cancelled>>

\* The cookie of a pending login is sent at any time, also when the login has ended
\* in another tab.  A login that needs no invite sets no such cookie.
MaySendPending(s) ==
    /\ session[s].status # "absent" => session[s].via # NoInvite
    /\ \A r \in Requests :
         /\ handler[r].sid = s
         /\ handler[r].pc \in {"provider", "account", "commit"}
         => handler[r].invite # NoInvite

\* The client cancels a pending login, or sends its cookie with a new one.
StartCancel(r, s) ==
    /\ At(r, "idle")
    /\ MaySendPending(s)
    /\ handler' = [handler EXCEPT ![r] = [Idle EXCEPT !.pc = "cancel", !.sid = s]]
    /\ UNCHANGED <<account, invite, login, pending, runtime, session, cache, cancelled>>

\* Without a runtime only the key is deleted; with one its lock is taken, and a
\* session that was issued meanwhile is left alone.
Cancel(r) ==
    LET s == handler[r].sid
        promoted == runtime[s] # "none" /\ Active(s) /\ account[PhoneOf(s)].active
        done == /\ ~promoted
                /\ s \in pending \/ runtime[s] = "pending"
    IN
    /\ At(r, "cancel")
    /\ runtime[s] # "none" =>
         Free(r, <<"runtime", s>>) /\ Free(r, <<"session", s>>)
    /\ pending' = IF promoted THEN pending ELSE pending \ {s}
    /\ cache' = IF promoted THEN cache \cup {s} ELSE cache
    /\ runtime' = IF done THEN [runtime EXCEPT ![s] = "none"] ELSE runtime
    /\ cancelled' = IF done THEN cancelled \cup {s} ELSE cancelled
    /\ End(r)
    /\ UNCHANGED <<account, invite, login, session>>

-----------------------------------------------------------------------------
(* Requests of a session *)

StartRequest(r, s) ==
    /\ At(r, "idle")
    /\ session[s].status # "absent"
    /\ handler' = [handler EXCEPT ![r] = [Idle EXCEPT !.pc = "touch", !.sid = s]]
    /\ UNCHANGED <<account, invite, login, pending, runtime, session, cache, cancelled>>

\* The copy is believed for five minutes after the row was last touched.
Touch(r) ==
    /\ At(r, "touch")
    /\ Go(r, "row") \/ (handler[r].sid \in cache /\ Go(r, "identity"))
    /\ UNCHANGED <<account, invite, login, pending, runtime, session, cache, cancelled>>

\* The copy is written while the row is locked, until the commit.
RefillUnlocked(r) ==
    LET s == handler[r].sid IN
    /\ At(r, "row")
    /\ IF Active(s)
       THEN cache' = cache \cup {s} /\ Go(r, "identity") /\ UNCHANGED runtime
       ELSE /\ cache' = cache \ {s}
            /\ runtime' = [runtime EXCEPT ![s] = "none"]
            /\ End(r)
    /\ UNCHANGED <<account, invite, login, pending, session, cancelled>>
Refill(r) ==
    LET s == handler[r].sid IN
    /\ At(r, "row")
    /\ Free(r, <<"session", s>>)
    /\ IF Active(s)
       THEN /\ cache' = cache \cup {s}
            /\ Take(r, {<<"session", s>>}, "identity")
            /\ UNCHANGED runtime
       ELSE /\ cache' = cache \ {s}
            /\ runtime' = [runtime EXCEPT ![s] = "none"]
            /\ End(r)
    /\ UNCHANGED <<account, invite, login, pending, session, cancelled>>

\* The user must be active; restoring the runtime of one who is not revokes the
\* session.
Identity(r) ==
    LET s == handler[r].sid IN
    /\ At(r, "identity")
    /\ \/ /\ account[PhoneOf(s)].active
          /\ runtime' = [runtime EXCEPT ![s] = "signed in"]
          /\ End(r)
       \/ /\ ~account[PhoneOf(s)].active
          /\ runtime' = [runtime EXCEPT ![s] = "none"]
          /\ End(r)
       \/ /\ ~account[PhoneOf(s)].active
          /\ UNCHANGED runtime
          /\ Go(r, "revoke")
    /\ UNCHANGED <<account, invite, login, pending, session, cache, cancelled>>

\* The session of a log-out is revoked once the provider has answered.
StartLogout(r, s) ==
    /\ At(r, "idle")
    /\ Active(s)
    /\ handler' = [handler EXCEPT ![r] = [Idle EXCEPT !.pc = "revoke", !.sid = s]]
    /\ UNCHANGED <<account, invite, login, pending, runtime, session, cache, cancelled>>

\* The copy is deleted under the lock of the row, before the commit.
Revoke(r) ==
    LET s == handler[r].sid IN
    /\ At(r, "revoke")
    /\ Free(r, <<"session", s>>)
    /\ cache' = cache \ {s}
    /\ Take(r, {<<"session", s>>}, "revoked")
    /\ UNCHANGED <<account, invite, login, pending, runtime, session, cancelled>>

CommitRevoke(r) ==
    LET s == handler[r].sid IN
    /\ At(r, "revoked")
    /\ session' = [session EXCEPT ![s].status = "revoked"]
    /\ runtime' = [runtime EXCEPT ![s] = "none"]
    /\ End(r)
    /\ UNCHANGED <<account, invite, login, pending, cache, cancelled>>

-----------------------------------------------------------------------------
(* The administrator *)

StartDisable(r, p) ==
    /\ At(r, "idle")
    /\ Known(p) /\ account[p].active
    /\ Free(r, <<"account", p>>)
    /\ handler' = [handler EXCEPT ![r] =
         [Idle EXCEPT !.pc = "disable", !.phone = p, !.held = {<<"account", p>>}]]
    /\ UNCHANGED <<account, invite, login, pending, runtime, session, cache, cancelled>>

\* All sessions of the user are locked and their copies deleted.
RevokeAll(r) ==
    LET rows == SessionsOf(handler[r].phone) IN
    /\ At(r, "disable")
    /\ \A s \in rows : Free(r, <<"session", s>>)
    /\ cache' = cache \ rows
    /\ Take(r, {"session"} \X rows, "disabled")
    /\ UNCHANGED <<account, invite, login, pending, runtime, session, cancelled>>

CommitDisable(r) ==
    LET rows == {s \in Sids : <<"session", s>> \in handler[r].held} IN
    /\ At(r, "disabled")
    /\ account' = [account EXCEPT ![handler[r].phone].active = FALSE]
    /\ session' = [s \in Sids |-> IF s \in rows THEN [session[s] EXCEPT !.status = "revoked"]
                                  ELSE session[s]]
    /\ End(r)
    /\ UNCHANGED <<invite, login, pending, runtime, cache, cancelled>>

Enable(p) ==
    /\ Known(p) /\ ~account[p].active
    /\ \A r \in Requests : <<"account", p>> \notin handler[r].held
    /\ account' = [account EXCEPT ![p].active = TRUE]
    /\ UNCHANGED <<invite, login, pending, runtime, session, cache, handler, cancelled>>

DisableInvite(i) ==
    /\ ~invite[i].disabled
    /\ \A r \in Requests : <<"invite", i>> \notin handler[r].held
    /\ invite' = [invite EXCEPT ![i].disabled = TRUE]
    /\ UNCHANGED <<account, login, pending, runtime, session, cache, handler, cancelled>>

-----------------------------------------------------------------------------
(* Time and faults *)

\* Redis forgets a key at the end of its time, and the store a pending runtime,
\* also one that a handler is finishing.
KeyExpires(s) ==
    /\ s \in pending \cup cache
    /\ pending' = pending \ {s}
    /\ cache' \in {cache, cache \ {s}}
    /\ UNCHANGED <<account, invite, login, runtime, session, handler, cancelled>>

RuntimeExpires(s) ==
    /\ runtime[s] # "none"
    /\ runtime' = [runtime EXCEPT ![s] = "none"]
    /\ UNCHANGED <<account, invite, login, pending, session, cache, handler, cancelled>>

\* An error of the database or of Redis: the transaction is rolled back, and what
\* was written to Redis stays.
GiveUp(r) ==
    /\ ~At(r, "idle")
    /\ End(r)
    /\ UNCHANGED <<account, invite, login, pending, runtime, session, cache, cancelled>>

Restart ==
    /\ \E r \in Requests : ~At(r, "idle")
    /\ handler' = [r \in Requests |-> Idle]
    /\ runtime' = [s \in Sids |-> "none"]
    /\ UNCHANGED <<account, invite, login, pending, session, cache, cancelled>>

-----------------------------------------------------------------------------
(* Specification *)

FinishLogin(r) ==
    \/ Enter(r) \/ Validate(r) \/ Claim(r)
    \/ LockAccount(r) \/ LockInvite(r) \/ Commit(r)
UseSession(r) == Touch(r) \/ Refill(r) \/ Identity(r) \/ Revoke(r) \/ CommitRevoke(r)

Next ==
    \/ \E r \in Requests : \E s \in Sids :
         \/ \E p \in Phones : Precheck(r, s, p)
         \/ \E i \in Invites : StartFinish(r, s, i)
         \/ StartCancel(r, s) \/ StartRequest(r, s) \/ StartLogout(r, s)
    \/ \E r \in Requests : \E u \in Uids : Authenticated(r, u)
    \/ \E r \in Requests : FinishLogin(r) \/ Cancel(r) \/ UseSession(r)
    \/ \E r \in Requests : \E p \in Phones : StartDisable(r, p)
    \/ \E r \in Requests : RevokeAll(r) \/ CommitDisable(r) \/ GiveUp(r)
    \/ \E p \in Phones : Enable(p)
    \/ \E i \in Invites : DisableInvite(i)
    \/ \E s \in Sids : KeyExpires(s) \/ RuntimeExpires(s)
    \/ Restart

Spec == Init /\ [][Next]_vars

-----------------------------------------------------------------------------
(* Properties *)

\* Every variable has its type: the columns and local variables of the code.
TypeOK ==
    /\ account \in [Phones -> Account]
    /\ invite \in [Invites -> Invite]
    /\ login \in [Sids -> Login]
    /\ pending \subseteq Sids /\ cache \subseteq Sids /\ cancelled \subseteq Sids
    /\ runtime \in [Sids -> {"none", "pending", "signed in"}]
    /\ session \in [Sids -> Session]
    /\ handler \in [Requests -> Handler]

\* An invite counts exactly the sessions issued for it, and never more than it
\* allows, however many logins were told it is usable.
InviteUsesAreExact ==
    \A i \in Invites :
        /\ invite[i].uses = Cardinality({s \in Sids : session[s].via = i})
        /\ invite[i].uses <= MaxUses[i]

\* What was revoked stays out: Redis keeps no copy of a revoked session that a
\* request could believe, and a disabled account has no session left, although
\* logins and requests may be under way while it is disabled.
RevocationIsComplete ==
    /\ \A s \in cache : Active(s)
    /\ \A p \in Phones : ~account[p].active => SessionsOf(p) = {}

\* A pending login that one handler has found and cancelled never becomes a session
\* in another.  The answer to the client is the same when there was nothing left
\* to cancel, because the login had been finished or had expired.
CancelledStaysOut == \A s \in cancelled : session[s].status = "absent"

=============================================================================
