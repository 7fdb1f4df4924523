------------------------- MODULE PermitLocksProofs -------------------------
(***************************************************************************)
(* Proofs about PermitLocks, for any number of other sessions.  Two facts  *)
(* carry the first: locks exclude each other, and a transaction that asks  *)
(* for nothing more has every row its program names.  The last one, that   *)
(* only the known deadlocks exist, rests on the order of the rows that the *)
(* comments of the code state: every other transaction asks for its rows   *)
(* in that order, or behind a row that guards them, so that the sessions   *)
(* of a circle would want ever later rows.                                 *)
(***************************************************************************)
EXTENDS PermitLocks, SequenceTheorems, FiniteSetTheorems, TLAPS

Stmts == [row : Tables \X Owners, mode : Modes]
Plain == {x \in Stmts : x.mode # "skip"}
Elements(seq) == {seq[i] : i \in 1..Len(seq)}

-----------------------------------------------------------------------------
(* Programs are sequences of statements *)

\* What a statement is.
LEMMA StatementType ==
  ASSUME NEW o \in Owners, NEW table \in Tables
  PROVE  /\ Lock(table, o) \in Plain
         /\ Key(table, o) \in Plain
         /\ Skip(table, o) \in Stmts
         /\ Cancel(o) \in Plain
         /\ System \in Plain
         /\ 3 - o \in Owners
<1>1. \A t \in Tables, p \in Owners, mode \in Modes :
        /\ Statement(t, p, mode) \in Stmts
        /\ Statement(t, p, mode).mode = mode
  BY DEF Statement, Stmts
<1>2. /\ {"update", "key", "skip", "cancel"} \subseteq Modes
      /\ "task" \in Tables /\ "system" \in Tables /\ 1 \in Owners
  BY DEF Modes, Tables, Owners
<1>3. 3 - o \in Owners
  BY DEF Owners
<1> QED BY <1>1, <1>2, <1>3 DEF Lock, Key, Skip, Cancel, System, Plain

\* The elements of a concatenation.
LEMMA InCat ==
  ASSUME NEW S, NEW s \in Seq(S), NEW t \in Seq(S)
  PROVE  /\ s \o t \in Seq(S)
         /\ \A x \in Elements(s) : x \in Elements(s \o t)
         /\ \A x \in Elements(t) : x \in Elements(s \o t)
<1>1. /\ s \o t \in Seq(S)
      /\ Len(s \o t) = Len(s) + Len(t)
      /\ \A i \in 1 .. Len(s) + Len(t) :
           (s \o t)[i] = IF i <= Len(s) THEN s[i] ELSE t[i - Len(s)]
  BY ConcatProperties
<1>0. Len(s) \in Nat /\ Len(t) \in Nat
  OBVIOUS
<1>2. \A x \in Elements(s) : x \in Elements(s \o t)
  BY <1>0, <1>1 DEF Elements
<1>3. ASSUME NEW x \in Elements(t) PROVE x \in Elements(s \o t)
  <2>1. PICK i \in 1 .. Len(t) : x = t[i]
    BY DEF Elements
  <2>2. /\ Len(s) + i \in 1 .. Len(s) + Len(t)
        /\ ~(Len(s) + i <= Len(s)) /\ (Len(s) + i) - Len(s) = i
    BY <1>0, <2>1
  <2>3. (s \o t)[Len(s) + i] = x
    BY <1>1, <2>1, <2>2
  <2> QED BY <1>1, <2>2, <2>3 DEF Elements
<1> QED BY <1>1, <1>2, <1>3

\* Two users, the gates, what withdraws a right.
LEMMA Parts ==
  ASSUME NEW o \in Owners
  PROVE  /\ \A table \in Tables :
              /\ Pair(table) \in Seq(Plain)
              /\ \A p \in Owners : Lock(table, p) \in Elements(Pair(table))
         /\ Gates(o) \in Seq(Plain)
         /\ Withdraw(o) \in Seq(Plain)
<1>1. \A table \in Tables : Pair(table) \in Seq(Plain)
  BY StatementType DEF Pair, Owners
<1>2. ASSUME NEW table \in Tables, NEW p \in Owners
      PROVE  Lock(table, p) \in Elements(Pair(table))
  <2>1. /\ 1 \in 1 .. Len(Pair(table)) /\ Pair(table)[1] = Lock(table, 1)
        /\ 2 \in 1 .. Len(Pair(table)) /\ Pair(table)[2] = Lock(table, 2)
    BY DEF Pair
  <2> QED BY <2>1 DEF Owners, Elements
<1>3. {"agent", "execution", "connection", "autonomy"} \subseteq Tables
  BY DEF Tables
<1>4. Gates(o) \in Seq(Plain)
  BY <1>3, StatementType DEF Gates
<1>5. Withdraw(o) \in Seq(Plain)
  BY <1>3, StatementType DEF Withdraw
<1> QED BY <1>1, <1>2, <1>4, <1>5

\* The snapshot, and what it locks of both users.
LEMMA Snapshot ==
  ASSUME NEW o \in Owners
  PROVE  /\ PolicySnapshot(o) \in Seq(Plain)
         /\ \A p \in Owners : /\ Lock("account", p) \in Elements(PolicySnapshot(o))
                             /\ Lock("user", p) \in Elements(PolicySnapshot(o))
         /\ Lock("autonomy", o) \in Elements(PolicySnapshot(o))
         /\ Lock("contact", o) \in Elements(PolicySnapshot(o))
<1> DEFINE A == <<System>> \o Pair("account")
           B == A \o Pair("user")
           C == B \o Gates(o)
           D == <<Lock("autonomy", o), Lock("contact", o)>>
<1>0. {"account", "user", "autonomy", "contact"} \subseteq Tables
  BY DEF Tables
<1>1. <<System>> \in Seq(Plain)
  BY <1>0, StatementType
<1>2. /\ A \in Seq(Plain)
      /\ \A p \in Owners : Lock("account", p) \in Elements(A)
  BY <1>0, <1>1, Parts, InCat
<1>3. /\ B \in Seq(Plain)
      /\ \A p \in Owners : Lock("account", p) \in Elements(B) /\ Lock("user", p) \in Elements(B)
  <2> HIDE DEF A
  <2> QED BY <1>0, <1>2, Parts, InCat
<1>4. /\ C \in Seq(Plain)
      /\ \A p \in Owners : Lock("account", p) \in Elements(C) /\ Lock("user", p) \in Elements(C)
  <2> HIDE DEF B
  <2> QED BY <1>3, Parts, InCat
<1>5. D \in Seq(Plain)
  BY <1>0, StatementType
<1>6. Lock("autonomy", o) \in Elements(D) /\ Lock("contact", o) \in Elements(D)
  <2>1. /\ 1 \in 1 .. Len(D) /\ D[1] = Lock("autonomy", o)
        /\ 2 \in 1 .. Len(D) /\ D[2] = Lock("contact", o)
    OBVIOUS
  <2> HIDE DEF D
  <2> QED BY <2>1 DEF Elements
<1>7. PolicySnapshot(o) = C \o D
  BY DEF PolicySnapshot
<1> HIDE DEF C, D
<1> QED BY <1>4, <1>5, <1>6, <1>7, InCat

\* The worker's programs.
LEMMA WorkerPrograms ==
  ASSUME NEW o \in Owners
  PROVE  /\ BeginDispatch(o) \in Seq(Plain)
         /\ PrepareExecution(o) \in Seq(Plain)
         /\ LockPermit(o) \in Seq(Plain)
         /\ FinishTask(o) \in Seq(Plain)
         /\ FinalizePrepared(o) \in Seq(Plain)
         /\ GrantPeers(o) \in Seq(Plain)
         /\ RenewGrant(o) \in Seq(Plain)
         /\ StoreMessage(o) \in Seq(Plain)
<1>1. {"account", "user", "autonomy", "task", "audit", "conversation"} \subseteq Tables
  BY DEF Tables
<1>2. /\ <<Lock("task", o)>> \in Seq(Plain)
      /\ <<Lock("task", o), Lock("audit", o)>> \in Seq(Plain)
  BY <1>1, StatementType
<1>3. BeginDispatch(o) \in Seq(Plain) /\ LockPermit(o) \in Seq(Plain)
  BY <1>2, Snapshot, InCat DEF BeginDispatch, LockPermit
<1>4. /\ PrepareExecution(o) \in Seq(Plain)
      /\ FinishTask(o) \in Seq(Plain)
  BY <1>1, StatementType DEF PrepareExecution, FinishTask
<1>5. /\ FinalizePrepared(o) \in Seq(Plain)
      /\ GrantPeers(o) \in Seq(Plain)
      /\ RenewGrant(o) \in Seq(Plain)
      /\ StoreMessage(o) \in Seq(Plain)
  BY <1>1, StatementType DEF FinalizePrepared, GrantPeers, RenewGrant, StoreMessage
<1> QED BY <1>3, <1>4, <1>5

\* What a permit has locked.
LEMMA PermitRows ==
  /\ \A p \in Owners : /\ Lock("account", p) \in Elements(LockPermit(1))
                      /\ Lock("user", p) \in Elements(LockPermit(1))
  /\ Lock("autonomy", 1) \in Elements(LockPermit(1))
  /\ Lock("contact", 1) \in Elements(LockPermit(1))
  /\ Lock("audit", 1) \in Elements(LockPermit(1))
<1> DEFINE D == <<Lock("task", 1), Lock("audit", 1)>>
<1>1. 1 \in Owners /\ {"task", "audit"} \subseteq Tables
  BY DEF Owners, Tables
<1>2. D \in Seq(Plain)
  BY <1>1, StatementType
<1>3. Lock("audit", 1) \in Elements(D)
  <2>1. 2 \in 1 .. Len(D) /\ D[2] = Lock("audit", 1)
    OBVIOUS
  <2> HIDE DEF D
  <2> QED BY <2>1 DEF Elements
<1>4. LockPermit(1) = PolicySnapshot(1) \o D
  BY DEF LockPermit
<1> HIDE DEF D
<1> QED BY <1>1, <1>2, <1>3, <1>4, Snapshot, InCat

\* The programs of the others.
LEMMA OtherPrograms ==
  ASSUME NEW o \in Owners
  PROVE  /\ ControlScan(o) \in Seq(Plain)
         /\ Reap(o) \in Seq(Stmts)
         /\ SystemSwitch(o) \in Seq(Plain)
         /\ Suspend(o) \in Seq(Plain)
         /\ RevokeGrant(o) \in Seq(Plain)
         /\ SaveAutonomySettings(o) \in Seq(Plain)
         /\ SaveExecutionSettings(o) \in Seq(Plain)
         /\ SaveAgentSettings(o) \in Seq(Plain)
         /\ SaveConnection(o) \in Seq(Plain)
         /\ Login(o) \in Seq(Plain)
         /\ ChangeRelation(o) \in Seq(Plain)
         /\ EditContact(o) \in Seq(Plain)
         /\ ArchiveMessage(o) \in Seq(Plain)
         /\ ManualAction(o) \in Seq(Plain)
         /\ DraftAndSend(o) \in Seq(Plain)
         /\ FollowAction(o) \in Seq(Plain)
<1>1. {"account", "user", "agent", "connection", "autonomy", "contact", "task",
        "audit", "conversation"} \subseteq Tables
  BY DEF Tables
<1>2. 3 - o \in Owners
  BY StatementType, <1>1
<1> DEFINE H == <<System, Lock("account", o), Lock("user", o)>>
<1>3. H \in Seq(Plain)
  BY <1>1, StatementType
<1> HIDE DEF H
<1>4. H \o Gates(o) \in Seq(Plain)
  BY <1>3, Parts, InCat
<1>5. ControlScan(o) \in Seq(Plain)
  <2> DEFINE D == <<Lock("autonomy", o), Cancel(o), Lock("contact", o)>>
  <2>1. D \in Seq(Plain)
    BY <1>1, StatementType
  <2>2. ControlScan(o) = (H \o Gates(o)) \o D
    BY DEF ControlScan, H
  <2> HIDE DEF D
  <2> QED BY <1>4, <2>1, <2>2, InCat
<1>6. Reap(o) \in Seq(Stmts)
  <2>1. \A p \in Owners : ReapOwner(p) \in Seq(Stmts)
    BY <1>1, StatementType DEF ReapOwner, Plain
  <2> QED BY <1>2, <2>1, InCat DEF Reap
<1>7. SystemSwitch(o) \in Seq(Plain)
  <2>1. /\ System \in Plain /\ Cancel(o) \in Plain /\ Cancel(3 - o) \in Plain
        /\ Lock("autonomy", o) \in Plain /\ Lock("autonomy", 3 - o) \in Plain
    BY <1>1, <1>2, StatementType
  <2> QED BY <2>1 DEF SystemSwitch
<1>8. Suspend(o) \in Seq(Plain)
  <2>1. <<Lock("account", o), Lock("user", o), Lock("agent", o)>> \in Seq(Plain)
    BY <1>1, StatementType
  <2> QED BY <2>1, Parts, InCat DEF Suspend
<1>9. RevokeGrant(o) \in Seq(Plain)
  <2>1. <<Lock("user", o), Lock("agent", o)>> \in Seq(Plain)
    BY <1>1, StatementType
  <2> QED BY <2>1, Parts, InCat DEF RevokeGrant
<1>10. SaveAutonomySettings(o) \in Seq(Plain)
  <2>1. <<Lock("autonomy", o)>> \in Seq(Plain)
    BY <1>1, StatementType
  <2>2. SaveAutonomySettings(o) = (H \o Gates(o)) \o <<Lock("autonomy", o)>>
    BY DEF SaveAutonomySettings, H
  <2> QED BY <1>4, <2>1, <2>2, InCat
<1>11. SaveExecutionSettings(o) \in Seq(Plain)
  <2> DEFINE D == <<Lock("autonomy", o), Cancel(o)>>
  <2>1. D \in Seq(Plain)
    BY <1>1, StatementType
  <2>2. SaveExecutionSettings(o) = (H \o Gates(o)) \o D
    BY DEF SaveExecutionSettings, H
  <2> HIDE DEF D
  <2> QED BY <1>4, <2>1, <2>2, InCat
<1>12. SaveAgentSettings(o) \in Seq(Plain)
  <2>1. <<System, Lock("user", o), Lock("agent", o)>> \in Seq(Plain)
    BY <1>1, StatementType
  <2> QED BY <2>1, Parts, InCat DEF SaveAgentSettings
<1>13. SaveConnection(o) \in Seq(Plain)
  <2>1. <<System, Lock("user", o), Lock("agent", o), Lock("connection", o)>> \in Seq(Plain)
    BY <1>1, StatementType
  <2> QED BY <2>1, Parts, InCat DEF SaveConnection
<1>14. /\ Login(o) \in Seq(Plain)
       /\ EditContact(o) \in Seq(Plain)
       /\ ArchiveMessage(o) \in Seq(Plain)
  BY <1>1, StatementType DEF Login, EditContact, ArchiveMessage
<1>15. ChangeRelation(o) \in Seq(Plain)
  BY <1>1, Parts DEF ChangeRelation
<1>16. ManualAction(o) \in Seq(Plain)
  BY <1>4 DEF ManualAction, H
<1>17. DraftAndSend(o) \in Seq(Plain)
  <2>1. <<Lock("agent", o)>> \in Seq(Plain)
    BY <1>1, StatementType
  <2> QED BY <1>16, <2>1, InCat DEF DraftAndSend
<1>18. FollowAction(o) \in Seq(Plain)
  <2> DEFINE A == <<System>> \o Pair("account")
             B == A \o Pair("user")
  <2>1. <<System>> \in Seq(Plain)
    BY <1>1, StatementType
  <2>2. A \in Seq(Plain)
    BY <1>1, <2>1, Parts, InCat
  <2> HIDE DEF A
  <2>3. B \in Seq(Plain)
    BY <1>1, <2>2, Parts, InCat
  <2>4. FollowAction(o) = B \o Gates(o)
    BY DEF FollowAction, A
  <2> HIDE DEF B
  <2> QED BY <2>3, <2>4, Parts, InCat
<1> QED BY <1>5, <1>6, <1>7, <1>8, <1>9, <1>10, <1>11, <1>12, <1>13, <1>14, <1>15,
           <1>16, <1>17, <1>18

\* Only the sweep skips.
LEMMA ProgramType ==
  ASSUME NEW o \in Owners, NEW kind \in Kinds
  PROVE  /\ Programs(o)[kind] \in Seq(Stmts)
         /\ kind # "reap" => Programs(o)[kind] \in Seq(Plain)
<1>0. Seq(Plain) \subseteq Seq(Stmts)
  BY DEF Plain
<1>1. CASE kind \in {"begin", "prepare", "permit", "finish", "finalize", "grant", "renew"}
  BY <1>0, <1>1, WorkerPrograms DEF Programs
<1>2. CASE kind \in {"scan", "reap", "switch", "suspend", "revoke", "configure",
                   "actions"}
  BY <1>0, <1>2, OtherPrograms DEF Programs
<1>3. CASE kind \in {"runner", "connect", "login", "relation", "contact", "archive",
                   "manual", "follow", "draft"}
  BY <1>0, <1>3, OtherPrograms DEF Programs
<1>4. kind \in {"begin", "prepare", "permit", "finish", "finalize", "grant", "renew",
              "scan", "reap", "switch", "suspend", "revoke", "configure",
              "actions", "runner", "connect", "login", "relation", "contact",
              "archive", "manual", "follow", "draft"}
  BY DEF Kinds, Programs
<1> QED BY <1>1, <1>2, <1>3, <1>4

-----------------------------------------------------------------------------
(* The inductive invariant *)

Rec == [kind : Kinds \cup {"none", "over"}, owner : Owners,
        todo : Seq(Stmts), held : SUBSET Stmts]

Live(r) == r.kind \notin {"none", "over"}

\* What its program wants to update, a transaction has locked or still asks for.
Covers(r) ==
  \A x \in Elements(Programs(r.owner)[r.kind]) :
     x.mode = "update" => x \in r.held \/ x \in Elements(r.todo)

GoodRec(r) ==
  /\ r \in Rec
  /\ r.kind # "reap" => r.todo \in Seq(Plain)
  /\ Live(r) /\ r.kind # "reap" => Covers(r)

Exclusive ==
  \A s, t \in Sessions : s # t =>
     \A x \in session[s].held, y \in session[t].held : ~Conflict(x, y)

RowsInv ==
  /\ session \in [Sessions -> Rec]
  /\ \A s \in Sessions : GoodRec(session[s])
  /\ Exclusive

\* A permit that stands has locked all its rows, and the second connection of its
\* worker waits behind one of them.
Standing == {"refused", "calling", "granting", "recording", "recorded"}

PermitInv ==
  /\ phase \in {"permit"} \cup Standing /\ Active("main") =>
       session["main"].kind = "permit" /\ session["main"].owner = 1
  /\ phase \in Standing /\ Active("main") =>
       \A x \in Elements(LockPermit(1)) :
          x.mode = "update" => x \in session["main"].held
  /\ phase \in Standing \ {"recording"} /\ Active("main") =>
       session["main"].todo = <<>>

WaitingInv ==
  /\ phase = "granting" /\ session["second"].kind = "grant" /\ Active("main") =>
       session["second"].todo = <<Key("user", 1)>>
  /\ phase = "refused" /\ Active("main") =>
       session["second"].todo = <<Lock("audit", 1)>>

PhaseInv ==
  /\ phase \in {"begin", "prepare", "permit", "refused", "calling", "granting",
                "recording", "recorded", "finalizing", "finish", "done"}
  /\ report \in {"none", "succeeded", "failed", "unknown"}

IInv == RowsInv /\ PermitInv /\ WaitingInv /\ PhaseInv

-----------------------------------------------------------------------------
(* Records *)

\* A transaction that begins, or is over.
LEMMA FreshRec ==
  /\ \A kind \in Kinds, o \in Owners :
        GoodRec(Transaction(kind, o)) /\ Transaction(kind, o).held = {}
  /\ GoodRec(NoTransaction) /\ NoTransaction.held = {}
  /\ GoodRec(Finished) /\ Finished.held = {}
<1>1. ASSUME NEW kind \in Kinds, NEW o \in Owners
      PROVE  GoodRec(Transaction(kind, o)) /\ Transaction(kind, o).held = {}
  <2> DEFINE prog == Programs(o)[kind]
             r == [kind |-> kind, owner |-> o, todo |-> prog, held |-> {}]
  <2>1. prog \in Seq(Stmts) /\ (kind # "reap" => prog \in Seq(Plain))
    BY ProgramType
  <2>2. r = Transaction(kind, o)
    BY DEF Transaction
  <2>3. Covers(r)
    BY DEF Covers
  <2> HIDE DEF prog
  <2>4. r \in Rec /\ r.kind = kind /\ r.todo = prog /\ r.held = {}
    BY <2>1 DEF Rec
  <2> HIDE DEF r
  <2> QED BY <2>1, <2>2, <2>3, <2>4 DEF GoodRec
<1>2. GoodRec(NoTransaction) /\ NoTransaction.held = {}
  BY DEF GoodRec, Rec, NoTransaction, Live, Owners, Covers
<1>3. Finished = [kind |-> "over", owner |-> 1, todo |-> <<>>, held |-> {}]
  BY DEF Finished, NoTransaction
<1>4. GoodRec(Finished) /\ Finished.held = {}
  BY <1>3 DEF GoodRec, Rec, Live, Owners, Covers
<1> QED BY <1>1, <1>2, <1>4

\* A transaction that goes on.
LEMMA GoingRec ==
  ASSUME NEW r \in Rec, NEW todo \in Seq(Stmts), NEW held \in SUBSET Stmts
  PROVE  /\ Moved(r, todo, held) \in Rec
         /\ Moved(r, todo, held).kind = r.kind /\ Moved(r, todo, held).owner = r.owner
         /\ Moved(r, todo, held).todo = todo /\ Moved(r, todo, held).held = held
BY DEF Rec, Moved

\* Head and tail.
LEMMA HeadTail ==
  ASSUME NEW S, NEW seq \in Seq(S), seq # <<>>
  PROVE  /\ Head(seq) \in S /\ Tail(seq) \in Seq(S)
         /\ \A x \in Elements(seq) : x = Head(seq) \/ x \in Elements(Tail(seq))
<1>1. /\ Head(seq) \in S /\ Tail(seq) \in Seq(S) /\ Head(seq) = seq[1]
      /\ Len(seq) \in Nat \ {0} /\ Len(Tail(seq)) = Len(seq) - 1
      /\ \A i \in 1 .. Len(Tail(seq)) : Tail(seq)[i] = seq[i + 1]
  BY HeadTailProperties
<1>2. ASSUME NEW i \in 1 .. Len(seq), i # 1
      PROVE  seq[i] \in Elements(Tail(seq))
  <2>1. i - 1 \in 1 .. Len(Tail(seq)) /\ (i - 1) + 1 = i
    BY <1>1, <1>2
  <2> QED BY <1>1, <2>1 DEF Elements
<1> QED BY <1>1, <1>2 DEF Elements

\* It takes the lock it asked for.
LEMMA TakingRec ==
  ASSUME NEW r, GoodRec(r), r.todo # <<>>
  PROVE  GoodRec(Moved(r, Tail(r.todo), r.held \cup {Head(r.todo)}))
<1> DEFINE todo == Tail(r.todo)
           held == r.held \cup {Head(r.todo)}
           q == Moved(r, todo, held)
<1>1. r \in Rec /\ r.todo \in Seq(Stmts) /\ r.held \in SUBSET Stmts
  BY DEF GoodRec, Rec
<1>2. /\ Head(r.todo) \in Stmts /\ todo \in Seq(Stmts)
      /\ \A x \in Elements(r.todo) : x = Head(r.todo) \/ x \in Elements(todo)
  BY <1>1, HeadTail
<1>3. r.kind # "reap" => todo \in Seq(Plain)
  BY HeadTail DEF GoodRec
<1>4. held \in SUBSET Stmts
  BY <1>1, <1>2
<1>5. \A x : x \in r.held \/ x \in Elements(r.todo) => x \in held \/ x \in Elements(todo)
  BY <1>2
<1> HIDE DEF todo, held
<1>6. /\ q \in Rec /\ q.kind = r.kind /\ q.owner = r.owner
      /\ q.todo = todo /\ q.held = held
  BY <1>1, <1>2, <1>4, GoingRec
<1> HIDE DEF q
<1>7. Live(q) /\ q.kind # "reap" => Covers(q)
  BY <1>5, <1>6 DEF GoodRec, Covers, Live
<1>8. GoodRec(q)
  BY <1>3, <1>6, <1>7 DEF GoodRec
<1> QED BY <1>8 DEF q, todo, held

\* It finds no task to cancel.
LEMMA PassingRec ==
  ASSUME NEW r, GoodRec(r), r.todo # <<>>, Head(r.todo).mode = "cancel"
  PROVE  GoodRec(Moved(r, Tail(r.todo), r.held))
<1> DEFINE todo == Tail(r.todo)
           q == Moved(r, todo, r.held)
<1>1. r \in Rec /\ r.todo \in Seq(Stmts) /\ r.held \in SUBSET Stmts
  BY DEF GoodRec, Rec
<1>2. /\ todo \in Seq(Stmts)
      /\ \A x \in Elements(r.todo) : x = Head(r.todo) \/ x \in Elements(todo)
  BY <1>1, HeadTail
<1>3. r.kind # "reap" => todo \in Seq(Plain)
  BY HeadTail DEF GoodRec
<1>5. \A x : x.mode = "update" /\ x \in Elements(r.todo) => x \in Elements(todo)
  BY <1>2
<1> HIDE DEF todo
<1>6. /\ q \in Rec /\ q.kind = r.kind /\ q.owner = r.owner
      /\ q.todo = todo /\ q.held = r.held
  BY <1>1, <1>2, GoingRec
<1> HIDE DEF q
<1>7. Live(q) /\ q.kind # "reap" => Covers(q)
  BY <1>5, <1>6 DEF GoodRec, Covers, Live
<1>8. GoodRec(q)
  BY <1>3, <1>6, <1>7 DEF GoodRec
<1> QED BY <1>8 DEF q, todo

\* It leaves an owner out.
LEMMA SkippingRec ==
  ASSUME NEW r, GoodRec(r), r.todo # <<>>, Head(r.todo).mode = "skip"
  PROVE  GoodRec(Moved(r, SubSeq(r.todo, 3, Len(r.todo)), r.held))
<1> DEFINE todo == SubSeq(r.todo, 3, Len(r.todo))
           q == Moved(r, todo, r.held)
<1>1. r \in Rec /\ r.todo \in Seq(Stmts) /\ r.held \in SUBSET Stmts
  BY DEF GoodRec, Rec
<1>2. r.kind = "reap"
  <2> SUFFICES ASSUME r.todo \in Seq(Plain) PROVE FALSE
    BY DEF GoodRec
  <2>1. Head(r.todo) \in Plain
    BY HeadTail
  <2> QED BY <2>1 DEF Plain
<1>3. todo \in Seq(Stmts)
  BY <1>1
<1> HIDE DEF todo
<1>4. /\ q \in Rec /\ q.kind = r.kind
  BY <1>1, <1>3, GoingRec
<1> HIDE DEF q
<1>5. GoodRec(q)
  BY <1>2, <1>4 DEF GoodRec
<1> QED BY <1>5 DEF q, todo

-----------------------------------------------------------------------------
(* Steps of the sessions *)

Fresh == {Transaction(kind, o) : kind \in Kinds, o \in Owners}
           \cup {NoTransaction, Finished}

\* What a fresh record holds.
LEMMA FreshHolds == \A r \in Fresh : GoodRec(r) /\ r.held = {}
BY FreshRec DEF Fresh

\* Sessions stop and begin.
LEMMA Restart ==
  ASSUME RowsInv,
         session' = [t \in Sessions |-> session'[t]],
         \A t \in Sessions : session'[t] = session[t] \/ session'[t] \in Fresh
  PROVE  RowsInv'
<1>1. \A t \in Sessions : GoodRec(session'[t])
  BY FreshHolds DEF RowsInv
<1>2. session' \in [Sessions -> Rec]
  BY <1>1 DEF GoodRec
<1>3. ASSUME NEW s \in Sessions, NEW t \in Sessions, s # t,
             NEW x \in session'[s].held, NEW y \in session'[t].held
      PROVE  ~Conflict(x, y)
  <2>1. session'[s] = session[s] /\ session'[t] = session[t]
    BY <1>3, FreshHolds
  <2> QED BY <1>3, <2>1 DEF RowsInv, Exclusive
<1> QED BY <1>1, <1>2, <1>3 DEF RowsInv, Exclusive, GoodRec, Covers, Live

\* A session goes on, with no lock but its own and what is free.
LEMMA Going ==
  ASSUME RowsInv, NEW s \in Sessions, NEW todo, NEW held,
         Goes(s, todo, held),
         GoodRec(Moved(session[s], todo, held)),
         todo \in Seq(Stmts), held \in SUBSET Stmts,
         \A x \in held : x \in session[s].held \/ Free(s, x)
  PROVE  /\ RowsInv'
         /\ session'[s] = Moved(session[s], todo, held)
         /\ \A t \in Sessions \ {s} : session'[t] = session[t]
<1> DEFINE q == Moved(session[s], todo, held)
<1>1. session \in [Sessions -> Rec] /\ session' = [session EXCEPT ![s] = q]
  BY DEF RowsInv, Goes
<1>2. q.held = held /\ q \in Rec
  BY <1>1, GoingRec
<1> HIDE DEF q
<1>3. /\ session'[s] = q
      /\ \A t \in Sessions \ {s} : session'[t] = session[t]
      /\ session' \in [Sessions -> Rec]
  BY <1>1, <1>2
<1>4. \A t \in Sessions : GoodRec(session'[t])
  BY <1>3 DEF RowsInv, q
<1>5. ASSUME NEW t \in Sessions \ {s}, NEW x \in held, NEW y \in session[t].held
      PROVE  ~Conflict(x, y) /\ ~Conflict(y, x)
  <2>1. ~Conflict(x, y)
    BY <1>5 DEF RowsInv, Exclusive, Free
  <2> QED BY <2>1 DEF Conflict
<1>6. ASSUME NEW t \in Sessions, NEW u \in Sessions, t # u,
             NEW x \in session'[t].held, NEW y \in session'[u].held
      PROVE  ~Conflict(x, y)
  <2>1. CASE t = s
    BY <1>2, <1>3, <1>5, <1>6, <2>1
  <2>2. CASE u = s
    BY <1>2, <1>3, <1>5, <1>6, <2>2
  <2>3. CASE t # s /\ u # s
    BY <1>3, <1>6, <2>3 DEF RowsInv, Exclusive
  <2> QED BY <2>1, <2>2, <2>3
<1>7. RowsInv'
  BY <1>3, <1>4, <1>6 DEF RowsInv, Exclusive, GoodRec, Covers, Live
<1> QED BY <1>3, <1>7 DEF q

\* A statement of s.
LEMMA LockStep ==
  ASSUME RowsInv, NEW s \in Sessions, Locks(s)
  PROVE  /\ RowsInv'
         /\ \A t \in Sessions \ {s} : session'[t] = session[t]
         /\ session'[s].kind = session[s].kind /\ session'[s].owner = session[s].owner
         /\ session[s].held \subseteq session'[s].held
         /\ session[s].todo # <<>>
         /\ UNCHANGED <<phase, report>>
<1> DEFINE r == session[s]
<1>1. /\ GoodRec(r) /\ r \in Rec
      /\ r.todo \in Seq(Stmts) /\ r.held \in SUBSET Stmts
  BY DEF RowsInv, Rec
<1>2. r.todo # <<>> /\ UNCHANGED <<phase, report>>
  BY DEF Locks, TakeLock, SkipOwner, CancelNothing
<1>3. Head(r.todo) \in Stmts /\ Tail(r.todo) \in Seq(Stmts)
  BY <1>1, <1>2, HeadTail
<1>4. CASE TakeLock(s)
  <2> DEFINE todo == Tail(r.todo)
             held == r.held \cup {Head(r.todo)}
  <2>1. Goes(s, todo, held) /\ Free(s, Head(r.todo))
    BY <1>4 DEF TakeLock
  <2>2. GoodRec(Moved(r, todo, held))
    BY <1>1, <1>2, TakingRec
  <2>3. todo \in Seq(Stmts) /\ held \in SUBSET Stmts
    BY <1>1, <1>3
  <2>4. \A x \in held : x \in r.held \/ Free(s, x)
    BY <2>1
  <2>5. r.held \subseteq held
    OBVIOUS
  <2> HIDE DEF todo, held
  <2>6. /\ RowsInv' /\ session'[s] = Moved(r, todo, held)
        /\ \A t \in Sessions \ {s} : session'[t] = session[t]
    BY <2>1, <2>2, <2>3, <2>4, Going
  <2>7. /\ Moved(r, todo, held).kind = r.kind /\ Moved(r, todo, held).owner = r.owner
        /\ Moved(r, todo, held).held = held
    BY <1>1, <2>3, GoingRec
  <2> QED BY <1>2, <2>5, <2>6, <2>7
<1>5. CASE SkipOwner(s)
  <2> DEFINE todo == SubSeq(r.todo, 3, Len(r.todo))
  <2>1. Goes(s, todo, r.held) /\ Head(r.todo).mode = "skip"
    BY <1>5 DEF SkipOwner
  <2>2. GoodRec(Moved(r, todo, r.held))
    BY <1>1, <1>2, <2>1, SkippingRec
  <2>3. todo \in Seq(Stmts)
    BY <1>1
  <2> HIDE DEF todo
  <2>6. /\ RowsInv' /\ session'[s] = Moved(r, todo, r.held)
        /\ \A t \in Sessions \ {s} : session'[t] = session[t]
    BY <1>1, <2>1, <2>2, <2>3, Going
  <2>7. /\ Moved(r, todo, r.held).kind = r.kind /\ Moved(r, todo, r.held).owner = r.owner
        /\ Moved(r, todo, r.held).held = r.held
    BY <1>1, <2>3, GoingRec
  <2> QED BY <1>2, <2>6, <2>7
<1>6. CASE CancelNothing(s)
  <2> DEFINE todo == Tail(r.todo)
  <2>1. Goes(s, todo, r.held) /\ Head(r.todo).mode = "cancel"
    BY <1>6 DEF CancelNothing
  <2>2. GoodRec(Moved(r, todo, r.held))
    BY <1>1, <1>2, <2>1, PassingRec
  <2>3. todo \in Seq(Stmts)
    BY <1>3
  <2> HIDE DEF todo
  <2>6. /\ RowsInv' /\ session'[s] = Moved(r, todo, r.held)
        /\ \A t \in Sessions \ {s} : session'[t] = session[t]
    BY <1>1, <2>1, <2>2, <2>3, Going
  <2>7. /\ Moved(r, todo, r.held).kind = r.kind /\ Moved(r, todo, r.held).owner = r.owner
        /\ Moved(r, todo, r.held).held = r.held
    BY <1>1, <2>3, GoingRec
  <2> QED BY <1>2, <2>6, <2>7
<1> QED BY <1>4, <1>5, <1>6 DEF Locks

-----------------------------------------------------------------------------
(* The invariant is inductive *)

\* Three sessions are apart.
LEMMA Apart ==
  /\ "main" \in Sessions /\ "second" \in Sessions /\ "main" # "second"
  /\ \A s \in Others : s \in Sessions /\ s # "main" /\ s # "second"
BY OthersAssumption DEF Sessions

\* The worker's own transactions.
LEMMA WorkerRecords ==
  /\ Transaction("permit", 1).kind = "permit" /\ Transaction("permit", 1).owner = 1
  /\ Transaction("renew", 1).kind = "renew"
  /\ Transaction("grant", 1).todo = <<Key("user", 1)>>
  /\ Transaction("finalize", 1).todo = <<Lock("audit", 1)>>
  /\ Programs(1)["permit"] = LockPermit(1)
  /\ NoTransaction.kind = "none" /\ Finished.kind = "over"
  /\ {"begin", "prepare", "permit", "finish", "finalize", "grant", "renew"} \subseteq Kinds
  /\ 1 \in Owners
<1>1. /\ Programs(1)["permit"] = LockPermit(1)
      /\ Programs(1)["grant"] = GrantPeers(1)
      /\ Programs(1)["finalize"] = FinalizePrepared(1)
      /\ {"begin", "prepare", "permit", "finish", "finalize", "grant", "renew"}
           \subseteq DOMAIN Programs(1)
  BY DEF Programs
<1>2. /\ NoTransaction.kind = "none" /\ Finished.kind = "over"
  BY DEF NoTransaction, Finished
<1>3. \A kind, o : /\ Transaction(kind, o).kind = kind /\ Transaction(kind, o).owner = o
                   /\ Transaction(kind, o).todo = Programs(o)[kind]
  BY DEF Transaction
<1> QED BY <1>1, <1>2, <1>3 DEF GrantPeers, FinalizePrepared, Kinds, Owners

\* A permit that asks for nothing more has all its rows.
LEMMA PermitFull ==
  ASSUME IInv, phase = "permit", Locked("main")
  PROVE  /\ session["main"].kind = "permit" /\ session["main"].owner = 1
         /\ session["main"].todo = <<>>
         /\ \A x \in Elements(LockPermit(1)) :
              x.mode = "update" => x \in session["main"].held
<1> DEFINE r == session["main"]
<1>1. GoodRec(r) /\ Active("main") /\ r.todo = <<>>
  BY Apart DEF IInv, RowsInv, Locked
<1>2. r.kind = "permit" /\ r.owner = 1
  BY <1>1 DEF IInv, PermitInv
<1>3. Covers(r)
  BY <1>1, <1>2 DEF GoodRec, Live
<1>4. Elements(r.todo) = {}
  BY <1>1 DEF Elements
<1> HIDE DEF r
<1>5. \A x \in Elements(LockPermit(1)) : x.mode = "update" => x \in r.held
  BY <1>2, <1>3, <1>4, WorkerRecords DEF Covers
<1> QED BY <1>1, <1>2, <1>5 DEF r

LEMMA InvInit == Init => IInv
<1> SUFFICES ASSUME Init PROVE IInv
  OBVIOUS
<1>1. /\ \A s \in Sessions : session[s] \in Fresh
      /\ session = [s \in Sessions |-> session[s]]
  BY WorkerRecords DEF Init, Fresh
<1>2. \A s \in Sessions : GoodRec(session[s]) /\ session[s].held = {}
  BY <1>1, FreshHolds
<1>3. RowsInv
  BY <1>1, <1>2 DEF RowsInv, Exclusive, GoodRec
<1>4. PermitInv /\ WaitingInv /\ PhaseInv
  BY DEF Init, PermitInv, WaitingInv, PhaseInv, Standing
<1> QED BY <1>3, <1>4 DEF IInv

LEMMA InvLocks ==
  ASSUME IInv, NEW s \in Sessions, Locks(s)
  PROVE  IInv'
<1>1. /\ RowsInv'
      /\ \A t \in Sessions \ {s} : session'[t] = session[t]
      /\ session'[s].kind = session[s].kind /\ session'[s].owner = session[s].owner
      /\ session[s].held \subseteq session'[s].held
      /\ session[s].todo # <<>>
      /\ UNCHANGED <<phase, report>>
  BY LockStep DEF IInv
<1>2. PhaseInv'
  BY <1>1 DEF IInv, PhaseInv
<1>3. CASE s = "main"
  <2>1. /\ Active("main")' <=> Active("main")
        /\ session'["second"] = session["second"]
    BY <1>1, <1>3, Apart DEF Active
  <2>2. PermitInv'
    BY <1>1, <1>3, <2>1 DEF IInv, PermitInv, Standing
  <2>3. WaitingInv'
    BY <1>1, <2>1 DEF IInv, WaitingInv
  <2> QED BY <1>1, <1>2, <2>2, <2>3 DEF IInv
<1>4. CASE s = "second"
  <2>1. session'["main"] = session["main"] /\ (Active("main")' <=> Active("main"))
    BY <1>1, <1>4, Apart DEF Active
  <2>2. PermitInv'
    BY <1>1, <2>1 DEF IInv, PermitInv
  <2>3. ASSUME Active("main"),
               \/ phase = "granting" /\ session["second"].kind = "grant"
               \/ phase = "refused"
        PROVE  FALSE
    <3> DEFINE wanted == Head(session["second"].todo)
    <3>1. /\ "user" \in Tables /\ "audit" \in Tables /\ 1 \in Owners
          /\ Lock("user", 1).mode = "update" /\ Lock("audit", 1).mode = "update"
          /\ Key("user", 1).mode = "key"
      BY DEF Tables, Owners, Lock, Key, Statement
    <3>2. /\ Lock("user", 1) \in session["main"].held
          /\ Lock("audit", 1) \in session["main"].held
      BY <2>3, <3>1, PermitRows DEF IInv, PermitInv, Standing
    <3>3. wanted = Key("user", 1) \/ wanted = Lock("audit", 1)
      BY <2>3 DEF IInv, WaitingInv
    <3>4. /\ Conflict(Key("user", 1), Lock("user", 1))
          /\ Conflict(Lock("audit", 1), Lock("audit", 1))
      BY DEF Conflict, Lock, Key, Statement
    <3>5. ~Free("second", wanted)
      BY <3>2, <3>3, <3>4, Apart DEF Free
    <3>6. wanted.mode \notin {"skip", "cancel"}
      BY <3>1, <3>3
    <3> QED BY <1>4, <3>5, <3>6 DEF Locks, TakeLock, SkipOwner, CancelNothing
  <2>4. WaitingInv'
    BY <1>1, <1>4, <2>1, <2>3 DEF WaitingInv
  <2> QED BY <1>1, <1>2, <2>2, <2>4 DEF IInv
<1>5. CASE s \in Others
  <2>1. /\ session'["main"] = session["main"] /\ session'["second"] = session["second"]
        /\ (Active("main")' <=> Active("main"))
    BY <1>1, <1>5, Apart DEF Active
  <2> QED BY <1>1, <1>2, <2>1 DEF IInv, PermitInv, WaitingInv
<1> QED BY <1>3, <1>4, <1>5 DEF Sessions

LEMMA InvOthers ==
  ASSUME IInv, NEW s \in Others, Start(s) \/ End(s)
  PROVE  IInv'
<1>1. \E r \in Fresh : session' = [session EXCEPT ![s] = r]
  BY DEF Start, End, Fresh
<1>2. /\ session' = [t \in Sessions |-> session'[t]]
      /\ \A t \in Sessions : session'[t] = session[t] \/ session'[t] \in Fresh
      /\ session'["main"] = session["main"] /\ session'["second"] = session["second"]
  BY <1>1, Apart DEF IInv, RowsInv
<1>3. RowsInv'
  BY <1>2, Restart DEF IInv
<1>4. UNCHANGED <<phase, report>> /\ (Active("main")' <=> Active("main"))
  BY <1>2 DEF Start, End, Active
<1> QED BY <1>2, <1>3, <1>4 DEF IInv, PermitInv, WaitingInv, PhaseInv

\* The worker starts or leaves a transaction of its own connections.
LEMMA WorkerRestart ==
  ASSUME IInv, NEW q \in Fresh \cup {session["main"]},
         NEW r \in Fresh \cup {session["second"]},
         session' = [session EXCEPT !["main"] = q, !["second"] = r]
  PROVE  RowsInv' /\ session'["main"] = q /\ session'["second"] = r
<1>1. /\ session' = [t \in Sessions |-> session'[t]]
      /\ \A t \in Sessions : session'[t] = session[t] \/ session'[t] \in Fresh
      /\ session'["main"] = q /\ session'["second"] = r
  BY Apart DEF IInv, RowsInv
<1> QED BY <1>1, Restart DEF IInv

\* The permit is over and the worker goes on.
LEMMA Continues ==
  ASSUME IInv, NEW next \in {"prepare", "permit", "finish"}, Continue(next),
         report' \in {"none", "succeeded", "failed", "unknown"}
  PROVE  IInv'
<1>1. /\ Transaction(next, 1) \in Fresh /\ NoTransaction \in Fresh
      /\ next = "permit" => /\ Transaction(next, 1).kind = "permit"
                            /\ Transaction(next, 1).owner = 1
  BY WorkerRecords DEF Fresh
<1>2. RowsInv' /\ session'["main"] = Transaction(next, 1) /\ phase' = next
  BY <1>1, WorkerRestart DEF Continue
<1>3. PermitInv' /\ WaitingInv' /\ PhaseInv'
  BY <1>1, <1>2 DEF PermitInv, WaitingInv, PhaseInv, Standing
<1> QED BY <1>2, <1>3 DEF IInv

LEMMA Finalizes ==
  ASSUME IInv, NEW outcome \in {"failed", "unknown"}, Finalize(outcome)
  PROVE  IInv'
<1>1. Transaction("finalize", 1) \in Fresh /\ NoTransaction \in Fresh
  BY WorkerRecords DEF Fresh
<1>2. RowsInv' /\ phase' = "finalizing" /\ report' = outcome
  BY <1>1, WorkerRestart DEF Finalize
<1>3. PermitInv' /\ WaitingInv' /\ PhaseInv'
  BY <1>2 DEF PermitInv, WaitingInv, PhaseInv, Standing
<1> QED BY <1>2, <1>3 DEF IInv

LEMMA Stops ==
  ASSUME IInv, Stop, UNCHANGED report
  PROVE  IInv'
<1>1. session' = [session EXCEPT !["main"] = NoTransaction,
                                 !["second"] = session["second"]]
  BY Apart DEF Stop, IInv, RowsInv
<1>2. NoTransaction \in Fresh
  BY DEF Fresh
<1>3. RowsInv' /\ phase' = "done" /\ report' = report
  BY <1>1, <1>2, WorkerRestart DEF Stop
<1>4. PermitInv' /\ WaitingInv' /\ PhaseInv'
  BY <1>3 DEF IInv, PermitInv, WaitingInv, PhaseInv, Standing
<1> QED BY <1>3, <1>4 DEF IInv

\* The answer is recorded in the permit that stands.
LEMMA Records ==
  ASSUME IInv, phase \in {"granting", "refused"}, Active("main"),
         NEW outcome \in {"succeeded", "failed"}, Record(outcome)
  PROVE  IInv'
<1>1. session' = [session EXCEPT !["main"] = session["main"],
                                 !["second"] = NoTransaction]
  BY Apart DEF Record, IInv, RowsInv
<1>2. NoTransaction \in Fresh
  BY DEF Fresh
<1>3. /\ RowsInv' /\ session'["main"] = session["main"]
      /\ phase' = "recorded" /\ report' = outcome
  BY <1>1, <1>2, WorkerRestart DEF Record
<1>4. PermitInv' /\ WaitingInv' /\ PhaseInv'
  BY <1>3 DEF IInv, PermitInv, WaitingInv, PhaseInv, Standing
<1> QED BY <1>3, <1>4 DEF IInv

LEMMA InvRefuse ==
  ASSUME IInv, RefusePermit
  PROVE  IInv'
<1>1. session' = [session EXCEPT !["main"] = session["main"],
                                 !["second"] = Transaction("finalize", 1)]
  BY Apart DEF RefusePermit, IInv, RowsInv
<1>2. Transaction("finalize", 1) \in Fresh
  BY WorkerRecords DEF Fresh
<1>3. /\ RowsInv' /\ session'["main"] = session["main"]
      /\ session'["second"] = Transaction("finalize", 1)
      /\ phase' = "refused" /\ report' = "failed"
  BY <1>1, <1>2, WorkerRestart DEF RefusePermit
<1>4. PermitInv' /\ WaitingInv' /\ PhaseInv'
  BY <1>3, PermitFull, WorkerRecords
     DEF RefusePermit, PermitInv, WaitingInv, PhaseInv, Standing
<1> QED BY <1>3, <1>4 DEF IInv

LEMMA InvMessage ==
  ASSUME IInv, MessageAccepted
  PROVE  IInv'
<1> DEFINE r == session["main"]
           todo == StoreMessage(1)
<1>1. /\ phase = "calling" /\ Active("main") /\ phase' = "recording"
      /\ report' = "succeeded" /\ Goes("main", todo, r.held)
  BY DEF MessageAccepted
<1>2. /\ GoodRec(r) /\ r \in Rec /\ r.held \in SUBSET Stmts
      /\ r.kind = "permit" /\ r.owner = 1
      /\ \A x \in Elements(LockPermit(1)) : x.mode = "update" => x \in r.held
  BY <1>1, Apart DEF IInv, RowsInv, PermitInv, Standing, Rec
<1>3. todo \in Seq(Plain) /\ todo \in Seq(Stmts)
  <2>1. todo \in Seq(Plain)
    BY WorkerPrograms DEF Owners
  <2> QED BY <2>1 DEF Plain
<1> DEFINE q == Moved(r, todo, r.held)
<1> HIDE DEF todo
<1>4. /\ q \in Rec /\ q.kind = "permit" /\ q.owner = 1
      /\ q.todo = todo /\ q.held = r.held
  BY <1>2, <1>3, GoingRec
<1> HIDE DEF q
<1>5. Covers(q)
  BY <1>2, <1>4, WorkerRecords DEF Covers
<1>6. GoodRec(q)
  BY <1>3, <1>4, <1>5 DEF GoodRec
<1>7. /\ RowsInv' /\ session'["main"] = q
      /\ session'["second"] = session["second"]
  BY <1>1, <1>2, <1>3, <1>6, Going, Apart DEF IInv, q
<1>8. PermitInv' /\ WaitingInv' /\ PhaseInv'
  BY <1>1, <1>2, <1>4, <1>7 DEF PermitInv, WaitingInv, PhaseInv, Standing
<1> QED BY <1>7, <1>8 DEF IInv

LEMMA InvMatch ==
  ASSUME IInv, MatchAccepted
  PROVE  IInv'
<1>1. PICK kind \in {"grant", "renew"} :
        session' = [session EXCEPT !["second"] = Transaction(kind, 1)]
  BY DEF MatchAccepted
<1>2. session' = [session EXCEPT !["main"] = session["main"],
                                 !["second"] = Transaction(kind, 1)]
  BY <1>1, Apart DEF IInv, RowsInv
<1>3. Transaction(kind, 1) \in Fresh
  BY WorkerRecords DEF Fresh
<1>4. /\ RowsInv' /\ session'["main"] = session["main"]
      /\ session'["second"] = Transaction(kind, 1)
      /\ phase' = "granting" /\ report' = report /\ phase = "calling"
  BY <1>2, <1>3, WorkerRestart DEF MatchAccepted
<1>5. Transaction(kind, 1).kind = "grant" =>
        Transaction(kind, 1).todo = <<Key("user", 1)>>
  BY WorkerRecords
<1>6. PermitInv' /\ WaitingInv' /\ PhaseInv'
  BY <1>4, <1>5 DEF IInv, PermitInv, WaitingInv, PhaseInv, Standing, Active
<1> QED BY <1>4, <1>6 DEF IInv

LEMMA InvIdle ==
  ASSUME IInv, IdleTimeout
  PROVE  IInv'
<1>1. session' = [session EXCEPT !["main"] = NoTransaction,
                                 !["second"] = session["second"]]
  BY Apart DEF IdleTimeout, IInv, RowsInv
<1>2. NoTransaction \in Fresh
  BY DEF Fresh
<1>3. RowsInv' /\ session'["main"] = NoTransaction /\ UNCHANGED <<phase, report>>
  BY <1>1, <1>2, WorkerRestart DEF IdleTimeout
<1>4. ~Active("main")'
  BY <1>3, WorkerRecords DEF Active
<1> QED BY <1>3, <1>4 DEF IInv, PermitInv, WaitingInv, PhaseInv

LEMMA InvNext == IInv /\ [Next]_vars => IInv'
<1> SUFFICES ASSUME IInv, [Next]_vars PROVE IInv'
  OBVIOUS
<1>0. report \in {"none", "succeeded", "failed", "unknown"}
  BY DEF IInv, PhaseInv
<1>1. CASE \E s \in Sessions : Locks(s)
  BY <1>1, InvLocks
<1>2. CASE \E s \in Others : Start(s) \/ End(s)
  BY <1>2, InvOthers
<1>3. CASE CommitBegin
  BY <1>0, <1>3, Continues DEF CommitBegin
<1>4. CASE RefusePermit
  BY <1>4, InvRefuse
<1>5. CASE CallProvider
  <2>1. IInv
    OBVIOUS
  <2>2. RowsInv' /\ PhaseInv' /\ WaitingInv'
    BY <1>5 DEF CallProvider, IInv, RowsInv, Exclusive, PhaseInv, WaitingInv
  <2>3. PermitInv'
    BY <1>5, PermitFull DEF CallProvider, PermitInv, Standing
  <2> QED BY <2>2, <2>3 DEF IInv
<1>6. CASE AnswerTooLate
  BY <1>6, Finalizes DEF AnswerTooLate
<1>7. CASE Answer
  BY <1>7 DEF Answer, IInv, RowsInv, Exclusive, PhaseInv, WaitingInv, PermitInv, Standing,
              Active
<1>8. CASE MessageAccepted
  BY <1>8, InvMessage
<1>9. CASE MatchAccepted
  BY <1>9, InvMatch
<1>10. CASE CommitPermit
  BY <1>0, <1>10, Continues DEF CommitPermit
<1>11. CASE CommitFinish
  BY <1>11, Stops DEF CommitFinish
<1>12. CASE WorkerFails
  BY <1>0, <1>12, Stops, Continues, Finalizes DEF WorkerFails
<1>13. CASE IdleTimeout
  BY <1>13, InvIdle
<1>14. CASE EndGrant
  BY <1>14, Records, Finalizes DEF EndGrant
<1>15. CASE EndRefusal
  BY <1>15, Records, Finalizes DEF EndRefusal
<1>16. CASE EndFinalize
  BY <1>0, <1>16, Continues DEF EndFinalize
<1>17. CASE UNCHANGED vars
  BY <1>17 DEF vars, IInv, RowsInv, Exclusive, PhaseInv, WaitingInv, PermitInv, Active
<1>18. CASE Next
  <2>1. \A s \in Others : s \in Sessions
    BY Apart
  <2> QED BY <1>1, <1>2, <1>3, <1>4, <1>5, <1>6, <1>7, <1>8, <1>9, <1>10, <1>11, <1>12,
             <1>13, <1>14, <1>15, <1>16, <1>18, <2>1, Apart
          DEF Next, Progress, MainStep, SecondStep
<1> QED BY <1>17, <1>18

-----------------------------------------------------------------------------
(* What follows *)

\* Every transaction that takes a right away locks a row the permit locks.
LEMMA WithdrawRow ==
  ASSUME NEW s, Withdraws(s), session[s].owner \in Owners
  PROVE  \E x \in Elements(Programs(session[s].owner)[session[s].kind]) :
            /\ x \in Elements(LockPermit(1))
            /\ x.mode = "update"
<1> DEFINE o == session[s].owner
           kind == session[s].kind
           prog == Programs(o)[kind]
<1>0. \A table, p : Lock(table, p).mode = "update"
  BY DEF Lock, Statement
<1>1. CASE kind = "suspend"
  <2>1. prog = Suspend(o)
    BY <1>1 DEF Programs
  <2> DEFINE A == <<Lock("account", o), Lock("user", o), Lock("agent", o)>>
  <2>2. A \in Seq(Plain) /\ Withdraw(o) \in Seq(Plain)
    BY StatementType, Parts DEF Tables
  <2>3. Lock("account", o) \in Elements(A)
    <3>1. 1 \in 1 .. Len(A) /\ A[1] = Lock("account", o)
      OBVIOUS
    <3> HIDE DEF A
    <3> QED BY <3>1 DEF Elements
  <2>4. Suspend(o) = A \o Withdraw(o)
    BY DEF Suspend
  <2> HIDE DEF A
  <2>5. Lock("account", o) \in Elements(prog)
    BY <2>1, <2>2, <2>3, <2>4, InCat
  <2> QED BY <1>0, <2>5, PermitRows
<1>2. CASE kind = "revoke" /\ o = 1
  <2>1. prog = RevokeGrant(1)
    BY <1>2 DEF Programs
  <2> DEFINE A == <<Lock("user", 1), Lock("agent", 1)>>
  <2>2. A \in Seq(Plain) /\ Withdraw(1) \in Seq(Plain)
    BY StatementType, Parts DEF Tables, Owners
  <2>3. Lock("user", 1) \in Elements(A)
    <3>1. 1 \in 1 .. Len(A) /\ A[1] = Lock("user", 1)
      OBVIOUS
    <3> HIDE DEF A
    <3> QED BY <3>1 DEF Elements
  <2>4. RevokeGrant(1) = A \o Withdraw(1)
    BY DEF RevokeGrant
  <2> HIDE DEF A
  <2>5. Lock("user", 1) \in Elements(prog)
    BY <2>1, <2>2, <2>3, <2>4, InCat
  <2> QED BY <1>0, <2>5, PermitRows DEF Owners
<1>3. CASE kind \in {"configure", "actions"} /\ o = 1
  <2> DEFINE A == <<System, Lock("account", 1), Lock("user", 1)>>
             B == A \o Gates(1)
             D == IF kind = "configure" THEN <<Lock("autonomy", 1)>>
                  ELSE <<Lock("autonomy", 1), Cancel(1)>>
  <2>0. \/ /\ kind = "configure" /\ D = <<Lock("autonomy", 1)>>
           /\ prog = SaveAutonomySettings(1)
        \/ /\ kind = "actions" /\ D = <<Lock("autonomy", 1), Cancel(1)>>
           /\ prog = SaveExecutionSettings(1)
    BY <1>3 DEF Programs
  <2>1. prog = B \o D
    BY <2>0 DEF SaveAutonomySettings, SaveExecutionSettings
  <2>2. A \in Seq(Plain) /\ Gates(1) \in Seq(Plain) /\ D \in Seq(Plain)
    BY StatementType, Parts DEF Tables, Owners
  <2>3. Lock("user", 1) \in Elements(A)
    <3>1. 3 \in 1 .. Len(A) /\ A[3] = Lock("user", 1)
      OBVIOUS
    <3> HIDE DEF A
    <3> QED BY <3>1 DEF Elements
  <2> HIDE DEF A, D
  <2>4. B \in Seq(Plain) /\ Lock("user", 1) \in Elements(B)
    BY <2>2, <2>3, InCat
  <2> HIDE DEF B
  <2>5. Lock("user", 1) \in Elements(prog)
    BY <2>1, <2>2, <2>4, InCat
  <2> QED BY <1>0, <2>5, PermitRows DEF Owners
<1>4. CASE kind \in {"runner", "connect"} /\ o = 1
  <2> DEFINE A == IF kind = "runner"
                  THEN <<System, Lock("user", 1), Lock("agent", 1)>>
                  ELSE <<System, Lock("user", 1), Lock("agent", 1),
                         Lock("connection", 1)>>
  <2>0. \/ /\ A = <<System, Lock("user", 1), Lock("agent", 1)>>
           /\ prog = SaveAgentSettings(1)
        \/ /\ prog = SaveConnection(1)
           /\ A = <<System, Lock("user", 1), Lock("agent", 1), Lock("connection", 1)>>
    BY <1>4 DEF Programs
  <2>1. prog = A \o Withdraw(1)
    BY <2>0 DEF SaveAgentSettings, SaveConnection
  <2>2. A \in Seq(Plain) /\ Withdraw(1) \in Seq(Plain)
    BY StatementType, Parts DEF Tables, Owners
  <2>3. Lock("user", 1) \in Elements(A)
    <3>1. 2 \in 1 .. Len(A) /\ A[2] = Lock("user", 1)
      OBVIOUS
    <3> HIDE DEF A
    <3> QED BY <3>1 DEF Elements
  <2> HIDE DEF A
  <2>5. Lock("user", 1) \in Elements(prog)
    BY <2>1, <2>2, <2>3, InCat
  <2> QED BY <1>0, <2>5, PermitRows DEF Owners
<1>5. CASE kind = "contact" /\ o = 1
  <2>1. prog = EditContact(1)
    BY <1>5 DEF Programs
  <2>2. 1 \in 1 .. Len(EditContact(1)) /\ EditContact(1)[1] = Lock("contact", 1)
    BY DEF EditContact
  <2>3. Lock("contact", 1) \in Elements(prog)
    BY <2>1, <2>2 DEF Elements
  <2> QED BY <1>0, <2>3, PermitRows
<1>6. CASE kind = "switch"
  <2>1. prog = SystemSwitch(o)
    BY <1>6 DEF Programs
  <2>2. /\ 2 \in 1 .. Len(SystemSwitch(o)) /\ SystemSwitch(o)[2] = Lock("autonomy", o)
        /\ 3 \in 1 .. Len(SystemSwitch(o))
        /\ SystemSwitch(o)[3] = Lock("autonomy", 3 - o)
    BY DEF SystemSwitch
  <2>3. o = 1 \/ 3 - o = 1
    BY DEF Owners
  <2>4. Lock("autonomy", 1) \in Elements(prog)
    BY <2>1, <2>2, <2>3 DEF Elements
  <2> QED BY <1>0, <2>4, PermitRows
<1>7. CASE kind = "relation"
  <2>1. prog = Pair("user")
    BY <1>7 DEF Programs, ChangeRelation
  <2>2. Lock("user", 1) \in Elements(prog)
    BY <2>1, Parts DEF Tables, Owners
  <2> QED BY <1>0, <2>2, PermitRows DEF Owners
<1> QED BY <1>1, <1>2, <1>3, <1>4, <1>5, <1>6, <1>7 DEF Withdraws

\* A transaction that got through, and the permit, cannot both have that row.
LEMMA RightsHold == IInv => RightsStandDuringCall
<1> SUFFICES ASSUME IInv, Active("main"),
                    phase \in {"calling", "granting", "recording", "recorded"},
                    NEW s \in Others, Withdraws(s), Locked(s)
             PROVE  FALSE
  BY DEF RightsStandDuringCall
<1> DEFINE r == session[s]
<1>1. GoodRec(r) /\ r.owner \in Owners
  BY Apart DEF IInv, RowsInv, GoodRec, Rec
<1>2. Live(r) /\ r.kind # "reap" /\ r.todo = <<>>
  BY DEF Withdraws, Locked, Active, Live
<1>3. Covers(r) /\ Elements(r.todo) = {}
  BY <1>1, <1>2 DEF GoodRec, Elements
<1>4. PICK x \in Elements(Programs(r.owner)[r.kind]) :
        x \in Elements(LockPermit(1)) /\ x.mode = "update"
  BY <1>1, WithdrawRow
<1>5. x \in r.held
  BY <1>3, <1>4 DEF Covers
<1>6. x \in session["main"].held
  BY <1>4 DEF IInv, PermitInv, Standing
<1>7. Conflict(x, x)
  BY <1>4 DEF Conflict
<1> QED BY <1>5, <1>6, <1>7, Apart DEF IInv, RowsInv, Exclusive

(***************************************************************************)
(* The states of the sessions and of the worker (MCPermitLocks checks it   *)
(* with every run through the invariants that use them).                   *)
(***************************************************************************)
THEOREM TypeCorrect == Spec => []TypeOK
<1>1. IInv => TypeOK
  <2> SUFFICES ASSUME IInv PROVE TypeOK
    OBVIOUS
  <2>1. \A s \in Sessions : session[s] \in Rec
    BY DEF IInv, RowsInv
  <2> QED BY <2>1 DEF IInv, PhaseInv, Rec, TypeOK
<1> QED BY <1>1, InvInit, InvNext, PTL DEF Spec

(***************************************************************************)
(* Nobody takes a right away, or changes the target, under a call whose    *)
(* permit stands, however many sessions there are: the permit of           *)
(* lock_dispatch_permit has every row its program names, so has any        *)
(* transaction that is about to commit, and two of them cannot both have   *)
(* the row they share.                                                     *)
(***************************************************************************)
THEOREM RightsStand == Spec => []RightsStandDuringCall
BY RightsHold, InvInit, InvNext, PTL DEF Spec

(***************************************************************************)
(* The grant of a match with a new peer always waits behind the permit of  *)
(* its own worker, and so does the second record of a refusal              *)
(* (action_executor.py 794-803, runtime.py 1737-1752).                     *)
(***************************************************************************)
SelfWait ==
  /\ phase = "granting" /\ session["second"].kind = "grant" /\ Active("main") =>
       Waits("second", "main")
  /\ phase = "refused" /\ Active("main") => Waits("second", "main")

THEOREM GrantWaitsForItself == Spec => []SelfWait
<1>1. IInv => SelfWait
  <2> SUFFICES ASSUME IInv, Active("main"),
                      \/ phase = "granting" /\ session["second"].kind = "grant"
                      \/ phase = "refused"
               PROVE  Waits("second", "main")
    BY DEF SelfWait
  <2> DEFINE wanted == Head(session["second"].todo)
  <2>1. /\ 1 \in Owners
        /\ Lock("user", 1).mode = "update" /\ Lock("audit", 1).mode = "update"
        /\ Key("user", 1).mode = "key"
    BY DEF Owners, Lock, Key, Statement
  <2>2. /\ Lock("user", 1) \in session["main"].held
        /\ Lock("audit", 1) \in session["main"].held
    BY <2>1, PermitRows DEF IInv, PermitInv, Standing
  <2>3. /\ wanted = Key("user", 1) \/ wanted = Lock("audit", 1)
        /\ session["second"].todo # <<>>
    <3>1. \/ session["second"].todo = <<Key("user", 1)>>
          \/ session["second"].todo = <<Lock("audit", 1)>>
      BY DEF IInv, WaitingInv
    <3>2. \A x : Head(<<x>>) = x /\ <<x>> # <<>>
      OBVIOUS
    <3> QED BY <3>1, <3>2
  <2>4. /\ Conflict(Key("user", 1), Lock("user", 1))
        /\ Conflict(Lock("audit", 1), Lock("audit", 1))
    BY DEF Conflict, Lock, Key, Statement
  <2>5. wanted.mode \notin {"skip", "cancel"}
    BY <2>1, <2>3
  <2> QED BY <2>2, <2>3, <2>4, <2>5 DEF Waits
<1> QED BY <1>1, InvInit, InvNext, PTL DEF Spec

-----------------------------------------------------------------------------
(* The order of the locks *)

\* The place of a row in the order that the comments of the code state.  Each
\* sweep takes the rows of one owner, then those of the other: p is its first.
Seat(p, table, o) ==
  LET late == IF o = p THEN 0 ELSE 4
  IN  CASE table = "conversation" -> 0
        [] table = "system" -> 1
        [] table = "account" -> 1 + o
        [] table = "user" -> 3 + o
        [] table = "agent" -> 6
        [] table = "execution" -> 7
        [] table = "connection" -> 8
        [] table = "autonomy" -> 9 + late
        [] table = "contact" -> 10 + late
        [] table = "task" -> 11 + late
        [] table = "audit" -> 12 + late

Rank(p, row) == Seat(p, row[1], row[2])

\* Nobody waits with such a statement: it does not wait, or who asks for it has
\* locked a row, its guard, that every holder of this one has locked as well.
Unwaited(y) ==
  \/ y.mode \in {"skip", "cancel"}
  \/ y.row[1] \in {"execution", "connection", "contact"}

NeedsGuard(y) ==
  y.mode # "skip" /\ y.row[1] \in {"execution", "connection", "contact", "task"}
GuardOf(y) ==
  IF y.row[1] \in {"execution", "connection"} THEN Lock("agent", y.row[2])
                                              ELSE Lock("autonomy", y.row[2])

Before(p, x, y) == Unwaited(y) \/ Rank(p, x.row) < Rank(p, y.row)

Sorted(p, seq) ==
  \A i, j \in 1 .. Len(seq) : i < j => Before(p, seq[i], seq[j])

\* Each statement that needs one comes after its guard.
Guarded(held, seq) ==
  \A j \in 1 .. Len(seq) : NeedsGuard(seq[j]) =>
     GuardOf(seq[j]) \in held \/ \E i \in 1 .. Len(seq) : i < j /\ seq[i] = GuardOf(seq[j])

\* The order and the guards of a transaction that has locked held and still asks
\* for todo.
Follows(p, held, todo) ==
  /\ Sorted(p, todo)
  /\ \A x \in held, y \in Elements(todo) : Before(p, x, y)

Protects(held, todo) ==
  /\ Guarded(held, todo)
  /\ \A x \in held : NeedsGuard(x) => GuardOf(x) \in held

\* A reservation locks its task first; nobody in order waits for that.
PrepareFollows(p, held, todo) ==
  /\ \A i, j \in 1 .. Len(todo) : i < j =>
        todo[i].row[1] = "task" \/ Before(p, todo[i], todo[j])
  /\ \A x \in held, y \in Elements(todo) : x.row[1] = "task" \/ Before(p, x, y)

\* Which transactions have a statement.
Belongs(kind, o, x) ==
  /\ x.row[1] = "conversation" => kind = "archive"
  /\ x.row[1] = "task" /\ x.mode \notin {"skip", "cancel"} =>
       kind \in {"begin", "prepare", "permit", "finish"} /\ x.row[2] = o
  /\ x.mode = "cancel" => x.row[1] = "task"
  /\ kind = "prepare" => ~Unwaited(x)
  /\ kind = "reap" => ~NeedsGuard(x)
  /\ x.mode = "skip" => kind = "reap" /\ x.row[1] = "task"

SweepKinds == {"reap", "switch"}

\* Those that lock against the order.
Disordered == {"draft", "contact"}

InOrder(r) ==
  r.kind \notin Disordered =>
    /\ \A x \in r.held \cup Elements(r.todo) : Belongs(r.kind, r.owner, x)
    /\ r.kind # "prepare" =>
         /\ Protects(r.held, r.todo)
         /\ \A p \in Owners : (r.kind \in SweepKinds => p = r.owner) =>
               Follows(p, r.held, r.todo)
    /\ r.kind = "prepare" => \A p \in Owners : PrepareFollows(p, r.held, r.todo)

\* A permit that stores a message asks for a row of the beginning once more.
Recording(s) == s = "main" /\ phase = "recording"

OrderInv == \A s \in Sessions : ~Recording(s) => InOrder(session[s])

\* One session at most has the permit of a task of an owner.
DispatchInv ==
  /\ session["main"].owner = 1
  /\ session["main"].kind \in {"none", "begin", "prepare", "permit", "finish"}
  /\ phase = "recording" => session["main"].todo \in {<<>>, StoreMessage(1)}
  /\ \A s \in Others : session[s].kind \in OfDispatch =>
       /\ session[s].owner = 2
       /\ \A t \in Others \ {s} : session[t].kind \notin OfDispatch

\* The second connection locks one row at most.
SecondInv ==
  LET r == session["second"] IN
  /\ r.kind \in {"none", "finalize", "grant", "renew"}
  /\ r.todo \in {<<>>, <<Key("user", 1)>>, <<Lock("audit", 1)>>}
  /\ r.todo # <<>> => r.held = {} /\ Active("second")
  /\ Active("second") => phase \in {"refused", "granting", "finalizing"}
  /\ phase = "granting" => r.kind \in {"grant", "renew"}
  /\ r.kind = "renew" => r.todo = <<>>
  /\ phase = "finalizing" => ~Active("main")
  /\ ~Active("main") => session["main"].todo = <<>>

-----------------------------------------------------------------------------
(* The programs are in order *)

\* The row and the mode of each statement.
LEMMA Rows ==
  ASSUME NEW o, NEW table
  PROVE  /\ Lock(table, o).row = <<table, o>> /\ Lock(table, o).mode = "update"
         /\ Key(table, o).row = <<table, o>> /\ Key(table, o).mode = "key"
         /\ Skip(table, o).row = <<table, o>> /\ Skip(table, o).mode = "skip"
         /\ Cancel(o).row = <<"task", o>> /\ Cancel(o).mode = "cancel"
         /\ <<table, o>>[1] = table /\ <<table, o>>[2] = o
         /\ System = Lock("system", 1)
BY DEF Lock, Key, Skip, Cancel, System, Statement

\* The place of each row.
LEMMA Places ==
  ASSUME NEW o \in Owners, NEW p \in Owners
  PROVE  /\ Seat(p, "conversation", o) = 0
         /\ Seat(p, "system", o) = 1
         /\ Seat(p, "account", o) = 1 + o
         /\ Seat(p, "user", o) = 3 + o
         /\ Seat(p, "agent", o) = 6
         /\ Seat(p, "execution", o) = 7
         /\ Seat(p, "connection", o) = 8
         /\ Seat(p, "autonomy", o) = IF o = p THEN 9 ELSE 13
         /\ Seat(p, "contact", o) = IF o = p THEN 10 ELSE 14
         /\ Seat(p, "task", o) = IF o = p THEN 11 ELSE 15
         /\ Seat(p, "audit", o) = IF o = p THEN 12 ELSE 16
<1>1. /\ Seat(p, "conversation", o) = 0
      /\ Seat(p, "system", o) = 1
      /\ Seat(p, "account", o) = 1 + o
      /\ Seat(p, "user", o) = 3 + o
  BY DEF Seat
<1>2. /\ Seat(p, "agent", o) = 6
      /\ Seat(p, "execution", o) = 7
      /\ Seat(p, "connection", o) = 8
  BY DEF Seat
<1>3. /\ Seat(p, "autonomy", o) = IF o = p THEN 9 ELSE 13
      /\ Seat(p, "contact", o) = IF o = p THEN 10 ELSE 14
      /\ Seat(p, "task", o) = IF o = p THEN 11 ELSE 15
      /\ Seat(p, "audit", o) = IF o = p THEN 12 ELSE 16
  BY DEF Seat, Owners
<1> QED BY <1>1, <1>2, <1>3

LEMMA SeatBounds ==
  ASSUME NEW table \in Tables, NEW o \in Owners, NEW p \in Owners
  PROVE  Seat(p, table, o) \in 0 .. 16
<1>1. o \in {1, 2}
  BY DEF Owners
<1>2. CASE table \in {"conversation", "system", "account", "user", "agent"}
  BY <1>1, <1>2, Places
<1>3. CASE table \in {"execution", "connection", "autonomy", "contact", "task", "audit"}
  BY <1>1, <1>3, Places
<1> QED BY <1>2, <1>3 DEF Tables

LEMMA PlaceBounds ==
  ASSUME NEW row \in Tables \X Owners, NEW p \in Owners
  PROVE  Rank(p, row) \in 0 .. 16
<1>1. row[1] \in Tables /\ row[2] \in Owners
  OBVIOUS
<1> QED BY <1>1, SeatBounds DEF Rank

\* A part of a program whose rows lie between two places: lo is not asked of
\* what nobody waits with.  Locks of the task are those in tasks.
Part(p, held, tasks, seq, lo, hi) ==
  /\ seq \in Seq(Stmts)
  /\ Sorted(p, seq)
  /\ Guarded(held, seq)
  /\ \A x \in Elements(seq) :
       /\ Rank(p, x.row) \in Nat /\ Rank(p, x.row) < hi
       /\ Unwaited(x) \/ lo <= Rank(p, x.row)
       /\ x.row[1] # "conversation"
       /\ x.row[1] = "task" /\ x.mode \notin {"skip", "cancel"} => x \in tasks
       /\ x.mode = "cancel" => x.row[1] = "task"

\* The elements of a concatenation are those of its parts.
LEMMA OfCat ==
  ASSUME NEW S, NEW s \in Seq(S), NEW t \in Seq(S)
  PROVE  Elements(s \o t) = Elements(s) \cup Elements(t)
<1>1. /\ s \o t \in Seq(S)
      /\ Len(s \o t) = Len(s) + Len(t)
      /\ \A i \in 1 .. Len(s) + Len(t) :
           (s \o t)[i] = IF i <= Len(s) THEN s[i] ELSE t[i - Len(s)]
  BY ConcatProperties
<1>2. Len(s) \in Nat /\ Len(t) \in Nat
  OBVIOUS
<1>3. ASSUME NEW i \in 1 .. Len(s) + Len(t), ~(i <= Len(s))
      PROVE  i - Len(s) \in 1 .. Len(t)
  BY <1>2, <1>3
<1>4. Elements(s \o t) \subseteq Elements(s) \cup Elements(t)
  BY <1>1, <1>2, <1>3 DEF Elements
<1> QED BY <1>4, InCat

LEMMA PartsJoin ==
  ASSUME NEW p, NEW held, NEW more, NEW tasks, NEW lo \in Nat, NEW mid \in Nat,
         NEW hi \in Nat, lo <= mid, mid <= hi, NEW s, NEW t,
         Part(p, held, tasks, s, lo, mid), Part(p, more, tasks, t, mid, hi),
         more \subseteq held \cup Elements(s)
  PROVE  Part(p, held, tasks, s \o t, lo, hi)
<1> DEFINE seq == s \o t
<1>1. /\ seq \in Seq(Stmts)
      /\ Len(seq) = Len(s) + Len(t)
      /\ \A i \in 1 .. Len(s) + Len(t) :
           seq[i] = IF i <= Len(s) THEN s[i] ELSE t[i - Len(s)]
  BY ConcatProperties DEF Part
<1>2. Len(s) \in Nat /\ Len(t) \in Nat /\ s \in Seq(Stmts) /\ t \in Seq(Stmts)
  BY DEF Part
<1>3. Elements(seq) = Elements(s) \cup Elements(t)
  BY <1>2, OfCat
<1> HIDE DEF seq
<1>4. \A i \in 1 .. Len(seq) :
        \/ i \in 1 .. Len(s) /\ seq[i] = s[i]
        \/ ~(i <= Len(s)) /\ i - Len(s) \in 1 .. Len(t) /\ seq[i] = t[i - Len(s)]
  BY <1>1, <1>2
<1>5. Sorted(p, seq)
  <2> SUFFICES ASSUME NEW i \in 1 .. Len(seq), NEW j \in 1 .. Len(seq), i < j
               PROVE  Before(p, seq[i], seq[j])
    BY DEF Sorted
  <2>1. CASE j <= Len(s)
    <3>1. i \in 1 .. Len(s) /\ j \in 1 .. Len(s) /\ seq[i] = s[i] /\ seq[j] = s[j]
      BY <1>2, <1>4, <2>1
    <3> QED BY <3>1 DEF Part, Sorted
  <2>2. CASE ~(i <= Len(s))
    <3>1. /\ i - Len(s) \in 1 .. Len(t) /\ j - Len(s) \in 1 .. Len(t)
          /\ i - Len(s) < j - Len(s)
          /\ seq[i] = t[i - Len(s)] /\ seq[j] = t[j - Len(s)]
      BY <1>1, <1>2, <1>4, <2>2
    <3> QED BY <3>1 DEF Part, Sorted
  <2>3. CASE i <= Len(s) /\ ~(j <= Len(s))
    <3>1. seq[i] \in Elements(s) /\ seq[j] \in Elements(t)
      BY <1>2, <1>4, <2>3 DEF Elements
    <3>2. Rank(p, seq[i].row) \in Nat /\ Rank(p, seq[i].row) < mid
      BY <3>1 DEF Part
    <3>3. /\ Rank(p, seq[j].row) \in Nat
          /\ Unwaited(seq[j]) \/ mid <= Rank(p, seq[j].row)
      BY <3>1 DEF Part
    <3> QED BY <3>2, <3>3 DEF Before
  <2> QED BY <2>1, <2>2, <2>3
<1>6. Guarded(held, seq)
  <2> SUFFICES ASSUME NEW j \in 1 .. Len(seq), NeedsGuard(seq[j]),
                      GuardOf(seq[j]) \notin held
               PROVE  \E i \in 1 .. Len(seq) : i < j /\ seq[i] = GuardOf(seq[j])
    BY DEF Guarded
  <2>0. \A i \in 1 .. Len(s) : i \in 1 .. Len(seq) /\ seq[i] = s[i]
    BY <1>1, <1>2
  <2>1. CASE j <= Len(s)
    <3>1. j \in 1 .. Len(s) /\ seq[j] = s[j]
      BY <1>2, <1>4, <2>1
    <3>2. PICK i \in 1 .. Len(s) : i < j /\ s[i] = GuardOf(s[j])
      BY <3>1 DEF Part, Guarded
    <3> QED BY <2>0, <3>1, <3>2
  <2>2. CASE ~(j <= Len(s))
    <3> DEFINE k == j - Len(s)
    <3>1. k \in 1 .. Len(t) /\ seq[j] = t[k]
      BY <1>4, <2>2
    <3>2. CASE GuardOf(t[k]) \in more
      <4>1. PICK i \in 1 .. Len(s) : s[i] = GuardOf(seq[j])
        BY <3>1, <3>2 DEF Elements
      <4>2. i < j
        BY <1>2, <2>2
      <4> QED BY <2>0, <4>1, <4>2
    <3>3. CASE GuardOf(t[k]) \notin more
      <4>1. PICK i \in 1 .. Len(t) : i < k /\ t[i] = GuardOf(t[k])
        BY <3>1, <3>3 DEF Part, Guarded
      <4>2. /\ i + Len(s) \in 1 .. Len(seq) /\ i + Len(s) < j
            /\ ~(i + Len(s) <= Len(s)) /\ (i + Len(s)) - Len(s) = i
        BY <1>1, <1>2, <4>1
      <4>3. seq[i + Len(s)] = t[i]
        BY <1>1, <1>2, <4>2
      <4> QED BY <3>1, <4>1, <4>2, <4>3
    <3> QED BY <3>2, <3>3
  <2> QED BY <2>1, <2>2
<1>7. ASSUME NEW x \in Elements(seq)
      PROVE  /\ Rank(p, x.row) \in Nat /\ Rank(p, x.row) < hi
             /\ Unwaited(x) \/ lo <= Rank(p, x.row)
             /\ x.row[1] # "conversation"
             /\ x.row[1] = "task" /\ x.mode \notin {"skip", "cancel"} => x \in tasks
             /\ x.mode = "cancel" => x.row[1] = "task"
  BY <1>3 DEF Part
<1>8. seq \in Seq(Stmts)
  BY <1>1
<1>9. Part(p, held, tasks, seq, lo, hi)
  BY <1>5, <1>6, <1>7, <1>8 DEF Part
<1> QED BY <1>9 DEF seq

\* Short parts.
Fits(p, tasks, x, lo, hi) ==
  /\ x \in Stmts
  /\ Rank(p, x.row) \in Nat /\ Rank(p, x.row) < hi
  /\ Unwaited(x) \/ lo <= Rank(p, x.row)
  /\ x.row[1] # "conversation"
  /\ x.row[1] = "task" /\ x.mode \notin {"skip", "cancel"} => x \in tasks
  /\ x.mode = "cancel" => x.row[1] = "task"

LEMMA OnePart ==
  ASSUME NEW p, NEW held, NEW tasks, NEW lo \in Nat, NEW hi \in Nat,
         NEW x, Fits(p, tasks, x, lo, hi),
         NeedsGuard(x) => GuardOf(x) \in held
  PROVE  Part(p, held, tasks, <<x>>, lo, hi) /\ Elements(<<x>>) = {x}
<1> DEFINE seq == <<x>>
<1>1. Len(seq) = 1 /\ seq[1] = x /\ seq \in Seq(Stmts)
  BY DEF Fits
<1> HIDE DEF seq
<1>2. Elements(seq) = {x}
  BY <1>1 DEF Elements
<1>3. Sorted(p, seq) /\ Guarded(held, seq)
  BY <1>1 DEF Sorted, Guarded
<1>4. Part(p, held, tasks, seq, lo, hi)
  BY <1>1, <1>2, <1>3 DEF Part, Fits
<1> QED BY <1>2, <1>4 DEF seq

LEMMA TwoPart ==
  ASSUME NEW p, NEW held, NEW tasks, NEW lo \in Nat, NEW hi \in Nat,
         NEW x, Fits(p, tasks, x, lo, hi), NEW y, Fits(p, tasks, y, lo, hi),
         NeedsGuard(x) => GuardOf(x) \in held,
         NeedsGuard(y) => GuardOf(y) \in held \cup {x},
         Before(p, x, y)
  PROVE  Part(p, held, tasks, <<x, y>>, lo, hi) /\ Elements(<<x, y>>) = {x, y}
<1> DEFINE seq == <<x, y>>
<1>1. Len(seq) = 2 /\ seq[1] = x /\ seq[2] = y /\ seq \in Seq(Stmts)
  BY DEF Fits
<1> HIDE DEF seq
<1>2. Elements(seq) = {x, y}
  BY <1>1 DEF Elements
<1>3. Sorted(p, seq) /\ Guarded(held, seq)
  BY <1>1 DEF Sorted, Guarded
<1>4. Part(p, held, tasks, seq, lo, hi)
  BY <1>1, <1>2, <1>3 DEF Part, Fits
<1> QED BY <1>2, <1>4 DEF seq

LEMMA ThreePart ==
  ASSUME NEW p, NEW held, NEW tasks, NEW lo \in Nat, NEW hi \in Nat,
         NEW x, Fits(p, tasks, x, lo, hi), NEW y, Fits(p, tasks, y, lo, hi),
         NEW z, Fits(p, tasks, z, lo, hi),
         NeedsGuard(x) => GuardOf(x) \in held,
         NeedsGuard(y) => GuardOf(y) \in held \cup {x},
         NeedsGuard(z) => GuardOf(z) \in held \cup {x, y},
         Before(p, x, y), Before(p, x, z), Before(p, y, z)
  PROVE  Part(p, held, tasks, <<x, y, z>>, lo, hi) /\ Elements(<<x, y, z>>) = {x, y, z}
<1> DEFINE seq == <<x, y, z>>
<1>1. Len(seq) = 3 /\ seq[1] = x /\ seq[2] = y /\ seq[3] = z /\ seq \in Seq(Stmts)
  BY DEF Fits
<1> HIDE DEF seq
<1>2. Elements(seq) = {x, y, z}
  BY <1>1 DEF Elements
<1>3. Sorted(p, seq)
  BY <1>1 DEF Sorted
<1>4. Guarded(held, seq)
  BY <1>1 DEF Guarded
<1>5. Part(p, held, tasks, seq, lo, hi)
  BY <1>1, <1>2, <1>3, <1>4 DEF Part, Fits
<1> QED BY <1>2, <1>5 DEF seq

\* A statement on a row, as an element of a part.
LEMMA Fitting ==
  ASSUME NEW o \in Owners, NEW p \in Owners, NEW tasks, NEW table \in Tables,
         table # "conversation",
         NEW x \in {Lock(table, o), Key(table, o), Skip(table, o)},
         table = "task" /\ x.mode # "skip" => x \in tasks,
         NEW lo \in Nat, NEW hi \in Nat, Seat(p, table, o) < hi,
         lo <= Seat(p, table, o) \/ Unwaited(x)
  PROVE  Fits(p, tasks, x, lo, hi)
<1>1. x.row = <<table, o>> /\ x.row[1] = table /\ x.row[2] = o /\ x.mode # "cancel"
  BY Rows
<1>2. x \in Stmts
  <2>1. /\ Lock(table, o) \in Stmts /\ Key(table, o) \in Stmts
        /\ Skip(table, o) \in Stmts
    BY StatementType DEF Plain
  <2> QED BY <2>1
<1>3. Rank(p, x.row) = Seat(p, table, o) /\ Seat(p, table, o) \in Nat
  <2>1. Seat(p, table, o) \in 0 .. 16
    BY SeatBounds
  <2> QED BY <1>1, <2>1 DEF Rank
<1> QED BY <1>1, <1>2, <1>3 DEF Fits

\* The place of a statement is that of its row.
LEMMA Placed ==
  ASSUME NEW o, NEW p, NEW table,
         NEW x \in {Lock(table, o), Key(table, o), Skip(table, o)}
  PROVE  Rank(p, x.row) = Seat(p, table, o)
BY Rows DEF Rank

LEMMA CancelFits ==
  ASSUME NEW o \in Owners, NEW p \in Owners, NEW tasks, NEW lo \in Nat
  PROVE  /\ Fits(p, tasks, Cancel(o), lo, 17)
         /\ Unwaited(Cancel(o)) /\ NeedsGuard(Cancel(o))
         /\ GuardOf(Cancel(o)) = Lock("autonomy", o)
<1>1. /\ Cancel(o).row = <<"task", o>> /\ Cancel(o).mode = "cancel"
      /\ Cancel(o).row[1] = "task" /\ Cancel(o).row[2] = o
  BY Rows
<1>2. Seat(p, "task", o) \in Nat /\ Seat(p, "task", o) < 17
  <2>1. Seat(p, "task", o) \in 0 .. 16
    BY SeatBounds DEF Tables
  <2> QED BY <2>1
<1>3. Cancel(o) \in Stmts
  BY StatementType DEF Tables, Plain
<1> QED BY <1>1, <1>2, <1>3 DEF Fits, Unwaited, NeedsGuard, GuardOf, Rank

\* Which statements need a guard, and which have nobody waiting with them.
LEMMA Guards ==
  ASSUME NEW o \in Owners, NEW table \in Tables,
         NEW x \in {Lock(table, o), Key(table, o), Skip(table, o)}
  PROVE  /\ table \in {"execution", "connection"} =>
              Unwaited(x) /\ GuardOf(x) = Lock("agent", o)
         /\ table = "contact" => Unwaited(x) /\ GuardOf(x) = Lock("autonomy", o)
         /\ table = "task" => GuardOf(x) = Lock("autonomy", o)
         /\ x = Skip(table, o) => Unwaited(x)
         /\ NeedsGuard(x) => table \in {"execution", "connection", "contact", "task"}
<1>1. x.row[1] = table /\ x.row[2] = o /\ (x = Skip(table, o) => x.mode = "skip")
  BY Rows
<1> QED BY <1>1 DEF Unwaited, NeedsGuard, GuardOf

LEMMA SystemFits ==
  ASSUME NEW p \in Owners, NEW tasks, NEW hi \in Nat, hi > 1
  PROVE  /\ Fits(p, tasks, System, 0, hi)
         /\ ~NeedsGuard(System)
         /\ Rank(p, System.row) = 1
<1>1. System = Lock("system", 1) /\ "system" \in Tables /\ 1 \in Owners
  BY Rows DEF Tables, Owners
<1>2. Seat(p, "system", 1) = 1
  BY <1>1, Places
<1>3. Fits(p, tasks, System, 0, hi)
  <2>1. 0 <= Seat(p, "system", 1) /\ Seat(p, "system", 1) < hi
    BY <1>2
  <2>2. Fits(p, tasks, Lock("system", 1), 0, hi)
    BY <1>1, <2>1, Fitting
  <2> QED BY <1>1, <2>2
<1>4. ~NeedsGuard(System)
  BY <1>1, Guards
<1>5. Rank(p, System.row) = Seat(p, "system", 1)
  BY <1>1, Placed
<1> QED BY <1>2, <1>3, <1>4, <1>5

LEMMA PairPart ==
  ASSUME NEW p \in Owners, NEW held, NEW tasks
  PROVE  /\ Part(p, held, tasks, Pair("account"), 2, 4)
         /\ Part(p, held, tasks, Pair("user"), 4, 6)
         /\ Part(p, held, tasks, Pair("user"), 0, 17)
<1>0. 1 \in Owners /\ 2 \in Owners /\ {"account", "user"} \subseteq Tables
  BY DEF Owners, Tables
<1>1. /\ Seat(p, "account", 1) = 2 /\ Seat(p, "account", 2) = 3
      /\ Seat(p, "user", 1) = 4 /\ Seat(p, "user", 2) = 5
  <2>1. \A o \in Owners : /\ Seat(p, "account", o) = 1 + o
                          /\ Seat(p, "user", o) = 3 + o
    BY Places
  <2> QED BY <1>0, <2>1
<1>2. ASSUME NEW table \in {"account", "user"}, NEW lo \in Nat, NEW hi \in Nat,
             lo <= Seat(p, table, 1), Seat(p, table, 2) < hi
      PROVE  Part(p, held, tasks, Pair(table), lo, hi)
  <2> DEFINE x == Lock(table, 1)
             y == Lock(table, 2)
  <2>1. Rank(p, x.row) = Seat(p, table, 1) /\ Rank(p, y.row) = Seat(p, table, 2)
    BY Placed
  <2>2. Seat(p, table, 1) < Seat(p, table, 2) /\ Seat(p, table, 1) < hi
        /\ lo <= Seat(p, table, 2) /\ table \in Tables /\ table \notin {"conversation", "task"}
    BY <1>0, <1>1, <1>2
  <2>3. Fits(p, tasks, x, lo, hi)
    BY <1>0, <1>2, <2>2, Fitting
  <2>4. Fits(p, tasks, y, lo, hi)
    BY <1>0, <1>2, <2>2, Fitting
  <2>5. ~NeedsGuard(x) /\ ~NeedsGuard(y)
    BY <1>0, Guards
  <2>6. Before(p, x, y)
    BY <2>1, <2>2 DEF Before
  <2> HIDE DEF x, y
  <2>7. Part(p, held, tasks, <<x, y>>, lo, hi)
    BY <2>3, <2>4, <2>5, <2>6, TwoPart
  <2> QED BY <2>7 DEF Pair, x, y
<1> QED BY <1>1, <1>2

\* The owner's own account and user, behind the system row or not.
LEMMA OwnerPart ==
  ASSUME NEW o \in Owners, NEW p \in Owners, NEW held, NEW tasks
  PROVE  /\ Part(p, held, tasks, <<System, Lock("account", o), Lock("user", o)>>, 0, 6)
         /\ Part(p, held, tasks, <<System, Lock("user", o), Lock("agent", o)>>, 0, 9)
         /\ Part(p, held, tasks,
                 <<Lock("account", o), Lock("user", o), Lock("agent", o)>>, 0, 9)
         /\ Part(p, held, tasks, <<Lock("user", o), Lock("agent", o)>>, 0, 9)
         /\ Part(p, held, tasks, <<Lock("account", o), Lock("user", o)>>, 0, 17)
         /\ Lock("agent", o)
              \in Elements(<<System, Lock("user", o), Lock("agent", o)>>)
         /\ Lock("agent", o) \in Elements(
              <<Lock("account", o), Lock("user", o), Lock("agent", o)>>)
         /\ Lock("agent", o) \in Elements(<<Lock("user", o), Lock("agent", o)>>)
<1> DEFINE a == Lock("account", o)
           u == Lock("user", o)
           g == Lock("agent", o)
<1>0. {"account", "user", "agent"} \subseteq Tables /\ o \in {1, 2}
  BY DEF Tables, Owners
<1>1. /\ Seat(p, "account", o) = 1 + o /\ Seat(p, "user", o) = 3 + o
      /\ Seat(p, "agent", o) = 6
  BY Places
<1>2. /\ Rank(p, a.row) = 1 + o /\ Rank(p, u.row) = 3 + o /\ Rank(p, g.row) = 6
      /\ 1 + o < 4 /\ 1 < 1 + o /\ 3 + o < 6 /\ 1 + o < 3 + o
  <2>1. /\ Rank(p, a.row) = Seat(p, "account", o)
        /\ Rank(p, u.row) = Seat(p, "user", o)
        /\ Rank(p, g.row) = Seat(p, "agent", o)
    BY Placed
  <2> QED BY <1>0, <1>1, <2>1
<1>3. ASSUME NEW hi \in Nat, hi >= 6
      PROVE  /\ Fits(p, tasks, a, 0, hi)
             /\ Fits(p, tasks, u, 0, hi)
             /\ hi >= 7 => Fits(p, tasks, g, 0, hi)
  <2>1. /\ Seat(p, "account", o) < hi /\ Seat(p, "user", o) < hi
        /\ 0 <= Seat(p, "account", o) /\ 0 <= Seat(p, "user", o)
        /\ hi >= 7 => Seat(p, "agent", o) < hi /\ 0 <= Seat(p, "agent", o)
    BY <1>0, <1>1, <1>3
  <2>2. Fits(p, tasks, a, 0, hi)
    BY <1>0, <1>3, <2>1, Fitting
  <2>3. Fits(p, tasks, u, 0, hi)
    BY <1>0, <1>3, <2>1, Fitting
  <2>4. hi >= 7 => Fits(p, tasks, g, 0, hi)
    BY <1>0, <1>3, <2>1, Fitting
  <2> QED BY <2>2, <2>3, <2>4
<1>4. ~NeedsGuard(a) /\ ~NeedsGuard(u) /\ ~NeedsGuard(g)
  BY <1>0, Guards
<1>5. /\ \A hi \in Nat : hi > 1 => Fits(p, tasks, System, 0, hi)
      /\ ~NeedsGuard(System) /\ Rank(p, System.row) = 1
  <2>1. Fits(p, tasks, System, 0, 2) /\ ~NeedsGuard(System) /\ Rank(p, System.row) = 1
    BY SystemFits
  <2> QED BY <2>1, SystemFits
<1> HIDE DEF a, u, g
<1>6. /\ Before(p, a, u) /\ Before(p, u, g) /\ Before(p, a, g)
      /\ Before(p, System, a) /\ Before(p, System, u) /\ Before(p, System, g)
  BY <1>0, <1>2, <1>5 DEF Before
<1>b. /\ Fits(p, tasks, a, 0, 6) /\ Fits(p, tasks, u, 0, 6)
      /\ Fits(p, tasks, a, 0, 9) /\ Fits(p, tasks, u, 0, 9) /\ Fits(p, tasks, g, 0, 9)
      /\ Fits(p, tasks, a, 0, 17) /\ Fits(p, tasks, u, 0, 17)
      /\ Fits(p, tasks, System, 0, 6) /\ Fits(p, tasks, System, 0, 9)
  BY <1>3, <1>5
<1>7. Part(p, held, tasks, <<System, a, u>>, 0, 6)
  BY <1>b, <1>4, <1>5, <1>6, ThreePart
<1>8. /\ Part(p, held, tasks, <<System, u, g>>, 0, 9)
      /\ Elements(<<System, u, g>>) = {System, u, g}
  BY <1>b, <1>4, <1>5, <1>6, ThreePart
<1>9. /\ Part(p, held, tasks, <<a, u, g>>, 0, 9)
      /\ Elements(<<a, u, g>>) = {a, u, g}
  BY <1>b, <1>4, <1>6, ThreePart
<1>10. /\ Part(p, held, tasks, <<u, g>>, 0, 9) /\ Elements(<<u, g>>) = {u, g}
  BY <1>b, <1>4, <1>6, TwoPart
<1>11. Part(p, held, tasks, <<a, u>>, 0, 17)
  BY <1>b, <1>4, <1>6, TwoPart
<1> QED BY <1>7, <1>8, <1>9, <1>10, <1>11 DEF a, u, g

\* The gates, and what a withdrawal ends with.
LEMMA GatesPart ==
  ASSUME NEW o \in Owners, NEW p \in Owners, NEW held, NEW tasks
  PROVE  /\ Part(p, held, tasks, Gates(o), 6, 9)
         /\ Lock("agent", o) \in held => Part(p, held, tasks, Withdraw(o), 9, 17)
<1> DEFINE g == Lock("agent", o)
           e == Lock("execution", o)
           c == Lock("connection", o)
           a == Lock("autonomy", o)
<1>0. {"agent", "execution", "connection", "autonomy"} \subseteq Tables
  BY DEF Tables
<1>1. /\ Seat(p, "agent", o) = 6 /\ Seat(p, "execution", o) = 7
      /\ Seat(p, "connection", o) = 8 /\ Seat(p, "autonomy", o) \in {9, 13}
  BY Places
<1>2. /\ Rank(p, g.row) = 6 /\ Rank(p, e.row) = 7 /\ Rank(p, c.row) = 8
      /\ Rank(p, a.row) \in {9, 13}
  <2>1. /\ Rank(p, g.row) = Seat(p, "agent", o)
        /\ Rank(p, e.row) = Seat(p, "execution", o)
        /\ Rank(p, c.row) = Seat(p, "connection", o)
        /\ Rank(p, a.row) = Seat(p, "autonomy", o)
    BY Placed
  <2> QED BY <1>1, <2>1
<1>3. /\ Unwaited(e) /\ Unwaited(c) /\ GuardOf(e) = g /\ GuardOf(c) = g
      /\ ~NeedsGuard(g) /\ ~NeedsGuard(a)
  BY <1>0, Guards
<1>a. /\ 6 <= Seat(p, "agent", o) /\ Seat(p, "agent", o) < 9
      /\ Seat(p, "execution", o) < 9 /\ Seat(p, "connection", o) < 9
      /\ Seat(p, "execution", o) < 17
      /\ 9 <= Seat(p, "autonomy", o) /\ Seat(p, "autonomy", o) < 17
  BY <1>1
<1>b. Fits(p, tasks, g, 6, 9)
  BY <1>0, <1>a, Fitting
<1>c. Fits(p, tasks, e, 6, 9)
  BY <1>0, <1>3, <1>a, Fitting
<1>d. Fits(p, tasks, c, 6, 9)
  BY <1>0, <1>3, <1>a, Fitting
<1>e. Fits(p, tasks, e, 9, 17)
  BY <1>0, <1>3, <1>a, Fitting
<1>f. Fits(p, tasks, a, 9, 17)
  BY <1>0, <1>a, Fitting
<1>5. /\ Fits(p, tasks, Cancel(o), 9, 17) /\ Unwaited(Cancel(o))
      /\ GuardOf(Cancel(o)) = a
  BY CancelFits
<1> HIDE DEF g, e, c, a
<1>6. /\ Before(p, g, e) /\ Before(p, g, c) /\ Before(p, e, c)
      /\ Before(p, e, Cancel(o)) /\ Before(p, a, Cancel(o))
      /\ Before(p, e, a)
  BY <1>2, <1>3, <1>5 DEF Before
<1>7. Part(p, held, tasks, <<g, e, c>>, 6, 9)
  BY <1>3, <1>b, <1>c, <1>d, <1>6, ThreePart
<1>8. g \in held => Part(p, held, tasks, <<e, a, Cancel(o)>>, 9, 17)
  BY <1>3, <1>e, <1>f, <1>5, <1>6, ThreePart
<1> QED BY <1>7, <1>8 DEF Gates, Withdraw, g, e, c, a

-----------------------------------------------------------------------------
(* Whole programs *)

LEMMA Widened ==
  ASSUME NEW p, NEW held, NEW tasks, NEW s, NEW lo \in Nat, NEW hi \in Nat,
         Part(p, held, tasks, s, lo, hi), NEW to \in Nat, hi <= to
  PROVE  Part(p, held, tasks, s, lo, to)
BY DEF Part

\* The system row and the rows of both users.
LEMMA BothPart ==
  ASSUME NEW p \in Owners, NEW tasks
  PROVE  Part(p, {}, tasks, (<<System>> \o Pair("account")) \o Pair("user"), 0, 6)
<1> DEFINE A == <<System>>
           B == Pair("account")
           C == Pair("user")
<1>1. Part(p, {}, tasks, A, 0, 2)
  <2>1. Fits(p, tasks, System, 0, 2) /\ ~NeedsGuard(System)
    BY SystemFits
  <2> QED BY <2>1, OnePart
<1>2. Part(p, {}, tasks, B, 2, 4) /\ Part(p, {}, tasks, C, 4, 6)
  BY PairPart
<1> HIDE DEF A, B, C
<1>3. Part(p, {}, tasks, A \o B, 0, 4)
  BY <1>1, <1>2, PartsJoin
<1>4. Part(p, {}, tasks, (A \o B) \o C, 0, 6)
  <2> DEFINE D == A \o B
  <2>1. Part(p, {}, tasks, D, 0, 4)
    BY <1>3
  <2> HIDE DEF D
  <2>2. Part(p, {}, tasks, D \o C, 0, 6)
    BY <1>2, <2>1, PartsJoin
  <2> QED BY <2>2 DEF D
<1> QED BY <1>4 DEF A, B, C

\* The gates behind those rows, or behind the owner's own.
LEMMA GatedPart ==
  ASSUME NEW p \in Owners, NEW o \in Owners, NEW tasks
  PROVE  /\ Part(p, {}, tasks, FollowAction(o), 0, 9)
         /\ Part(p, {}, tasks, ManualAction(o), 0, 9)
<1>1. Part(p, {}, tasks, Gates(o), 6, 9)
  BY GatesPart
<1>2. Part(p, {}, tasks, FollowAction(o), 0, 9)
  <2> DEFINE A == (<<System>> \o Pair("account")) \o Pair("user")
  <2>1. Part(p, {}, tasks, A, 0, 6)
    BY BothPart
  <2>2. FollowAction(o) = A \o Gates(o)
    BY DEF FollowAction
  <2> HIDE DEF A
  <2> QED BY <1>1, <2>1, <2>2, PartsJoin
<1>3. Part(p, {}, tasks, ManualAction(o), 0, 9)
  <2> DEFINE A == <<System, Lock("account", o), Lock("user", o)>>
  <2>1. Part(p, {}, tasks, A, 0, 6)
    BY OwnerPart
  <2>2. ManualAction(o) = A \o Gates(o)
    BY DEF ManualAction
  <2> HIDE DEF A
  <2> QED BY <1>1, <2>1, <2>2, PartsJoin
<1> QED BY <1>2, <1>3

\* What may follow them, behind place 9 and the autonomy row.
LEMMA Tails ==
  ASSUME NEW p \in Owners, NEW o \in Owners, NEW tasks, NEW held
  PROVE  LET a == Lock("autonomy", o)
             d == Seat(p, "task", o)
         IN  /\ d \in {11, 15}
             /\ Part(p, held, tasks, <<a, Lock("contact", o)>>, 9, d)
             /\ Part(p, held, tasks, <<a>>, 9, 17)
             /\ Part(p, held, tasks, <<a, Cancel(o)>>, 9, 17)
             /\ Part(p, held, tasks, <<a, Cancel(o), Lock("contact", o)>>, 9, 17)
             /\ Lock("task", o) \in tasks /\ a \in held =>
                  /\ Part(p, held, tasks, <<Lock("task", o)>>, d, 17)
                  /\ Part(p, held, tasks, <<Lock("task", o), Lock("audit", o)>>, d, 17)
             /\ Lock("task", o) \in tasks =>
                  Part(p, held, tasks, <<a, Lock("task", o), Lock("audit", o)>>, 0, 17)
             /\ Part(p, held, tasks, <<a, Skip("task", o), Lock("audit", o)>>,
                     IF o = p THEN 0 ELSE 13, IF o = p THEN 13 ELSE 17)
<1> DEFINE a == Lock("autonomy", o)
           c == Lock("contact", o)
           t == Lock("task", o)
           k == Skip("task", o)
           u == Lock("audit", o)
           d == Seat(p, "task", o)
<1>0. {"autonomy", "contact", "task", "audit"} \subseteq Tables
  BY DEF Tables
<1>1. /\ Seat(p, "autonomy", o) = IF o = p THEN 9 ELSE 13
      /\ Seat(p, "contact", o) = IF o = p THEN 10 ELSE 14
      /\ d = IF o = p THEN 11 ELSE 15
      /\ Seat(p, "audit", o) = IF o = p THEN 12 ELSE 16
  BY Places
<1>2. /\ Rank(p, a.row) = Seat(p, "autonomy", o) /\ Rank(p, c.row) = Seat(p, "contact", o)
      /\ Rank(p, t.row) = d /\ Rank(p, k.row) = d /\ Rank(p, u.row) = Seat(p, "audit", o)
  BY Placed
<1>3. /\ ~NeedsGuard(a) /\ ~NeedsGuard(u)
      /\ Unwaited(c) /\ Unwaited(k)
      /\ GuardOf(c) = a /\ GuardOf(t) = a /\ GuardOf(k) = a
  BY <1>0, Guards
<1>4. ASSUME NEW lo \in Nat, NEW hi \in Nat, lo <= Seat(p, "autonomy", o),
             Seat(p, "autonomy", o) < hi
      PROVE  Fits(p, tasks, a, lo, hi)
  BY <1>0, <1>4, Fitting
<1>5. ASSUME NEW lo \in Nat, NEW hi \in Nat, Seat(p, "contact", o) < hi
      PROVE  Fits(p, tasks, c, lo, hi)
  BY <1>0, <1>3, <1>5, Fitting
<1>6. ASSUME NEW lo \in Nat, NEW hi \in Nat, lo <= d, d < hi, t \in tasks
      PROVE  Fits(p, tasks, t, lo, hi)
  BY <1>0, <1>6, Fitting
<1>7. ASSUME NEW lo \in Nat, NEW hi \in Nat, d < hi
      PROVE  Fits(p, tasks, k, lo, hi)
  <2>1. k.mode = "skip"
    BY Rows
  <2> QED BY <1>0, <1>3, <1>7, <2>1, Fitting
<1>8. ASSUME NEW lo \in Nat, NEW hi \in Nat, lo <= Seat(p, "audit", o),
             Seat(p, "audit", o) < hi
      PROVE  Fits(p, tasks, u, lo, hi)
  BY <1>0, <1>8, Fitting
<1>9. /\ Fits(p, tasks, Cancel(o), 9, 17) /\ Unwaited(Cancel(o))
      /\ GuardOf(Cancel(o)) = a
  BY CancelFits
<1>10. /\ Before(p, a, c) /\ Before(p, a, Cancel(o)) /\ Before(p, Cancel(o), c)
       /\ Before(p, t, u) /\ Before(p, a, t) /\ Before(p, a, u) /\ Before(p, a, k)
       /\ Before(p, k, u)
  <2> HIDE DEF a, c, t, u, d, k
  <2> QED BY <1>1, <1>2, <1>3, <1>9 DEF Before
<1>a. /\ d \in {11, 15} /\ d \in Nat
      /\ 9 <= Seat(p, "autonomy", o) /\ Seat(p, "autonomy", o) < d
      /\ 0 <= Seat(p, "autonomy", o)
      /\ Seat(p, "autonomy", o) < 17 /\ Seat(p, "contact", o) < d
      /\ Seat(p, "contact", o) < 17 /\ d < 17 /\ d <= d /\ 0 <= d
      /\ d <= Seat(p, "audit", o) /\ Seat(p, "audit", o) < 17 /\ 0 <= Seat(p, "audit", o)
      /\ o = p => /\ Seat(p, "autonomy", o) < 13 /\ d < 13 /\ Seat(p, "audit", o) < 13
      /\ o # p => 13 <= Seat(p, "autonomy", o) /\ 13 <= Seat(p, "audit", o)
  BY <1>1
<1>b. /\ Fits(p, tasks, a, 9, d) /\ Fits(p, tasks, a, 9, 17) /\ Fits(p, tasks, a, 0, 17)
      /\ Fits(p, tasks, c, 9, d) /\ Fits(p, tasks, c, 9, 17)
      /\ Fits(p, tasks, u, d, 17) /\ Fits(p, tasks, u, 0, 17)
  BY <1>4, <1>5, <1>8, <1>a
<1>c. t \in tasks => Fits(p, tasks, t, d, 17) /\ Fits(p, tasks, t, 0, 17)
  BY <1>6, <1>a
<1>d. /\ o = p => /\ Fits(p, tasks, a, 0, 13) /\ Fits(p, tasks, k, 0, 13)
                  /\ Fits(p, tasks, u, 0, 13)
      /\ o # p => /\ Fits(p, tasks, a, 13, 17) /\ Fits(p, tasks, k, 13, 17)
                  /\ Fits(p, tasks, u, 13, 17)
  BY <1>4, <1>7, <1>8, <1>a
<1> HIDE DEF a, c, t, u, d, k
<1>11. Part(p, held, tasks, <<a, c>>, 9, d)
  BY <1>3, <1>10, <1>a, <1>b, TwoPart
<1>12. Part(p, held, tasks, <<a>>, 9, 17)
  BY <1>3, <1>b, OnePart
<1>13. Part(p, held, tasks, <<a, Cancel(o)>>, 9, 17)
  BY <1>3, <1>9, <1>10, <1>b, TwoPart
<1>14. Part(p, held, tasks, <<a, Cancel(o), c>>, 9, 17)
  BY <1>3, <1>9, <1>10, <1>b, ThreePart
<1>15. ASSUME t \in tasks, a \in held
       PROVE  Part(p, held, tasks, <<t>>, d, 17) /\ Part(p, held, tasks, <<t, u>>, d, 17)
  <2>1. Part(p, held, tasks, <<t>>, d, 17)
    BY <1>3, <1>15, <1>a, <1>c, OnePart
  <2>2. Part(p, held, tasks, <<t, u>>, d, 17)
    BY <1>3, <1>15, <1>10, <1>a, <1>b, <1>c, TwoPart
  <2> QED BY <2>1, <2>2
<1>16. ASSUME t \in tasks PROVE Part(p, held, tasks, <<a, t, u>>, 0, 17)
  BY <1>3, <1>16, <1>10, <1>b, <1>c, ThreePart
<1>17. Part(p, held, tasks, <<a, k, u>>, IF o = p THEN 0 ELSE 13,
            IF o = p THEN 13 ELSE 17)
  <2>1. CASE o = p
    <3>1. Part(p, held, tasks, <<a, k, u>>, 0, 13)
      BY <1>3, <1>10, <1>d, <2>1, ThreePart
    <3> QED BY <2>1, <3>1
  <2>2. CASE o # p
    <3>1. Part(p, held, tasks, <<a, k, u>>, 13, 17)
      BY <1>3, <1>10, <1>d, <2>2, ThreePart
    <3> QED BY <2>2, <3>1
  <2> QED BY <2>1, <2>2
<1> QED BY <1>11, <1>12, <1>13, <1>14, <1>15, <1>16, <1>17, <1>a DEF a, c, t, u, d, k

\* The dispatch of a task.
LEMMA DispatchParts ==
  ASSUME NEW p \in Owners, NEW o \in Owners, NEW tasks, Lock("task", o) \in tasks
  PROVE  /\ Part(p, {}, tasks, BeginDispatch(o), 0, 17)
         /\ Part(p, {}, tasks, LockPermit(o), 0, 17)
         /\ Part(p, {}, tasks, FinishTask(o), 0, 17)
<1> DEFINE a == Lock("autonomy", o)
           d == Seat(p, "task", o)
           S == PolicySnapshot(o)
           A == FollowAction(o)
           D == <<a, Lock("contact", o)>>
           T == <<Lock("task", o)>>
           U == <<Lock("task", o), Lock("audit", o)>>
<1>1. /\ d \in {11, 15}
      /\ Part(p, {}, tasks, D, 9, d)
      /\ Part(p, {a}, tasks, T, d, 17)
      /\ Part(p, {a}, tasks, U, d, 17)
      /\ Part(p, {}, tasks, FinishTask(o), 0, 17)
  <2>1. a \in {a}
    OBVIOUS
  <2> QED BY <2>1, Tails DEF FinishTask
<1>2. Part(p, {}, tasks, A, 0, 9)
  BY GatedPart
<1>3. S = A \o D
  BY DEF PolicySnapshot, FollowAction
<1>4. a \in Elements(S)
  BY Snapshot
<1>5. BeginDispatch(o) = S \o T /\ LockPermit(o) = S \o U
  BY DEF BeginDispatch, LockPermit
<1> HIDE DEF a, d, S, A, D, T, U
<1>6. d \in Nat /\ 9 <= d /\ d <= 17
  BY <1>1
<1>7. Part(p, {}, tasks, S, 0, d)
  BY <1>1, <1>2, <1>3, <1>6, PartsJoin
<1>8. {a} \subseteq {} \cup Elements(S)
  BY <1>4
<1>9. Part(p, {}, tasks, S \o T, 0, 17)
  BY <1>1, <1>6, <1>7, <1>8, PartsJoin
<1>10. Part(p, {}, tasks, S \o U, 0, 17)
  BY <1>1, <1>6, <1>7, <1>8, PartsJoin
<1> QED BY <1>1, <1>5, <1>9, <1>10

\* Actions, settings and the control scan.
LEMMA OwnerParts ==
  ASSUME NEW p \in Owners, NEW o \in Owners, NEW tasks
  PROVE  /\ Part(p, {}, tasks, ControlScan(o), 0, 17)
         /\ Part(p, {}, tasks, SaveAutonomySettings(o), 0, 17)
         /\ Part(p, {}, tasks, SaveExecutionSettings(o), 0, 17)
         /\ Part(p, {}, tasks, ManualAction(o), 0, 17)
         /\ Part(p, {}, tasks, FollowAction(o), 0, 17)
         /\ Part(p, {}, tasks, ChangeRelation(o), 0, 17)
         /\ Part(p, {}, tasks, Login(o), 0, 17)
<1> DEFINE A == ManualAction(o)
           B == <<Lock("autonomy", o), Cancel(o), Lock("contact", o)>>
           C == <<Lock("autonomy", o)>>
           D == <<Lock("autonomy", o), Cancel(o)>>
<1>1. Part(p, {}, tasks, A, 0, 9) /\ Part(p, {}, tasks, FollowAction(o), 0, 9)
  BY GatedPart
<1>2. /\ Part(p, {}, tasks, B, 9, 17) /\ Part(p, {}, tasks, C, 9, 17)
      /\ Part(p, {}, tasks, D, 9, 17)
  BY Tails
<1>3. /\ ControlScan(o) = A \o B /\ SaveAutonomySettings(o) = A \o C
      /\ SaveExecutionSettings(o) = A \o D
  BY DEF ControlScan, SaveAutonomySettings, SaveExecutionSettings, ManualAction
<1>4. /\ Part(p, {}, tasks, ChangeRelation(o), 0, 17)
      /\ Part(p, {}, tasks, Login(o), 0, 17)
  BY PairPart, OwnerPart DEF ChangeRelation, Login
<1> HIDE DEF A, B, C, D
<1>5. Part(p, {}, tasks, A \o B, 0, 17)
  BY <1>1, <1>2, PartsJoin
<1>6. Part(p, {}, tasks, A \o C, 0, 17)
  BY <1>1, <1>2, PartsJoin
<1>7. Part(p, {}, tasks, A \o D, 0, 17)
  BY <1>1, <1>2, PartsJoin
<1>8. Part(p, {}, tasks, A, 0, 17) /\ Part(p, {}, tasks, FollowAction(o), 0, 17)
  BY <1>1, Widened
<1> QED BY <1>3, <1>4, <1>5, <1>6, <1>7, <1>8 DEF A

\* Whoever withdraws a right.
LEMMA WithdrawParts ==
  ASSUME NEW p \in Owners, NEW o \in Owners, NEW tasks
  PROVE  /\ Part(p, {}, tasks, Suspend(o), 0, 17)
         /\ Part(p, {}, tasks, RevokeGrant(o), 0, 17)
         /\ Part(p, {}, tasks, SaveAgentSettings(o), 0, 17)
         /\ Part(p, {}, tasks, SaveConnection(o), 0, 17)
<1> DEFINE g == Lock("agent", o)
           c == Lock("connection", o)
           A == <<Lock("account", o), Lock("user", o), g>>
           B == <<Lock("user", o), g>>
           C == <<System, Lock("user", o), g>>
           D == <<System, Lock("user", o), g, c>>
           W == Withdraw(o)
<1>1. /\ Part(p, {}, tasks, A, 0, 9) /\ g \in Elements(A)
      /\ Part(p, {}, tasks, B, 0, 9) /\ g \in Elements(B)
      /\ Part(p, {}, tasks, C, 0, 9) /\ g \in Elements(C)
  BY OwnerPart
<1>2. Part(p, {g}, tasks, W, 9, 17)
  BY GatesPart
<1>3. /\ Suspend(o) = A \o W /\ RevokeGrant(o) = B \o W
      /\ SaveAgentSettings(o) = C \o W /\ SaveConnection(o) = D \o W
  BY DEF Suspend, RevokeGrant, SaveAgentSettings, SaveConnection
<1>4. Part(p, {g}, tasks, <<c>>, 9, 9)
  <2>1. "connection" \in Tables
    BY DEF Tables
  <2>2. Unwaited(c) /\ GuardOf(c) = g
    BY <2>1, Guards
  <2>3. Seat(p, "connection", o) < 9
    <3>1. Seat(p, "connection", o) = 8
      BY Places
    <3> QED BY <3>1
  <2>4. Fits(p, tasks, c, 9, 9)
    BY <2>1, <2>2, <2>3, Fitting
  <2> QED BY <2>2, <2>4, OnePart
<1>5. D = C \o <<c>>
  <2>1. \A w, x, y, z : <<w, x, y, z>> = <<w, x, y>> \o <<z>>
    OBVIOUS
  <2> QED BY <2>1
<1> HIDE DEF g, c, A, B, C, D, W
<1>6. Part(p, {}, tasks, C \o <<c>>, 0, 9)
  BY <1>1, <1>4, PartsJoin
<1>7. g \in Elements(D)
  <2>1. C \in Seq(Stmts) /\ <<c>> \in Seq(Stmts)
    BY <1>1, <1>4 DEF Part
  <2>2. Elements(C \o <<c>>) = Elements(C) \cup Elements(<<c>>)
    BY <2>1, OfCat
  <2> QED BY <1>1, <1>5, <2>2
<1>8. Part(p, {}, tasks, D, 0, 9)
  BY <1>5, <1>6
<1>9. Part(p, {}, tasks, A \o W, 0, 17)
  BY <1>1, <1>2, PartsJoin
<1>10. Part(p, {}, tasks, B \o W, 0, 17)
  BY <1>1, <1>2, PartsJoin
<1>11. Part(p, {}, tasks, C \o W, 0, 17)
  BY <1>1, <1>2, PartsJoin
<1>12. Part(p, {}, tasks, D \o W, 0, 17)
  BY <1>7, <1>8, <1>2, PartsJoin
<1> QED BY <1>3, <1>9, <1>10, <1>11, <1>12

\* The sweeps, from the owner they begin with.
LEMMA SweepParts ==
  ASSUME NEW o \in Owners, NEW tasks
  PROVE  /\ Part(o, {}, tasks, Reap(o), 0, 17)
         /\ Part(o, {}, tasks, SystemSwitch(o), 0, 17)
<1> DEFINE q == 3 - o
<1>0. q \in Owners /\ q # o
  BY DEF Owners
<1>1. Part(o, {}, tasks, Reap(o), 0, 17)
  <2> DEFINE A == ReapOwner(o)
             B == ReapOwner(q)
  <2>1. Part(o, {}, tasks, A, 0, 13)
    <3>1. Part(o, {}, tasks, <<Lock("autonomy", o), Skip("task", o), Lock("audit", o)>>,
               IF o = o THEN 0 ELSE 13, IF o = o THEN 13 ELSE 17)
      BY Tails
    <3> QED BY <3>1 DEF ReapOwner
  <2>2. Part(o, {}, tasks, B, 13, 17)
    <3> HIDE DEF q
    <3>1. Part(o, {}, tasks, <<Lock("autonomy", q), Skip("task", q), Lock("audit", q)>>,
               IF q = o THEN 0 ELSE 13, IF q = o THEN 13 ELSE 17)
      BY <1>0, Tails
    <3> QED BY <1>0, <3>1 DEF ReapOwner
  <2>3. Reap(o) = A \o B
    BY DEF Reap
  <2> HIDE DEF A, B
  <2> QED BY <2>1, <2>2, <2>3, PartsJoin
<1>2. Part(o, {}, tasks, SystemSwitch(o), 0, 17)
  <2> DEFINE a == Lock("autonomy", o)
             b == Lock("autonomy", q)
             A == <<System, a, b>>
             B == <<Cancel(o), Cancel(q)>>
  <2>0. "autonomy" \in Tables
    BY DEF Tables
  <2>1. Fits(o, tasks, System, 0, 17) /\ ~NeedsGuard(System) /\ Rank(o, System.row) = 1
    BY SystemFits
  <2>2. Rank(o, a.row) = 9 /\ Fits(o, tasks, a, 0, 17) /\ ~NeedsGuard(a)
    <3>1. Seat(o, "autonomy", o) = 9 /\ Rank(o, a.row) = Seat(o, "autonomy", o)
      BY Places, Placed
    <3>2. 0 <= Seat(o, "autonomy", o) /\ Seat(o, "autonomy", o) < 17
      BY <3>1
    <3> QED BY <2>0, <3>1, <3>2, Fitting, Guards
  <2>3. Rank(o, b.row) = 13 /\ Fits(o, tasks, b, 0, 17) /\ ~NeedsGuard(b)
    <3> HIDE DEF q
    <3>1. Seat(o, "autonomy", q) = 13 /\ Rank(o, b.row) = Seat(o, "autonomy", q)
      BY <1>0, Places, Placed
    <3>2. 0 <= Seat(o, "autonomy", q) /\ Seat(o, "autonomy", q) < 17
      BY <3>1
    <3> QED BY <1>0, <2>0, <3>1, <3>2, Fitting, Guards
  <2>4. /\ Fits(o, tasks, Cancel(o), 17, 17) /\ Fits(o, tasks, Cancel(q), 17, 17)
        /\ Unwaited(Cancel(o)) /\ Unwaited(Cancel(q))
        /\ GuardOf(Cancel(o)) = a /\ GuardOf(Cancel(q)) = b
    <3> HIDE DEF q
    <3> QED BY <1>0, CancelFits
  <2>5. SystemSwitch(o) = A \o B
    BY DEF SystemSwitch
  <2> HIDE DEF a, b, q
  <2>6. Before(o, System, a) /\ Before(o, System, b) /\ Before(o, a, b)
    BY <2>1, <2>2, <2>3 DEF Before
  <2>7. Before(o, Cancel(o), Cancel(q))
    BY <2>4 DEF Before
  <2>8. Part(o, {}, tasks, A, 0, 17) /\ Elements(A) = {System, a, b}
    BY <2>1, <2>2, <2>3, <2>6, ThreePart
  <2>9. Part(o, {a, b}, tasks, B, 17, 17)
    BY <2>4, <2>7, TwoPart
  <2> HIDE DEF A, B
  <2> QED BY <2>5, <2>8, <2>9, PartsJoin
<1> QED BY <1>1, <1>2

-----------------------------------------------------------------------------
(* Transactions that begin *)

LEMMA FromParts ==
  ASSUME NEW kind \in Kinds, NEW o \in Owners, NEW tasks, kind # "prepare",
         \/ tasks = {}
         \/ tasks = {Lock("task", o)} /\ kind \in {"begin", "permit", "finish"},
         \A p \in Owners : (kind \in SweepKinds => p = o) =>
            Part(p, {}, tasks, Programs(o)[kind], 0, 17),
         kind = "reap" => \A x \in Elements(Programs(o)[kind]) :
            ~NeedsGuard(x) /\ (x.mode = "skip" => x.row[1] = "task")
  PROVE  InOrder(Transaction(kind, o))
<1> DEFINE prog == Programs(o)[kind]
           r == Transaction(kind, o)
<1>1. r.kind = kind /\ r.owner = o /\ r.todo = prog /\ r.held = {}
  BY DEF Transaction
<1>2. Part(o, {}, tasks, prog, 0, 17)
  OBVIOUS
<1>3. Lock("task", o).row[2] = o
  BY Rows
<1>4. \A x \in Elements(prog) : Belongs(kind, o, x)
  <2> SUFFICES ASSUME NEW x \in Elements(prog) PROVE Belongs(kind, o, x)
    OBVIOUS
  <2>1. /\ x.row[1] # "conversation"
        /\ x.row[1] = "task" /\ x.mode \notin {"skip", "cancel"} => x \in tasks
        /\ x.mode = "cancel" => x.row[1] = "task"
    BY <1>2 DEF Part
  <2>2. x.row[1] = "task" /\ x.mode \notin {"skip", "cancel"} =>
          kind \in {"begin", "prepare", "permit", "finish"} /\ x.row[2] = o
    BY <1>3, <2>1
  <2>3. kind = "reap" => ~NeedsGuard(x) /\ (x.mode = "skip" => x.row[1] = "task")
    OBVIOUS
  <2>4. x.mode = "skip" => kind = "reap"
    <3> SUFFICES ASSUME kind # "reap" PROVE x \in Plain
      BY DEF Plain
    <3>1. prog \in Seq(Plain)
      BY ProgramType
    <3> HIDE DEF prog
    <3> QED BY <3>1 DEF Elements
  <2> QED BY <2>1, <2>2, <2>3, <2>4 DEF Belongs
<1>5. Protects({}, prog)
  BY <1>2 DEF Part, Protects
<1>6. \A p \in Owners : (kind \in SweepKinds => p = o) => Follows(p, {}, prog)
  BY DEF Part, Follows
<1> HIDE DEF prog, r
<1>7. r.held \cup Elements(r.todo) = Elements(prog)
  BY <1>1
<1>8. InOrder(r)
  BY <1>1, <1>4, <1>5, <1>6, <1>7 DEF InOrder
<1> QED BY <1>8 DEF r

\* The reservation, and a report of the browser.
LEMMA ApartInOrder ==
  ASSUME NEW o \in Owners
  PROVE  /\ InOrder(Transaction("prepare", o))
         /\ InOrder(Transaction("archive", o))
<1> DEFINE t == Lock("task", o)
           a == Key("account", o)
           u == Key("user", o)
           c == Lock("conversation", o)
<1>1. /\ t.row[1] = "task" /\ t.row[2] = o /\ t.mode = "update"
      /\ a.row[1] = "account" /\ a.mode = "key"
      /\ u.row[1] = "user" /\ u.mode = "key"
      /\ c.row[1] = "conversation" /\ c.mode = "update"
  BY Rows
<1>2. \A p \in Owners :
        /\ Rank(p, a.row) = 1 + o /\ Rank(p, u.row) = 3 + o /\ Rank(p, c.row) = 0
        /\ 1 + o < 3 + o /\ 0 < 3 + o
  <2> SUFFICES ASSUME NEW p \in Owners
               PROVE  /\ Rank(p, a.row) = 1 + o /\ Rank(p, u.row) = 3 + o
                      /\ Rank(p, c.row) = 0 /\ 1 + o < 3 + o /\ 0 < 3 + o
    OBVIOUS
  <2>1. /\ Rank(p, a.row) = Seat(p, "account", o)
        /\ Rank(p, u.row) = Seat(p, "user", o)
        /\ Rank(p, c.row) = Seat(p, "conversation", o)
    BY Placed
  <2>2. /\ Seat(p, "account", o) = 1 + o /\ Seat(p, "user", o) = 3 + o
        /\ Seat(p, "conversation", o) = 0
    BY Places
  <2> QED BY <2>1, <2>2 DEF Owners
<1>3. /\ Transaction("prepare", o).kind = "prepare"
      /\ Transaction("prepare", o).owner = o
      /\ Transaction("prepare", o).todo = <<t, a, u>>
      /\ Transaction("prepare", o).held = {}
      /\ Transaction("archive", o).kind = "archive"
      /\ Transaction("archive", o).owner = o
      /\ Transaction("archive", o).todo = <<c, u>>
      /\ Transaction("archive", o).held = {}
  BY DEF Transaction, Programs, PrepareExecution, ArchiveMessage
<1> HIDE DEF t, a, u, c
<1>4. InOrder(Transaction("prepare", o))
  <2> DEFINE seq == <<t, a, u>>
             r == Transaction("prepare", o)
  <2>1. Len(seq) = 3 /\ seq[1] = t /\ seq[2] = a /\ seq[3] = u
    OBVIOUS
  <2>2. r.kind = "prepare" /\ r.owner = o /\ r.todo = seq /\ r.held = {}
    BY <1>3
  <2> HIDE DEF seq, r
  <2>3. Elements(seq) = {t, a, u}
    BY <2>1 DEF Elements
  <2>4. \A p \in Owners : PrepareFollows(p, {}, seq)
    <3> SUFFICES ASSUME NEW p \in Owners PROVE PrepareFollows(p, {}, seq)
      OBVIOUS
    <3>1. Before(p, a, u)
      BY <1>2 DEF Before
    <3> QED BY <1>1, <2>1, <3>1 DEF PrepareFollows
  <2>5. Belongs("prepare", o, t) /\ Belongs("prepare", o, a) /\ Belongs("prepare", o, u)
    BY <1>1 DEF Belongs, Unwaited
  <2>6. InOrder(r)
    BY <2>2, <2>3, <2>4, <2>5 DEF InOrder
  <2> QED BY <2>6 DEF r
<1>5. InOrder(Transaction("archive", o))
  <2> DEFINE seq == <<c, u>>
             r == Transaction("archive", o)
  <2>1. Len(seq) = 2 /\ seq[1] = c /\ seq[2] = u
    OBVIOUS
  <2>2. r.kind = "archive" /\ r.owner = o /\ r.todo = seq /\ r.held = {}
    BY <1>3
  <2> HIDE DEF seq, r
  <2>3. Elements(seq) = {c, u}
    BY <2>1 DEF Elements
  <2>4. \A p \in Owners : Follows(p, {}, seq)
    <3> SUFFICES ASSUME NEW p \in Owners PROVE Follows(p, {}, seq)
      OBVIOUS
    <3>1. Before(p, c, u)
      BY <1>2 DEF Before
    <3> QED BY <2>1, <3>1 DEF Follows, Sorted
  <2>5. Belongs("archive", o, c) /\ Belongs("archive", o, u)
    BY <1>1 DEF Belongs
  <2>6. Protects({}, seq)
    BY <1>1, <2>1 DEF Protects, Guarded, NeedsGuard
  <2>7. InOrder(r)
    BY <2>2, <2>3, <2>4, <2>5, <2>6 DEF InOrder
  <2> QED BY <2>7 DEF r
<1> QED BY <1>4, <1>5

\* Every transaction starts in order; so does what has none.
LEMMA FreshInOrder ==
  /\ \A kind \in Kinds, o \in Owners : InOrder(Transaction(kind, o))
  /\ InOrder(NoTransaction)
  /\ InOrder(Finished)
<1>1. ASSUME NEW kind \in Kinds, NEW o \in Owners
      PROVE  InOrder(Transaction(kind, o))
  <2> DEFINE T == {Lock("task", o)}
  <2>0. kind \in {"begin", "prepare", "permit", "finish", "finalize", "grant", "renew",
              "scan", "reap", "switch", "suspend", "revoke", "configure",
              "actions", "runner", "connect", "login", "relation", "contact",
              "archive", "manual", "follow", "draft"}
    BY DEF Kinds, Programs
  <2>1. CASE kind \in {"begin", "permit", "finish"}
    <3>1. \A p \in Owners : Part(p, {}, T, Programs(o)[kind], 0, 17)
      BY <2>1, DispatchParts DEF Programs
    <3> QED BY <2>1, <3>1, FromParts
  <2>2. CASE kind \in {"prepare", "archive"}
    BY <2>2, ApartInOrder
  <2>3. CASE kind \in {"draft", "contact"}
    BY <2>3 DEF InOrder, Transaction, Disordered
  <2>4. CASE kind = "reap"
    <3>1. \A p \in Owners : (kind \in SweepKinds => p = o) =>
             Part(p, {}, {}, Programs(o)[kind], 0, 17)
      BY <2>4, SweepParts DEF Programs, SweepKinds
    <3>2. \A x \in Elements(Programs(o)[kind]) :
             ~NeedsGuard(x) /\ (x.mode = "skip" => x.row[1] = "task")
      <4>1. ASSUME NEW q \in Owners
            PROVE  /\ ReapOwner(q) \in Seq(Stmts)
                   /\ \A x \in Elements(ReapOwner(q)) :
                         ~NeedsGuard(x) /\ (x.mode = "skip" => x.row[1] = "task")
        <5> DEFINE a == Lock("autonomy", q)
                   k == Skip("task", q)
                   u == Lock("audit", q)
        <5>1. /\ a.row[1] = "autonomy" /\ a.mode = "update"
              /\ k.row[1] = "task" /\ k.mode = "skip"
              /\ u.row[1] = "audit" /\ u.mode = "update"
          BY Rows
        <5>2. a \in Stmts /\ k \in Stmts /\ u \in Stmts
          <6>1. {"autonomy", "task", "audit"} \subseteq Tables
            BY DEF Tables
          <6> QED BY <6>1, StatementType DEF Plain
        <5> HIDE DEF a, k, u
        <5> DEFINE seq == <<a, k, u>>
        <5>3. /\ Len(seq) = 3 /\ seq[1] = a /\ seq[2] = k /\ seq[3] = u
              /\ seq \in Seq(Stmts)
          BY <5>2
        <5>4. ReapOwner(q) = seq
          BY DEF ReapOwner, a, k, u
        <5> HIDE DEF seq
        <5>5. Elements(seq) = {a, k, u}
          BY <5>3 DEF Elements
        <5> QED BY <5>1, <5>3, <5>4, <5>5 DEF NeedsGuard
      <4>2. 3 - o \in Owners
        BY DEF Owners
      <4>3. Elements(Reap(o)) = Elements(ReapOwner(o)) \cup Elements(ReapOwner(3 - o))
        <5>1. ReapOwner(o) \in Seq(Stmts) /\ ReapOwner(3 - o) \in Seq(Stmts)
          BY <4>1, <4>2
        <5>2. Elements(ReapOwner(o) \o ReapOwner(3 - o))
                = Elements(ReapOwner(o)) \cup Elements(ReapOwner(3 - o))
          BY <5>1, OfCat
        <5> QED BY <5>2 DEF Reap
      <4>4. \A x \in Elements(Reap(o)) :
               ~NeedsGuard(x) /\ (x.mode = "skip" => x.row[1] = "task")
        BY <4>1, <4>2, <4>3
      <4>5. Programs(o)[kind] = Reap(o)
        BY <2>4 DEF Programs
      <4> QED BY <4>4, <4>5
    <3> QED BY <2>4, <3>1, <3>2, FromParts
  <2>5. CASE kind = "switch"
    <3>1. \A p \in Owners : (kind \in SweepKinds => p = o) =>
             Part(p, {}, {}, Programs(o)[kind], 0, 17)
      BY <2>5, SweepParts DEF Programs, SweepKinds
    <3> QED BY <2>5, <3>1, FromParts
  <2>6. CASE kind \in {"scan", "configure", "actions", "manual", "follow", "relation",
                       "login"}
    <3>1. \A p \in Owners : Part(p, {}, {}, Programs(o)[kind], 0, 17)
      BY <2>6, OwnerParts DEF Programs
    <3> QED BY <2>6, <3>1, FromParts
  <2>7. CASE kind \in {"suspend", "revoke", "runner", "connect"}
    <3>1. \A p \in Owners : Part(p, {}, {}, Programs(o)[kind], 0, 17)
      BY <2>7, WithdrawParts DEF Programs
    <3> QED BY <2>7, <3>1, FromParts
  <2>8. CASE kind \in {"finalize", "grant", "renew"}
    <3>1. \A p \in Owners : Part(p, {}, {}, Programs(o)[kind], 0, 17)
      <4> SUFFICES ASSUME NEW p \in Owners
                   PROVE  Part(p, {}, {}, Programs(o)[kind], 0, 17)
        OBVIOUS
      <4>1. /\ Part(p, {}, {}, FinalizePrepared(o), 0, 17)
            /\ Part(p, {}, {}, GrantPeers(o), 0, 17)
        <5>1. {"audit", "user"} \subseteq Tables
          BY DEF Tables
        <5>2. /\ 0 <= Seat(p, "audit", o) /\ Seat(p, "audit", o) < 17
              /\ 0 <= Seat(p, "user", o) /\ Seat(p, "user", o) < 17
          <6>1. Seat(p, "audit", o) \in 0 .. 16 /\ Seat(p, "user", o) \in 0 .. 16
            BY <5>1, SeatBounds
          <6> QED BY <6>1
        <5>3. Fits(p, {}, Lock("audit", o), 0, 17)
          BY <5>1, <5>2, Fitting
        <5>4. Fits(p, {}, Key("user", o), 0, 17)
          BY <5>1, <5>2, Fitting
        <5>5. ~NeedsGuard(Lock("audit", o)) /\ ~NeedsGuard(Key("user", o))
          BY <5>1, Guards
        <5> QED BY <5>3, <5>4, <5>5, OnePart DEF FinalizePrepared, GrantPeers
      <4>2. Part(p, {}, {}, <<>>, 0, 17)
        BY DEF Part, Sorted, Guarded, Elements
      <4> QED BY <2>8, <4>1, <4>2 DEF Programs, RenewGrant
    <3> QED BY <2>8, <3>1, FromParts
  <2> QED BY <2>0, <2>1, <2>2, <2>3, <2>4, <2>5, <2>6, <2>7, <2>8
<1>2. ASSUME NEW r, r.todo = <<>>, r.held = {}, r.kind \in {"none", "over"}
      PROVE  InOrder(r)
  <2>1. Elements(r.todo) = {} /\ Len(r.todo) = 0
    BY <1>2 DEF Elements
  <2> QED BY <1>2, <2>1 DEF InOrder, Protects, Guarded, Follows, Sorted
<1>3. /\ NoTransaction.todo = <<>> /\ NoTransaction.held = {}
      /\ NoTransaction.kind = "none"
      /\ Finished.todo = <<>> /\ Finished.held = {} /\ Finished.kind = "over"
  BY DEF NoTransaction, Finished
<1> QED BY <1>1, <1>2, <1>3

-----------------------------------------------------------------------------
(* Transactions that go on *)

LEMMA Rest ==
  ASSUME NEW S, NEW todo \in Seq(S), todo # <<>>
  PROVE  /\ Len(todo) \in Nat /\ Len(todo) > 0
         /\ Tail(todo) \in Seq(S) /\ Len(Tail(todo)) = Len(todo) - 1
         /\ \A i \in 1 .. Len(todo) - 1 : Tail(todo)[i] = todo[i + 1]
         /\ Head(todo) = todo[1] /\ Head(todo) \in Elements(todo)
         /\ Elements(todo) = {Head(todo)} \cup Elements(Tail(todo))
<1>1. /\ Len(todo) \in Nat /\ Len(todo) > 0 /\ Head(todo) = todo[1]
      /\ Tail(todo) \in Seq(S) /\ Len(Tail(todo)) = Len(todo) - 1
  OBVIOUS
<1>2. \A i \in 1 .. Len(todo) - 1 : Tail(todo)[i] = todo[i + 1]
  OBVIOUS
<1>3. Head(todo) \in Elements(todo)
  BY <1>1 DEF Elements
<1>4. ASSUME NEW y \in Elements(todo), y # Head(todo)
      PROVE  y \in Elements(Tail(todo))
  <2>1. PICK i \in 1 .. Len(todo) : y = todo[i]
    BY DEF Elements
  <2>2. i # 1 /\ i - 1 \in 1 .. Len(todo) - 1 /\ (i - 1) + 1 = i
    BY <1>1, <1>4, <2>1
  <2>3. Tail(todo)[i - 1] = y
    BY <1>2, <2>1, <2>2
  <2> QED BY <1>1, <2>2, <2>3 DEF Elements
<1>5. ASSUME NEW y \in Elements(Tail(todo))
      PROVE  y \in Elements(todo)
  <2>1. PICK i \in 1 .. Len(todo) - 1 : y = Tail(todo)[i]
    BY <1>1 DEF Elements
  <2>2. i + 1 \in 1 .. Len(todo) /\ y = todo[i + 1]
    BY <1>1, <1>2, <2>1
  <2> QED BY <2>2 DEF Elements
<1> QED BY <1>1, <1>2, <1>3, <1>4, <1>5

\* What stays to be asked for stays in order, whatever is left out.
LEMMA LeftInOrder ==
  ASSUME NEW p, NEW held, NEW todo \in Seq(Stmts), NEW k \in Nat,
         NEW left \in Seq(Stmts), NEW more \in SUBSET Stmts,
         Len(left) + k = Len(todo),
         \A i \in 1 .. Len(left) : left[i] = todo[i + k],
         \A x \in more : x \in held \/ \E i \in 1 .. k : i <= Len(todo) /\ x = todo[i]
  PROVE  /\ Follows(p, held, todo) => Follows(p, more, left)
         /\ PrepareFollows(p, held, todo) => PrepareFollows(p, more, left)
<1>0. Len(left) \in Nat /\ Len(todo) \in Nat
  OBVIOUS
<1>1. \A i \in 1 .. Len(left) :
         i + k \in 1 .. Len(todo) /\ i + k > k /\ left[i] = todo[i + k]
  BY <1>0
<1>2. \A y \in Elements(left) :
         \E j \in 1 .. Len(todo) : j > k /\ y = todo[j] /\ y \in Elements(todo)
  BY <1>1 DEF Elements
<1>3. \A i, j \in 1 .. Len(left) : i < j =>
         i + k \in 1 .. Len(todo) /\ j + k \in 1 .. Len(todo) /\ i + k < j + k
  BY <1>0
<1>4. \A i \in 1 .. k, j \in 1 .. Len(todo) : j > k => i \in 1 .. Len(todo) /\ i < j
  BY <1>0
<1>5. Follows(p, held, todo) => Follows(p, more, left)
  BY <1>1, <1>2, <1>3, <1>4 DEF Follows, Sorted
<1>6. ASSUME PrepareFollows(p, held, todo) PROVE PrepareFollows(p, more, left)
  <2>1. ASSUME NEW i \in 1 .. Len(left), NEW j \in 1 .. Len(left), i < j
        PROVE  left[i].row[1] = "task" \/ Before(p, left[i], left[j])
    <3>1. i + k \in 1 .. Len(todo) /\ j + k \in 1 .. Len(todo) /\ i + k < j + k
      BY <1>3, <2>1
    <3>2. todo[i + k].row[1] = "task" \/ Before(p, todo[i + k], todo[j + k])
      BY <1>6, <3>1 DEF PrepareFollows
    <3> QED BY <1>1, <3>2
  <2>2. ASSUME NEW x \in more, NEW y \in Elements(left)
        PROVE  x.row[1] = "task" \/ Before(p, x, y)
    <3>1. PICK j \in 1 .. Len(todo) : j > k /\ y = todo[j] /\ y \in Elements(todo)
      BY <1>2
    <3>2. CASE x \in held
      BY <1>6, <3>1, <3>2 DEF PrepareFollows
    <3>3. CASE x \notin held
      <4>1. PICK i \in 1 .. k : i <= Len(todo) /\ x = todo[i]
        BY <3>3
      <4>2. i \in 1 .. Len(todo) /\ i < j
        BY <1>4, <3>1, <4>1
      <4> QED BY <1>6, <3>1, <4>1, <4>2 DEF PrepareFollows
    <3> QED BY <3>2, <3>3
  <2> QED BY <2>1, <2>2 DEF PrepareFollows
<1> QED BY <1>5, <1>6

LEMMA MovedFields ==
  ASSUME NEW r \in Rec, NEW todo, NEW held
  PROVE  LET m == Moved(r, todo, held) IN
         m.todo = todo /\ m.held = held /\ m.kind = r.kind /\ m.owner = r.owner
BY DEF Moved, Rec

\* A lock that is taken.
LEMMA TakenInOrder ==
  ASSUME NEW r \in Rec, InOrder(r), r.todo # <<>>
  PROVE  InOrder(Moved(r, Tail(r.todo), r.held \cup {Head(r.todo)}))
<1> DEFINE todo == r.todo
           x == Head(todo)
           left == Tail(todo)
           held == r.held
           more == held \cup {x}
           m == Moved(r, left, more)
<1>1. todo \in Seq(Stmts) /\ todo # <<>> /\ held \in SUBSET Stmts
  BY DEF Rec
<1>2. /\ m.todo = left /\ m.held = more /\ m.kind = r.kind /\ m.owner = r.owner
  BY MovedFields
<1>a. InOrder(r) /\ r.todo = todo /\ r.held = held
  OBVIOUS
<1> HIDE DEF todo, held, m
<1>3. /\ Len(todo) \in Nat /\ Len(todo) > 0
      /\ left \in Seq(Stmts) /\ Len(left) = Len(todo) - 1
      /\ \A i \in 1 .. Len(todo) - 1 : left[i] = todo[i + 1]
      /\ x = todo[1] /\ x \in Elements(todo)
      /\ Elements(todo) = {x} \cup Elements(left)
  BY <1>1, Rest
<1> HIDE DEF x, left
<1>4. more \in SUBSET Stmts /\ more \cup Elements(left) = held \cup Elements(todo)
  <2>1. x \in Stmts
    BY <1>1, <1>3
  <2> QED BY <1>1, <1>3, <2>1
<1> HIDE DEF more
<1>5. \A y \in more : y \in held \/ \E i \in 1 .. 1 : i <= Len(todo) /\ y = todo[i]
  BY <1>3 DEF more
<1>6. \A p \in Owners :
        /\ Follows(p, held, todo) => Follows(p, more, left)
        /\ PrepareFollows(p, held, todo) => PrepareFollows(p, more, left)
  <2>1. Len(left) + 1 = Len(todo) /\ \A i \in 1 .. Len(left) : left[i] = todo[i + 1]
    BY <1>3
  <2> QED BY <1>1, <1>3, <1>4, <1>5, <2>1, LeftInOrder
<1>7. ASSUME Protects(held, todo) PROVE Protects(more, left)
  <2>1. Guarded(more, left)
    <3> SUFFICES ASSUME NEW j \in 1 .. Len(left), NeedsGuard(left[j]),
                        GuardOf(left[j]) \notin more
                 PROVE  \E i \in 1 .. Len(left) : i < j /\ left[i] = GuardOf(left[j])
      BY DEF Guarded
    <3>1. j + 1 \in 1 .. Len(todo) /\ left[j] = todo[j + 1]
      BY <1>3
    <3>2. GuardOf(left[j]) \notin held /\ GuardOf(left[j]) # x
      BY DEF more
    <3>3. PICK i \in 1 .. Len(todo) : i < j + 1 /\ todo[i] = GuardOf(left[j])
      BY <1>7, <3>1, <3>2 DEF Protects, Guarded
    <3>4. i # 1 /\ i - 1 \in 1 .. Len(left) /\ i - 1 < j /\ (i - 1) + 1 = i
      BY <1>3, <3>2, <3>3
    <3> QED BY <1>3, <3>3, <3>4
  <2>2. NeedsGuard(x) => GuardOf(x) \in held
    <3>1. 1 \in 1 .. Len(todo) /\ ~(\E i \in 1 .. Len(todo) : i < 1)
      BY <1>3
    <3> QED BY <1>3, <1>7, <3>1 DEF Protects, Guarded
  <2> QED BY <1>7, <2>1, <2>2 DEF Protects, more
<1>8. InOrder(m)
  <2> SUFFICES ASSUME m.kind \notin Disordered PROVE InOrder(m)
    BY DEF InOrder
  <2>1. \A y \in m.held \cup Elements(m.todo) : Belongs(m.kind, m.owner, y)
    BY <1>2, <1>4, <1>a DEF InOrder
  <2>2. m.kind # "prepare" =>
         /\ Protects(m.held, m.todo)
         /\ \A p \in Owners : (m.kind \in SweepKinds => p = m.owner) =>
               Follows(p, m.held, m.todo)
    BY <1>2, <1>6, <1>7, <1>a DEF InOrder
  <2>3. m.kind = "prepare" => \A p \in Owners : PrepareFollows(p, m.held, m.todo)
    BY <1>2, <1>6, <1>a DEF InOrder
  <2> QED BY <2>1, <2>2, <2>3 DEF InOrder
<1> QED BY <1>8 DEF m, more, x, left, held, todo

\* A statement of the sweep, or one that cancels, is left out.
LEMMA SkippedInOrder ==
  ASSUME NEW r \in Rec, InOrder(r), NEW k \in Nat, NEW left \in Seq(Stmts),
         Len(left) + k = Len(r.todo),
         \A i \in 1 .. Len(left) : left[i] = r.todo[i + k],
         \/ r.kind = "reap"
         \/ k = 1 /\ Len(r.todo) > 0 /\ r.todo[1].mode = "cancel"
  PROVE  InOrder(Moved(r, left, r.held))
<1> DEFINE todo == r.todo
           held == r.held
           m == Moved(r, left, held)
<1>1. todo \in Seq(Stmts) /\ held \in SUBSET Stmts
  BY DEF Rec
<1>2. /\ m.todo = left /\ m.held = held /\ m.kind = r.kind /\ m.owner = r.owner
  BY MovedFields
<1>b. InOrder(r) /\ r.todo = todo /\ r.held = held
  OBVIOUS
<1>c. Len(left) + k = Len(todo) /\ \A i \in 1 .. Len(left) : left[i] = todo[i + k]
  OBVIOUS
<1>d. r.kind = "reap" \/ (k = 1 /\ Len(todo) > 0 /\ todo[1].mode = "cancel")
  OBVIOUS
<1>a. /\ InOrder(r) /\ r.todo = todo /\ r.held = held
      /\ Len(left) + k = Len(todo) /\ \A i \in 1 .. Len(left) : left[i] = todo[i + k]
      /\ r.kind = "reap" \/ (k = 1 /\ Len(todo) > 0 /\ todo[1].mode = "cancel")
  BY <1>b, <1>c, <1>d
<1> HIDE DEF todo, held, m
<1>3. Elements(left) \subseteq Elements(todo)
  <2>1. Len(left) \in Nat /\ Len(todo) \in Nat
    BY <1>1
  <2>2. \A i \in 1 .. Len(left) : i + k \in 1 .. Len(todo)
    BY <1>a, <2>1
  <2> QED BY <1>a, <2>2 DEF Elements
<1>4. \A p \in Owners :
        /\ Follows(p, held, todo) => Follows(p, held, left)
        /\ PrepareFollows(p, held, todo) => PrepareFollows(p, held, left)
  BY <1>1, <1>a, LeftInOrder
<1>5. ASSUME Protects(held, todo), ~(r.kind = "reap") PROVE Protects(held, left)
  <2>0. k = 1 /\ todo[1].mode = "cancel" /\ Len(left) \in Nat /\ Len(todo) \in Nat
    BY <1>1, <1>5, <1>a
  <2>1. Guarded(held, left)
    <3> SUFFICES ASSUME NEW j \in 1 .. Len(left), NeedsGuard(left[j]),
                        GuardOf(left[j]) \notin held
                 PROVE  \E i \in 1 .. Len(left) : i < j /\ left[i] = GuardOf(left[j])
      BY DEF Guarded
    <3>1. j + 1 \in 1 .. Len(todo) /\ left[j] = todo[j + 1]
      BY <1>a, <2>0
    <3>2. PICK i \in 1 .. Len(todo) : i < j + 1 /\ todo[i] = GuardOf(left[j])
      BY <1>5, <3>1 DEF Protects, Guarded
    <3>3. GuardOf(left[j]).mode = "update"
      BY Rows DEF GuardOf
    <3>4. i # 1
      BY <2>0, <3>2, <3>3
    <3>5. i - 1 \in 1 .. Len(left) /\ i - 1 < j /\ (i - 1) + 1 = i
      BY <1>a, <2>0, <3>2, <3>4
    <3> QED BY <1>a, <2>0, <3>2, <3>5
  <2> QED BY <1>5, <2>1 DEF Protects
<1>6. ASSUME r.kind = "reap" PROVE Protects(held, left)
  <2>1. \A x \in held \cup Elements(left) : ~NeedsGuard(x)
    BY <1>3, <1>6, <1>a DEF InOrder, Belongs, Disordered
  <2>2. \A j \in 1 .. Len(left) : ~NeedsGuard(left[j])
    BY <2>1 DEF Elements
  <2> QED BY <2>1, <2>2 DEF Protects, Guarded
<1>8. InOrder(m)
  <2> SUFFICES ASSUME m.kind \notin Disordered PROVE InOrder(m)
    BY DEF InOrder
  <2>1. \A y \in m.held \cup Elements(m.todo) : Belongs(m.kind, m.owner, y)
    BY <1>2, <1>3, <1>a DEF InOrder
  <2>2. m.kind # "prepare" =>
         /\ Protects(m.held, m.todo)
         /\ \A p \in Owners : (m.kind \in SweepKinds => p = m.owner) =>
               Follows(p, m.held, m.todo)
    BY <1>2, <1>4, <1>5, <1>6, <1>a DEF InOrder
  <2>3. m.kind = "prepare" => \A p \in Owners : PrepareFollows(p, m.held, m.todo)
    BY <1>2, <1>4, <1>a DEF InOrder
  <2> QED BY <2>1, <2>2, <2>3 DEF InOrder
<1> QED BY <1>8 DEF m, held, todo

-----------------------------------------------------------------------------
(* The order is kept *)

\* What a statement leaves of its transaction.
LEMMA LockMoves ==
  ASSUME RowsInv, NEW s \in Sessions, Locks(s)
  PROVE  LET r == session[s]
             todo == r.todo
         IN  /\ todo # <<>>
             /\ \A t \in Sessions \ {s} : session'[t] = session[t]
             /\ UNCHANGED <<phase, report>>
             /\ \/ session'[s] = Moved(r, Tail(todo), r.held \cup {Head(todo)})
                \/ /\ Head(todo).mode = "cancel"
                   /\ session'[s] = Moved(r, Tail(todo), r.held)
                \/ /\ Head(todo).mode = "skip"
                   /\ session'[s] = Moved(r, SubSeq(todo, 3, Len(todo)), r.held)
<1>1. session \in [Sessions -> Rec]
  BY DEF RowsInv
<1>2. CASE TakeLock(s)
  BY <1>1, <1>2 DEF TakeLock, Goes
<1>3. CASE SkipOwner(s)
  BY <1>1, <1>3 DEF SkipOwner, Goes
<1>4. CASE CancelNothing(s)
  BY <1>1, <1>4 DEF CancelNothing, Goes
<1> QED BY <1>2, <1>3, <1>4 DEF Locks

LEMMA LocksInOrder ==
  ASSUME RowsInv, NEW s \in Sessions, Locks(s), InOrder(session[s])
  PROVE  InOrder(session'[s])
<1> DEFINE r == session[s]
           todo == r.todo
<1>1. /\ r \in Rec /\ InOrder(r) /\ todo \in Seq(Stmts)
      /\ r.kind # "reap" => todo \in Seq(Plain)
  BY DEF RowsInv, GoodRec, Rec
<1>2. todo # <<>>
  BY LockMoves
<1>3. /\ Len(todo) \in Nat /\ Len(todo) > 0
      /\ Tail(todo) \in Seq(Stmts) /\ Len(Tail(todo)) = Len(todo) - 1
      /\ \A i \in 1 .. Len(todo) - 1 : Tail(todo)[i] = todo[i + 1]
      /\ Head(todo) = todo[1]
  BY <1>1, <1>2, Rest
<1>4. CASE session'[s] = Moved(r, Tail(todo), r.held \cup {Head(todo)})
  BY <1>1, <1>2, <1>4, TakenInOrder
<1>5. CASE /\ Head(todo).mode = "cancel"
           /\ session'[s] = Moved(r, Tail(todo), r.held)
  <2>1. /\ Len(Tail(todo)) + 1 = Len(todo)
        /\ \A i \in 1 .. Len(Tail(todo)) : Tail(todo)[i] = todo[i + 1]
        /\ Len(todo) > 0 /\ todo[1].mode = "cancel"
    BY <1>3, <1>5
  <2>2. InOrder(Moved(r, Tail(todo), r.held))
    BY <1>1, <1>3, <2>1, SkippedInOrder
  <2> QED BY <1>5, <2>2
<1>6. CASE /\ Head(todo).mode = "skip"
           /\ session'[s] = Moved(r, SubSeq(todo, 3, Len(todo)), r.held)
  <2> DEFINE left == SubSeq(todo, 3, Len(todo))
  <2>1. r.kind = "reap"
    <3> SUFFICES ASSUME todo \in Seq(Plain) PROVE FALSE
      BY <1>1
    <3>1. Head(todo) \in Plain
      BY <1>2, HeadTail
    <3> QED BY <1>6, <3>1 DEF Plain
  <2>2. PICK k \in Nat : /\ left \in Seq(Stmts) /\ Len(left) + k = Len(todo)
                         /\ \A i \in 1 .. Len(left) : left[i] = todo[i + k]
    <3>1. /\ left \in Seq(Stmts)
          /\ Len(left) = IF 3 <= Len(todo) THEN Len(todo) - 2 ELSE 0
          /\ \A i \in 1 .. Len(left) : left[i] = todo[i + 2]
      BY <1>1, <1>3
    <3> HIDE DEF left
    <3>2. CASE Len(todo) = 1
      <4>1. Len(left) + 1 = Len(todo) /\ \A i \in 1 .. Len(left) : left[i] = todo[i + 1]
        BY <3>1, <3>2
      <4> QED BY <3>1, <4>1
    <3>3. CASE Len(todo) # 1
      <4>0. Len(todo) \in Nat /\ Len(todo) > 0
        BY <1>3
      <4> HIDE DEF todo
      <4>a. Len(left) = IF 3 <= Len(todo) THEN Len(todo) - 2 ELSE 0
        BY <3>1
      <4>1. Len(left) + 2 = Len(todo)
        <5>1. ASSUME NEW n \in Nat, n > 0, n # 1
              PROVE  (IF 3 <= n THEN n - 2 ELSE 0) + 2 = n
          BY <5>1
        <5> QED BY <3>3, <4>0, <4>a, <5>1
      <4>2. \A i \in 1 .. Len(left) : left[i] = todo[i + 2]
        BY <3>1
      <4> QED BY <3>1, <4>1, <4>2
    <3> QED BY <3>2, <3>3
  <2> HIDE DEF left
  <2>3. InOrder(Moved(r, left, r.held))
    BY <1>1, <2>1, <2>2, SkippedInOrder
  <2> QED BY <1>6, <2>3 DEF left
<1> QED BY <1>4, <1>5, <1>6, LockMoves

\* The steps of the worker that are not statements.
Turns ==
  LET main == session["main"]
      second == session["second"]
  IN
  /\ \A t \in Others : session'[t] = session[t]
  /\ \/ /\ phase' \in {"prepare", "permit", "finish"}
        /\ session'["main"] = Transaction(phase', 1)
        /\ session'["second"] = NoTransaction
     \/ /\ phase' = "finalizing"
        /\ session'["main"] = NoTransaction
        /\ session'["second"] = Transaction("finalize", 1)
     \/ /\ phase \in {"begin", "finish"} /\ phase' = "done"
        /\ session'["main"] = NoTransaction /\ session'["second"] = second
     \/ /\ phase = "permit" /\ phase' = "refused"
        /\ session'["main"] = main
        /\ session'["second"] = Transaction("finalize", 1)
     \/ /\ phase \in {"permit", "calling"} /\ phase' \in {"calling", "recorded"}
        /\ session' = session
     \/ /\ phase = "calling" /\ phase' = "granting"
        /\ session'["main"] = main
        /\ session'["second"] \in {Transaction("grant", 1), Transaction("renew", 1)}
     \/ /\ phase \in {"granting", "refused"} /\ phase' = "recorded"
        /\ session'["main"] = main /\ session'["second"] = NoTransaction
     \/ /\ phase \in {"calling", "refused", "granting"} /\ phase' = phase
        /\ session'["main"] = NoTransaction /\ session'["second"] = second
     \/ /\ phase = "calling" /\ phase' = "recording" /\ Active("main")
        /\ session'["main"] = Moved(main, StoreMessage(1), main.held)
        /\ session'["second"] = second

LEMMA StepKinds ==
  ASSUME IInv, Next
  PROVE  \/ \E s \in Sessions : Locks(s)
         \/ \E s \in Others : Start(s) \/ End(s)
         \/ Turns
<1>0. session \in [Sessions -> Rec]
  BY DEF IInv, RowsInv
<1>1. ASSUME NEW next \in {"prepare", "permit", "finish"}, Continue(next)
      PROVE  Turns
  <2>1. /\ phase' = next /\ session'["main"] = Transaction(next, 1)
        /\ session'["second"] = NoTransaction
        /\ \A t \in Others : session'[t] = session[t]
    BY <1>0, <1>1, Apart DEF Continue
  <2> QED BY <2>1 DEF Turns
<1>2. ASSUME NEW outcome, Finalize(outcome)
      PROVE  Turns
  <2>1. /\ phase' = "finalizing" /\ session'["main"] = NoTransaction
        /\ session'["second"] = Transaction("finalize", 1)
        /\ \A t \in Others : session'[t] = session[t]
    BY <1>0, <1>2, Apart DEF Finalize
  <2> QED BY <2>1 DEF Turns
<1>3. ASSUME Stop, phase \in {"begin", "finish"}
      PROVE  Turns
  <2>1. /\ phase' = "done" /\ session'["main"] = NoTransaction
        /\ session'["second"] = session["second"]
        /\ \A t \in Others : session'[t] = session[t]
    BY <1>0, <1>3, Apart DEF Stop
  <2> QED BY <1>3, <2>1 DEF Turns
<1>4. ASSUME NEW outcome, Record(outcome), phase \in {"granting", "refused"}
      PROVE  Turns
  <2>1. /\ phase' = "recorded" /\ session'["main"] = session["main"]
        /\ session'["second"] = NoTransaction
        /\ \A t \in Others : session'[t] = session[t]
    BY <1>0, <1>4, Apart DEF Record
  <2> QED BY <1>4, <2>1 DEF Turns
<1>5. ASSUME NEW r, session' = [session EXCEPT !["second"] = r]
      PROVE  /\ session'["main"] = session["main"] /\ session'["second"] = r
             /\ \A t \in Others : session'[t] = session[t]
  BY <1>0, <1>5, Apart
<1>6. CASE RefusePermit
  <2>1. /\ phase = "permit" /\ phase' = "refused"
        /\ session' = [session EXCEPT !["second"] = Transaction("finalize", 1)]
    BY <1>6 DEF RefusePermit
  <2> QED BY <1>5, <2>1 DEF Turns
<1>7. CASE MatchAccepted
  <2>1. PICK kind \in {"grant", "renew"} :
          session' = [session EXCEPT !["second"] = Transaction(kind, 1)]
    BY <1>7 DEF MatchAccepted
  <2>2. phase = "calling" /\ phase' = "granting"
    BY <1>7 DEF MatchAccepted
  <2> QED BY <1>5, <2>1, <2>2 DEF Turns
<1>8. CASE MessageAccepted
  <2>1. /\ phase = "calling" /\ phase' = "recording" /\ Active("main")
        /\ Goes("main", StoreMessage(1), session["main"].held)
    BY <1>8 DEF MessageAccepted
  <2>2. /\ session'["main"] = Moved(session["main"], StoreMessage(1), session["main"].held)
        /\ session'["second"] = session["second"]
        /\ \A t \in Others : session'[t] = session[t]
    BY <1>0, <2>1, Apart DEF Goes
  <2> QED BY <2>1, <2>2 DEF Turns
<1>9. CASE IdleTimeout
  <2>1. /\ phase \in {"calling", "refused", "granting"} /\ phase' = phase
        /\ session' = [session EXCEPT !["main"] = NoTransaction]
    BY <1>9 DEF IdleTimeout
  <2>2. /\ session'["main"] = NoTransaction
        /\ session'["second"] = session["second"]
        /\ \A t \in Others : session'[t] = session[t]
    BY <1>0, <2>1, Apart
  <2> QED BY <2>1, <2>2 DEF Turns
<1>10. CASE CallProvider \/ Answer
  BY <1>10 DEF CallProvider, Answer, Turns
<1>11. CASE CommitBegin
  BY <1>1, <1>11 DEF CommitBegin
<1>12. CASE CommitPermit \/ EndFinalize
  BY <1>1, <1>12 DEF CommitPermit, EndFinalize
<1>13. CASE AnswerTooLate
  BY <1>2, <1>13 DEF AnswerTooLate
<1>14. CASE CommitFinish
  BY <1>3, <1>14 DEF CommitFinish
<1>15. CASE WorkerFails
  BY <1>1, <1>2, <1>3, <1>15 DEF WorkerFails
<1>16. CASE EndGrant \/ EndRefusal
  BY <1>2, <1>4, <1>16 DEF EndGrant, EndRefusal
<1>17. \A s \in Others : s \in Sessions
  BY Apart
<1> QED BY <1>6, <1>7, <1>8, <1>9, <1>10, <1>11, <1>12, <1>13, <1>14, <1>15, <1>16, <1>17,
           Apart DEF Next, Progress, MainStep, SecondStep

\* Whoever starts or ends.
LEMMA OthersMove ==
  ASSUME IInv, NEW s \in Others, Start(s) \/ End(s)
  PROVE  /\ UNCHANGED <<phase, report>>
         /\ \A t \in Sessions \ {s} : session'[t] = session[t]
         /\ \/ session'[s] = Finished
            \/ \E kind \in Kinds, o \in Owners :
                  ByOthers(kind, o) /\ session'[s] = Transaction(kind, o)
<1>0. session \in [Sessions -> Rec] /\ s \in Sessions
  BY Apart DEF IInv, RowsInv
<1>1. CASE Start(s)
  BY <1>0, <1>1 DEF Start
<1>2. CASE End(s)
  BY <1>0, <1>2 DEF End
<1> QED BY <1>1, <1>2

LEMMA OrderNext ==
  ASSUME IInv, OrderInv, [Next]_vars
  PROVE  OrderInv'
<1>1. CASE \E s \in Sessions : Locks(s)
  <2>1. PICK s \in Sessions : Locks(s)
    BY <1>1
  <2>2. /\ \A t \in Sessions \ {s} : session'[t] = session[t]
        /\ UNCHANGED phase
    BY <2>1, LockMoves DEF IInv
  <2>3. ~Recording(s) => InOrder(session'[s])
    BY <2>1, LocksInOrder DEF IInv, OrderInv
  <2> QED BY <2>2, <2>3 DEF OrderInv, Recording
<1>2. CASE \E s \in Others : Start(s) \/ End(s)
  <2>1. PICK s \in Others : Start(s) \/ End(s)
    BY <1>2
  <2>2. /\ UNCHANGED phase
        /\ \A t \in Sessions \ {s} : session'[t] = session[t]
        /\ InOrder(session'[s])
    BY <2>1, OthersMove, FreshInOrder
  <2> QED BY <2>2 DEF OrderInv, Recording
<1>3. CASE Turns
  <2>1. /\ \A kind \in {"prepare", "permit", "finish", "finalize", "grant", "renew"} :
             InOrder(Transaction(kind, 1))
        /\ InOrder(NoTransaction)
    BY FreshInOrder, WorkerRecords
  <2>2. \A t \in Others : ~Recording(t)' => InOrder(session'[t])
    BY <1>3, Apart DEF Turns, OrderInv, Recording
  <2>3. ~Recording("main")' => InOrder(session'["main"])
    <3>1. ~Recording("main") => InOrder(session["main"])
      BY Apart DEF OrderInv
    <3> QED BY <1>3, <2>1, <3>1 DEF Turns, Recording
  <2>4. InOrder(session'["second"])
    <3>1. InOrder(session["second"])
      BY Apart DEF OrderInv, Recording
    <3> QED BY <1>3, <2>1, <3>1 DEF Turns
  <2> QED BY <2>2, <2>3, <2>4 DEF OrderInv, Sessions
<1>4. CASE UNCHANGED vars
  BY <1>4 DEF vars, OrderInv, Recording
<1> QED BY <1>1, <1>2, <1>3, <1>4, StepKinds

LEMMA DispatchNext ==
  ASSUME IInv, DispatchInv, [Next]_vars
  PROVE  DispatchInv'
<1>1. CASE \E s \in Sessions : Locks(s)
  <2>1. PICK s \in Sessions : Locks(s)
    BY <1>1
  <2>2. \A t \in Sessions : /\ session'[t].kind = session[t].kind
                            /\ session'[t].owner = session[t].owner
    BY <2>1, LockStep DEF IInv
  <2>3. phase' = "recording" => session'["main"].todo \in {<<>>, StoreMessage(1)}
    <3> DEFINE m == session["main"]
               c == Lock("conversation", 1)
    <3> SUFFICES ASSUME phase' = "recording"
                 PROVE  session'["main"].todo \in {<<>>, StoreMessage(1)}
      OBVIOUS
    <3>1. /\ UNCHANGED phase /\ session[s].todo # <<>>
          /\ s # "main" => session'["main"] = m
      BY <2>1, LockMoves, Apart DEF IInv
    <3>2. m.todo \in {<<>>, <<c>>} /\ m \in Rec
      BY <3>1, Apart DEF DispatchInv, StoreMessage, IInv, RowsInv
    <3>3. c.mode = "update"
      BY Rows
    <3>4. \A x : Head(<<x>>) = x /\ Tail(<<x>>) = <<>>
      OBVIOUS
    <3> HIDE DEF c
    <3>5. ASSUME s = "main"
          PROVE  session'["main"].todo = <<>>
      <4>1. m.todo = <<c>>
        BY <3>1, <3>2, <3>5
      <4>2. session'["main"] = Moved(m, Tail(m.todo), m.held \cup {Head(m.todo)})
        <5>1. Head(m.todo).mode \notin {"skip", "cancel"}
          BY <3>3, <3>4, <4>1
        <5> QED BY <2>1, <3>5, <5>1, LockMoves DEF IInv
      <4>3. Moved(m, Tail(m.todo), m.held \cup {Head(m.todo)}).todo = Tail(m.todo)
        BY <3>2, MovedFields
      <4>4. Tail(m.todo) = <<>>
        BY <3>4, <4>1
      <4> QED BY <4>2, <4>3, <4>4
    <3> QED BY <3>1, <3>2, <3>5 DEF StoreMessage, c
  <2> QED BY <2>2, <2>3, Apart DEF DispatchInv
<1>2. CASE \E s \in Others : Start(s) \/ End(s)
  <2>1. PICK s \in Others : Start(s) \/ End(s)
    BY <1>2
  <2>2. /\ \A t \in Others \ {s} : session'[t] = session[t]
        /\ session'["main"] = session["main"] /\ UNCHANGED phase
    BY <2>1, OthersMove, Apart
  <2>3. CASE session'[s] = Finished
    <3>1. session'[s].kind \notin OfDispatch
      BY <2>3, WorkerRecords DEF OfDispatch
    <3> QED BY <2>2, <3>1 DEF DispatchInv
  <2>4. CASE \E kind \in Kinds, o \in Owners :
               ByOthers(kind, o) /\ session'[s] = Transaction(kind, o)
    <3>1. PICK kind \in Kinds, o \in Owners :
               ByOthers(kind, o) /\ session'[s] = Transaction(kind, o)
      BY <2>4
    <3>2. session'[s].kind = kind /\ session'[s].owner = o
      BY <3>1 DEF Transaction
    <3>3. CASE kind \in OfDispatch
      BY <2>2, <3>1, <3>2, <3>3 DEF DispatchInv, ByOthers
    <3>4. CASE kind \notin OfDispatch
      BY <2>2, <3>2, <3>4 DEF DispatchInv
    <3> QED BY <3>3, <3>4
  <2> QED BY <2>1, <2>3, <2>4, OthersMove
<1>3. CASE Turns
  <2>1. /\ session["main"].owner = 1
        /\ session["main"].kind \in {"none", "begin", "prepare", "permit", "finish"}
        /\ session["main"] \in Rec
    BY Apart DEF DispatchInv, IInv, RowsInv
  <2>2. LET m == Moved(session["main"], StoreMessage(1), session["main"].held) IN
        m.kind = session["main"].kind /\ m.owner = session["main"].owner
    BY <2>1, MovedFields
  <2>3. /\ \A kind : Transaction(kind, 1).kind = kind /\ Transaction(kind, 1).owner = 1
        /\ NoTransaction.kind = "none" /\ NoTransaction.owner = 1
    BY DEF Transaction, NoTransaction
  <2>4. /\ session'["main"].owner = 1
        /\ session'["main"].kind \in {"none", "begin", "prepare", "permit", "finish"}
    BY <1>3, <2>1, <2>2, <2>3 DEF Turns
  <2>5. \A t \in Others : session'[t] = session[t]
    BY <1>3 DEF Turns
  <2>6. phase' = "recording" => session'["main"].todo \in {<<>>, StoreMessage(1)}
    <3>1. LET m == Moved(session["main"], StoreMessage(1), session["main"].held) IN
          m.todo = StoreMessage(1)
      BY <2>1, MovedFields
    <3> QED BY <1>3, <3>1 DEF Turns
  <2> QED BY <2>4, <2>5, <2>6 DEF DispatchInv
<1>4. CASE UNCHANGED vars
  BY <1>4 DEF vars, DispatchInv
<1> QED BY <1>1, <1>2, <1>3, <1>4, StepKinds

LEMMA SecondNext ==
  ASSUME IInv, SecondInv, [Next]_vars
  PROVE  SecondInv'
<1> DEFINE k == Key("user", 1)
           u == Lock("audit", 1)
<1>0. session \in [Sessions -> Rec]
  BY DEF IInv, RowsInv
<1>m. k.mode = "key" /\ u.mode = "update"
  BY Rows
<1>t. /\ NoTransaction.kind = "none" /\ NoTransaction.todo = <<>>
      /\ Transaction("finalize", 1).kind = "finalize"
      /\ Transaction("finalize", 1).todo = <<u>>
      /\ Transaction("finalize", 1).held = {}
      /\ Transaction("grant", 1).kind = "grant"
      /\ Transaction("grant", 1).todo = <<k>>
      /\ Transaction("grant", 1).held = {}
      /\ Transaction("renew", 1).kind = "renew"
      /\ Transaction("renew", 1).todo = <<>>
      /\ \A kind \in {"prepare", "permit", "finish"} : Transaction(kind, 1).kind = kind
  BY DEF NoTransaction, Transaction, Programs, FinalizePrepared, GrantPeers, RenewGrant
<1> HIDE DEF k, u
<1>e. <<k>> # <<>> /\ <<u>> # <<>>
  OBVIOUS
<1>1. CASE \E s \in Sessions : Locks(s)
  <2>1. PICK s \in Sessions : Locks(s)
    BY <1>1
  <2>2. /\ session[s].todo # <<>> /\ UNCHANGED phase
        /\ \A t \in Sessions \ {s} : session'[t] = session[t]
        /\ \A t \in Sessions : session'[t].kind = session[t].kind
    BY <2>1, LockStep DEF IInv
  <2>3. CASE s = "second"
    <3> DEFINE todo == session["second"].todo
               held == session["second"].held
    <3>1. todo = <<k>> \/ todo = <<u>>
      BY <2>2, <2>3 DEF SecondInv, k, u
    <3>2. Head(todo).mode \notin {"skip", "cancel"} /\ Tail(todo) = <<>>
      <4>1. \A x : Head(<<x>>) = x /\ Tail(<<x>>) = <<>>
        OBVIOUS
      <4> HIDE DEF todo
      <4> QED BY <1>m, <3>1, <4>1
    <3>3. session'["second"] = Moved(session["second"], Tail(todo), held \cup {Head(todo)})
      BY <2>1, <2>3, <3>2, LockMoves DEF IInv
    <3>4. session["second"] \in Rec
      BY <1>0, Apart
    <3>5. session'["second"].todo = <<>>
      <4>1. Moved(session["second"], Tail(todo), held \cup {Head(todo)}).todo = Tail(todo)
        BY <3>4, MovedFields
      <4> QED BY <3>2, <3>3, <4>1
    <3>6. session'["main"] = session["main"]
      BY <2>2, <2>3, Apart
    <3> QED BY <2>2, <3>5, <3>6, Apart DEF SecondInv, Active
  <2>4. CASE s = "main"
    <3>1. session'["second"] = session["second"] /\ session'["main"].kind = session["main"].kind
      BY <2>2, <2>4, Apart
    <3>2. Active("main")
      BY <2>2, <2>4 DEF SecondInv
    <3> QED BY <2>2, <3>1, <3>2 DEF SecondInv, Active
  <2>5. CASE s \in Others
    <3>1. session'["second"] = session["second"] /\ session'["main"] = session["main"]
      BY <2>2, <2>5, Apart
    <3> QED BY <2>2, <3>1 DEF SecondInv, Active
  <2> QED BY <2>3, <2>4, <2>5 DEF Sessions
<1>2. CASE \E s \in Others : Start(s) \/ End(s)
  <2>1. /\ session'["second"] = session["second"] /\ session'["main"] = session["main"]
        /\ UNCHANGED phase
    BY <1>2, OthersMove, Apart
  <2> QED BY <2>1 DEF SecondInv, Active
<1>3. CASE Turns
  <2>0. SecondInv /\ session["main"] \in Rec
    BY <1>0, Apart
  <2>m. LET m == Moved(session["main"], StoreMessage(1), session["main"].held) IN
        m.kind = session["main"].kind
    BY <2>0, MovedFields
  <2>1. CASE /\ phase' \in {"prepare", "permit", "finish"}
             /\ session'["main"] = Transaction(phase', 1)
             /\ session'["second"] = NoTransaction
    BY <1>t, <2>1 DEF SecondInv, Active
  <2>2. CASE /\ phase' = "finalizing"
             /\ session'["main"] = NoTransaction
             /\ session'["second"] = Transaction("finalize", 1)
    BY <1>t, <2>2 DEF SecondInv, Active, u, k
  <2>3. CASE /\ phase \in {"begin", "finish"} /\ phase' = "done"
             /\ session'["main"] = NoTransaction
             /\ session'["second"] = session["second"]
    BY <1>t, <2>3, <2>0 DEF SecondInv, Active
  <2>4. CASE /\ phase = "permit" /\ phase' = "refused"
             /\ session'["main"] = session["main"]
             /\ session'["second"] = Transaction("finalize", 1)
    BY <1>t, <2>4, <2>0 DEF SecondInv, Active, u, k
  <2>5. CASE /\ phase \in {"permit", "calling"} /\ phase' \in {"calling", "recorded"}
             /\ session' = session
    BY <2>5, <2>0 DEF SecondInv, Active
  <2>6. CASE /\ phase = "calling" /\ phase' = "granting"
             /\ session'["main"] = session["main"]
             /\ session'["second"] \in {Transaction("grant", 1), Transaction("renew", 1)}
    BY <1>t, <2>6, <2>0 DEF SecondInv, Active, u, k
  <2>7. CASE /\ phase \in {"granting", "refused"} /\ phase' = "recorded"
             /\ session'["main"] = session["main"]
             /\ session'["second"] = NoTransaction
    BY <1>t, <2>7, <2>0 DEF SecondInv, Active
  <2>8. CASE /\ phase \in {"calling", "refused", "granting"} /\ phase' = phase
             /\ session'["main"] = NoTransaction
             /\ session'["second"] = session["second"]
    BY <1>t, <2>8, <2>0 DEF SecondInv, Active
  <2>9. CASE /\ phase = "calling" /\ phase' = "recording"
             /\ session'["main"]
                  = Moved(session["main"], StoreMessage(1), session["main"].held)
             /\ session'["second"] = session["second"]
             /\ Active("main")
    BY <2>9, <2>0, <2>m DEF SecondInv, Active
  <2> QED BY <1>3, <2>1, <2>2, <2>3, <2>4, <2>5, <2>6, <2>7, <2>8, <2>9 DEF Turns
<1>4. CASE UNCHANGED vars
  BY <1>4 DEF vars, SecondInv, Active
<1> QED BY <1>1, <1>2, <1>3, <1>4, StepKinds

LEMMA OrderInit ==
  ASSUME Init
  PROVE  OrderInv /\ DispatchInv /\ SecondInv
<1>1. /\ session["main"] = Transaction("begin", 1)
      /\ session["second"] = NoTransaction
      /\ \A s \in Others : session[s] = NoTransaction
      /\ phase = "begin"
  BY Apart DEF Init
<1>2. InOrder(Transaction("begin", 1)) /\ InOrder(NoTransaction)
  BY FreshInOrder, WorkerRecords
<1>3. OrderInv
  BY <1>1, <1>2, Apart DEF OrderInv, Sessions
<1>4. /\ NoTransaction.kind = "none" /\ NoTransaction.todo = <<>>
      /\ Transaction("begin", 1).kind = "begin" /\ Transaction("begin", 1).owner = 1
  BY DEF NoTransaction, Transaction
<1>5. DispatchInv
  BY <1>1, <1>4, Apart DEF DispatchInv, OfDispatch
<1>6. SecondInv
  BY <1>1, <1>4 DEF SecondInv, Active
<1> QED BY <1>3, <1>5, <1>6

-----------------------------------------------------------------------------
(* Circles *)

LocksInv == IInv /\ OrderInv /\ DispatchInv /\ SecondInv

\* None of the deadlocks the code is known to have.
Unexplained(S) ==
  /\ S # {"main", "second"}
  /\ ~Runs(S, "draft")
  /\ ~(Runs(S, "prepare") /\ Runs(S, "begin"))
  /\ ~(Cardinality(Sweeps(S)) > 1)
  /\ ~(Runs(S, "archive") /\ phase = "recording" /\ "main" \in S)
  /\ ~Runs(S, "contact")

Wanted(s) == Head(session[s].todo)

\* What a circle is.
LEMMA CircleFacts ==
  ASSUME NEW S \in Circles(WaitsFor)
  PROVE  /\ S \subseteq Sessions /\ S # {}
         /\ \A s \in S : \E t \in S : Waits(s, t) \/ OwnProcess(s, t)
         /\ \A T \in SUBSET Sessions :
              /\ T # {} /\ T \subseteq S
              /\ \A s \in T : \E t \in T : Waits(s, t) \/ OwnProcess(s, t)
              => T = S
<1>1. \A s, t \in Sessions : <<s, t>> \in WaitsFor <=> Waits(s, t) \/ OwnProcess(s, t)
  BY DEF WaitsFor
<1>2. \A T \in SUBSET Sessions :
        Closed(T, WaitsFor) <=> \A s \in T : \E t \in T : Waits(s, t) \/ OwnProcess(s, t)
  BY <1>1 DEF Closed
<1> DEFINE stuck == {T \in SUBSET Sessions : T # {} /\ Closed(T, WaitsFor)}
<1>3. S \in stuck /\ \A T \in stuck : T \subseteq S => T = S
  BY DEF Circles
<1> QED BY <1>2, <1>3

\* Nobody waits for the second connection but the worker that opened it, and then
\* it waits for the worker, in a circle of two.
LEMMA SecondApart ==
  ASSUME LocksInv, NEW S \in Circles(WaitsFor), S # {"main", "second"}
  PROVE  "second" \notin S
<1> SUFFICES ASSUME "second" \in S PROVE FALSE
  OBVIOUS
<1> DEFINE k == Key("user", 1)
           u == Lock("audit", 1)
           r == session["second"]
<1>1. /\ S \subseteq Sessions
      /\ \A s \in S : \E t \in S : Waits(s, t) \/ OwnProcess(s, t)
      /\ \A T \in SUBSET Sessions :
              /\ T # {} /\ T \subseteq S
              /\ \A s \in T : \E t \in T : Waits(s, t) \/ OwnProcess(s, t)
              => T = S
  BY CircleFacts
<1>2. PICK t \in S : Waits("second", t)
  BY <1>1 DEF OwnProcess
<1>3. /\ t # "second" /\ r.todo # <<>>
      /\ r.held = {} /\ Active("second")
      /\ phase \in {"refused", "granting", "finalizing"}
  BY <1>2 DEF Waits, LocksInv, SecondInv
<1>4. \A s \in S : Waits(s, "second") => FALSE
  BY <1>3 DEF Waits
<1>5. CASE "main" \notin S
  <2> DEFINE T == S \ {"second"}
  <2>1. T \in SUBSET Sessions /\ T # {} /\ T \subseteq S /\ T # S
    BY <1>1, <1>2, <1>3
  <2>2. ASSUME NEW s \in T PROVE \E v \in T : Waits(s, v) \/ OwnProcess(s, v)
    <3>1. PICK v \in S : Waits(s, v) \/ OwnProcess(s, v)
      BY <1>1
    <3>2. v # "second"
      BY <1>4, <1>5, <3>1 DEF OwnProcess
    <3> QED BY <3>1, <3>2
  <2> QED BY <1>1, <2>1, <2>2
<1>6. CASE "main" \in S
  <2> DEFINE T == {"main", "second"}
  <2>1. Active("main")
    <3>1. PICK v \in S : Waits("main", v) \/ OwnProcess("main", v)
      BY <1>1, <1>6
    <3>2. session["main"].todo # <<>> \/ Active("main")
      BY <3>1 DEF Waits, OwnProcess
    <3> QED BY <3>2 DEF LocksInv, SecondInv
  <2>2. phase \in {"refused", "granting"}
    BY <1>3, <2>1 DEF LocksInv, SecondInv
  <2>3. \A x \in Elements(LockPermit(1)) : x.mode = "update" => x \in session["main"].held
    BY <2>1, <2>2 DEF LocksInv, IInv, PermitInv, Standing
  <2>4. /\ Lock("user", 1) \in session["main"].held /\ u \in session["main"].held
    <3>1. /\ Lock("user", 1) \in Elements(LockPermit(1)) /\ u \in Elements(LockPermit(1))
      BY PermitRows DEF Owners
    <3>2. Lock("user", 1).mode = "update" /\ u.mode = "update"
      BY Rows
    <3> QED BY <2>3, <3>1, <3>2
  <2>5. r.todo = <<k>> \/ r.todo = <<u>>
    BY <1>3 DEF LocksInv, SecondInv
  <2>6. /\ Conflict(k, Lock("user", 1)) /\ Conflict(u, u)
        /\ k.mode = "key" /\ u.mode = "update"
    BY DEF Conflict, Lock, Key, Statement
  <2>7. Head(r.todo) \in {k, u}
    <3>1. \A x : Head(<<x>>) = x
      OBVIOUS
    <3> HIDE DEF k, u, r
    <3> QED BY <2>5, <3>1
  <2>8. Waits("second", "main")
    <3> HIDE DEF k, u
    <3> QED BY <1>3, <2>4, <2>6, <2>7, Apart DEF Waits
  <2>9. OwnProcess("main", "second")
    BY <1>3, <2>1 DEF OwnProcess
  <2>10. T \in SUBSET Sessions /\ T # {} /\ T \subseteq S
    BY <1>1, <1>6
  <2>11. \A s \in T : \E v \in T : Waits(s, v) \/ OwnProcess(s, v)
    BY <2>8, <2>9
  <2>12. T = S
    BY <1>1, <2>10, <2>11
  <2> QED BY <2>12
<1> QED BY <1>5, <1>6

\* Whoever waits in such a circle waits in the database, and has kept the order.
LEMMA InCircle ==
  ASSUME LocksInv, NEW S \in Circles(WaitsFor), Unexplained(S), NEW s \in S
  PROVE  /\ s \in Sessions /\ s # "second"
         /\ \E t \in S : Waits(s, t)
         /\ session[s].todo # <<>>
         /\ session[s].todo \in Seq(Stmts)
         /\ Wanted(s) = session[s].todo[1] /\ 1 \in 1 .. Len(session[s].todo)
         /\ Wanted(s) \in Elements(session[s].todo) /\ Wanted(s) \in Stmts
         /\ InOrder(session[s])
         /\ session[s].kind \notin Disordered
<1>1. s \in Sessions /\ "second" \notin S
  BY CircleFacts, SecondApart DEF Unexplained
<1>2. PICK t \in S : Waits(s, t) \/ OwnProcess(s, t)
  BY CircleFacts
<1>3. Waits(s, t)
  BY <1>1, <1>2 DEF OwnProcess
<1>4. session[s].todo # <<>>
  BY <1>3 DEF Waits
<1>5. session[s].todo \in Seq(Stmts)
  BY <1>1 DEF LocksInv, IInv, RowsInv, Rec
<1>6. /\ Wanted(s) = session[s].todo[1] /\ 1 \in 1 .. Len(session[s].todo)
      /\ Wanted(s) \in Elements(session[s].todo) /\ Wanted(s) \in Stmts
  <2>1. /\ Len(session[s].todo) \in Nat /\ Len(session[s].todo) > 0
        /\ Head(session[s].todo) = session[s].todo[1]
        /\ Head(session[s].todo) \in Elements(session[s].todo)
    BY <1>4, <1>5, Rest
  <2>2. Head(session[s].todo) \in Stmts
    BY <1>4, <1>5
  <2> QED BY <2>1, <2>2 DEF Wanted
<1>7. session[s].kind \notin Disordered
  BY DEF Unexplained, Runs, Disordered
<1>8. ~Recording(s)
  <2> SUFFICES ASSUME s = "main", phase = "recording" PROVE FALSE
    BY DEF Recording
  <2> DEFINE c == Lock("conversation", 1)
  <2>1. session["main"].todo = <<c>>
    BY <1>4 DEF LocksInv, DispatchInv, StoreMessage
  <2>2. c.row[1] = "conversation"
    BY Rows
  <2>3. Wanted(s) = c
    <3>1. \A x : Head(<<x>>) = x
      OBVIOUS
    <3> HIDE DEF c
    <3> QED BY <2>1, <3>1 DEF Wanted
  <2> HIDE DEF c
  <2>4. PICK y \in session[t].held : y.row = c.row
    BY <1>3, <2>3 DEF Waits, Conflict, Wanted
  <2>5. t \in Sessions /\ t # "main"
    BY <1>3, CircleFacts DEF Waits
  <2>6. InOrder(session[t]) /\ session[t].kind \notin Disordered
    <3>1. ~Recording(t)
      BY <2>5 DEF Recording
    <3>2. session[t].kind \notin Disordered
      BY DEF Unexplained, Runs, Disordered
    <3> QED BY <2>5, <3>1, <3>2 DEF LocksInv, OrderInv
  <2>7. Belongs(session[t].kind, session[t].owner, y)
    BY <2>4, <2>6 DEF InOrder
  <2>8. session[t].kind = "archive"
    BY <2>2, <2>4, <2>7 DEF Belongs
  <2> QED BY <2>8 DEF Unexplained, Runs
<1>9. InOrder(session[s])
  BY <1>1, <1>8 DEF LocksInv, OrderInv
<1> QED BY <1>1, <1>3, <1>4, <1>5, <1>6, <1>7, <1>9

\* What nobody waits with: its guard would be locked twice.
LEMMA NeverWaits ==
  ASSUME LocksInv, NEW S \in Circles(WaitsFor), Unexplained(S), NEW s \in S
  PROVE  ~Unwaited(Wanted(s))
<1> SUFFICES ASSUME Unwaited(Wanted(s)) PROVE FALSE
  OBVIOUS
<1> DEFINE w == Wanted(s)
           r == session[s]
           g == GuardOf(w)
<1>0. Unwaited(w)
  OBVIOUS
<1>1. /\ s \in Sessions /\ InOrder(r) /\ r.kind \notin Disordered
      /\ w \in Elements(r.todo) /\ w = r.todo[1] /\ 1 \in 1 .. Len(r.todo)
  BY InCircle
<1>2. PICK t \in S : Waits(s, t)
  BY InCircle
<1>3. /\ s # t /\ w.mode # "skip" /\ (w.mode = "cancel" => Cancels(t))
      /\ \E z \in session[t].held : Conflict(w, z)
  BY <1>2 DEF Waits, Wanted
<1>4. PICK z \in session[t].held : Conflict(w, z)
  BY <1>3
<1>5. t \in Sessions /\ InOrder(session[t]) /\ session[t].kind \notin Disordered
  BY InCircle
<1> HIDE DEF w, r, g
<1>6. Belongs(r.kind, r.owner, w)
  BY <1>1 DEF InOrder
<1>7. Belongs(session[t].kind, session[t].owner, z)
  BY <1>4, <1>5 DEF InOrder
<1>8. r.kind # "prepare" /\ NeedsGuard(w)
  BY <1>0, <1>3, <1>6 DEF Belongs, Unwaited, NeedsGuard
<1>9. g \in r.held
  <2>1. Guarded(r.held, r.todo)
    BY <1>1, <1>8 DEF InOrder, Protects
  <2>2. ~(\E i \in 1 .. Len(r.todo) : i < 1)
    OBVIOUS
  <2> QED BY <1>1, <1>8, <2>1, <2>2 DEF Guarded, g
<1>10. z.row = w.row
  BY <1>4 DEF Conflict
<1>11. session[t].kind \notin {"prepare", "reap"} \/ w.mode # "cancel"
  BY <1>3 DEF Cancels, OfDispatch
<1>12. w.row[1] = "task" => w.mode = "cancel"
  BY <1>0, <1>3 DEF Unwaited
<1>13. w.row[1] \in {"execution", "connection", "contact"} \/ w.mode = "cancel"
  BY <1>0, <1>3 DEF Unwaited
<1>14. session[t].kind # "prepare"
  BY <1>7, <1>10, <1>11, <1>13 DEF Belongs, Unwaited
<1>15. z.mode # "skip"
  BY <1>7, <1>10, <1>11, <1>12 DEF Belongs
<1>16. NeedsGuard(z) /\ GuardOf(z) = g
  BY <1>8, <1>10, <1>15 DEF NeedsGuard, GuardOf, g
<1>17. g \in session[t].held
  BY <1>4, <1>5, <1>14, <1>16 DEF InOrder, Protects
<1>18. Conflict(g, g)
  <2>1. g.mode = "update"
    BY Rows DEF g, GuardOf
  <2> QED BY <2>1 DEF Conflict
<1>19. Exclusive
  BY DEF LocksInv, IInv, RowsInv
<1> QED BY <1>1, <1>3, <1>5, <1>9, <1>17, <1>18, <1>19 DEF Exclusive, r

\* Two sessions never dispatch tasks of one owner at once.
LEMMA OneDispatch ==
  ASSUME LocksInv, NEW s \in Sessions, NEW t \in Sessions, s # t,
         s # "second", t # "second",
         session[s].kind \in OfDispatch, session[t].kind \in OfDispatch
  PROVE  session[s].owner # session[t].owner
BY DEF LocksInv, DispatchInv, Sessions

\* In the order that begins with p, everybody waits for somebody who wants a later
\* row.
LEMMA Ascends ==
  ASSUME LocksInv, NEW S \in Circles(WaitsFor), Unexplained(S), NEW p \in Owners,
         \A v \in S : session[v].kind \in SweepKinds => p = session[v].owner,
         NEW s \in S, NEW t \in S, Waits(s, t)
  PROVE  Rank(p, Wanted(s).row) < Rank(p, Wanted(t).row)
<1> DEFINE w == Wanted(s)
           x == Wanted(t)
           r == session[s]
           q == session[t]
<1>1. /\ s \in Sessions /\ s # "second" /\ InOrder(r) /\ r.kind \notin Disordered
      /\ w \in Elements(r.todo)
  BY InCircle
<1>2. /\ t \in Sessions /\ t # "second" /\ InOrder(q) /\ q.kind \notin Disordered
      /\ x \in Elements(q.todo)
  BY InCircle
<1>3. ~Unwaited(x) /\ ~Unwaited(w)
  BY NeverWaits
<1>4. /\ s # t /\ \E y \in q.held : Conflict(w, y)
  BY DEF Waits, Wanted
<1>5. PICK y \in q.held : Conflict(w, y)
  BY <1>4
<1>6. y.row = w.row
  BY <1>5 DEF Conflict
<1>p. q.kind \in SweepKinds => p = q.owner
  OBVIOUS
<1>g. /\ s \in S /\ t \in S
      /\ r.kind = session[s].kind /\ q.kind = session[t].kind
      /\ r.owner = session[s].owner /\ q.owner = session[t].owner
  OBVIOUS
<1> HIDE DEF w, x, r, q
<1>7. Before(p, y, x) => Rank(p, w.row) < Rank(p, x.row)
  BY <1>3, <1>6 DEF Before
<1>8. CASE q.kind # "prepare"
  <2>1. Follows(p, q.held, q.todo)
    BY <1>2, <1>8, <1>p DEF InOrder
  <2> QED BY <1>2, <1>5, <1>7, <2>1 DEF Follows, w, x
<1>9. CASE q.kind = "prepare"
  <2>1. PrepareFollows(p, q.held, q.todo)
    BY <1>2, <1>9 DEF InOrder
  <2>2. Belongs(q.kind, q.owner, y) /\ Belongs(r.kind, r.owner, w)
    BY <1>1, <1>2, <1>5 DEF InOrder
  <2>3. y.row[1] # "task"
    <3> SUFFICES ASSUME y.row[1] = "task" PROVE FALSE
      OBVIOUS
    <3>1. y.row[2] = q.owner
      BY <1>9, <2>2 DEF Belongs, Unwaited
    <3>2. r.kind \in {"begin", "prepare", "permit", "finish"} /\ w.row[2] = r.owner
      BY <1>3, <1>6, <2>2 DEF Belongs, Unwaited
    <3>3. r.kind # "begin"
      BY <1>9, <1>g DEF Unexplained, Runs
    <3>4. r.kind \in OfDispatch /\ q.kind \in OfDispatch /\ r.owner = q.owner
      BY <1>6, <1>9, <3>1, <3>2, <3>3 DEF OfDispatch
    <3> QED BY <1>1, <1>2, <1>4, <1>g, <3>4, OneDispatch
  <2> QED BY <1>2, <1>5, <1>7, <2>1, <2>3 DEF PrepareFollows, w, x
<1> QED BY <1>8, <1>9 DEF w, x

\* At most one sweep: the order that begins with its first owner is everybody's.
LEMMA OneSweep ==
  ASSUME LocksInv, NEW S \in Circles(WaitsFor), Unexplained(S)
  PROVE  \E p \in Owners :
            \A v \in S : session[v].kind \in SweepKinds => p = session[v].owner
<1>1. S \subseteq Sessions
  BY CircleFacts
<1>2. \A v \in S : session[v].owner \in Owners
  BY <1>1 DEF LocksInv, IInv, RowsInv, Rec
<1>3. \A v \in S : v \in Sweeps(S) <=> session[v].kind \in SweepKinds
  BY DEF Sweeps, SweepKinds
<1>4. ASSUME NEW v \in Sweeps(S), NEW u \in Sweeps(S), u # v
      PROVE  FALSE
  <2>1. IsFiniteSet(Sweeps(S))
    <3>1. IsFiniteSet({"main", "second"} \cup Others)
      <4>1. IsFiniteSet({"main", "second"})
        <5>1. IsFiniteSet({}) /\ IsFiniteSet({"main"})
          BY FS_EmptySet, FS_Singleton
        <5>2. {"main", "second"} = {"main"} \cup {"second"}
          OBVIOUS
        <5> QED BY <5>1, <5>2, FS_AddElement
      <4> QED BY <4>1, FS_Union, OthersAssumption
    <3>2. Sweeps(S) \subseteq {"main", "second"} \cup Others
      BY <1>1 DEF Sweeps, Sessions
    <3> QED BY <3>1, <3>2, FS_Subset
  <2>2. {v, u} \subseteq Sweeps(S)
    BY <1>4
  <2>3. Cardinality({v, u}) = 2
    <3>1. Cardinality({v}) = 1 /\ IsFiniteSet({v})
      BY FS_Singleton
    <3>2. {v, u} = {v} \cup {u} /\ u \notin {v}
      BY <1>4
    <3> QED BY <3>1, <3>2, FS_AddElement
  <2>4. Cardinality({v, u}) <= Cardinality(Sweeps(S)) /\ Cardinality(Sweeps(S)) \in Nat
    BY <2>1, <2>2, FS_Subset, FS_CardinalityType
  <2>5. Cardinality(Sweeps(S)) > 1
    BY <2>3, <2>4
  <2> QED BY <2>5 DEF Unexplained
<1>5. CASE Sweeps(S) = {}
  BY <1>3, <1>5 DEF Owners
<1>6. CASE Sweeps(S) # {}
  <2>1. PICK v \in Sweeps(S) : TRUE
    BY <1>6
  <2>2. v \in S
    BY <2>1 DEF Sweeps
  <2>3. \A u \in S : session[u].kind \in SweepKinds => u = v
    BY <1>3, <1>4, <2>1
  <2> QED BY <1>2, <2>2, <2>3
<1> QED BY <1>5, <1>6

\* The order has an end.
LEMMA NoCircle ==
  ASSUME LocksInv, NEW S \in Circles(WaitsFor), Unexplained(S)
  PROVE  FALSE
<1>1. PICK p \in Owners :
        \A v \in S : session[v].kind \in SweepKinds => p = session[v].owner
  BY OneSweep
<1> DEFINE R(s) == Rank(p, Wanted(s).row)
           Reaches(n) == \E s \in S : R(s) >= n
<1>2. \A s \in S : R(s) \in 0 .. 16
  <2>1. \A s \in S : Wanted(s).row \in Tables \X Owners
    <3>1. \A s \in S : Wanted(s) \in Stmts
      BY InCircle
    <3> QED BY <3>1 DEF Stmts
  <2> QED BY <2>1, PlaceBounds
<1>3. \A s \in S : \E t \in S : R(s) < R(t)
  <2> SUFFICES ASSUME NEW s \in S PROVE \E t \in S : R(s) < R(t)
    OBVIOUS
  <2>1. PICK t \in S : Waits(s, t)
    BY InCircle
  <2>2. R(s) < R(t)
    BY <1>1, <2>1, Ascends
  <2> QED BY <2>2
<1>4. \E s \in S : TRUE
  BY CircleFacts
<1> HIDE DEF R
<1>5. \A n \in Nat : Reaches(n) => Reaches(n + 1)
  BY <1>2, <1>3
<1>6. \A n \in Nat : Reaches(n) => Reaches(n + 4)
  <2> HIDE DEF Reaches
  <2> SUFFICES ASSUME NEW n \in Nat, Reaches(n) PROVE Reaches(n + 4)
    OBVIOUS
  <2>1. /\ n + 1 \in Nat /\ n + 2 \in Nat /\ n + 3 \in Nat
        /\ (n + 1) + 1 = n + 2 /\ (n + 2) + 1 = n + 3 /\ (n + 3) + 1 = n + 4
    OBVIOUS
  <2>2. Reaches(n + 1)
    BY <1>5
  <2>3. Reaches(n + 2)
    BY <1>5, <2>1, <2>2
  <2>4. Reaches(n + 3)
    BY <1>5, <2>1, <2>3
  <2> QED BY <1>5, <2>1, <2>4
<1>7. Reaches(0)
  BY <1>2, <1>4
<1>8. Reaches(17)
  <2> HIDE DEF Reaches
  <2>1. Reaches(0 + 4)
    BY <1>6, <1>7
  <2>2. Reaches(4 + 4)
    BY <1>6, <2>1
  <2>3. Reaches(8 + 4)
    BY <1>6, <2>2
  <2>4. Reaches(12 + 4)
    BY <1>6, <2>3
  <2> QED BY <1>5, <2>4
<1> QED BY <1>2, <1>8

LEMMA CirclesKnown == LocksInv => KnownDeadlocksOnly
<1> SUFFICES ASSUME LocksInv PROVE KnownDeadlocksOnly
  OBVIOUS
<1>1. \A S \in Circles(WaitsFor) : ~Unexplained(S)
  BY NoCircle
<1> QED BY <1>1 DEF KnownDeadlocksOnly, Unexplained

\* Whoever waits in a circle is one of the deadlocks the code is known to have,
\* however many sessions there are: every other circle would ascend for ever.
THEOREM OrderLeavesKnownDeadlocks == Spec => []KnownDeadlocksOnly
<1>1. Init => LocksInv
  BY InvInit, OrderInit DEF LocksInv
<1>2. LocksInv /\ [Next]_vars => LocksInv'
  BY InvNext, OrderNext, DispatchNext, SecondNext DEF LocksInv
<1> QED BY <1>1, <1>2, CirclesKnown, PTL DEF Spec
=============================================================================
