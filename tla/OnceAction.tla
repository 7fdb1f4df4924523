------------------------------ MODULE OnceAction ------------------------------
(***************************************************************************)
(* What the agent promises its owner of every account action, whatever     *)
(* fails on the way: it is sent to the provider at most once, it takes     *)
(* effect only after it was sent, and it ends in a report that stays.  The *)
(* report is true for good: done means the effect is there, void that      *)
(* there is none and never will be; what nobody knows is under review.     *)
(***************************************************************************)
EXTENDS Integers

CONSTANT Actions
VARIABLES report, sent, effect

actionVars == <<report, sent, effect>>

Reports == {"planned", "dispatched", "done", "void", "review"}

OnceInit ==
    /\ report = [a \in Actions |-> "planned"]
    /\ sent = [a \in Actions |-> 0]
    /\ effect = [a \in Actions |-> FALSE]

Keep(a) ==
    report'[a] = report[a] /\ sent'[a] = sent[a] /\ effect'[a] = effect[a]

\* Not yet sent, an action may be dropped at any time.
Dispatch(a) == report[a] = "planned" /\ report'[a] = "dispatched"
Drop(a) == report[a] = "planned" /\ report'[a] = "void"

\* A worker that was given up as lost may still send its action, and the provider
\* may still carry it out; then the action is under review.
Undecided(a) == report[a] \in {"dispatched", "review"}
Send(a) == Undecided(a) /\ sent[a] = 0 /\ sent'[a] = 1
Happen(a) == Undecided(a) /\ sent[a] = 1 /\ ~effect[a] /\ effect'[a] = TRUE

Report(a) ==
    /\ report[a] = "dispatched"
    /\ \/ report'[a] = "done" /\ effect[a]
       \/ report'[a] = "void" /\ ~effect[a]
       \/ report'[a] = "review"

Step(a) ==
    \/ Keep(a)
    \/ (Dispatch(a) \/ Drop(a) \/ Report(a))
       /\ sent'[a] = sent[a] /\ effect'[a] = effect[a]
    \/ Send(a) /\ report'[a] = report[a] /\ effect'[a] = effect[a]
    \/ Happen(a) /\ report'[a] = report[a] /\ sent'[a] = sent[a]

OnceNext == \A a \in Actions : Step(a)

OnceSpec == OnceInit /\ [][OnceNext]_actionVars

=============================================================================
