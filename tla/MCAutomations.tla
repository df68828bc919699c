----------------------------- MODULE MCAutomations -----------------------------
(***************************************************************************)
(* Automations on two automations and two users, without the product of    *)
(* both: either one automation is edited, or nobody edits and both come    *)
(* due at intervals.  The scheduler is not held up by that.                *)
(***************************************************************************)
EXTENDS Automations

First == CHOOSE a \in Automations : TRUE

Small ==
  \/ rows \cup deleted \subseteq {First}
  \/ /\ First \in rows \cup deleted
     /\ \A u \in Users : edit[u] = NoEdit
     /\ \A a \in Automations : schedule[a].frequency = "Interval" /\ schedule[a].interval \in {2, Null}

MCSpec == Init /\ [][Next /\ Small']_vars /\ WF_vars(Scheduler)
===============================================================================
