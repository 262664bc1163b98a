------------------------- MODULE WorkflowApproval -------------------------
(***************************************************************************)
(* What the plan, approve and run tools promise together, with no store,   *)
(* no sweeps and no interleaving inside a call: a pipeline runs only on a  *)
(* plan that was recorded for the caller and that the caller approved, and *)
(* a restart of the process that keeps the records forgets all of them.    *)
(*                                                                         *)
(* PlannedManifests implements this specification.                         *)
(***************************************************************************)
EXTENDS Naturals

CONSTANTS Callers,   \* the callers' output directories
          Texts,     \* manifest texts, after confinement
          Threads    \* the threads that serve tool calls

VARIABLES count,     \* how many plans were ever recorded
          plans,     \* the plans recorded since the process started
          approved,  \* the approvals: of which plan, by whom, of what text
          running    \* what each thread has geodukt run, for whom, or {}

vars == <<count, plans, approved, running>>

Init == /\ count = 0
        /\ plans = {}
        /\ approved = {}
        /\ running = [x \in Threads |-> {}]

(* plan_workflow shows the user a manifest it had validated. *)
RecordPlan(c, t) ==
    /\ count' = count + 1
    /\ plans' = plans \cup {[id |-> count + 1, caller |-> c, text |-> t]}
    /\ UNCHANGED <<approved, running>>

Of(p, c, t) == p.caller = c /\ p.text = t
Approval(p, c, t) == [plan |-> p.id, caller |-> c, text |-> t]

(* The click attaches to a plan of this caller and this text, or to none.  *)
Approve(c, t) ==
    /\ \E p \in plans : /\ Of(p, c, t)
                        /\ approved' = approved \cup {Approval(p, c, t)}
    /\ UNCHANGED <<count, plans, running>>

(* run_workflow sends the manifest to geodukt, for the caller that asks.   *)
StartRun(x, c, t) ==
    /\ running[x] = {}
    /\ \E p \in plans : /\ Of(p, c, t)
                        /\ Approval(p, c, t) \in approved
                        /\ running' = [running EXCEPT ![x] = {Approval(p, c, t)}]
    /\ UNCHANGED <<count, plans, approved>>

EndRun(x) ==
    /\ running[x] # {}
    /\ running' = [running EXCEPT ![x] = {}]
    /\ UNCHANGED <<count, plans, approved>>

Restart == /\ plans' = {}
           /\ approved' = {}
           /\ running' = [x \in Threads |-> {}]
           /\ UNCHANGED count

Next == \/ \E c \in Callers, t \in Texts : RecordPlan(c, t) \/ Approve(c, t)
        \/ \E x \in Threads, c \in Callers, t \in Texts : StartRun(x, c, t)
        \/ \E x \in Threads : EndRun(x)
        \/ Restart

Spec == Init /\ [][Next]_vars
=============================================================================
