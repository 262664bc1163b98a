------------------------- MODULE PlannedManifests -------------------------
(***************************************************************************)
(* core/planned_manifests.py with the three tools that use it.             *)
(*                                                                         *)
(* The records sit in one dict per caller, keyed by the digest of the      *)
(* confined manifest text, inside one module-level dict.  There is no      *)
(* lock: tool calls run in a thread pool, so every dictionary operation is *)
(* a step of its own and the steps of all threads interleave.  A dict is   *)
(* an object with an identity here (a number, per caller), because a       *)
(* thread may still hold one that another thread has dropped from          *)
(* _planned.                                                               *)
(*                                                                         *)
(* A table is the set of its records.  "slot" is a record's place in the   *)
(* OrderedDict: a new key goes last, an assignment to a key that is there  *)
(* keeps that key's place.  The approved flag of a record is the set       *)
(* "approvals" of the approvals that set it, with who set it.              *)
(*                                                                         *)
(* A few definitions stand beside the one the code has (ApprovedByText,    *)
(* ExpiredTooLate, NewestInstead, InAnyTable, MarkNothing, FlagUnread):    *)
(* mistakes that a change to the code could make, which the properties     *)
(* below tell from the code.                                               *)
(***************************************************************************)
EXTENDS Integers, FiniteSets

CONSTANTS Callers,    \* the callers' output directories
          Texts,      \* manifest texts, after confinement
          Threads,    \* the threads that serve tool calls
          LIFETIME,   \* PLAN_LIFETIME_SECONDS, in ticks of the clock
          KEPT,       \* PLANS_KEPT_PER_CALLER
          MaxPlans,   \* bound: plan_workflow calls in a behaviour
          MaxClock,   \* bound: ticks in a behaviour
          MaxRestarts \* bound: restarts in a behaviour

ASSUME StoreAssumption ==
    /\ LIFETIME \in Nat
    /\ KEPT \in Nat \ {0}
    /\ MaxPlans \in Nat
    /\ MaxClock \in Nat
    /\ MaxRestarts \in Nat

VARIABLES planned,    \* _planned: each caller's table, 0 when it has no entry
          tables,     \* the OrderedDict objects, by caller and number
          approvals,  \* the approved flags that were set, and by whom
          clock,      \* time.monotonic()
          pc,         \* where each thread is
          job,        \* the store operation each thread is in, or NoJob
          todo,       \* the _planned entries a thread's sweep has yet to visit
          at,         \* the entry its sweep visits, {} for none
          stale,      \* the digests it is about to pop from that entry
          table,      \* the table it got for its own caller, 0 for none
          found,      \* the record it found, {} for none
          calls,      \* plan_workflow calls so far
          restarts,   \* restarts so far
          issued,     \* history: the records stored since the last restart
          returned,   \* history: the numbers of the plans shown to the user
          born,       \* history: how many records were ever stored
          overlapped  \* history: whether two operations were ever in the store
                      \* at a time, since the last restart

store == <<planned, tables, approvals>>
local == <<todo, at, stale, table, found>>
bounds == <<calls, restarts>>
history == <<issued, returned, born, overlapped>>
vars == <<planned, tables, approvals, clock, pc, job, todo, at, stale, table,
          found, calls, restarts, issued, returned, born, overlapped>>

TableIds == 1..MaxPlans
Record == [id : Nat, caller : Callers, text : Texts, planned_at : Nat, slot : Nat]
Approval == [plan : Nat, caller : Callers, text : Texts, over : SUBSET Nat]
Entries == Callers \X TableIds

(* _OPERATIONS, and which of them each tool begins with.                   *)
Operations == {"record plan", "record approval", "plan exists", "approval exists"}
Steps == {"idle", "list", "sweep", "pop", "drop", "table", "displace", "insert",
          "trim", "evict", "find", "mark", "flag", "post"}

Job == [op : Operations, caller : Callers, text : Texts, now : Nat,
        ticket : 0..MaxPlans, stored : Nat, shown : SUBSET Nat]
NoJob == [op |-> "none"]

ApprovedByText(r) == \E a \in approvals : a.caller = r.caller /\ a.text = r.text
Approved(r) == \E a \in approvals : a.plan = r.id
ExpiredTooLate(r, now) == now - r.planned_at > LIFETIME + 1
Expired(r, now) == now - r.planned_at > LIFETIME
Keyed(entries, t) == {r \in entries : r.text = t}
NewestInstead(entries) == {r \in entries : \A q \in entries : q.slot =< r.slot}
Oldest(entries) == {r \in entries : \A q \in entries : r.slot =< q.slot}

(* The entry a lookup would find now: _planned.get(c, {}).get(digest).     *)
Live(c, t) == IF planned[c] = 0 THEN {} ELSE Keyed(tables[c][planned[c]], t)

Move(x, step) == pc' = [pc EXCEPT ![x] = step]

(* The call is answered: what it held is garbage.                          *)
Answer(x) == /\ Move(x, "idle")
             /\ job' = [job EXCEPT ![x] = NoJob]
             /\ table' = [table EXCEPT ![x] = 0]
             /\ found' = [found EXCEPT ![x] = {}]
             /\ UNCHANGED <<todo, at, stale>>

(* History: which of these plans are of this caller and text.              *)
Ids(plans, c, t) == {r.id : r \in {q \in plans : q.caller = c /\ q.text = t}}
ShownPlans == {r \in issued : r.id \in returned}

\* Where a call is in an operation of the store
InStore(step) == step \notin {"idle", "post"}

(* Entering an operation reads the clock.  "stored" and "shown" are history *)
(* of the call: what existed and what the user had seen when it began.     *)
Enter(x, op, c, t, ticket) ==
    /\ job' = [job EXCEPT ![x] = [op |-> op, caller |-> c, text |-> t,
                                  now |-> clock, ticket |-> ticket,
                                  stored |-> born, shown |-> Ids(ShownPlans, c, t)]]
    /\ Move(x, "list")
    /\ overlapped' = (overlapped \/ \E y \in Threads \ {x} : InStore(pc[y]))
    /\ UNCHANGED <<issued, returned, born>>

-----------------------------------------------------------------------------
(* The tool calls.  A manifest that does not parse, leaves the caller's    *)
(* directories or is rejected by /validate is answered before any of this. *)

CallPlan(x, c, t) ==
    /\ pc[x] = "idle"
    /\ calls < MaxPlans
    /\ calls' = calls + 1
    /\ Enter(x, "record plan", c, t, calls + 1)
    /\ UNCHANGED <<store, clock, local, restarts>>

CallApprove(x, c, t) ==
    /\ pc[x] = "idle"
    /\ Enter(x, "record approval", c, t, 0)
    /\ UNCHANGED <<store, clock, local, bounds>>

CallRun(x, c, t) ==
    /\ pc[x] = "idle"
    /\ Enter(x, "plan exists", c, t, 0)
    /\ UNCHANGED <<store, clock, local, bounds>>

-----------------------------------------------------------------------------
(* _forget_expired(now), over every caller's table.                        *)

(* list(_planned.items()) *)
ListTables(x) ==
    /\ pc[x] = "list"
    /\ todo' = [todo EXCEPT ![x] = {e \in Entries : planned[e[1]] = e[2]}]
    /\ Move(x, "sweep")
    /\ UNCHANGED <<store, clock, job, at, stale, table, found, bounds, history>>

(* list(plans.items()): the ages are fixed, so what to pop is known here.  *)
VisitTable(x) ==
    /\ pc[x] = "sweep"
    /\ \E e \in todo[x] :
         /\ todo' = [todo EXCEPT ![x] = @ \ {e}]
         /\ at' = [at EXCEPT ![x] = {e}]
         /\ stale' = [stale EXCEPT ![x] =
                {r.text : r \in {q \in tables[e[1]][e[2]] : Expired(q, job[x].now)}}]
    /\ Move(x, "pop")
    /\ UNCHANGED <<store, clock, job, table, found, bounds, history>>

(* plans.pop(digest, None): whatever the key holds by now.                 *)
PopExpired(x) ==
    /\ pc[x] = "pop"
    /\ \E e \in at[x], t \in stale[x] :
         /\ stale' = [stale EXCEPT ![x] = @ \ {t}]
         /\ tables' = [tables EXCEPT ![e[1]][e[2]] = @ \ Keyed(@, t)]
    /\ UNCHANGED <<planned, approvals, clock, pc, job, todo, at, table, found,
                   bounds, history>>

(* if not plans: *)
TestEmpty(x) ==
    /\ pc[x] = "pop"
    /\ stale[x] = {}
    /\ IF \E e \in at[x] : tables[e[1]][e[2]] = {}
         THEN Move(x, "drop") /\ UNCHANGED at
         ELSE Move(x, "sweep") /\ at' = [at EXCEPT ![x] = {}]
    /\ UNCHANGED <<store, clock, job, todo, stale, table, found, bounds, history>>

(* _planned.pop(caller, None): whichever table the caller has by now.      *)
DropCaller(x) ==
    /\ pc[x] = "drop"
    /\ \E e \in at[x] : planned' = [planned EXCEPT ![e[1]] = 0]
    /\ at' = [at EXCEPT ![x] = {}]
    /\ Move(x, "sweep")
    /\ UNCHANGED <<tables, approvals, clock, job, todo, stale, table, found,
                   bounds, history>>

-----------------------------------------------------------------------------
(* The rest of _record_plan.                                               *)

Swept(x) == pc[x] = "sweep" /\ todo[x] = {}

(* _planned.setdefault(caller, OrderedDict()) *)
SetDefault(x) ==
    LET c == job[x].caller
        n == IF planned[c] = 0 THEN job[x].ticket ELSE planned[c]
    IN /\ Swept(x)
       /\ job[x].op = "record plan"
       /\ planned' = [planned EXCEPT ![c] = n]
       /\ table' = [table EXCEPT ![x] = n]
       /\ Move(x, "displace")
       /\ UNCHANGED <<tables, approvals, clock, job, todo, at, stale, found,
                      bounds, history>>

(* plans.pop(digest, None) *)
Displace(x) ==
    /\ pc[x] = "displace"
    /\ tables' = [tables EXCEPT ![job[x].caller][table[x]] =
                                    @ \ Keyed(@, job[x].text)]
    /\ Move(x, "insert")
    /\ UNCHANGED <<planned, approvals, clock, job, local, bounds, history>>

(* plans[digest] = PlannedManifest(planned_at=now) *)
Stored(x) ==
    LET same == Keyed(tables[job[x].caller][table[x]], job[x].text)
    IN [id |-> born + 1, caller |-> job[x].caller, text |-> job[x].text,
        planned_at |-> job[x].now,
        slot |-> IF same = {} THEN born + 1 ELSE (CHOOSE r \in same : TRUE).slot]

Insert(x) ==
    /\ pc[x] = "insert"
    /\ tables' = [tables EXCEPT ![job[x].caller][table[x]] =
                      (@ \ Keyed(@, job[x].text)) \cup {Stored(x)}]
    /\ found' = [found EXCEPT ![x] = {Stored(x)}]
    /\ issued' = issued \cup {Stored(x)}
    /\ born' = born + 1
    /\ Move(x, "trim")
    /\ UNCHANGED <<planned, approvals, clock, job, todo, at, stale, table,
                   bounds, returned, overlapped>>

(* while len(plans) > PLANS_KEPT_PER_CALLER: *)
OverKept(x) == Cardinality(tables[job[x].caller][table[x]]) > KEPT

TrimMore(x) ==
    /\ pc[x] = "trim"
    /\ OverKept(x)
    /\ Move(x, "evict")
    /\ UNCHANGED <<store, clock, job, local, bounds, history>>

(* plan_workflow answers with the plan: the user sees it.                  *)
TrimDone(x) ==
    /\ pc[x] = "trim"
    /\ ~OverKept(x)
    /\ returned' = returned \cup {r.id : r \in found[x]}
    /\ Answer(x)
    /\ UNCHANGED <<store, clock, bounds, issued, born, overlapped>>

(* plans.popitem(last=False), which raises on a table others have emptied. *)
Evict(x) ==
    /\ pc[x] = "evict"
    /\ tables[job[x].caller][table[x]] # {}
    /\ tables' = [tables EXCEPT ![job[x].caller][table[x]] = @ \ Oldest(@)]
    /\ Move(x, "trim")
    /\ UNCHANGED <<planned, approvals, clock, job, local, bounds, history>>

EvictRaises(x) ==
    /\ pc[x] = "evict"
    /\ tables[job[x].caller][table[x]] = {}
    /\ Answer(x)
    /\ UNCHANGED <<store, clock, bounds, history>>

-----------------------------------------------------------------------------
(* _record(caller, text), and what each operation does with it.            *)

(* _planned.get(caller, {}) *)
GetTable(x) ==
    /\ Swept(x)
    /\ job[x].op # "record plan"
    /\ table' = [table EXCEPT ![x] = planned[job[x].caller]]
    /\ Move(x, "find")
    /\ UNCHANGED <<store, clock, job, todo, at, stale, found, bounds, history>>

InAnyTable(x) == Keyed(UNION {tables[e[1]][e[2]] : e \in Entries}, job[x].text)

(* .get(digest) *)
InTable(x) == IF table[x] = 0 THEN {}
              ELSE Keyed(tables[job[x].caller][table[x]], job[x].text)

(* Nothing there: the tool answers that the manifest was never planned.    *)
FindNothing(x) ==
    /\ pc[x] = "find"
    /\ InTable(x) = {}
    /\ Answer(x)
    /\ UNCHANGED <<store, clock, bounds, history>>

(* manifest_was_planned holds: run_workflow asks manifest_was_approved,    *)
(* which reads the clock and sweeps again.                                 *)
FindPlanned(x) ==
    /\ pc[x] = "find"
    /\ job[x].op = "plan exists"
    /\ InTable(x) # {}
    /\ table' = [table EXCEPT ![x] = 0]
    /\ Enter(x, "approval exists", job[x].caller, job[x].text, 0)
    /\ UNCHANGED <<store, clock, todo, at, stale, found, bounds>>

FindRecord(x) ==
    /\ pc[x] = "find"
    /\ job[x].op \in {"record approval", "approval exists"}
    /\ InTable(x) # {}
    /\ found' = [found EXCEPT ![x] = InTable(x)]
    /\ Move(x, IF job[x].op = "record approval" THEN "mark" ELSE "flag")
    /\ UNCHANGED <<store, clock, job, todo, at, stale, table, bounds, history>>

MarkNothing(x) ==
    /\ pc[x] = "mark"
    /\ Answer(x)
    /\ UNCHANGED <<store, clock, bounds, history>>

(* record.approved = True, and approve_workflow answers APPROVED.          *)
Mark(x) ==
    /\ pc[x] = "mark"
    /\ approvals' = approvals \cup
           {[plan |-> r.id, caller |-> job[x].caller, text |-> job[x].text,
             over |-> Ids(issued, job[x].caller, job[x].text)] : r \in found[x]}
    /\ Answer(x)
    /\ UNCHANGED <<planned, tables, clock, bounds, history>>

FlagUnread(x) ==
    /\ pc[x] = "flag"
    /\ Move(x, "post")
    /\ UNCHANGED <<store, clock, job, local, bounds, history>>

(* record.approved read: run_workflow posts the manifest, or refuses.      *)
FlagSet(x) ==
    /\ pc[x] = "flag"
    /\ \A r \in found[x] : Approved(r)
    /\ Move(x, "post")
    /\ UNCHANGED <<store, clock, job, local, bounds, history>>

FlagUnset(x) ==
    /\ pc[x] = "flag"
    /\ \E r \in found[x] : ~Approved(r)
    /\ Answer(x)
    /\ UNCHANGED <<store, clock, bounds, history>>

(* geodukt's /run has answered, or could not be reached: the record stays, *)
(* whatever the outcome, so the same call may be retried.                  *)
RunAnswered(x) ==
    /\ pc[x] = "post"
    /\ Answer(x)
    /\ UNCHANGED <<store, clock, bounds, history>>

-----------------------------------------------------------------------------
Tick == /\ clock < MaxClock
        /\ clock' = clock + 1
        /\ UNCHANGED <<store, pc, job, local, bounds, history>>

(* A process that has just started knows no plan and serves no call.       *)
Init ==
    /\ planned = [c \in Callers |-> 0]
    /\ tables = [c \in Callers |-> [n \in TableIds |-> {}]]
    /\ approvals = {}
    /\ pc = [x \in Threads |-> "idle"]
    /\ job = [x \in Threads |-> NoJob]
    /\ todo = [x \in Threads |-> {}]
    /\ at = [x \in Threads |-> {}]
    /\ stale = [x \in Threads |-> {}]
    /\ table = [x \in Threads |-> 0]
    /\ found = [x \in Threads |-> {}]
    /\ issued = {}
    /\ returned = {}
    /\ clock = 0 /\ calls = 0 /\ restarts = 0 /\ born = 0
    /\ overlapped = FALSE

(* The process that holds the records stops, and its threads with it.      *)
(* Restarts count from the first plan on: before it there is nothing to    *)
(* lose.                                                                   *)
Restart ==
    /\ restarts < MaxRestarts
    /\ calls > 0
    /\ restarts' = restarts + 1
    /\ planned' = [c \in Callers |-> 0]
    /\ tables' = [c \in Callers |-> [n \in TableIds |-> {}]]
    /\ approvals' = {}
    /\ pc' = [x \in Threads |-> "idle"]
    /\ job' = [x \in Threads |-> NoJob]
    /\ todo' = [x \in Threads |-> {}]
    /\ at' = [x \in Threads |-> {}]
    /\ stale' = [x \in Threads |-> {}]
    /\ table' = [x \in Threads |-> 0]
    /\ found' = [x \in Threads |-> {}]
    /\ issued' = {}
    /\ returned' = {}
    /\ overlapped' = FALSE
    /\ UNCHANGED <<clock, calls, born>>

Call(x) == \E c \in Callers, t \in Texts :
               CallPlan(x, c, t) \/ CallApprove(x, c, t) \/ CallRun(x, c, t)

Sweep(x) == ListTables(x) \/ VisitTable(x) \/ PopExpired(x) \/ TestEmpty(x)
                \/ DropCaller(x)

RecordPlan(x) == SetDefault(x) \/ Displace(x) \/ Insert(x) \/ TrimMore(x)
                     \/ TrimDone(x) \/ Evict(x) \/ EvictRaises(x)

LookUp(x) == GetTable(x) \/ FindNothing(x) \/ FindPlanned(x) \/ FindRecord(x)
                 \/ Mark(x) \/ FlagSet(x) \/ FlagUnset(x) \/ RunAnswered(x)

Step(x) == Sweep(x) \/ RecordPlan(x) \/ LookUp(x)

Next == \/ \E x \in Threads : Call(x) \/ Step(x)
        \/ Tick
        \/ Restart

Spec == Init /\ [][Next]_vars

-----------------------------------------------------------------------------
(* The records, flags and references have the shape the code gives them.   *)
TypeOK ==
    /\ planned \in [Callers -> 0..MaxPlans]
    /\ tables \in [Callers -> [TableIds -> SUBSET Record]]
    /\ approvals \subseteq Approval
    /\ clock \in 0..MaxClock
    /\ pc \in [Threads -> Steps]
    /\ job \in [Threads -> Job \cup {NoJob}]
    /\ todo \in [Threads -> SUBSET Entries]
    /\ at \in [Threads -> SUBSET Entries]
    /\ stale \in [Threads -> SUBSET Texts]
    /\ table \in [Threads -> 0..MaxPlans]
    /\ found \in [Threads -> SUBSET Record]
    /\ calls \in 0..MaxPlans
    /\ restarts \in 0..MaxRestarts
    /\ issued \subseteq Record
    /\ returned \subseteq Nat
    /\ born \in Nat
    /\ overlapped \in BOOLEAN

(* What run_workflow posts was planned by the caller it posts for, as      *)
(* exactly this text, and that caller's own approval of this text is what  *)
(* set the flag of that very record (module docstring, lines 10-19).       *)
RunsOnlyWhatItsCallerApproved ==
    \A x \in Threads : pc[x] = "post" =>
        \E r \in found[x] \cap issued, a \in approvals :
            /\ a.plan = r.id
            /\ r.caller = job[x].caller /\ a.caller = job[x].caller
            /\ r.text = job[x].text /\ a.text = job[x].text

(* A run rests on no record that was past its lifetime when the check read *)
(* the clock, unless that record was stored while the check went on: the   *)
(* sweep of every call and the lookups of the others leave no such window  *)
(* (_forget_expired before every get, lines 95-99).                        *)
NoRunOnAnExpiredPlan ==
    \A x \in Threads : pc[x] = "post" =>
        \A r \in found[x] : \/ r.id > job[x].stored
                            \/ job[x].now - r.planned_at =< LIFETIME

(* The plan r is the caller's newest of its text, it was shown to the      *)
(* user, it has not expired, fewer than KEPT other texts were planned      *)
(* since, and no call is planning the text again.                          *)
StillPromised(r) ==
    /\ r.id \in returned
    /\ clock - r.planned_at =< LIFETIME
    /\ \A q \in issued : q.caller = r.caller /\ q.text = r.text => q.id =< r.id
    /\ Cardinality({q.text : q \in {p \in issued : /\ p.caller = r.caller
                                                   /\ p.id > r.id}}) < KEPT
    /\ \A x \in Threads : pc[x] # "idle" /\ job[x].op = "record plan" =>
            <<job[x].caller, job[x].text>> # <<r.caller, r.text>>

(* A record is kept until it expires (line 27): while it is promised, it   *)
(* is what a lookup of its caller and text finds.                          *)
RecordKeptUntilItExpires ==
    \A r \in issued : StillPromised(r) => Live(r.caller, r.text) = {r}

(* Planning the same text again starts a new record, and the earlier click *)
(* does not carry over (lines 18-19): a run never rests on a click made    *)
(* before a plan of the text, which its caller had been shown by the time  *)
(* of the check, was even stored.                                          *)
EarlierClickDoesNotCarryOver ==
    \A x \in Threads : pc[x] = "post" => \A r \in found[x] :
        \E a \in approvals : a.plan = r.id /\ job[x].shown \subseteq a.over

(* "Approved. run_workflow may now execute this manifest": the record that *)
(* a lookup finds when that is answered has its flag set (lines 114-119).  *)
ApprovalStands ==
    \A x \in Threads, c \in Callers, t \in Texts :
        /\ pc[x] = "mark" /\ pc'[x] = "idle" /\ restarts' = restarts
        /\ job[x].caller = c /\ job[x].text = t
        => (\E r \in Live(c, t) : Approved(r))'

(* Overlapping operations break these promises, and nothing else does: on  *)
(* any threads, while operations come one after the other, a record is     *)
(* kept until it expires,                                                  *)
KeptInTurn == ~overlapped => RecordKeptUntilItExpires

(* no click carries over to a later plan, though runs last over the calls  *)
(* of others,                                                              *)
ClickedInTurn == ~overlapped => EarlierClickDoesNotCarryOver

(* and an approval that is answered stands.                                *)
ApprovedInTurn == [][~overlapped => ApprovalStands]_vars

-----------------------------------------------------------------------------
(* The refinement: a plan is on record once it is stored, and a run is on  *)
(* its way to geodukt from the moment its flag was read until the answer.  *)
AsPlan(r) == [id |-> r.id, caller |-> r.caller, text |-> r.text]
AsApproval(n, c, t) == [plan |-> n, caller |-> c, text |-> t]
Running == [x \in Threads |->
    IF pc[x] = "post"
      THEN {AsApproval(r.id, job[x].caller, job[x].text) : r \in found[x]}
      ELSE {}]

Promise == INSTANCE WorkflowApproval
               WITH count <- born,
                    plans <- {AsPlan(r) : r \in issued},
                    approved <- {AsApproval(a.plan, a.caller, a.text) : a \in approvals},
                    running <- Running

(* The store and the tools, interleaved at every dictionary operation,     *)
(* implement the atomic promise: no run without a recorded and approved    *)
(* plan, no approval without a plan, nothing across a restart.             *)
ImplementsWorkflowApproval == Promise!Spec
=============================================================================
