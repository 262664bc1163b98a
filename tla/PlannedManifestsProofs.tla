---------------------- MODULE PlannedManifestsProofs ----------------------
(***************************************************************************)
(* Theorems about PlannedManifests, for any callers, texts, threads,       *)
(* lifetime, cap and bounds.  The inductive invariant says in which steps  *)
(* a thread's references are meaningful (Located), that what is in a       *)
(* caller's tables was stored for that caller and that a stored record is  *)
(* known by its number (Stocked), and what a lookup has in hand (Handled). *)
(* At the end, what calls keep besides that do not overlap (InTurn).       *)
(***************************************************************************)
EXTENDS PlannedManifests, FiniteSetTheorems, TLAPS

(* Every step but "idle" serves an operation, and the steps of             *)
(* _record_plan that use a table have one.                                 *)
Serving == \A x \in Threads : pc[x] # "idle" => job[x] \in Job

Ticketed == \A x \in Threads : pc[x] # "idle" /\ job[x].op = "record plan" =>
                job[x].ticket \in TableIds

Planning(step) == step \in {"displace", "insert", "trim", "evict"}

Holding == \A x \in Threads : Planning(pc[x]) =>
               table[x] \in TableIds /\ job[x].op = "record plan"

Located == Serving /\ Ticketed /\ Holding

LEMMA InitTyped == Init => TypeOK
  <1> SUFFICES ASSUME Init PROVE TypeOK
    OBVIOUS
  <1>1. overlapped \in BOOLEAN
    BY DEF Init
  <1> QED
    BY <1>1, StoreAssumption DEF Init, TypeOK, TableIds, Record, Approval, Steps, Entries

LEMMA InitLocated == Init => Located
  BY DEF Init, Located, Serving, Ticketed, Holding, Planning

(* What entering an operation, or answering a call, does to the types.     *)
LEMMA EnterTyped ==
    ASSUME TypeOK, NEW x \in Threads, NEW op \in Operations, NEW c \in Callers,
           NEW t \in Texts, NEW ticket \in 0..MaxPlans, Enter(x, op, c, t, ticket)
    PROVE  /\ pc' = [pc EXCEPT ![x] = "list"]
           /\ job' \in [Threads -> Job \cup {NoJob}]
           /\ job'[x] \in Job
           /\ job'[x].op = op
           /\ job'[x].caller = c
           /\ job'[x].text = t
           /\ job'[x].ticket = ticket
           /\ \A y \in Threads : y # x => job'[y] = job[y]
           /\ UNCHANGED <<issued, returned, born>>
           /\ overlapped' \in BOOLEAN
  <1> DEFINE J == [op |-> op, caller |-> c, text |-> t, now |-> clock,
                   ticket |-> ticket, stored |-> born, shown |-> Ids(ShownPlans, c, t)]
  <1>1. Ids(ShownPlans, c, t) \subseteq Nat
    BY DEF TypeOK, Ids, ShownPlans, Record
  <1>2. clock \in Nat /\ born \in Nat
    BY StoreAssumption DEF TypeOK
  <1>3. J \in Job
    BY <1>1, <1>2 DEF Job
  <1>4. job' = [job EXCEPT ![x] = J] /\ pc' = [pc EXCEPT ![x] = "list"]
    BY DEF Enter, Move
  <1>5. job \in [Threads -> Job \cup {NoJob}]
    BY DEF TypeOK
  <1>6. job'[x] = J /\ \A y \in Threads : y # x => job'[y] = job[y]
    BY <1>4, <1>5
  <1>7. job' \in [Threads -> Job \cup {NoJob}]
    BY <1>3, <1>4, <1>5
  <1>8. overlapped' \in BOOLEAN /\ UNCHANGED <<issued, returned, born>>
    BY DEF Enter, TypeOK
  <1> QED
    BY <1>3, <1>4, <1>6, <1>7, <1>8

LEMMA AnswerTyped ==
    ASSUME TypeOK, NEW x \in Threads, Answer(x)
    PROVE  /\ pc' \in [Threads -> Steps]
           /\ job' \in [Threads -> Job \cup {NoJob}]
           /\ table' \in [Threads -> 0..MaxPlans]
           /\ found' \in [Threads -> SUBSET Record]
           /\ UNCHANGED <<todo, at, stale>>
  <1>1. 0 \in 0..MaxPlans
    BY StoreAssumption
  <1> QED
    BY <1>1 DEF Answer, Move, TypeOK, Steps

(* Taking records out of a table keeps it a table.                         *)
LEMMA Fewer ==
    ASSUME TypeOK, NEW c, NEW n, NEW S,
           tables' = [tables EXCEPT ![c][n] = @ \ S]
    PROVE  tables' \in [Callers -> [TableIds -> SUBSET Record]]
  <1>1. tables \in [Callers -> [TableIds -> SUBSET Record]]
    BY DEF TypeOK
  <1> DEFINE new == [tables[c] EXCEPT ![n] = @ \ S]
  <1>2. tables' = [tables EXCEPT ![c] = new]
    OBVIOUS
  <1>3. c \in Callers => new \in [TableIds -> SUBSET Record]
    <2> SUFFICES ASSUME c \in Callers
                 PROVE  new \in [TableIds -> SUBSET Record]
      OBVIOUS
    <2>1. tables[c] \in [TableIds -> SUBSET Record]
      BY <1>1
    <2> QED
      BY <2>1
  <1> HIDE DEF new
  <1> QED
    BY <1>1, <1>2, <1>3

LEMMA NextTyped == TypeOK /\ Located /\ [Next]_vars => TypeOK'
  <1> SUFFICES ASSUME TypeOK, Located, [Next]_vars
               PROVE  TypeOK'
    OBVIOUS
  <1> USE StoreAssumption DEF store, local, bounds, history, Move
  <1>1. ASSUME NEW x \in Threads, NEW c \in Callers, NEW t \in Texts,
               CallPlan(x, c, t)
        PROVE  TypeOK'
    <2>1. calls + 1 \in 0..MaxPlans
      <3>1. calls < MaxPlans
        BY <1>1 DEF CallPlan
      <3> QED
        BY <3>1 DEF TypeOK
    <2>2. "record plan" \in Operations
      BY DEF Operations
    <2> QED
      BY <1>1, <2>1, <2>2, EnterTyped, ZenonT(40) DEF CallPlan, TypeOK, Steps
  <1>2. ASSUME NEW x \in Threads, NEW c \in Callers, NEW t \in Texts,
               CallApprove(x, c, t) \/ CallRun(x, c, t)
        PROVE  TypeOK'
    <2>1. {"record approval", "plan exists"} \subseteq Operations /\ 0 \in 0..MaxPlans
      BY DEF Operations
    <2> QED
      BY <1>2, <2>1, EnterTyped, ZenonT(40) DEF CallApprove, CallRun, TypeOK, Steps
  <1>4. ASSUME NEW x \in Threads, ListTables(x)
        PROVE  TypeOK'
    BY <1>4 DEF ListTables, TypeOK, Steps
  <1>5. ASSUME NEW x \in Threads, VisitTable(x)
        PROVE  TypeOK'
    BY <1>5 DEF VisitTable, Entries, Record, TypeOK, Steps
  <1>6. ASSUME NEW x \in Threads, PopExpired(x)
        PROVE  TypeOK'
    BY <1>6 DEF PopExpired, Entries, Keyed, TypeOK, Steps
  <1>7. ASSUME NEW x \in Threads, TestEmpty(x)
        PROVE  TypeOK'
    BY <1>7 DEF TestEmpty, TypeOK, Steps
  <1>8. ASSUME NEW x \in Threads, DropCaller(x)
        PROVE  TypeOK'
    BY <1>8 DEF DropCaller, Entries, TypeOK, Steps
  <1>9. ASSUME NEW x \in Threads, SetDefault(x)
        PROVE  TypeOK'
    <2>1. job[x] \in Job /\ job[x].ticket \in TableIds
      BY <1>9 DEF SetDefault, Swept, Located, Serving, Ticketed
    <2>2. job[x].caller \in Callers /\ job[x].ticket \in 0..MaxPlans
      BY <2>1 DEF Job, TableIds
    <2> QED
      BY <1>9, <2>2 DEF SetDefault, TypeOK, Steps
  <1>10. ASSUME NEW x \in Threads, Displace(x)
         PROVE  TypeOK'
    <2>1. tables' = [tables EXCEPT ![job[x].caller][table[x]] =
                         @ \ Keyed(@, job[x].text)]
      BY <1>10 DEF Displace
    <2>2. tables' \in [Callers -> [TableIds -> SUBSET Record]]
      BY <2>1, Fewer
    <2> QED
      BY <1>10, <2>2 DEF Displace, TypeOK, Steps
  <1>11. ASSUME NEW x \in Threads, Insert(x)
         PROVE  TypeOK'
    <2>1. job[x] \in Job
      BY <1>11 DEF Insert, Located, Serving
    <2>2. table[x] \in TableIds
      BY <1>11 DEF Insert, Located, Holding, Planning
    <2>3. /\ job[x].caller \in Callers
          /\ tables[job[x].caller][table[x]] \subseteq Record
      BY <2>1, <2>2 DEF Job, TypeOK
    <2>4. Stored(x) \in Record
      BY <2>1, <2>3 DEF Stored, Job, Record, Keyed, TypeOK
    <2> QED
      BY <1>11, <2>2, <2>3, <2>4 DEF Insert, TypeOK, Steps
  <1>12. ASSUME NEW x \in Threads, TrimMore(x)
         PROVE  TypeOK'
    BY <1>12 DEF TrimMore, TypeOK, Steps
  <1>13. ASSUME NEW x \in Threads, TrimDone(x)
         PROVE  TypeOK'
    <2>1. returned' \subseteq Nat
      <3>1. returned' = returned \cup {r.id : r \in found[x]}
        BY <1>13 DEF TrimDone
      <3>2. found[x] \subseteq Record /\ returned \subseteq Nat
        BY DEF TypeOK
      <3>3. \A r \in found[x] : r.id \in Nat
        BY <3>2 DEF Record
      <3> QED
        BY <3>1, <3>2, <3>3
    <2> QED
      BY <1>13, <2>1, AnswerTyped DEF TrimDone, TypeOK
  <1>14. ASSUME NEW x \in Threads, Evict(x)
         PROVE  TypeOK'
    <2>1. tables' = [tables EXCEPT ![job[x].caller][table[x]] = @ \ Oldest(@)]
      BY <1>14 DEF Evict
    <2>2. tables' \in [Callers -> [TableIds -> SUBSET Record]]
      BY <2>1, Fewer
    <2> QED
      BY <1>14, <2>2 DEF Evict, TypeOK, Steps
  <1>15. ASSUME NEW x \in Threads,
                \/ EvictRaises(x) \/ FindNothing(x) \/ FlagUnset(x) \/ RunAnswered(x)
         PROVE  TypeOK'
    BY <1>15, AnswerTyped DEF EvictRaises, FindNothing, FlagUnset, RunAnswered, TypeOK
  <1>16. ASSUME NEW x \in Threads, GetTable(x)
         PROVE  TypeOK'
    <2>1. job[x].caller \in Callers
      BY <1>16 DEF GetTable, Swept, Job, Located, Serving
    <2> QED
      BY <1>16, <2>1 DEF GetTable, TypeOK, Steps
  <1>18. ASSUME NEW x \in Threads, FindPlanned(x)
         PROVE  TypeOK'
    <2>1. pc[x] = "find"
      BY <1>18 DEF FindPlanned
    <2>2. job[x].caller \in Callers /\ job[x].text \in Texts
      BY <2>1 DEF Job, Located, Serving
    <2>3. "approval exists" \in Operations /\ 0 \in 0..MaxPlans
      BY DEF Operations
    <2>4. Enter(x, "approval exists", job[x].caller, job[x].text, 0)
      BY <1>18 DEF FindPlanned
    <2>5. /\ pc' = [pc EXCEPT ![x] = "list"]
          /\ job' \in [Threads -> Job \cup {NoJob}]
          /\ overlapped' \in BOOLEAN /\ UNCHANGED <<issued, returned, born>>
      BY <2>2, <2>3, <2>4, EnterTyped
    <2>6. /\ table' = [table EXCEPT ![x] = 0]
          /\ UNCHANGED <<store, clock, todo, at, stale, found, bounds>>
      BY <1>18 DEF FindPlanned
    <2> QED
      BY <2>3, <2>5, <2>6 DEF TypeOK, Steps
  <1>19. ASSUME NEW x \in Threads, FindRecord(x)
         PROVE  TypeOK'
    <2>1. job[x].caller \in Callers
      BY <1>19 DEF FindRecord, Job, Located, Serving
    <2>2. InTable(x) \subseteq Record
      BY <2>1 DEF InTable, Keyed, TypeOK, TableIds
    <2> QED
      BY <1>19, <2>2 DEF FindRecord, TypeOK, Steps
  <1>20. ASSUME NEW x \in Threads, Mark(x)
         PROVE  TypeOK'
    <2>1. job[x].caller \in Callers /\ job[x].text \in Texts
      BY <1>20 DEF Mark, Job, Located, Serving
    <2>2. Ids(issued, job[x].caller, job[x].text) \subseteq Nat
      BY DEF Ids, TypeOK, Record
    <2>3. approvals' \subseteq Approval
      BY <1>20, <2>1, <2>2 DEF Mark, Approval, Record, TypeOK
    <2> QED
      BY <1>20, <2>3, AnswerTyped DEF Mark, TypeOK
  <1>21. ASSUME NEW x \in Threads, FlagSet(x)
         PROVE  TypeOK'
    BY <1>21 DEF FlagSet, TypeOK, Steps
  <1>23. CASE Tick
    BY <1>23 DEF Tick, TypeOK
  <1>24. CASE Restart
    <2>1. overlapped' \in BOOLEAN
      BY <1>24 DEF Restart
    <2> QED
      BY <1>24, <2>1 DEF Restart, TableIds, TypeOK, Steps
  <1>25. CASE UNCHANGED vars
    BY <1>25 DEF vars, TypeOK
  <1> QED
    BY <1>1, <1>2, <1>4, <1>5, <1>6, <1>7, <1>8, <1>9, <1>10, <1>11, <1>12,
       <1>13, <1>14, <1>15, <1>16, <1>18, <1>19, <1>20, <1>21, <1>23,
       <1>24, <1>25
    DEF Next, Call, Step, Sweep, RecordPlan, LookUp

-----------------------------------------------------------------------------
(* A move of one thread that keeps its operation and its table.            *)
LEMMA MoveLocated ==
    ASSUME TypeOK, Located, NEW x \in Threads, NEW s \in Steps,
           pc[x] # "idle", pc' = [pc EXCEPT ![x] = s],
           Planning(s) => Planning(pc[x]), job' = job, table' = table
    PROVE  Located'
  <1>1. /\ pc'[x] = s
        /\ \A y \in Threads : y # x => pc'[y] = pc[y]
    BY DEF TypeOK
  <1> QED
    BY <1>1 DEF Located, Serving, Ticketed, Holding

LEMMA AnswerLocated ==
    ASSUME TypeOK, Located, NEW x \in Threads, Answer(x)
    PROVE  Located'
  <1>1. /\ pc'[x] = "idle"
        /\ \A y \in Threads \ {x} :
              pc'[y] = pc[y] /\ job'[y] = job[y] /\ table'[y] = table[y]
    BY DEF Answer, Move, TypeOK
  <1>2. ~Planning("idle")
    BY DEF Planning
  <1> QED
    BY <1>1, <1>2 DEF Located, Serving, Ticketed, Holding

LEMMA EnterLocated ==
    ASSUME TypeOK, Located, NEW x \in Threads, NEW op \in Operations,
           NEW c \in Callers, NEW t \in Texts, NEW ticket \in 0..MaxPlans,
           Enter(x, op, c, t, ticket), op = "record plan" => ticket \in TableIds,
           \A y \in Threads \ {x} : table'[y] = table[y]
    PROVE  Located'
  <1>1. /\ pc'[x] = "list"
        /\ \A y \in Threads \ {x} : pc'[y] = pc[y]
    <2>1. pc' = [pc EXCEPT ![x] = "list"]
      BY EnterTyped
    <2> QED
      BY <2>1 DEF TypeOK
  <1>2. /\ job'[x] \in Job /\ job'[x].op = op /\ job'[x].ticket = ticket
        /\ \A y \in Threads \ {x} : job'[y] = job[y]
    BY EnterTyped, ZenonT(40)
  <1>3. ~Planning("list")
    BY DEF Planning
  <1> QED
    BY <1>1, <1>2, <1>3 DEF Located, Serving, Ticketed, Holding

LEMMA NextLocated == TypeOK /\ Located /\ [Next]_vars => Located'
  <1> SUFFICES ASSUME TypeOK, Located, [Next]_vars
               PROVE  Located'
    OBVIOUS
  <1>0. /\ 0 \in 0..MaxPlans
        /\ {"record plan", "record approval", "plan exists", "approval exists"}
               = Operations
    BY StoreAssumption DEF Operations
  <1>1. ASSUME NEW x \in Threads, NEW c \in Callers, NEW t \in Texts,
               CallPlan(x, c, t)
        PROVE  Located'
    <2>1. Enter(x, "record plan", c, t, calls + 1) /\ table' = table
      BY <1>1 DEF CallPlan, local
    <2>2. calls < MaxPlans
      BY <1>1 DEF CallPlan
    <2>3. calls \in 0..MaxPlans /\ MaxPlans \in Nat
      BY StoreAssumption DEF TypeOK
    <2>4. calls + 1 \in 0..MaxPlans /\ calls + 1 \in TableIds
      BY <2>2, <2>3 DEF TableIds
    <2> QED
      BY <1>0, <2>1, <2>4, EnterLocated
  <1>2. ASSUME NEW x \in Threads, NEW c \in Callers, NEW t \in Texts,
               CallApprove(x, c, t) \/ CallRun(x, c, t)
        PROVE  Located'
    <2>1. /\ \/ Enter(x, "record approval", c, t, 0)
             \/ Enter(x, "plan exists", c, t, 0)
          /\ table' = table
      BY <1>2 DEF CallApprove, CallRun, local
    <2> QED
      BY <1>0, <2>1, EnterLocated
  <1>3. ASSUME NEW x \in Threads, FindPlanned(x)
        PROVE  Located'
    <2>1. /\ pc[x] = "find" /\ table' = [table EXCEPT ![x] = 0]
          /\ Enter(x, "approval exists", job[x].caller, job[x].text, 0)
      BY <1>3 DEF FindPlanned
    <2>2. job[x].caller \in Callers /\ job[x].text \in Texts
      BY <2>1 DEF Located, Serving, Job
    <2>3. \A y \in Threads \ {x} : table'[y] = table[y]
      BY <2>1 DEF TypeOK
    <2> QED
      BY <1>0, <2>1, <2>2, <2>3, EnterLocated
  <1>4. ASSUME NEW x \in Threads,
               \/ TrimDone(x) \/ EvictRaises(x) \/ FindNothing(x) \/ Mark(x)
               \/ FlagUnset(x) \/ RunAnswered(x)
        PROVE  Located'
    <2>1. Answer(x)
      BY <1>4 DEF TrimDone, EvictRaises, FindNothing, Mark, FlagUnset, RunAnswered
    <2> QED
      BY <2>1, AnswerLocated
  <1>5. ASSUME NEW x \in Threads,
               \/ ListTables(x) \/ VisitTable(x) \/ TestEmpty(x) \/ DropCaller(x)
               \/ FindRecord(x) \/ FlagSet(x)
        PROVE  Located'
    <2>1. /\ pc[x] # "idle" /\ job' = job /\ table' = table
          /\ \E s \in {"sweep", "pop", "drop", "mark", "flag", "post"} :
                 pc' = [pc EXCEPT ![x] = s]
      BY <1>5 DEF ListTables, VisitTable, TestEmpty, DropCaller, FindRecord, FlagSet,
                  Move, local
    <2>2. \A s \in {"sweep", "pop", "drop", "mark", "flag", "post"} :
              s \in Steps /\ ~Planning(s)
      BY DEF Steps, Planning
    <2> QED
      BY <2>1, <2>2, MoveLocated
  <1>6. ASSUME NEW x \in Threads,
               Displace(x) \/ Insert(x) \/ TrimMore(x) \/ Evict(x)
        PROVE  Located'
    <2>1. /\ pc[x] # "idle" /\ job' = job /\ table' = table /\ Planning(pc[x])
          /\ \E s \in {"insert", "trim", "evict"} : pc' = [pc EXCEPT ![x] = s]
      BY <1>6 DEF Displace, Insert, TrimMore, Evict, Move, local, Planning
    <2>2. {"insert", "trim", "evict"} \subseteq Steps
      BY DEF Steps
    <2> QED
      BY <2>1, <2>2, MoveLocated
  <1>7. ASSUME NEW x \in Threads, SetDefault(x)
        PROVE  Located'
    <2> DEFINE n == IF planned[job[x].caller] = 0 THEN job[x].ticket
                                                  ELSE planned[job[x].caller]
    <2>1. /\ pc[x] = "sweep" /\ job[x].op = "record plan" /\ job' = job
          /\ pc' = [pc EXCEPT ![x] = "displace"]
          /\ table' = [table EXCEPT ![x] = n]
      BY <1>7 DEF SetDefault, Swept, Move
    <2>2. job[x] \in Job /\ job[x].ticket \in TableIds
      BY <2>1 DEF Located, Serving, Ticketed
    <2>3. planned[job[x].caller] \in 0..MaxPlans
      BY <2>2 DEF Job, TypeOK
    <2>4. n \in TableIds
      BY <2>2, <2>3, StoreAssumption DEF TableIds
    <2>5. /\ pc'[x] = "displace" /\ table'[x] = n
          /\ \A y \in Threads \ {x} : pc'[y] = pc[y] /\ table'[y] = table[y]
      BY <2>1 DEF TypeOK
    <2> QED
      BY <2>1, <2>2, <2>4, <2>5 DEF Located, Serving, Ticketed, Holding
  <1>8. ASSUME NEW x \in Threads, GetTable(x)
        PROVE  Located'
    <2>1. /\ pc[x] = "sweep" /\ job' = job
          /\ pc' = [pc EXCEPT ![x] = "find"]
          /\ table' = [table EXCEPT ![x] = planned[job[x].caller]]
      BY <1>8 DEF GetTable, Swept, Move
    <2>2. /\ pc'[x] = "find"
          /\ \A y \in Threads \ {x} : pc'[y] = pc[y] /\ table'[y] = table[y]
      BY <2>1 DEF TypeOK
    <2>3. ~Planning("find")
      BY DEF Planning
    <2> QED
      BY <2>1, <2>2, <2>3 DEF Located, Serving, Ticketed, Holding
  <1>9. CASE Restart
    <2>1. \A x \in Threads : pc'[x] = "idle"
      BY <1>9 DEF Restart
    <2>2. ~Planning("idle")
      BY DEF Planning
    <2> QED
      BY <2>1, <2>2 DEF Located, Serving, Ticketed, Holding
  <1>10. ASSUME NEW x \in Threads, PopExpired(x)
         PROVE  Located'
    BY <1>10 DEF PopExpired, Located, Serving, Ticketed, Holding
  <1>11. CASE Tick \/ UNCHANGED vars
    BY <1>11 DEF Tick, vars, local, Located, Serving, Ticketed, Holding
  <1> QED
    BY <1>1, <1>2, <1>3, <1>4, <1>5, <1>6, <1>7, <1>8, <1>9, <1>10, <1>11
    DEF Next, Call, Step, Sweep, RecordPlan, LookUp

(* The store's records, flags and references keep their shape, however     *)
(* many calls interleave at its dictionary operations.                     *)
THEOREM TypeCorrect == Spec => []TypeOK
  <1>1. Spec => [](TypeOK /\ Located)
    BY InitTyped, InitLocated, NextTyped, NextLocated, PTL DEF Spec
  <1> QED
    BY <1>1, PTL

-----------------------------------------------------------------------------
(* What is in a caller's tables was stored for that caller since the last  *)
(* restart, one record to a text; a record is known by its number; and an  *)
(* approval is of a record of the caller and the text it was given for.    *)
InStock == \A c \in Callers, n \in TableIds : \A r \in tables[c][n] :
               r \in issued /\ r.caller = c

OnePerText == \A c \in Callers, n \in TableIds : \A r, q \in tables[c][n] :
                  r.text = q.text => r = q

Numbered == /\ \A r \in issued : r.id =< born
            /\ \A r, q \in issued : r.id = q.id => r = q

ApprovedInPerson == \A a \in approvals : \E r \in issued :
                        r.id = a.plan /\ r.caller = a.caller /\ r.text = a.text

Stocked == InStock /\ OnePerText /\ Numbered /\ ApprovedInPerson

(* The steps after a lookup that found something have that one record in   *)
(* hand, and it is the caller's; at "post" its flag is set.                *)
Handling(step) == step \in {"mark", "flag", "post"}

Handled ==
    \A x \in Threads :
        /\ Handling(pc[x]) => \E r \in issued : /\ found[x] = {r}
                                               /\ r.caller = job[x].caller
                                               /\ r.text = job[x].text
        /\ pc[x] = "post" => \A r \in found[x] : Approved(r)

IInv == TypeOK /\ Located /\ Stocked /\ Handled

LEMMA InitStocked == Init => Stocked /\ Handled
  BY DEF Init, Stocked, InStock, OnePerText, Numbered, ApprovedInPerson, Handled,
     Handling

(* Steps that store nothing and set no flag leave the stock in order.      *)
LEMMA StockedKept ==
    ASSUME Stocked, UNCHANGED <<approvals, issued, born>>,
           \A c \in Callers, n \in TableIds : tables'[c][n] \subseteq tables[c][n]
    PROVE  Stocked'
  BY DEF Stocked, InStock, OnePerText, Numbered, ApprovedInPerson

LEMMA FewerKept ==
    ASSUME TypeOK, NEW c, NEW n, NEW S,
           tables' = [tables EXCEPT ![c][n] = @ \ S]
    PROVE  \A d \in Callers, m \in TableIds : tables'[d][m] \subseteq tables[d][m]
  <1> SUFFICES ASSUME NEW d \in Callers, NEW m \in TableIds
               PROVE  tables'[d][m] \subseteq tables[d][m]
    OBVIOUS
  <1>1. tables[d] \in [TableIds -> SUBSET Record] /\ DOMAIN tables = Callers
    BY DEF TypeOK
  <1>2. tables'[d] = IF d = c THEN [tables[d] EXCEPT ![n] = @ \ S] ELSE tables[d]
    BY <1>1
  <1> QED
    BY <1>1, <1>2

LEMMA InsertStocked ==
    ASSUME IInv, NEW x \in Threads, Insert(x)
    PROVE  Stocked'
  <1> DEFINE c == job[x].caller
             n == table[x]
             new == Stored(x)
             rest == tables[c][n] \ Keyed(tables[c][n], job[x].text)
  <1>1. /\ job[x] \in Job /\ n \in TableIds /\ c \in Callers
    BY DEF Insert, IInv, Located, Serving, Holding, Planning, Job
  <1>2. /\ tables' = [tables EXCEPT ![c][n] = rest \cup {new}]
        /\ issued' = issued \cup {new}
        /\ born' = born + 1
        /\ approvals' = approvals
    BY DEF Insert
  <1>3. new.id = born + 1 /\ new.caller = c /\ new.text = job[x].text
    BY DEF Stored
  <1>4. /\ tables'[c][n] = rest \cup {new}
        /\ \A d \in Callers, m \in TableIds :
              d # c \/ m # n => tables'[d][m] = tables[d][m]
    BY <1>1, <1>2 DEF IInv, TypeOK
  <1>5. \A r \in rest : r \in tables[c][n] /\ r.text # job[x].text
    BY DEF Keyed
  <1>6. born \in Nat
    BY DEF IInv, TypeOK
  <1> HIDE DEF new, rest, c, n
  <1>7. InStock'
    BY <1>1, <1>2, <1>3, <1>4, <1>5 DEF IInv, Stocked, InStock
  <1>8. OnePerText'
    BY <1>1, <1>3, <1>4, <1>5 DEF IInv, Stocked, OnePerText
  <1>9. Numbered'
    <2>1. \A r \in issued : r.id \in Nat /\ r.id =< born
      BY DEF IInv, TypeOK, Record, Stocked, Numbered
    <2> QED
      BY <1>2, <1>3, <1>6, <2>1 DEF IInv, Stocked, Numbered
  <1>10. ApprovedInPerson'
    BY <1>2 DEF IInv, Stocked, ApprovedInPerson
  <1> QED
    BY <1>7, <1>8, <1>9, <1>10 DEF Stocked

LEMMA MarkStocked ==
    ASSUME IInv, NEW x \in Threads, Mark(x)
    PROVE  Stocked'
  <1>1. /\ pc[x] = "mark"
        /\ UNCHANGED <<planned, tables, issued, born>>
        /\ \A a \in approvals' : a \in approvals \/ \E r \in found[x] :
              a.plan = r.id /\ a.caller = job[x].caller /\ a.text = job[x].text
    BY DEF Mark, history
  <1>2. \E r \in issued : /\ found[x] = {r}
                          /\ r.caller = job[x].caller /\ r.text = job[x].text
    BY <1>1 DEF IInv, Handled, Handling
  <1> QED
    BY <1>1, <1>2 DEF IInv, Stocked, InStock, OnePerText, Numbered, ApprovedInPerson

LEMMA NextStocked == IInv /\ [Next]_vars => Stocked'
  <1> SUFFICES ASSUME IInv, [Next]_vars
               PROVE  Stocked'
    OBVIOUS
  <1>0. TypeOK /\ Stocked
    BY DEF IInv
  <1>1. ASSUME NEW x \in Threads, PopExpired(x)
        PROVE  Stocked'
    <2>1. /\ UNCHANGED <<approvals, issued, born>>
          /\ \E e \in at[x], t \in stale[x] :
                tables' = [tables EXCEPT ![e[1]][e[2]] = @ \ Keyed(@, t)]
      BY <1>1 DEF PopExpired, history
    <2>2. PICK e \in at[x], t \in stale[x] :
              tables' = [tables EXCEPT ![e[1]][e[2]] = @ \ Keyed(@, t)]
      BY <2>1
    <2>3. tables' = [tables EXCEPT ![e[1]][e[2]] = @ \ Keyed(tables[e[1]][e[2]], t)]
      BY <2>2
    <2> QED
      BY <1>0, <2>1, <2>3, FewerKept, StockedKept
  <1>2. ASSUME NEW x \in Threads, Displace(x) \/ Evict(x)
        PROVE  Stocked'
    <2> DEFINE mine == tables[job[x].caller][table[x]]
    <2>1. /\ UNCHANGED <<approvals, issued, born>>
          /\ \/ tables' = [tables EXCEPT ![job[x].caller][table[x]] =
                                @ \ Keyed(mine, job[x].text)]
             \/ tables' = [tables EXCEPT ![job[x].caller][table[x]] =
                                @ \ Oldest(mine)]
      BY <1>2 DEF Displace, Evict, history
    <2> QED
      BY <1>0, <2>1, FewerKept, StockedKept
  <1>3. ASSUME NEW x \in Threads, Insert(x)
        PROVE  Stocked'
    BY <1>3, InsertStocked
  <1>4. ASSUME NEW x \in Threads, Mark(x)
        PROVE  Stocked'
    BY <1>4, MarkStocked
  <1>5. CASE UNCHANGED <<tables, approvals, issued, born>>
    BY <1>0, <1>5, StockedKept
  <1>6. CASE Restart
    BY <1>6 DEF Restart, Stocked, InStock, OnePerText, Numbered, ApprovedInPerson
  <1>7. ASSUME NEW x \in Threads, NEW c \in Callers, NEW t \in Texts,
               CallPlan(x, c, t) \/ CallApprove(x, c, t) \/ CallRun(x, c, t)
        PROVE  UNCHANGED <<tables, approvals, issued, born>>
    BY <1>7 DEF CallPlan, CallApprove, CallRun, Enter, store
  <1>8. ASSUME NEW x \in Threads,
               \/ ListTables(x) \/ VisitTable(x) \/ TestEmpty(x) \/ DropCaller(x)
               \/ SetDefault(x) \/ TrimMore(x) \/ TrimDone(x) \/ EvictRaises(x)
               \/ GetTable(x) \/ FindNothing(x) \/ FindPlanned(x) \/ FindRecord(x)
               \/ FlagSet(x) \/ FlagUnset(x) \/ RunAnswered(x)
        PROVE  UNCHANGED <<tables, approvals, issued, born>>
    BY <1>8 DEF ListTables, VisitTable, TestEmpty, DropCaller, SetDefault, TrimMore,
                TrimDone, EvictRaises, GetTable, FindNothing, FindPlanned, FindRecord,
                FlagSet, FlagUnset, RunAnswered, Enter, store, history
  <1>9. CASE Tick \/ UNCHANGED vars
    BY <1>5, <1>9 DEF Tick, vars, store, history
  <1> QED
    BY <1>1, <1>2, <1>3, <1>4, <1>5, <1>6, <1>7, <1>8, <1>9
    DEF Next, Call, Step, Sweep, RecordPlan, LookUp

(* A move of one thread to a step that has no record in hand.              *)
LEMMA MoveHandled ==
    ASSUME TypeOK, Handled, NEW x \in Threads, NEW s, ~Handling(s),
           pc' = [pc EXCEPT ![x] = s],
           \A y \in Threads \ {x} : job'[y] = job[y] /\ found'[y] = found[y],
           issued \subseteq issued', approvals \subseteq approvals'
    PROVE  Handled'
  <1>1. pc'[x] = s /\ \A y \in Threads \ {x} : pc'[y] = pc[y]
    BY DEF TypeOK
  <1>2. \A y \in Threads : Handling(pc'[y]) => y # x
    BY <1>1
  <1>3. \A y \in Threads : pc'[y] = "post" => Handling(pc'[y])
    BY DEF Handling
  <1>4. \A r : Approved(r) => Approved(r)'
    BY DEF Approved
  <1> QED
    BY <1>1, <1>2, <1>3, <1>4 DEF Handled

LEMMA AnswerHandled ==
    ASSUME TypeOK, Handled, NEW x \in Threads, Answer(x),
           issued \subseteq issued', approvals \subseteq approvals'
    PROVE  Handled'
  <1>1. /\ pc' = [pc EXCEPT ![x] = "idle"]
        /\ \A y \in Threads \ {x} : job'[y] = job[y] /\ found'[y] = found[y]
    BY DEF Answer, Move, TypeOK
  <1>2. ~Handling("idle")
    BY DEF Handling
  <1> QED
    BY <1>1, <1>2, MoveHandled

(* A lookup finds at most one record, and it is the caller's.              *)
LEMMA FindRecordHandled ==
    ASSUME IInv, NEW x \in Threads, FindRecord(x)
    PROVE  Handled'
  <1>1. /\ pc[x] = "find" /\ InTable(x) # {}
        /\ found' = [found EXCEPT ![x] = InTable(x)]
        /\ UNCHANGED <<job, issued, approvals>>
    BY DEF FindRecord, store, history
  <1>2. pc' = [pc EXCEPT ![x] = "mark"] \/ pc' = [pc EXCEPT ![x] = "flag"]
    BY DEF FindRecord, Move
  <1>3. TypeOK /\ Located /\ Stocked /\ Handled
    BY DEF IInv
  <1>4. \E r \in issued : /\ InTable(x) = {r}
                          /\ r.caller = job[x].caller /\ r.text = job[x].text
    <2> DEFINE mine == tables[job[x].caller][table[x]]
    <2>1. table[x] # 0 /\ InTable(x) = {r \in mine : r.text = job[x].text}
      BY <1>1 DEF InTable, Keyed
    <2>2. table[x] \in TableIds /\ job[x].caller \in Callers
      <3>1. table[x] \in 0..MaxPlans
        BY <1>3 DEF TypeOK
      <3>2. job[x] \in Job
        BY <1>1, <1>3 DEF Located, Serving
      <3> QED
        BY <2>1, <3>1, <3>2, StoreAssumption DEF TableIds, Job
    <2>3. \A r \in mine : r \in issued /\ r.caller = job[x].caller
      BY <1>3, <2>2 DEF Stocked, InStock
    <2>4. \A r, q \in mine : r.text = q.text => r = q
      BY <1>3, <2>2 DEF Stocked, OnePerText
    <2> HIDE DEF mine
    <2>5. PICK r \in InTable(x) : TRUE
      BY <1>1
    <2>6. InTable(x) = {r}
      BY <2>1, <2>4, <2>5
    <2> QED
      BY <2>1, <2>3, <2>5, <2>6
  <1>5. /\ found'[x] = InTable(x) /\ pc'[x] # "post"
        /\ \A y \in Threads \ {x} : found'[y] = found[y] /\ pc'[y] = pc[y]
    BY <1>1, <1>2, <1>3 DEF TypeOK
  <1>6. \A r : Approved(r) => Approved(r)'
    BY <1>1 DEF Approved
  <1> QED
    BY <1>1, <1>3, <1>4, <1>5, <1>6 DEF Handled

LEMMA FlagSetHandled ==
    ASSUME IInv, NEW x \in Threads, FlagSet(x)
    PROVE  Handled'
  <1>1. /\ pc[x] = "flag" /\ pc' = [pc EXCEPT ![x] = "post"]
        /\ \A r \in found[x] : Approved(r)
        /\ UNCHANGED <<job, found, issued, approvals>>
    BY DEF FlagSet, Move, store, local, history
  <1>2. /\ pc'[x] = "post"
        /\ \A y \in Threads \ {x} : pc'[y] = pc[y]
    BY <1>1 DEF IInv, TypeOK
  <1>3. Handling("flag")
    BY DEF Handling
  <1>4. \A r : Approved(r) => Approved(r)'
    BY <1>1 DEF Approved
  <1> QED
    BY <1>1, <1>2, <1>3, <1>4 DEF IInv, Handled

LEMMA NextHandled == IInv /\ [Next]_vars => Handled'
  <1> SUFFICES ASSUME IInv, [Next]_vars
               PROVE  Handled'
    OBVIOUS
  <1>0. TypeOK /\ Handled
    BY DEF IInv
  <1>1. ASSUME NEW x \in Threads, NEW c \in Callers, NEW t \in Texts,
               CallPlan(x, c, t) \/ CallApprove(x, c, t) \/ CallRun(x, c, t)
        PROVE  Handled'
    <2>1. /\ pc' = [pc EXCEPT ![x] = "list"]
          /\ UNCHANGED <<found, issued, approvals>>
      BY <1>1 DEF CallPlan, CallApprove, CallRun, Enter, Move, store, local, history
    <2>2. \A y \in Threads \ {x} : job'[y] = job[y]
      BY <1>0, <1>1 DEF CallPlan, CallApprove, CallRun, Enter, TypeOK
    <2>3. ~Handling("list")
      BY DEF Handling
    <2> QED
      BY <1>0, <2>1, <2>2, <2>3, MoveHandled
  <1>2. ASSUME NEW x \in Threads, FindPlanned(x)
        PROVE  Handled'
    <2>1. /\ pc' = [pc EXCEPT ![x] = "list"]
          /\ UNCHANGED <<found, issued, approvals>>
      BY <1>2 DEF FindPlanned, Enter, Move, store, history
    <2>2. \A y \in Threads \ {x} : job'[y] = job[y]
      BY <1>0, <1>2 DEF FindPlanned, Enter, TypeOK
    <2>3. ~Handling("list")
      BY DEF Handling
    <2> QED
      BY <1>0, <2>1, <2>2, <2>3, MoveHandled
  <1>3. ASSUME NEW x \in Threads,
               \/ ListTables(x) \/ VisitTable(x) \/ TestEmpty(x) \/ DropCaller(x)
               \/ SetDefault(x) \/ Displace(x) \/ TrimMore(x) \/ Evict(x)
               \/ GetTable(x)
        PROVE  Handled'
    <2>1. /\ \E s \in {"sweep", "pop", "drop", "displace", "insert", "evict",
                       "trim", "find"} : pc' = [pc EXCEPT ![x] = s]
          /\ UNCHANGED <<job, found, issued, approvals>>
      BY <1>3 DEF ListTables, VisitTable, TestEmpty, DropCaller, SetDefault, Displace,
                  TrimMore, Evict, GetTable, Move, store, local, history
    <2>2. \A s \in {"sweep", "pop", "drop", "displace", "insert", "evict",
                    "trim", "find"} : ~Handling(s)
      BY DEF Handling
    <2> QED
      BY <1>0, <2>1, <2>2, MoveHandled
  <1>4. ASSUME NEW x \in Threads, Insert(x)
        PROVE  Handled'
    <2>1. /\ pc' = [pc EXCEPT ![x] = "trim"]
          /\ UNCHANGED <<job, approvals>> /\ issued \subseteq issued'
      BY <1>4 DEF Insert, Move
    <2>2. \A y \in Threads \ {x} : found'[y] = found[y]
      BY <1>0, <1>4 DEF Insert, TypeOK
    <2>3. ~Handling("trim")
      BY DEF Handling
    <2> QED
      BY <1>0, <2>1, <2>2, <2>3, MoveHandled
  <1>5. ASSUME NEW x \in Threads,
               \/ TrimDone(x) \/ EvictRaises(x) \/ FindNothing(x) \/ Mark(x)
               \/ FlagUnset(x) \/ RunAnswered(x)
        PROVE  Handled'
    <2>1. Answer(x) /\ issued' = issued /\ approvals \subseteq approvals'
      BY <1>5 DEF TrimDone, EvictRaises, FindNothing, Mark, FlagUnset, RunAnswered,
                  store, history
    <2> QED
      BY <1>0, <2>1, AnswerHandled
  <1>6. ASSUME NEW x \in Threads, FindRecord(x)
        PROVE  Handled'
    BY <1>6, FindRecordHandled
  <1>7. ASSUME NEW x \in Threads, FlagSet(x)
        PROVE  Handled'
    BY <1>7, FlagSetHandled
  <1>8. CASE UNCHANGED <<pc, job, found, issued, approvals>>
    BY <1>0, <1>8 DEF Handled, Approved
  <1>9. ASSUME NEW x \in Threads, PopExpired(x)
        PROVE  UNCHANGED <<pc, job, found, issued, approvals>>
    BY <1>9 DEF PopExpired, history
  <1>10. CASE Tick \/ UNCHANGED vars
    BY <1>8, <1>10 DEF Tick, vars, store, local, history
  <1>11. CASE Restart
    <2>1. \A x \in Threads : pc'[x] = "idle"
      BY <1>11 DEF Restart
    <2>2. ~Handling("idle")
      BY DEF Handling
    <2> QED
      BY <2>1, <2>2 DEF Handled
  <1> QED
    BY <1>1, <1>2, <1>3, <1>4, <1>5, <1>6, <1>7, <1>8, <1>9, <1>10, <1>11
    DEF Next, Call, Step, Sweep, RecordPlan, LookUp

LEMMA Inductive == Spec => []IInv
  <1>1. Init => IInv
    BY InitTyped, InitLocated, InitStocked DEF IInv
  <1>2. IInv /\ [Next]_vars => IInv'
    BY NextTyped, NextLocated, NextStocked, NextHandled DEF IInv
  <1> QED
    BY <1>1, <1>2, PTL DEF Spec

(* However the calls of any number of threads interleave with each other's *)
(* sweeps, evictions and re-plans, run_workflow posts nothing that its own *)
(* caller did not plan and approve, text and record (lines 10-19).         *)
THEOREM Safety == Spec => []RunsOnlyWhatItsCallerApproved
  <1>1. IInv => RunsOnlyWhatItsCallerApproved
    <2> SUFFICES ASSUME IInv, NEW x \in Threads, pc[x] = "post"
                 PROVE  \E r \in found[x] \cap issued, a \in approvals :
                            /\ a.plan = r.id
                            /\ r.caller = job[x].caller /\ a.caller = job[x].caller
                            /\ r.text = job[x].text /\ a.text = job[x].text
      BY DEF RunsOnlyWhatItsCallerApproved
    <2>1. Handling(pc[x])
      BY DEF Handling
    <2>2. PICK r \in issued : /\ found[x] = {r}
                              /\ r.caller = job[x].caller /\ r.text = job[x].text
      BY <2>1 DEF IInv, Handled
    <2>3. PICK a \in approvals : a.plan = r.id
      BY <2>2 DEF IInv, Handled, Approved
    <2>4. PICK q \in issued : q.id = a.plan /\ q.caller = a.caller /\ q.text = a.text
      BY DEF IInv, Stocked, ApprovedInPerson
    <2>5. q = r
      BY <2>3, <2>4 DEF IInv, Stocked, Numbered
    <2> QED
      BY <2>2, <2>3, <2>4, <2>5
  <1> QED
    BY <1>1, Inductive, PTL
-----------------------------------------------------------------------------
(* The refinement, step by step: storing a record, setting a flag, reading *)
(* a set flag, the answer of a run and a restart are the abstract actions; *)
(* every other step of the store and the tools is a stutter.               *)
Promised == <<born, issued, approvals, Running>>

LEMMA PromisedKept ==
    UNCHANGED Promised => UNCHANGED Promise!vars
  BY DEF Promised, Promise!vars

LEMMA RunningKept ==
    ASSUME TypeOK, NEW x \in Threads, NEW s, pc[x] # "post", s # "post",
           pc' = [pc EXCEPT ![x] = s],
           \A y \in Threads \ {x} : job'[y] = job[y] /\ found'[y] = found[y]
    PROVE  Running' = Running
  <1> DEFINE Runs(y) == IF pc[y] = "post"
               THEN {AsApproval(r.id, job[y].caller, job[y].text) : r \in found[y]}
               ELSE {}
  <1>1. pc'[x] = s /\ \A y \in Threads \ {x} : pc'[y] = pc[y]
    BY DEF TypeOK
  <1>2. Runs(x) = {} /\ Runs(x)' = {}
    BY <1>1
  <1>3. ASSUME NEW y \in Threads \ {x}
        PROVE  Runs(y)' = Runs(y)
    BY <1>1, <1>3
  <1>4. Running = [y \in Threads |-> Runs(y)] /\ Running' = [y \in Threads |-> Runs(y)']
    BY DEF Running
  <1> HIDE DEF Runs
  <1> QED
    BY <1>2, <1>3, <1>4

LEMMA AnswerRunning ==
    ASSUME TypeOK, NEW x \in Threads, pc[x] # "post", Answer(x)
    PROVE  Running' = Running
  <1>1. /\ pc' = [pc EXCEPT ![x] = "idle"]
        /\ \A y \in Threads \ {x} : job'[y] = job[y] /\ found'[y] = found[y]
    BY DEF Answer, Move, TypeOK
  <1> QED
    BY <1>1, RunningKept

LEMMA InsertRecords ==
    ASSUME IInv, NEW x \in Threads, Insert(x)
    PROVE  \E c \in Callers, t \in Texts : Promise!RecordPlan(c, t)
  <1> DEFINE c == job[x].caller
             t == job[x].text
  <1>1. c \in Callers /\ t \in Texts
    BY DEF Insert, IInv, Located, Serving, Job
  <1>2. /\ issued' = issued \cup {Stored(x)} /\ born' = born + 1
        /\ approvals' = approvals /\ job' = job
        /\ pc[x] = "insert" /\ pc' = [pc EXCEPT ![x] = "trim"]
        /\ found' = [found EXCEPT ![x] = {Stored(x)}]
    BY DEF Insert, Move
  <1>3. AsPlan(Stored(x)) = [id |-> born + 1, caller |-> c, text |-> t]
    BY DEF AsPlan, Stored
  <1>4. {AsPlan(r) : r \in issued'} = {AsPlan(r) : r \in issued} \cup {AsPlan(Stored(x))}
    BY <1>2
  <1>5. Running' = Running
    <2>1. TypeOK /\ \A y \in Threads \ {x} : found'[y] = found[y]
      BY <1>2 DEF IInv, TypeOK
    <2> QED
      BY <1>2, <2>1, RunningKept
  <1>6. Promise!RecordPlan(c, t)
    BY <1>2, <1>3, <1>4, <1>5 DEF Promise!RecordPlan, AsPlan
  <1> QED
    BY <1>1, <1>6

LEMMA MarkApproves ==
    ASSUME IInv, NEW x \in Threads, Mark(x)
    PROVE  \E c \in Callers, t \in Texts : Promise!Approve(c, t)
  <1> DEFINE c == job[x].caller
             t == job[x].text
             over == Ids(issued, c, t)
  <1>1. /\ pc[x] = "mark" /\ Answer(x) /\ UNCHANGED <<issued, born>>
        /\ approvals' = approvals \cup
              {[plan |-> r.id, caller |-> c, text |-> t, over |-> over] : r \in found[x]}
    BY DEF Mark, history
  <1>2. c \in Callers /\ t \in Texts /\ TypeOK
    BY <1>1 DEF IInv, Located, Serving, Job
  <1>3. PICK r \in issued : found[x] = {r} /\ r.caller = c /\ r.text = t
    BY <1>1 DEF IInv, Handled, Handling
  <1> DEFINE click == [plan |-> r.id, caller |-> c, text |-> t, over |-> over]
             seen(as) == {AsApproval(a.plan, a.caller, a.text) : a \in as}
  <1>4. approvals' = approvals \cup {click}
    BY <1>1, <1>3
  <1>5. AsApproval(click.plan, click.caller, click.text) = AsApproval(r.id, c, t)
    OBVIOUS
  <1>6. seen(approvals') = seen(approvals) \cup {AsApproval(r.id, c, t)}
    <2> HIDE DEF click
    <2> QED
      BY <1>4, <1>5
  <1>7. Running' = Running
    BY <1>1, <1>2, AnswerRunning
  <1>8. Promise!Of(AsPlan(r), c, t) /\ Promise!Approval(AsPlan(r), c, t) = AsApproval(r.id, c, t)
    BY <1>3 DEF Promise!Of, Promise!Approval, AsPlan, AsApproval
  <1>9. Promise!Approve(c, t)
    BY <1>1, <1>6, <1>7, <1>8 DEF Promise!Approve
  <1> QED
    BY <1>2, <1>9

LEMMA FlagSetStarts ==
    ASSUME IInv, NEW x \in Threads, FlagSet(x)
    PROVE  \E c \in Callers, t \in Texts : Promise!StartRun(x, c, t)
  <1> DEFINE c == job[x].caller
             t == job[x].text
  <1>1. /\ pc[x] = "flag" /\ pc' = [pc EXCEPT ![x] = "post"]
        /\ \A r \in found[x] : Approved(r)
        /\ UNCHANGED <<job, found, issued, approvals, born>>
    BY DEF FlagSet, Move, store, local, history
  <1>2. c \in Callers /\ t \in Texts /\ TypeOK
    BY <1>1 DEF IInv, Located, Serving, Job
  <1>3. PICK r \in issued : found[x] = {r} /\ r.caller = c /\ r.text = t
    BY <1>1 DEF IInv, Handled, Handling
  <1>4. PICK a \in approvals : a.plan = r.id
    BY <1>1, <1>3 DEF Approved
  <1>5. a.caller = c /\ a.text = t
    <2>1. PICK q \in issued : q.id = a.plan /\ q.caller = a.caller /\ q.text = a.text
      BY DEF IInv, Stocked, ApprovedInPerson
    <2>2. q = r
      BY <1>4, <2>1 DEF IInv, Stocked, Numbered
    <2> QED
      BY <1>3, <2>1, <2>2
  <1>6. /\ Promise!Of(AsPlan(r), c, t)
        /\ Promise!Approval(AsPlan(r), c, t) = AsApproval(r.id, c, t)
        /\ AsApproval(r.id, c, t) = AsApproval(a.plan, a.caller, a.text)
    BY <1>3, <1>4, <1>5 DEF Promise!Of, Promise!Approval, AsPlan, AsApproval
  <1>7. /\ pc'[x] = "post" /\ \A y \in Threads \ {x} : pc'[y] = pc[y]
    BY <1>1, <1>2 DEF TypeOK
  <1>8. Running[x] = {}
    BY <1>1 DEF Running
  <1>9. Running' = [Running EXCEPT ![x] = {AsApproval(r.id, c, t)}]
    <2>1. {AsApproval(q.id, c, t) : q \in found[x]} = {AsApproval(r.id, c, t)}
      BY <1>3
    <2> QED
      BY <1>1, <1>7, <2>1 DEF Running
  <1>10. Promise!StartRun(x, c, t)
    BY <1>1, <1>6, <1>8, <1>9 DEF Promise!StartRun
  <1> QED
    BY <1>2, <1>10

LEMMA AnswerEndsRun ==
    ASSUME IInv, NEW x \in Threads, RunAnswered(x)
    PROVE  Promise!EndRun(x)
  <1>1. /\ pc[x] = "post" /\ Answer(x) /\ UNCHANGED <<issued, approvals, born>>
    BY DEF RunAnswered, store, history
  <1>2. found[x] # {}
    BY <1>1 DEF IInv, Handled, Handling
  <1>3. Running[x] # {}
    BY <1>1, <1>2 DEF Running
  <1>4. /\ pc'[x] = "idle"
        /\ \A y \in Threads \ {x} :
              pc'[y] = pc[y] /\ job'[y] = job[y] /\ found'[y] = found[y]
    BY <1>1 DEF Answer, Move, IInv, TypeOK
  <1>5. Running' = [Running EXCEPT ![x] = {}]
    BY <1>4 DEF Running
  <1> QED
    BY <1>1, <1>3, <1>5 DEF Promise!EndRun

LEMMA InitPromise == Init => Promise!Init
  BY DEF Init, Promise!Init, Running

LEMMA RestartPromise == Restart => Promise!Restart
  BY DEF Restart, Promise!Restart, Running

LEMMA NextPromise == IInv /\ [Next]_vars => [Promise!Next]_(Promise!vars)
  <1> SUFFICES ASSUME IInv, [Next]_vars
               PROVE  [Promise!Next]_(Promise!vars)
    OBVIOUS
  <1>0. TypeOK
    BY DEF IInv
  <1>1. ASSUME NEW x \in Threads, NEW c \in Callers, NEW t \in Texts,
               CallPlan(x, c, t) \/ CallApprove(x, c, t) \/ CallRun(x, c, t)
        PROVE  UNCHANGED Promised
    <2>1. /\ pc[x] = "idle" /\ pc' = [pc EXCEPT ![x] = "list"]
          /\ UNCHANGED <<found, issued, approvals, born>>
      BY <1>1 DEF CallPlan, CallApprove, CallRun, Enter, Move, store, local, history
    <2>2. \A y \in Threads \ {x} : job'[y] = job[y]
      BY <1>0, <1>1 DEF CallPlan, CallApprove, CallRun, Enter, TypeOK
    <2> QED
      BY <1>0, <2>1, <2>2, RunningKept DEF Promised
  <1>2. ASSUME NEW x \in Threads, FindPlanned(x)
        PROVE  UNCHANGED Promised
    <2>1. /\ pc[x] = "find" /\ pc' = [pc EXCEPT ![x] = "list"]
          /\ UNCHANGED <<found, issued, approvals, born>>
      BY <1>2 DEF FindPlanned, Enter, Move, store, history
    <2>2. \A y \in Threads \ {x} : job'[y] = job[y]
      BY <1>0, <1>2 DEF FindPlanned, Enter, TypeOK
    <2> QED
      BY <1>0, <2>1, <2>2, RunningKept DEF Promised
  <1>3. ASSUME NEW x \in Threads,
               \/ ListTables(x) \/ VisitTable(x) \/ TestEmpty(x) \/ DropCaller(x)
               \/ SetDefault(x) \/ Displace(x) \/ TrimMore(x) \/ Evict(x)
               \/ GetTable(x)
        PROVE  UNCHANGED Promised
    <2>1. /\ pc[x] # "post"
          /\ \E s \in {"sweep", "pop", "drop", "displace", "insert", "evict",
                       "trim", "find"} : pc' = [pc EXCEPT ![x] = s]
          /\ UNCHANGED <<job, found, issued, approvals, born>>
      BY <1>3 DEF ListTables, VisitTable, TestEmpty, DropCaller, SetDefault, Displace,
                  TrimMore, Evict, GetTable, Swept, Move, store, local, history
    <2> QED
      BY <1>0, <2>1, RunningKept DEF Promised
  <1>4. ASSUME NEW x \in Threads, FindRecord(x)
        PROVE  UNCHANGED Promised
    <2>1. /\ pc[x] = "find"
          /\ \E s \in {"mark", "flag"} : pc' = [pc EXCEPT ![x] = s]
          /\ UNCHANGED <<job, issued, approvals, born>>
      BY <1>4 DEF FindRecord, Move, store, history
    <2>2. \A y \in Threads \ {x} : found'[y] = found[y]
      BY <1>0, <1>4 DEF FindRecord, TypeOK
    <2> QED
      BY <1>0, <2>1, <2>2, RunningKept DEF Promised
  <1>5. ASSUME NEW x \in Threads,
               TrimDone(x) \/ EvictRaises(x) \/ FindNothing(x) \/ FlagUnset(x)
        PROVE  UNCHANGED Promised
    <2>1. pc[x] # "post" /\ Answer(x) /\ UNCHANGED <<issued, approvals, born>>
      BY <1>5 DEF TrimDone, EvictRaises, FindNothing, FlagUnset, store, history
    <2> QED
      BY <1>0, <2>1, AnswerRunning DEF Promised
  <1>6. ASSUME NEW x \in Threads, PopExpired(x)
        PROVE  UNCHANGED Promised
    BY <1>6 DEF PopExpired, Promised, Running, history
  <1>7. CASE Tick \/ UNCHANGED vars
    BY <1>7, PromisedKept DEF Tick, vars, Promised, Running, store, local, history
  <1>8. ASSUME NEW x \in Threads, Insert(x)
        PROVE  Promise!Next
    BY <1>8, InsertRecords DEF Promise!Next
  <1>9. ASSUME NEW x \in Threads, Mark(x)
        PROVE  Promise!Next
    BY <1>9, MarkApproves DEF Promise!Next
  <1>10. ASSUME NEW x \in Threads, FlagSet(x)
         PROVE  Promise!Next
    BY <1>10, FlagSetStarts DEF Promise!Next
  <1>11. ASSUME NEW x \in Threads, RunAnswered(x)
         PROVE  Promise!Next
    BY <1>11, AnswerEndsRun DEF Promise!Next
  <1>12. CASE Restart
    BY <1>12, RestartPromise DEF Promise!Next
  <1> QED
    BY <1>1, <1>2, <1>3, <1>4, <1>5, <1>6, <1>7, <1>8, <1>9, <1>10, <1>11,
       <1>12, PromisedKept
    DEF Next, Call, Step, Sweep, RecordPlan, LookUp

(* The store and the tools implement the promise of WorkflowApproval, for  *)
(* any number of callers, texts, threads, plans and restarts.              *)
THEOREM Refinement == Spec => ImplementsWorkflowApproval
  <1>1. Spec => Promise!Init /\ [][Promise!Next]_(Promise!vars)
    BY Inductive, InitPromise, NextPromise, PTL DEF Spec
  <1> QED
    BY <1>1, PTL DEF ImplementsWorkflowApproval, Promise!Spec

-----------------------------------------------------------------------------
(* No run rests on an expired plan.                                        *)
(*                                                                         *)
(* The sweep of a call and its lookup are many steps apart from each       *)
(* other, and other threads store, drop and sweep between them; the        *)
(* argument has two parts.  A dict that setdefault has yet to put in place *)
(* is empty, so nothing old comes back (Fresh).  And whatever is in a dict *)
(* that the call may yet look in is timely, or the call's own sweep has    *)
(* still to come to it (LookedAt).                                         *)

(* A call that has still to get the dict it stores its plan in             *)
Pending(y) == pc[y] \in {"list", "sweep", "pop", "drop"} /\ job[y].op = "record plan"

Vacant(n) ==
    /\ \A d \in Callers : tables[d][n] = {} /\ planned[d] # n
    /\ \A z \in Threads : Planning(pc[z]) => table[z] # n

Fresh ==
    /\ \A n \in TableIds : n > calls => Vacant(n)
    /\ \A y \in Threads : Pending(y) => Vacant(job[y].ticket) /\ job[y].ticket =< calls
    /\ \A y, z \in Threads : Pending(y) /\ Pending(z) /\ y # z =>
                                 job[y].ticket # job[z].ticket

(* What the property asks of a record that the call of x rests on          *)
Timely(x, r) == r.id > job[x].stored \/ job[x].now - r.planned_at =< LIFETIME

Sweeping(step) == step \in {"sweep", "pop", "drop"}

ToCome(x, d, n, r) ==
    \/ <<d, n>> \in todo[x]
    \/ pc[x] = "pop" /\ <<d, n>> \in at[x] /\ r.text \in stale[x]

LookedAt(x) ==
    /\ pc[x] # "idle" => job[x].stored =< born
    /\ pc[x] = "pop" => \E e \in Entries : at[x] = {e}
    /\ Sweeping(pc[x]) => \A d \in Callers, n \in TableIds : planned[d] = n =>
                              \A r \in tables[d][n] : Timely(x, r) \/ ToCome(x, d, n, r)
    /\ (pc[x] = "find" /\ table[x] # 0) =>
           \A r \in tables[job[x].caller][table[x]] : Timely(x, r)
    /\ Handling(pc[x]) => \A r \in found[x] : Timely(x, r)

Looked == \A x \in Threads : LookedAt(x)

-----------------------------------------------------------------------------
(* Steps that store nothing and put nothing in place                       *)
LEMMA VacantKept ==
    ASSUME \A d \in Callers, n \in TableIds : tables'[d][n] \subseteq tables[d][n],
           \A d \in Callers : planned'[d] = planned[d] \/ planned'[d] = 0,
           \A z \in Threads : Planning(pc'[z]) => Planning(pc[z]) /\ table'[z] = table[z],
           NEW n \in TableIds, Vacant(n)
    PROVE  Vacant(n)'
  <1>1. n # 0
    BY StoreAssumption DEF TableIds
  <1> QED
    BY <1>1 DEF Vacant

LEMMA FreshKept ==
    ASSUME Fresh, Located,
           \A d \in Callers, n \in TableIds : tables'[d][n] \subseteq tables[d][n],
           \A d \in Callers : planned'[d] = planned[d] \/ planned'[d] = 0,
           \A z \in Threads : Planning(pc'[z]) => Planning(pc[z]) /\ table'[z] = table[z],
           \A z \in Threads : Pending(z)' => Pending(z) /\ job'[z] = job[z],
           calls' = calls
    PROVE  Fresh'
  <1>1. \A n \in TableIds : Vacant(n) => Vacant(n)'
    BY VacantKept
  <1>2. \A y \in Threads : Pending(y) => job[y].ticket \in TableIds
    BY DEF Pending, Located, Ticketed
  <1> QED
    BY <1>1, <1>2 DEF Fresh

(* A step of one thread, as the others see it                              *)
Apart(x) == \A y \in Threads \ {x} :
    /\ pc'[y] = pc[y] /\ job'[y] = job[y] /\ todo'[y] = todo[y] /\ at'[y] = at[y]
    /\ stale'[y] = stale[y] /\ table'[y] = table[y] /\ found'[y] = found[y]

LEMMA MoveApart ==
    ASSUME TypeOK, NEW x \in Threads, NEW s, pc' = [pc EXCEPT ![x] = s]
    PROVE  pc'[x] = s /\ \A y \in Threads \ {x} : pc'[y] = pc[y]
  BY DEF TypeOK

LEMMA StepApart ==
    ASSUME TypeOK, NEW x \in Threads, Call(x) \/ Step(x)
    PROVE  Apart(x)
  <1>1. ASSUME Call(x) PROVE Apart(x)
    BY <1>1, ZenonT(40) DEF Apart, Call, CallPlan, CallApprove, CallRun, Enter, Move, local, TypeOK
  <1>2. ASSUME Sweep(x) PROVE Apart(x)
    <2>1. CASE ListTables(x)
      BY <2>1 DEF Apart, ListTables, Move, TypeOK
    <2>2. CASE VisitTable(x)
      BY <2>2 DEF Apart, VisitTable, Move, TypeOK
    <2>3. CASE PopExpired(x)
      BY <2>3 DEF Apart, PopExpired, TypeOK
    <2>4. CASE TestEmpty(x)
      BY <2>4 DEF Apart, TestEmpty, Move, TypeOK
    <2>5. CASE DropCaller(x)
      BY <2>5 DEF Apart, DropCaller, Move, TypeOK
    <2> QED
      BY <1>2, <2>1, <2>2, <2>3, <2>4, <2>5 DEF Sweep
  <1>3. ASSUME Answer(x) PROVE Apart(x)
    BY <1>3 DEF Apart, Answer, Move, TypeOK
  <1>4. ASSUME RecordPlan(x) PROVE Apart(x)
    <2>1. CASE SetDefault(x)
      BY <2>1 DEF Apart, SetDefault, Move, TypeOK
    <2>2. CASE Displace(x) \/ TrimMore(x) \/ Evict(x)
      BY <2>2 DEF Apart, Displace, TrimMore, Evict, Move, local, TypeOK
    <2>3. CASE Insert(x)
      BY <2>3 DEF Apart, Insert, Move, TypeOK
    <2>4. CASE TrimDone(x) \/ EvictRaises(x)
      BY <1>3, <2>4 DEF TrimDone, EvictRaises
    <2> QED
      BY <1>4, <2>1, <2>2, <2>3, <2>4 DEF RecordPlan
  <1>5. ASSUME LookUp(x) PROVE Apart(x)
    <2>1. CASE GetTable(x)
      BY <2>1 DEF Apart, GetTable, Move, TypeOK
    <2>2. CASE FindPlanned(x)
      BY <2>2 DEF Apart, FindPlanned, Enter, Move, TypeOK
    <2>3. CASE FindRecord(x)
      BY <2>3 DEF Apart, FindRecord, Move, TypeOK
    <2>4. CASE FlagSet(x)
      BY <2>4 DEF Apart, FlagSet, Move, local, TypeOK
    <2>5. CASE FindNothing(x) \/ Mark(x) \/ FlagUnset(x) \/ RunAnswered(x)
      BY <1>3, <2>5 DEF FindNothing, Mark, FlagUnset, RunAnswered
    <2> QED
      BY <1>5, <2>1, <2>2, <2>3, <2>4, <2>5 DEF LookUp
  <1> QED
    BY <1>1, <1>2, <1>4, <1>5 DEF Step

-----------------------------------------------------------------------------
(* What the steps do to the store                                          *)
Shrinks ==
    /\ \A d \in Callers, n \in TableIds : tables'[d][n] \subseteq tables[d][n]
    /\ \A d \in Callers : planned'[d] = planned[d] \/ planned'[d] = 0
    /\ born' = born

Stores(x) == SetDefault(x) \/ Insert(x)

LEMMA StepShrinks ==
    ASSUME TypeOK, NEW x \in Threads, Step(x), ~Stores(x)
    PROVE  Shrinks /\ calls' = calls
  <1>1. ASSUME UNCHANGED <<planned, tables, born, calls>>
        PROVE  Shrinks /\ calls' = calls
    BY <1>1 DEF Shrinks
  <1>2. ASSUME NEW c, NEW n, NEW S, tables' = [tables EXCEPT ![c][n] = @ \ S],
               UNCHANGED <<planned, born, calls>>
        PROVE  Shrinks /\ calls' = calls
    BY <1>2, FewerKept DEF Shrinks
  <1>3. CASE PopExpired(x)
    <2>1. PICK e \in at[x], t \in stale[x] :
              tables' = [tables EXCEPT ![e[1]][e[2]] = @ \ Keyed(@, t)]
      BY <1>3 DEF PopExpired
    <2>2. tables' = [tables EXCEPT ![e[1]][e[2]] = @ \ Keyed(tables[e[1]][e[2]], t)]
      <3>1. e \in Entries
        BY <2>1 DEF TypeOK
      <3>2. e[1] \in Callers /\ e[2] \in TableIds
        BY <3>1 DEF Entries
      <3> QED
        BY <2>1, <3>2 DEF TypeOK
    <2> QED
      BY <1>2, <1>3, <2>2 DEF PopExpired, bounds, history
  <1>4. CASE DropCaller(x)
    <2>1. PICK e \in at[x] : planned' = [planned EXCEPT ![e[1]] = 0]
      BY <1>4 DEF DropCaller
    <2> QED
      BY <1>4, <2>1 DEF DropCaller, Shrinks, bounds, history, TypeOK
  <1>5. CASE Displace(x)
    <2>1. tables' = [tables EXCEPT ![job[x].caller][table[x]] =
                        @ \ Keyed(tables[job[x].caller][table[x]], job[x].text)]
      BY <1>5 DEF Displace, TypeOK
    <2> QED
      BY <1>2, <1>5, <2>1 DEF Displace, bounds, history
  <1>6. CASE Evict(x)
    <2>1. tables' = [tables EXCEPT ![job[x].caller][table[x]] =
                        @ \ Oldest(tables[job[x].caller][table[x]])]
      BY <1>6 DEF Evict, TypeOK
    <2> QED
      BY <1>2, <1>6, <2>1 DEF Evict, bounds, history
  <1>7. CASE ListTables(x) \/ VisitTable(x) \/ TestEmpty(x)
    BY <1>1, <1>7 DEF ListTables, VisitTable, TestEmpty, store, bounds, history
  <1>8. CASE TrimMore(x) \/ TrimDone(x) \/ EvictRaises(x)
    BY <1>1, <1>8 DEF TrimMore, TrimDone, EvictRaises, store, bounds, history
  <1>9. CASE LookUp(x)
    BY <1>1, <1>9 DEF LookUp, GetTable, FindNothing, FindPlanned, FindRecord, Mark,
                      FlagSet, FlagUnset, RunAnswered, Enter, store, bounds, history
  <1> QED
    BY <1>3, <1>4, <1>5, <1>6, <1>7, <1>8, <1>9 DEF Stores, Step, Sweep, RecordPlan

(* Which threads have still to get their dict, and which have one          *)
LEMMA StepPending ==
    ASSUME TypeOK, NEW x \in Threads, Step(x), ~Stores(x)
    PROVE  /\ \A z \in Threads : Planning(pc'[z]) => Planning(pc[z]) /\ table'[z] = table[z]
           /\ \A z \in Threads : Pending(z)' => Pending(z) /\ job'[z] = job[z]
  <1>1. Apart(x)
    BY StepApart
  <1>2. ASSUME NEW s, pc' = [pc EXCEPT ![x] = s], job' = job,
               Planning(s) => Planning(pc[x]) /\ table' = table,
               s \in {"list", "sweep", "pop", "drop"} =>
                   pc[x] \in {"list", "sweep", "pop", "drop"}
        PROVE  /\ Planning(pc'[x]) => Planning(pc[x]) /\ table'[x] = table[x]
               /\ Pending(x)' => Pending(x) /\ job'[x] = job[x]
    BY <1>2, MoveApart DEF Pending
  <1>3. CASE Answer(x)
    <2>1. pc'[x] = "idle"
      BY <1>3 DEF Answer, Move, TypeOK
    <2> QED
      BY <1>1, <2>1 DEF Apart, Planning, Pending
  <1>4. CASE FindPlanned(x)
    <2>1. /\ pc'[x] = "list" /\ job'[x].op = "approval exists"
      BY <1>4 DEF FindPlanned, Enter, Move, TypeOK
    <2> QED
      BY <1>1, <2>1 DEF Apart, Planning, Pending
  <1>5. CASE Sweep(x)
    <2>1. \/ PopExpired(x)
          \/ \E s \in {"sweep", "pop", "drop"} : pc' = [pc EXCEPT ![x] = s]
      BY <1>5 DEF Sweep, ListTables, VisitTable, TestEmpty, DropCaller, Move
    <2>2. pc[x] \in {"list", "sweep", "pop", "drop"} /\ job' = job
      BY <1>5 DEF Sweep, ListTables, VisitTable, PopExpired, TestEmpty, DropCaller
    <2>3. PopExpired(x) => UNCHANGED <<pc, table>>
      BY DEF PopExpired
    <2>4. /\ Planning(pc'[x]) => Planning(pc[x]) /\ table'[x] = table[x]
          /\ Pending(x)' => Pending(x) /\ job'[x] = job[x]
      BY <1>2, <2>1, <2>2, <2>3 DEF Planning, Pending
    <2> QED
      BY <1>1, <2>4 DEF Apart, Planning, Pending
  <1>6. CASE Displace(x) \/ TrimMore(x) \/ Evict(x)
    <2>1. /\ \E s \in {"insert", "evict", "trim"} : pc' = [pc EXCEPT ![x] = s]
          /\ Planning(pc[x]) /\ UNCHANGED <<job, table>>
      BY <1>6 DEF Displace, TrimMore, Evict, Move, local, Planning
    <2>2. /\ Planning(pc'[x]) => Planning(pc[x]) /\ table'[x] = table[x]
          /\ Pending(x)' => Pending(x) /\ job'[x] = job[x]
      BY <1>2, <2>1
    <2> QED
      BY <1>1, <2>2 DEF Apart, Planning, Pending
  <1>7. CASE GetTable(x) \/ FindRecord(x) \/ FlagSet(x)
    <2>1. \E s \in {"find", "mark", "flag", "post"} : pc' = [pc EXCEPT ![x] = s]
      BY <1>7 DEF GetTable, FindRecord, FlagSet, Move
    <2>2. job' = job
      BY <1>7 DEF GetTable, FindRecord, FlagSet
    <2>3. /\ Planning(pc'[x]) => Planning(pc[x]) /\ table'[x] = table[x]
          /\ Pending(x)' => Pending(x) /\ job'[x] = job[x]
      BY <1>2, <2>1, <2>2 DEF Planning
    <2> QED
      BY <1>1, <2>3 DEF Apart, Planning, Pending
  <1> QED
    BY <1>3, <1>4, <1>5, <1>6, <1>7
    DEF Stores, Step, RecordPlan, LookUp, TrimDone, EvictRaises, FindNothing, Mark,
        FlagUnset, RunAnswered

-----------------------------------------------------------------------------
(* The steps that give a dict its place, or store a plan in it             *)
LEMMA SetDefaultFresh ==
    ASSUME IInv, Fresh, NEW x \in Threads, SetDefault(x)
    PROVE  Fresh'
  <1> DEFINE c == job[x].caller
             k == job[x].ticket
             m == IF planned[c] = 0 THEN k ELSE planned[c]
  <1>1. TypeOK /\ Located
    BY DEF IInv
  <1>2. /\ planned' = [planned EXCEPT ![c] = m] /\ table' = [table EXCEPT ![x] = m]
        /\ pc' = [pc EXCEPT ![x] = "displace"] /\ UNCHANGED <<tables, job, calls>>
        /\ pc[x] = "sweep" /\ job[x].op = "record plan"
    BY DEF SetDefault, Swept, Move, bounds
  <1>3. Pending(x)
    BY <1>2 DEF Pending
  <1>4. k \in TableIds /\ k =< calls /\ Vacant(k)
    BY <1>1, <1>3 DEF Fresh, Pending, Located, Ticketed
  <1>5. c \in Callers
    BY <1>1, <1>2 DEF Located, Serving, Job
  <1>6. /\ \A d \in Callers : planned'[d] = IF d = c THEN m ELSE planned[d]
        /\ pc'[x] = "displace" /\ table'[x] = m
        /\ \A z \in Threads \ {x} : pc'[z] = pc[z] /\ table'[z] = table[z]
    BY <1>1, <1>2 DEF TypeOK
  <1>7. ASSUME NEW n \in TableIds, Vacant(n), n # k
        PROVE  Vacant(n)'
    <2>1. n # m
      BY <1>5, <1>7 DEF Vacant
    <2> HIDE DEF c, k, m
    <2>2. \A d \in Callers : tables'[d][n] = {} /\ planned'[d] # n
      BY <1>2, <1>6, <1>7, <2>1, ZenonT(40) DEF Vacant
    <2>3. \A z \in Threads : Planning(pc'[z]) => table'[z] # n
      BY <1>6, <1>7, <2>1 DEF Vacant
    <2> QED
      BY <2>2, <2>3 DEF Vacant
  <1>8. \A y \in Threads : Pending(y)' => y # x /\ Pending(y) /\ job'[y] = job[y]
    BY <1>2, <1>6 DEF Pending
  <1>9. \A y \in Threads : Pending(y) => job[y].ticket \in TableIds
    BY <1>1 DEF Pending, Located, Ticketed
  <1>10. calls \in Nat
    BY <1>1, StoreAssumption DEF TypeOK
  <1>11. \A n \in TableIds : n > calls' => Vacant(n)'
    <2>1. \A n \in TableIds : n > calls => n # k
      BY <1>4, <1>10, StoreAssumption DEF TableIds
    <2> QED
      BY <1>2, <1>7, <2>1 DEF Fresh
  <1>12. \A y \in Threads : Pending(y)' => Vacant(job[y].ticket)' /\ job[y].ticket =< calls
    BY <1>3, <1>7, <1>8, <1>9 DEF Fresh
  <1> QED
    BY <1>2, <1>8, <1>11, <1>12 DEF Fresh

LEMMA InsertFresh ==
    ASSUME IInv, Fresh, NEW x \in Threads, Insert(x)
    PROVE  Fresh'
  <1> DEFINE c == job[x].caller
             k == table[x]
  <1>1. TypeOK /\ Located
    BY DEF IInv
  <1>2. /\ pc[x] = "insert" /\ pc' = [pc EXCEPT ![x] = "trim"]
        /\ UNCHANGED <<planned, job, table, calls>>
        /\ tables' = [tables EXCEPT ![c][k] =
                          (@ \ Keyed(@, job[x].text)) \cup {Stored(x)}]
    BY DEF Insert, Move, bounds
  <1>3. Planning(pc[x])
    BY <1>2 DEF Planning
  <1>4. \A d \in Callers, n \in TableIds : n # k => tables'[d][n] = tables[d][n]
    BY <1>1, <1>2 DEF TypeOK
  <1>5. \A z \in Threads : Planning(pc'[z]) => Planning(pc[z]) /\ table'[z] = table[z]
    BY <1>1, <1>2, <1>3 DEF TypeOK
  <1>6. ASSUME NEW n \in TableIds, Vacant(n)
        PROVE  Vacant(n)'
    BY <1>2, <1>3, <1>4, <1>5, <1>6 DEF Vacant
  <1>7. \A y \in Threads : Pending(y)' => Pending(y)
    BY <1>1, <1>2 DEF Pending, TypeOK
  <1>8. \A y \in Threads : Pending(y) => job[y].ticket \in TableIds
    BY <1>1 DEF Pending, Located, Ticketed
  <1> QED
    BY <1>2, <1>6, <1>7, <1>8 DEF Fresh

LEMMA CallPlanFresh ==
    ASSUME IInv, Fresh, NEW x \in Threads, NEW c \in Callers, NEW t \in Texts,
           CallPlan(x, c, t)
    PROVE  Fresh'
  <1>1. TypeOK /\ Located
    BY DEF IInv
  <1>2. /\ UNCHANGED <<planned, tables, table>> /\ calls' = calls + 1
        /\ pc' = [pc EXCEPT ![x] = "list"] /\ calls < MaxPlans /\ pc[x] = "idle"
    BY DEF CallPlan, Enter, Move, store, local
  <1> DEFINE k == calls + 1
  <1>3. calls \in Nat /\ k \in TableIds
    BY <1>1, <1>2, StoreAssumption DEF TypeOK, TableIds
  <1>4. job'[x].ticket = k /\ \A y \in Threads \ {x} : job'[y] = job[y]
    BY <1>1 DEF CallPlan, Enter, TypeOK
  <1>5. \A z \in Threads : Planning(pc'[z]) => Planning(pc[z]) /\ table'[z] = table[z]
    BY <1>1, <1>2 DEF Planning, TypeOK
  <1>6. \A n \in TableIds : Vacant(n) => Vacant(n)'
    BY <1>2, <1>5, VacantKept
  <1>7. \A y \in Threads \ {x} : Pending(y)' => Pending(y) /\ job'[y] = job[y]
    BY <1>1, <1>2, <1>4 DEF Pending, TypeOK
  <1>8. \A y \in Threads : Pending(y) => job[y].ticket \in TableIds
    BY <1>1 DEF Pending, Located, Ticketed
  <1>9. \A n \in TableIds : n > calls' => Vacant(n)'
    <2>1. \A n \in TableIds : n > calls' => n > calls
      BY <1>2, <1>3, StoreAssumption DEF TableIds
    <2> QED
      BY <1>6, <2>1 DEF Fresh
  <1>10. \A n \in TableIds : n = k => Vacant(n)'
    <2>1. k > calls
      BY <1>3
    <2> HIDE DEF k
    <2> QED
      BY <1>3, <1>6, <2>1 DEF Fresh
  <1>11. \A y \in Threads \ {x} : Pending(y)' =>
              job'[y].ticket \in TableIds /\ job'[y].ticket < k /\ Vacant(job[y].ticket)'
    <2>1. \A y \in Threads : Pending(y) => Vacant(job[y].ticket) /\ job[y].ticket < k
      BY <1>3, <1>8, StoreAssumption DEF Fresh, TableIds
    <2> HIDE DEF k
    <2>2. ASSUME NEW y \in Threads \ {x}, Pending(y)'
          PROVE  /\ job'[y].ticket \in TableIds /\ job'[y].ticket < k
                 /\ Vacant(job[y].ticket)'
      <3>1. Pending(y) /\ job'[y] = job[y]
        BY <1>7, <2>2
      <3>2. PICK n \in TableIds : n = job[y].ticket
        BY <1>8, <3>1
      <3>3. Vacant(n)' /\ n = job'[y].ticket
        BY <1>6, <2>1, <3>1, <3>2
      <3> QED
        BY <2>1, <3>1, <3>2, <3>3
    <2> QED
      BY <2>2
  <1>12. \A y \in Threads : Pending(y)' => Vacant(job[y].ticket)' /\ job'[y].ticket =< calls'
    <2>1. \A n \in TableIds : n < k => n =< calls'
      BY <1>2, <1>3, StoreAssumption DEF TableIds
    <2>2. k =< calls'
      BY <1>2, <1>3
    <2> HIDE DEF k
    <2>3. PICK n \in TableIds : n = k
      BY <1>3
    <2>4. Vacant(n)' /\ job'[x].ticket = n /\ n =< calls'
      BY <1>4, <1>10, <2>2, <2>3
    <2> QED
      BY <1>11, <2>1, <2>4
  <1>13. \A y, z \in Threads : Pending(y)' /\ Pending(z)' /\ y # z =>
             job'[y].ticket # job'[z].ticket
    <2>1. \A n \in TableIds : n < k => n # k
      BY <1>3, StoreAssumption DEF TableIds
    <2> HIDE DEF k
    <2> QED
      BY <1>4, <1>7, <1>11, <2>1 DEF Fresh
  <1> QED
    BY <1>9, <1>12, <1>13 DEF Fresh

LEMMA RestartFresh == Restart => Fresh'
  <1> SUFFICES ASSUME Restart PROVE Fresh'
    OBVIOUS
  <1>1. \A n \in TableIds : Vacant(n)'
    BY DEF Restart, Vacant, Planning, TableIds
  <1>2. \A y \in Threads : ~Pending(y)'
    BY DEF Restart, Pending
  <1> QED
    BY <1>1, <1>2 DEF Fresh

LEMMA NextFresh == IInv /\ Fresh /\ [Next]_vars => Fresh'
  <1> SUFFICES ASSUME IInv, Fresh, [Next]_vars PROVE Fresh'
    OBVIOUS
  <1>1. TypeOK /\ Located
    BY DEF IInv
  <1>2. ASSUME NEW x \in Threads, Step(x), ~Stores(x) PROVE Fresh'
    BY <1>1, <1>2, FreshKept, StepShrinks, StepPending DEF Shrinks
  <1>3. ASSUME NEW x \in Threads, Stores(x) PROVE Fresh'
    BY <1>3, SetDefaultFresh, InsertFresh DEF Stores
  <1>4. ASSUME NEW x \in Threads, NEW c \in Callers, NEW t \in Texts,
               CallApprove(x, c, t) \/ CallRun(x, c, t)
        PROVE  Fresh'
    <2>1. /\ UNCHANGED <<planned, tables, table, calls>>
          /\ pc' = [pc EXCEPT ![x] = "list"]
      BY <1>4 DEF CallApprove, CallRun, Enter, Move, store, local, bounds
    <2>4. /\ job'[x].op # "record plan"
          /\ \A y \in Threads \ {x} : job'[y] = job[y]
      <3>1. 0 \in 0..MaxPlans
        BY StoreAssumption
      <3>2. PICK op \in {"record approval", "plan exists"} : Enter(x, op, c, t, 0)
        BY <1>4 DEF CallApprove, CallRun
      <3>3. op \in Operations /\ op # "record plan"
        BY DEF Operations
      <3> QED
        BY <1>1, <3>1, <3>2, <3>3, EnterTyped
    <2>2. \A z \in Threads : Planning(pc'[z]) => Planning(pc[z]) /\ table'[z] = table[z]
      BY <1>1, <2>1 DEF Planning, TypeOK
    <2>3. \A z \in Threads : Pending(z)' => Pending(z) /\ job'[z] = job[z]
      BY <1>1, <2>1, <2>4 DEF Pending, TypeOK
    <2> QED
      BY <1>1, <2>1, <2>2, <2>3, FreshKept
  <1>5. CASE Tick \/ UNCHANGED vars
    <2>1. UNCHANGED <<planned, tables, pc, job, table, calls>>
      BY <1>5 DEF Tick, store, local, bounds, vars
    <2> QED
      BY <1>1, <2>1, FreshKept DEF Pending
  <1> QED
    BY <1>2, <1>3, <1>4, <1>5, CallPlanFresh, RestartFresh DEF Next, Call

-----------------------------------------------------------------------------
(* What a step of another thread leaves of a call's sweep                  *)
LEMMA LookedStays ==
    ASSUME IInv, NEW y \in Threads, LookedAt(y),
           pc'[y] = pc[y], job'[y] = job[y], todo'[y] = todo[y], at'[y] = at[y],
           stale'[y] = stale[y], table'[y] = table[y], found'[y] = found[y],
           pc[y] # "idle" => job[y].stored =< born',
           pc[y] # "idle" => \A d \in Callers, n \in TableIds : \A r \in tables'[d][n] :
                                 r \in tables[d][n] \/ Timely(y, r),
           \A d \in Callers : \/ planned'[d] = planned[d]
                              \/ planned'[d] = 0
                              \/ tables'[d][planned'[d]] = {}
    PROVE  LookedAt(y)'
  <1>1. \A r : Timely(y, r)' <=> Timely(y, r)
    BY DEF Timely
  <1>2. ASSUME NEW d, NEW n, NEW r
        PROVE  ToCome(y, d, n, r)' <=> ToCome(y, d, n, r)
    BY DEF ToCome
  <1>3. 0 \notin TableIds
    BY StoreAssumption DEF TableIds
  <1>4. ASSUME Sweeping(pc[y]), NEW d \in Callers, NEW n \in TableIds, planned'[d] = n,
               NEW r \in tables'[d][n]
        PROVE  Timely(y, r) \/ ToCome(y, d, n, r)
    BY <1>3, <1>4 DEF LookedAt, Sweeping
  <1>5. ASSUME pc[y] = "find", table[y] # 0
        PROVE  \A r \in tables'[job[y].caller][table[y]] : Timely(y, r)
    <2>1. job[y].caller \in Callers /\ table[y] \in TableIds
      BY <1>5, StoreAssumption DEF IInv, TypeOK, Located, Serving, Job, TableIds
    <2> QED
      BY <1>5, <2>1 DEF LookedAt
  <1>6. (Sweeping(pc[y]) => \A d \in Callers, n \in TableIds : planned[d] = n =>
            \A r \in tables[d][n] : Timely(y, r) \/ ToCome(y, d, n, r))'
    BY <1>1, <1>2, <1>4
  <1>7. ((pc[y] = "find" /\ table[y] # 0) =>
            \A r \in tables[job[y].caller][table[y]] : Timely(y, r))'
    BY <1>1, <1>5
  <1>8. (Handling(pc[y]) => \A r \in found[y] : Timely(y, r))'
    BY <1>1 DEF LookedAt
  <1>9. (pc[y] = "pop" => \E e \in Entries : at[y] = {e})'
    BY DEF LookedAt
  <1> QED
    BY <1>6, <1>7, <1>8, <1>9 DEF LookedAt

(* Steps after which a call has no sweep under way and nothing in hand     *)
LEMMA QuietLooked ==
    ASSUME NEW x \in Threads,
           pc'[x] \in {"idle", "list", "displace", "insert", "trim", "evict"},
           pc'[x] # "idle" => job'[x].stored =< born'
    PROVE  LookedAt(x)'
  BY DEF LookedAt, Sweeping, Handling

-----------------------------------------------------------------------------
(* The sweep and the lookup of one call                                    *)
LEMMA ListLooked ==
    ASSUME IInv, NEW x \in Threads, LookedAt(x), ListTables(x)
    PROVE  LookedAt(x)'
  <1>1. /\ pc[x] = "list" /\ pc'[x] = "sweep" /\ UNCHANGED <<planned, job, born>>
        /\ todo'[x] = {e \in Entries : planned[e[1]] = e[2]}
    BY DEF ListTables, Move, store, history, IInv, TypeOK
  <1>2. \A d \in Callers, n \in TableIds : planned'[d] = n => <<d, n>> \in todo'[x]
    BY <1>1 DEF Entries
  <1> QED
    BY <1>1, <1>2 DEF LookedAt, ToCome, Sweeping, Handling

LEMMA VisitLooked ==
    ASSUME IInv, NEW x \in Threads, LookedAt(x), VisitTable(x)
    PROVE  LookedAt(x)'
  <1>1. TypeOK /\ job[x] \in Job
    BY DEF VisitTable, IInv, Located, Serving
  <1>2. PICK e \in todo[x] :
            /\ todo'[x] = todo[x] \ {e} /\ at'[x] = {e}
            /\ stale'[x] =
                   {r.text : r \in {q \in tables[e[1]][e[2]] : Expired(q, job[x].now)}}
    BY <1>1 DEF VisitTable, TypeOK
  <1>3. /\ pc[x] = "sweep" /\ pc'[x] = "pop"
        /\ UNCHANGED <<planned, tables, job, born>>
    BY <1>1 DEF VisitTable, Move, store, history, TypeOK
  <1>4. ASSUME NEW d \in Callers, NEW n \in TableIds, planned[d] = n,
               NEW r \in tables[d][n], ~Timely(x, r)
        PROVE  \/ <<d, n>> \in todo'[x]
               \/ <<d, n>> \in at'[x] /\ r.text \in stale'[x]
    <2>1. <<d, n>> \in todo[x]
      BY <1>3, <1>4 DEF LookedAt, Sweeping, ToCome
    <2>2. r \in Record
      BY <1>1 DEF TypeOK
    <2>3. Expired(r, job[x].now)
      BY <1>1, <1>4, <2>2, StoreAssumption DEF Timely, Expired, Record, Job
    <2>4. <<d, n>> = e => r.text \in stale'[x]
      BY <1>2, <2>3
    <2>5. CASE <<d, n>> = e
      BY <1>2, <2>4, <2>5
    <2>6. CASE <<d, n>> # e
      BY <1>2, <2>1, <2>6
    <2> QED
      BY <2>5, <2>6
  <1>5. e \in Entries
    BY <1>1 DEF TypeOK
  <1>6. \A r : Timely(x, r)' <=> Timely(x, r)
    BY <1>3 DEF Timely
  <1>7. \A d \in Callers, n \in TableIds : planned'[d] = n =>
            \A r \in tables'[d][n] : Timely(x, r)' \/ ToCome(x, d, n, r)'
    BY <1>3, <1>4, <1>6 DEF ToCome
  <1> QED
    BY <1>2, <1>3, <1>5, <1>7 DEF LookedAt, Handling

LEMMA PopLooked ==
    ASSUME IInv, NEW x \in Threads, LookedAt(x), PopExpired(x)
    PROVE  LookedAt(x)'
  <1>1. TypeOK
    BY DEF IInv
  <1>2. PICK e \in at[x], t \in stale[x] :
            /\ stale' = [stale EXCEPT ![x] = @ \ {t}]
            /\ tables' = [tables EXCEPT ![e[1]][e[2]] = @ \ Keyed(@, t)]
    BY DEF PopExpired
  <1>3. pc[x] = "pop" /\ UNCHANGED <<planned, pc, job, todo, at, born>>
    BY DEF PopExpired, history
  <1>4. at[x] = {e} /\ e \in Entries
    BY <1>2, <1>3 DEF LookedAt
  <1>5. /\ e = <<e[1], e[2]>> /\ e[1] \in Callers /\ e[2] \in TableIds
        /\ stale'[x] = stale[x] \ {t}
    BY <1>1, <1>2, <1>4 DEF Entries, TypeOK
  <1>6. \A d \in Callers, n \in TableIds : tables'[d][n] =
            IF <<d, n>> = e THEN tables[d][n] \ Keyed(tables[d][n], t) ELSE tables[d][n]
    <2>1. \A d \in Callers, n \in TableIds : tables'[d][n] =
              IF d = e[1] /\ n = e[2] THEN tables[d][n] \ Keyed(tables[d][n], t)
                                      ELSE tables[d][n]
      BY <1>1, <1>2, <1>5 DEF TypeOK
    <2>2. \A d, n : <<d, n>> = e <=> d = e[1] /\ n = e[2]
      BY <1>5
    <2> QED
      BY <2>1, <2>2
  <1>7. \A d \in Callers, n \in TableIds : \A r \in tables'[d][n] :
            r \in tables[d][n] /\ (<<d, n>> = e => r.text # t)
    BY <1>6 DEF Keyed
  <1>8. \A r : Timely(x, r)' <=> Timely(x, r)
    BY <1>3 DEF Timely
  <1>9. \A d \in Callers, n \in TableIds : planned'[d] = n =>
            \A r \in tables'[d][n] : Timely(x, r)' \/ ToCome(x, d, n, r)'
    BY <1>3, <1>4, <1>5, <1>7, <1>8 DEF LookedAt, Sweeping, ToCome
  <1> QED
    BY <1>3, <1>9 DEF LookedAt, Handling

LEMMA TestLooked ==
    ASSUME IInv, NEW x \in Threads, LookedAt(x), TestEmpty(x)
    PROVE  LookedAt(x)'
  <1>1. /\ pc[x] = "pop" /\ stale[x] = {} /\ pc'[x] \in {"drop", "sweep"}
        /\ UNCHANGED <<planned, tables, job, todo, born>>
    BY DEF TestEmpty, Move, store, history, IInv, TypeOK
  <1>2. \A r : Timely(x, r)' <=> Timely(x, r)
    BY <1>1 DEF Timely
  <1>3. \A d \in Callers, n \in TableIds : planned'[d] = n =>
            \A r \in tables'[d][n] : Timely(x, r)' \/ ToCome(x, d, n, r)'
    BY <1>1, <1>2 DEF LookedAt, Sweeping, ToCome
  <1> QED
    BY <1>1, <1>3 DEF LookedAt, Handling

LEMMA DropLooked ==
    ASSUME IInv, NEW x \in Threads, LookedAt(x), DropCaller(x)
    PROVE  LookedAt(x)'
  <1>1. /\ pc[x] = "drop" /\ pc'[x] = "sweep"
        /\ UNCHANGED <<tables, job, todo, born>>
    BY DEF DropCaller, Move, history, IInv, TypeOK
  <1>2. \A d \in Callers : planned'[d] = planned[d] \/ planned'[d] = 0
    BY DEF DropCaller, IInv, TypeOK
  <1>3. 0 \notin TableIds
    BY StoreAssumption DEF TableIds
  <1>4. \A r : Timely(x, r)' <=> Timely(x, r)
    BY <1>1 DEF Timely
  <1>5. \A d \in Callers, n \in TableIds : planned'[d] = n =>
            \A r \in tables'[d][n] : Timely(x, r)' \/ ToCome(x, d, n, r)'
    BY <1>1, <1>2, <1>3, <1>4 DEF LookedAt, Sweeping, ToCome
  <1> QED
    BY <1>1, <1>5 DEF LookedAt, Handling

LEMMA GetLooked ==
    ASSUME IInv, NEW x \in Threads, LookedAt(x), GetTable(x)
    PROVE  LookedAt(x)'
  <1>1. TypeOK /\ job[x].caller \in Callers
    BY DEF GetTable, Swept, IInv, Located, Serving, Job
  <1>2. /\ pc[x] = "sweep" /\ todo[x] = {} /\ pc'[x] = "find"
        /\ UNCHANGED <<planned, tables, job, born>>
        /\ table'[x] = planned[job[x].caller]
    BY <1>1 DEF GetTable, Swept, Move, store, history, TypeOK
  <1>3. \A r : Timely(x, r)' <=> Timely(x, r)
    BY <1>2 DEF Timely
  <1>4. table'[x] # 0 => table'[x] \in TableIds
    BY <1>1, <1>2, StoreAssumption DEF TypeOK, TableIds
  <1>5. table'[x] # 0 => \A r \in tables'[job'[x].caller][table'[x]] : Timely(x, r)'
    BY <1>1, <1>2, <1>3, <1>4 DEF LookedAt, Sweeping, ToCome
  <1> QED
    BY <1>2, <1>5 DEF LookedAt, Sweeping, Handling

LEMMA FindLooked ==
    ASSUME IInv, NEW x \in Threads, LookedAt(x), FindRecord(x)
    PROVE  LookedAt(x)'
  <1>1. /\ pc[x] = "find" /\ pc'[x] \in {"mark", "flag"} /\ UNCHANGED <<job, born>>
        /\ InTable(x) # {} /\ found'[x] = InTable(x)
    BY DEF FindRecord, Move, history, IInv, TypeOK
  <1>2. table[x] # 0 /\ found'[x] \subseteq tables[job[x].caller][table[x]]
    BY <1>1 DEF InTable, Keyed
  <1>3. \A r \in found'[x] : Timely(x, r)'
    BY <1>1, <1>2 DEF LookedAt, Timely
  <1> QED
    BY <1>1, <1>3 DEF LookedAt, Sweeping

LEMMA FlagLooked ==
    ASSUME IInv, NEW x \in Threads, LookedAt(x), FlagSet(x)
    PROVE  LookedAt(x)'
  <1>1. /\ pc[x] = "flag" /\ pc'[x] = "post" /\ UNCHANGED <<job, found, born>>
    BY DEF FlagSet, Move, local, history, IInv, TypeOK
  <1> QED
    BY <1>1 DEF LookedAt, Sweeping, Handling, Timely

-----------------------------------------------------------------------------
(* The steps of a thread leave the sweeps of the others in order, ...      *)
LEMMA OthersLooked ==
    ASSUME IInv, Fresh, Looked, NEW x \in Threads, Call(x) \/ Step(x),
           NEW y \in Threads \ {x}
    PROVE  LookedAt(y)'
  <1>1. TypeOK /\ Located /\ LookedAt(y)
    BY DEF IInv, Looked
  <1>2. /\ pc'[y] = pc[y] /\ job'[y] = job[y] /\ todo'[y] = todo[y] /\ at'[y] = at[y]
        /\ stale'[y] = stale[y] /\ table'[y] = table[y] /\ found'[y] = found[y]
    BY <1>1, StepApart DEF Apart
  <1>3. pc[y] # "idle" => job[y].stored =< born
    BY <1>1 DEF LookedAt
  <1>4. ASSUME Shrinks PROVE LookedAt(y)'
    BY <1>1, <1>2, <1>3, <1>4, LookedStays DEF Shrinks
  <1>5. ASSUME Call(x) PROVE Shrinks
    BY <1>5 DEF Call, CallPlan, CallApprove, CallRun, Enter, store, Shrinks
  <1>6. CASE SetDefault(x)
    <2>1. UNCHANGED <<tables, born>>
      BY <1>6 DEF SetDefault, history
    <2>2. Pending(x) /\ job[x].caller \in Callers
      BY <1>1, <1>6 DEF SetDefault, Swept, Pending, Located, Serving, Job
    <2>3. tables[job[x].caller][job[x].ticket] = {}
      BY <2>2 DEF Fresh, Vacant
    <2>4. \A d \in Callers : \/ planned'[d] = planned[d]
                             \/ tables'[d][planned'[d]] = {}
      BY <1>1, <1>6, <2>1, <2>2, <2>3 DEF SetDefault, TypeOK
    <2> QED
      BY <1>1, <1>2, <1>3, <2>1, <2>4, LookedStays
  <1>7. CASE Insert(x)
    <2>1. born' = born + 1 /\ planned' = planned /\ born \in Nat
      BY <1>1, <1>7 DEF Insert, TypeOK
    <2>2. ASSUME pc[y] # "idle"
          PROVE  job[y].stored =< born' /\ job[y].stored < born + 1
      <3>1. job[y].stored \in Nat
        BY <1>1, <2>2 DEF Located, Serving, Job
      <3> QED
        BY <1>3, <2>1, <2>2, <3>1
    <2>3. \A d \in Callers, n \in TableIds : \A r \in tables'[d][n] :
              r \in tables[d][n] \/ r = Stored(x)
      BY <1>1, <1>7 DEF Insert, TypeOK
    <2>4. Stored(x).id = born + 1
      BY DEF Stored
    <2>5. pc[y] # "idle" => Timely(y, Stored(x))
      BY <2>1, <2>2, <2>4, <1>1 DEF Timely, Located, Serving, Job
    <2> QED
      BY <1>1, <1>2, <2>1, <2>2, <2>3, <2>5, LookedStays
  <1> QED
    BY <1>1, <1>4, <1>5, <1>6, <1>7, StepShrinks DEF Stores

(* ... and its own.                                                        *)
LEMMA EnterLooked ==
    ASSUME IInv, NEW x \in Threads, NEW op \in Operations, NEW c \in Callers,
           NEW t \in Texts, NEW k \in 0..MaxPlans, Enter(x, op, c, t, k), born' = born
    PROVE  LookedAt(x)'
  <1>1. pc'[x] = "list" /\ job'[x].stored = born /\ born \in Nat
    BY DEF Enter, Move, IInv, TypeOK
  <1> QED
    BY <1>1, QuietLooked

LEMMA OwnLooked ==
    ASSUME IInv, NEW x \in Threads, LookedAt(x), Call(x) \/ Step(x)
    PROVE  LookedAt(x)'
  <1>1. TypeOK /\ Located
    BY DEF IInv
  <1>2. CASE Call(x)
    <2>1. PICK c \in Callers, t \in Texts :
              CallPlan(x, c, t) \/ CallApprove(x, c, t) \/ CallRun(x, c, t)
      BY <1>2 DEF Call
    <2>2. CASE CallPlan(x, c, t)
      <3>1. calls + 1 \in 0..MaxPlans
        <4>1. calls < MaxPlans
          BY <2>2 DEF CallPlan
        <4> QED
          BY <1>1, <4>1, StoreAssumption DEF TypeOK
      <3>2. "record plan" \in Operations
        BY DEF Operations
      <3> QED
        BY <2>2, <3>1, <3>2, EnterLooked DEF CallPlan, Enter
    <2>3. CASE CallApprove(x, c, t) \/ CallRun(x, c, t)
      <3>1. 0 \in 0..MaxPlans
        BY StoreAssumption
      <3>2. {"record approval", "plan exists"} \subseteq Operations
        BY DEF Operations
      <3> QED
        BY <2>3, <3>1, <3>2, EnterLooked DEF CallApprove, CallRun, Enter
    <2> QED
      BY <2>1, <2>2, <2>3
  <1>3. CASE FindPlanned(x)
    <2>1. 0 \in 0..MaxPlans
      BY StoreAssumption
    <2>2. job[x].caller \in Callers /\ job[x].text \in Texts
      BY <1>1, <1>3 DEF FindPlanned, Located, Serving, Job
    <2>3. "approval exists" \in Operations
      BY DEF Operations
    <2> QED
      BY <1>3, <2>1, <2>2, <2>3, EnterLooked DEF FindPlanned, Enter
  <1>4. CASE Answer(x)
    <2>1. pc'[x] = "idle"
      BY <1>1, <1>4 DEF Answer, Move, TypeOK
    <2> QED
      BY <2>1, QuietLooked
  <1>5. CASE SetDefault(x) \/ Displace(x) \/ Insert(x) \/ TrimMore(x) \/ Evict(x)
    <2>1. pc'[x] \in {"displace", "insert", "trim", "evict"} /\ pc[x] # "idle"
      BY <1>1, <1>5 DEF SetDefault, Swept, Displace, Insert, TrimMore, Evict, Move, TypeOK
    <2>2. job' = job /\ (born' = born \/ born' = born + 1)
      BY <1>5 DEF SetDefault, Displace, Insert, TrimMore, Evict, history
    <2>3. job[x].stored \in Nat /\ born \in Nat /\ job[x].stored =< born
      BY <1>1, <2>1 DEF LookedAt, Located, Serving, Job, TypeOK
    <2>4. job'[x].stored =< born'
      BY <2>2, <2>3
    <2> QED
      BY <2>1, <2>4, QuietLooked
  <1> QED
    BY <1>2, <1>3, <1>4, <1>5, ListLooked, VisitLooked, PopLooked, TestLooked, DropLooked,
       GetLooked, FindLooked, FlagLooked
    DEF Step, Sweep, RecordPlan, LookUp, TrimDone, EvictRaises, FindNothing, Mark,
        FlagUnset, RunAnswered

LEMMA NextLooked == IInv /\ Fresh /\ Looked /\ [Next]_vars => Looked'
  <1> SUFFICES ASSUME IInv, Fresh, Looked, [Next]_vars PROVE Looked'
    OBVIOUS
  <1>1. ASSUME NEW x \in Threads, Call(x) \/ Step(x) PROVE Looked'
    <2>1. LookedAt(x)'
      BY <1>1, OwnLooked DEF Looked
    <2>2. \A y \in Threads \ {x} : LookedAt(y)'
      BY <1>1, OthersLooked
    <2> QED
      BY <2>1, <2>2 DEF Looked
  <1>2. CASE Tick \/ UNCHANGED vars
    <2>1. UNCHANGED <<planned, tables, pc, job, todo, at, stale, table, found, born>>
      BY <1>2 DEF Tick, store, local, history, vars
    <2> QED
      BY <2>1 DEF Looked, LookedAt, Timely, ToCome
  <1>3. CASE Restart
    BY <1>3, QuietLooked DEF Restart, Looked
  <1> QED
    BY <1>1, <1>2, <1>3 DEF Next

(* However the sweeps, evictions and re-plans of any number of threads     *)
(* interleave, run_workflow posts nothing on a record that was past its    *)
(* lifetime when its check began, unless the record was stored since       *)
(* (lines 95-119 of core/planned_manifests.py).                            *)
THEOREM NoExpiredRun == Spec => []NoRunOnAnExpiredPlan
  <1>1. Init => Fresh /\ Looked
    <2>1. Init => Fresh
      BY DEF Init, Fresh, Vacant, Pending, Planning, TableIds
    <2>2. Init => Looked
      BY DEF Init, Looked, LookedAt, Sweeping, Handling
    <2> QED
      BY <2>1, <2>2
  <1>2. Fresh /\ Looked /\ IInv /\ [Next]_vars => Fresh' /\ Looked'
    BY NextFresh, NextLooked
  <1>3. Looked => NoRunOnAnExpiredPlan
    BY DEF Looked, LookedAt, Handling, Timely, NoRunOnAnExpiredPlan
  <1> QED
    BY <1>1, <1>2, <1>3, Inductive, PTL DEF Spec
-----------------------------------------------------------------------------
(* Calls one at a time in the store: what overlapping calls may break.     *)
(* Such a call works on the dicts that _planned has (InPlace, Grasped),    *)
(* pops only what has expired, and what it found is still in place.  The   *)
(* record in place is the newest of its text (Newest), every insertion     *)
(* goes last (Ordered), and so a record goes only by expiry, by a newer    *)
(* plan of its text or when as many newer texts as are kept were planned   *)
(* (Kept).  A run may last over the calls of others: the approval that it  *)
(* rests on is over all that its user had been shown (Rested).             *)
Lonely(x) == \A y \in Threads : InStore(pc[y]) => y = x

Placed(r) == \E n \in TableIds : planned[r.caller] = n /\ r \in tables[r.caller][n]

InPlace(x) ==
    /\ Sweeping(pc[x]) => \A e \in todo[x] : planned[e[1]] = e[2]
    /\ pc[x] \in {"pop", "drop"} => \E e \in Entries \ todo[x] :
                                         at[x] = {e} /\ planned[e[1]] = e[2]
    /\ Planning(pc[x]) => planned[job[x].caller] = table[x]
    /\ pc[x] = "find" => planned[job[x].caller] = table[x]

Grasped(x) ==
    /\ pc[x] # "idle" => job[x].now =< clock
    /\ pc[x] = "pop" => \A e \in at[x], t \in stale[x] :
           \A r \in Keyed(tables[e[1]][e[2]], t) : Expired(r, job[x].now)
    /\ pc[x] = "drop" => \A e \in at[x] : tables[e[1]][e[2]] = {}
    /\ pc[x] = "insert" => Keyed(tables[job[x].caller][table[x]], job[x].text) = {}
    /\ pc[x] = "evict" => OverKept(x)
    /\ pc[x] \in {"mark", "flag"} => \A r \in found[x] : Placed(r)

Informed(x) == pc[x] # "idle" => \A i \in job[x].shown : \E q \in issued :
                   q.id = i /\ q.caller = job[x].caller /\ q.text = job[x].text

Rested(x) == pc[x] = "post" => \A r \in found[x] :
                 \E a \in approvals : a.plan = r.id /\ job[x].shown \subseteq a.over

NewestOf(r) == \A q \in issued : q.caller = r.caller /\ q.text = r.text => q.id =< r.id

Newest == \A c \in Callers, n \in TableIds : planned[c] = n =>
              \A r \in tables[c][n] : NewestOf(r)

Ordered == \A c \in Callers, n \in TableIds : \A r \in tables[c][n] : r.slot = r.id

Covers == \A a \in approvals, q \in issued :
              q.caller = a.caller /\ q.text = a.text /\ q.id =< a.plan => q.id \in a.over

Later(r) == {q.text : q \in {p \in issued : p.caller = r.caller /\ p.id > r.id}}

Replanning(x, r) == pc[x] = "insert" /\ job[x].caller = r.caller /\ job[x].text = r.text

Owed(r) ==
    /\ clock - r.planned_at =< LIFETIME
    /\ NewestOf(r)
    /\ Cardinality(Later(r)) < KEPT
    /\ \A x \in Threads : ~Replanning(x, r)

Kept == IsFiniteSet(issued) /\ \A r \in issued : Owed(r) => Placed(r)

Lone(x) == InPlace(x) /\ Grasped(x) /\ Informed(x) /\ Rested(x)
Stock == Newest /\ Ordered /\ Covers /\ Kept

InTurn == ~overlapped => Stock /\ \A x \in Threads :
              Lone(x) /\ (InStore(pc[x]) => Lonely(x))

LEMMA InitInTurn == Init => InTurn
  <1> SUFFICES ASSUME Init PROVE InTurn
    OBVIOUS
  <1>1. Stock
    BY FS_EmptySet DEF Init, Stock, Newest, Ordered, Covers, Kept
  <1> QED
    BY <1>1 DEF Init, InTurn, Lone, InPlace, Grasped, Informed, Rested, Sweeping, Planning,
                InStore

LEMMA RestartInTurn == Restart => InTurn'
  <1> SUFFICES ASSUME Restart PROVE InTurn'
    OBVIOUS
  <1>1. IsFiniteSet({})
    BY FS_EmptySet
  <1>2. Stock'
    BY <1>1 DEF Restart, Stock, Newest, Ordered, Covers, Kept
  <1> QED
    BY <1>2 DEF Restart, InTurn, Lone, InPlace, Grasped, Informed, Rested, Sweeping,
                Planning, InStore

(* A plan stays where it is owed unless a step takes it out of its place.  *)
LEMMA KeptStays ==
    ASSUME TypeOK, Kept, issued' = issued, clock' = clock \/ clock' = clock + 1,
           \A x \in Threads, r \in issued : Replanning(x, r) => Replanning(x, r)',
           \A r \in issued : Owed(r) /\ Owed(r)' /\ Placed(r) => Placed(r)'
    PROVE  Kept'
  <1>1. ASSUME NEW r \in issued, Owed(r)' PROVE Owed(r)
    <2>1. r.planned_at \in Nat /\ clock \in Nat /\ LIFETIME \in Nat
      BY StoreAssumption DEF TypeOK, Record
    <2>2. clock' - r.planned_at =< LIFETIME => clock - r.planned_at =< LIFETIME
      BY <2>1
    <2>3. Later(r)' = Later(r) /\ (NewestOf(r)' <=> NewestOf(r))
      BY DEF Later, NewestOf
    <2> QED
      BY <1>1, <2>2, <2>3 DEF Owed
  <1> QED
    BY <1>1 DEF Kept

(* Steps that store nothing and put nothing in place                       *)
LEMMA StockStays ==
    ASSUME TypeOK, Stock, UNCHANGED <<issued, approvals>>, clock' = clock \/ clock' = clock + 1,
           \A c \in Callers, n \in TableIds : tables'[c][n] \subseteq tables[c][n],
           \A c \in Callers : planned'[c] = planned[c] \/ planned'[c] = 0,
           \A x \in Threads, r \in issued : Replanning(x, r) => Replanning(x, r)',
           \A r \in issued : Owed(r) /\ Owed(r)' /\ Placed(r) => Placed(r)'
    PROVE  Stock'
  <1>1. Kept'
    BY KeptStays DEF Stock
  <1>2. 0 \notin TableIds
    BY DEF TableIds
  <1>3. Newest'
    BY <1>2 DEF Stock, Newest, NewestOf
  <1>4. Ordered' /\ Covers'
    BY DEF Stock, Ordered, Covers
  <1> QED
    BY <1>1, <1>3, <1>4 DEF Stock

LEMMA StockUntouched ==
    ASSUME TypeOK, Stock, UNCHANGED <<planned, tables, issued, approvals>>,
           clock' = clock \/ clock' = clock + 1,
           \A x \in Threads : pc[x] = "insert" => pc'[x] = "insert" /\ job'[x] = job[x]
    PROVE  Stock'
  <1>1. \A x \in Threads, r \in issued : Replanning(x, r) => Replanning(x, r)'
    BY DEF Replanning, Lonely, InStore
  <1>2. \A r \in issued : Placed(r) => Placed(r)'
    BY DEF Placed
  <1> QED
    BY <1>1, <1>2, StockStays

LEMMA StillInformed ==
    ASSUME NEW x \in Threads, Informed(x), pc[x] # "idle", job'[x] = job[x],
           issued \subseteq issued'
    PROVE  Informed(x)'
  BY DEF Informed

(* A call that has just come in knows what its user was shown.             *)
LEMMA EnterLone ==
    ASSUME IInv, NEW x \in Threads, NEW op, NEW c, NEW t, NEW k,
           Enter(x, op, c, t, k), UNCHANGED <<clock, issued>>
    PROVE  Lone(x)'
  <1>1. /\ pc'[x] = "list" /\ job'[x].now = clock /\ job'[x].caller = c /\ job'[x].text = t
        /\ job'[x].shown = Ids(ShownPlans, c, t)
    BY DEF Enter, Move, IInv, TypeOK
  <1>2. Informed(x)'
    BY <1>1 DEF Informed, Ids, ShownPlans
  <1>3. clock \in Nat
    BY DEF IInv, TypeOK
  <1> QED
    BY <1>1, <1>2, <1>3 DEF Lone, Rested, InPlace, Grasped, Sweeping, Planning, Handling

LEMMA AnswerLone ==
    ASSUME IInv, NEW x \in Threads, Answer(x)
    PROVE  Lone(x)' /\ pc'[x] = "idle"
  <1>1. pc'[x] = "idle"
    BY DEF Answer, Move, IInv, TypeOK
  <1> QED
    BY <1>1 DEF Lone, Rested, InPlace, Grasped, Informed, Sweeping, Planning, Handling

-----------------------------------------------------------------------------
(* The sweep of a lone call                                                *)
LEMMA ListLone ==
    ASSUME IInv, NEW x \in Threads, Lone(x), ListTables(x)
    PROVE  Lone(x)'
  <1>1. /\ pc[x] = "list" /\ pc'[x] = "sweep"
        /\ UNCHANGED <<planned, tables, job, clock, issued>>
        /\ todo'[x] = {e \in Entries : planned[e[1]] = e[2]}
    BY DEF ListTables, Move, store, history, IInv, TypeOK
  <1>2. InPlace(x)'
    BY <1>1 DEF InPlace, Planning
  <1>3. Grasped(x)' /\ Informed(x)'
    BY <1>1, StillInformed DEF Lone, Grasped, Handling
  <1> QED
    BY <1>1, <1>2, <1>3 DEF Lone, Rested

LEMMA VisitLone ==
    ASSUME IInv, NEW x \in Threads, Lone(x), VisitTable(x)
    PROVE  Lone(x)'
  <1>1. PICK e \in todo[x] :
            /\ todo'[x] = todo[x] \ {e} /\ at'[x] = {e}
            /\ stale'[x] =
                   {r.text : r \in {q \in tables[e[1]][e[2]] : Expired(q, job[x].now)}}
    BY DEF VisitTable, IInv, TypeOK
  <1>2. /\ pc[x] = "sweep" /\ pc'[x] = "pop"
        /\ UNCHANGED <<planned, tables, job, clock, issued>>
    BY DEF VisitTable, Move, store, history, IInv, TypeOK
  <1>3. e \in Entries /\ e[1] \in Callers /\ e[2] \in TableIds
    BY DEF IInv, TypeOK, Entries
  <1>4. planned[e[1]] = e[2] /\ \A d \in todo'[x] : planned[d[1]] = d[2]
    BY <1>1, <1>2 DEF Lone, InPlace, Sweeping
  <1>5. InPlace(x)'
    BY <1>1, <1>2, <1>3, <1>4 DEF InPlace, Planning
  <1>6. ASSUME NEW t \in stale'[x], NEW r \in Keyed(tables[e[1]][e[2]], t)
        PROVE  Expired(r, job[x].now)
    <2>1. PICK q \in tables[e[1]][e[2]] : Expired(q, job[x].now) /\ q.text = t
      BY <1>1
    <2>2. q = r
      BY <1>3, <2>1 DEF Keyed, IInv, Stocked, OnePerText
    <2> QED
      BY <2>1, <2>2
  <1>7. Grasped(x)'
    BY <1>1, <1>2, <1>6 DEF Lone, Grasped, Handling, Expired
  <1> QED
    BY <1>2, <1>5, <1>7, StillInformed DEF Lone, Rested

LEMMA PopLone ==
    ASSUME IInv, Stock, NEW x \in Threads, Lonely(x), Lone(x), PopExpired(x)
    PROVE  Lone(x)' /\ Stock'
  <1>1. TypeOK
    BY DEF IInv
  <1>2. PICK e \in at[x], t \in stale[x] :
            /\ stale' = [stale EXCEPT ![x] = @ \ {t}]
            /\ tables' = [tables EXCEPT ![e[1]][e[2]] = @ \ Keyed(@, t)]
    BY DEF PopExpired
  <1>3. /\ pc[x] = "pop"
        /\ UNCHANGED <<planned, approvals, clock, pc, job, todo, at, table, issued>>
    BY DEF PopExpired, history
  <1>4. at[x] = {e} /\ e \in Entries /\ planned[e[1]] = e[2]
    BY <1>2, <1>3 DEF Lone, InPlace
  <1>5. /\ e[1] \in Callers /\ e[2] \in TableIds /\ stale'[x] = stale[x] \ {t}
    BY <1>1, <1>2, <1>4 DEF Entries, TypeOK
  <1>6. /\ tables'[e[1]][e[2]] = tables[e[1]][e[2]] \ Keyed(tables[e[1]][e[2]], t)
        /\ \A d \in Callers, n \in TableIds :
              d # e[1] \/ n # e[2] => tables'[d][n] = tables[d][n]
    BY <1>1, <1>2, <1>5 DEF TypeOK
  <1>7. \A r \in Keyed(tables[e[1]][e[2]], t) : Expired(r, job[x].now)
    BY <1>2, <1>3 DEF Lone, Grasped
  <1>8. job[x].now =< clock /\ job[x].now \in Nat /\ clock \in Nat
    BY <1>1, <1>3 DEF Lone, Grasped, IInv, Located, Serving, Job, TypeOK
  <1>9. ASSUME NEW r \in issued, Owed(r), Placed(r)
        PROVE  Placed(r)'
    <2>1. PICK n \in TableIds : planned[r.caller] = n /\ r \in tables[r.caller][n]
      BY <1>9 DEF Placed
    <2>2. r.caller \in Callers /\ r.planned_at \in Nat
      BY <1>1 DEF TypeOK, Record
    <2>3. ~Expired(r, job[x].now)
      BY <1>8, <1>9, <2>2, StoreAssumption DEF Owed, Expired
    <2>4. r \in tables'[r.caller][n]
      BY <1>6, <1>7, <2>1, <2>2, <2>3
    <2> QED
      BY <1>3, <2>1, <2>4 DEF Placed
  <1>10. \A d \in Callers, n \in TableIds : tables'[d][n] \subseteq tables[d][n]
    BY <1>6
  <1>11. Stock'
    <2>1. \A y \in Threads, r \in issued : Replanning(y, r) => Replanning(y, r)'
      BY <1>3 DEF Replanning, Lonely, InStore
    <2> QED
      BY <1>1, <1>3, <1>9, <1>10, <2>1, StockStays
  <1>12. InPlace(x)'
    BY <1>3 DEF Lone, InPlace
  <1>13. Grasped(x)'
    BY <1>3, <1>4, <1>5, <1>6, <1>7 DEF Lone, Grasped, Keyed, Handling, Expired
  <1> QED
    BY <1>3, <1>11, <1>12, <1>13, StillInformed DEF Lone, Rested

LEMMA TestLone ==
    ASSUME IInv, NEW x \in Threads, Lone(x), TestEmpty(x)
    PROVE  Lone(x)'
  <1>1. /\ pc[x] = "pop" /\ UNCHANGED <<planned, tables, job, todo, clock, issued>>
        /\ \/ pc'[x] = "drop" /\ at'[x] = at[x] /\ \E e \in at[x] : tables[e[1]][e[2]] = {}
           \/ pc'[x] = "sweep"
    BY DEF TestEmpty, Move, store, history, IInv, TypeOK
  <1>2. PICK e \in Entries \ todo[x] : at[x] = {e} /\ planned[e[1]] = e[2]
    BY <1>1 DEF Lone, InPlace
  <1>3. InPlace(x)'
    BY <1>1, <1>2 DEF Lone, InPlace, Sweeping, Planning
  <1>4. Grasped(x)'
    BY <1>1, <1>2 DEF Lone, Grasped, Handling
  <1> QED
    BY <1>1, <1>3, <1>4, StillInformed DEF Lone, Rested

LEMMA DropLone ==
    ASSUME IInv, Stock, NEW x \in Threads, Lonely(x), Lone(x), DropCaller(x)
    PROVE  Lone(x)' /\ Stock'
  <1>1. TypeOK
    BY DEF IInv
  <1>2. /\ pc[x] = "drop" /\ pc'[x] = "sweep" /\ at'[x] = {}
        /\ UNCHANGED <<tables, approvals, clock, job, todo, issued>>
    BY <1>1 DEF DropCaller, Move, history, TypeOK
  <1>3. PICK e \in Entries \ todo[x] : at[x] = {e} /\ planned[e[1]] = e[2]
    BY <1>2 DEF Lone, InPlace
  <1>4. /\ e[1] \in Callers /\ e[2] \in TableIds /\ e = <<e[1], e[2]>>
        /\ tables[e[1]][e[2]] = {}
    BY <1>2, <1>3 DEF Entries, Lone, Grasped
  <1>5. planned' = [planned EXCEPT ![e[1]] = 0]
    BY <1>3 DEF DropCaller
  <1>6. \A c \in Callers : planned'[c] = IF c = e[1] THEN 0 ELSE planned[c]
    BY <1>1, <1>5 DEF TypeOK
  <1>7. ASSUME NEW r \in issued, Placed(r) PROVE Placed(r)'
    <2>1. PICK n \in TableIds : planned[r.caller] = n /\ r \in tables[r.caller][n]
      BY <1>7 DEF Placed
    <2>2. r.caller \in Callers /\ r.caller # e[1]
      BY <1>1, <1>3, <1>4, <2>1 DEF TypeOK, Record
    <2> QED
      BY <1>2, <1>6, <2>1, <2>2 DEF Placed
  <1>8. ASSUME NEW d \in todo[x] PROVE planned'[d[1]] = d[2]
    <2>1. d \in Entries /\ d[1] \in Callers /\ d = <<d[1], d[2]>>
      BY <1>1 DEF TypeOK, Entries
    <2>2. planned[d[1]] = d[2]
      BY <1>2 DEF Lone, InPlace, Sweeping
    <2>3. d # e
      BY <1>3
    <2>4. d[1] # e[1]
      BY <1>3, <1>4, <2>1, <2>2, <2>3
    <2> QED
      BY <1>6, <2>1, <2>2, <2>4
  <1>9. InPlace(x)'
    BY <1>2, <1>8 DEF InPlace, Planning
  <1>10. Grasped(x)'
    BY <1>2 DEF Lone, Grasped, Handling
  <1>11. Stock'
    <2>1. \A y \in Threads, r \in issued : Replanning(y, r) => Replanning(y, r)'
      BY <1>2 DEF Replanning, Lonely, InStore
    <2>2. \A c \in Callers : planned'[c] = planned[c] \/ planned'[c] = 0
      BY <1>6
    <2> QED
      BY <1>1, <1>2, <1>7, <2>1, <2>2, StockStays
  <1> QED
    BY <1>2, <1>9, <1>10, <1>11, StillInformed DEF Lone, Rested

-----------------------------------------------------------------------------
(* Storing a plan                                                          *)
LEMMA SetDefaultLone ==
    ASSUME IInv, Fresh, Stock, NEW x \in Threads, Lonely(x), Lone(x), SetDefault(x)
    PROVE  Lone(x)' /\ Stock'
  <1> DEFINE c == job[x].caller
             n == IF planned[c] = 0 THEN job[x].ticket ELSE planned[c]
  <1>1. TypeOK /\ job[x] \in Job /\ c \in Callers
    BY DEF SetDefault, Swept, IInv, Located, Serving, Job
  <1>2. /\ pc[x] = "sweep" /\ pc'[x] = "displace" /\ job[x].op = "record plan"
        /\ UNCHANGED <<tables, approvals, clock, job, issued>>
        /\ planned' = [planned EXCEPT ![c] = n] /\ table'[x] = n
    BY <1>1 DEF SetDefault, Swept, Move, history, TypeOK
  <1>3. \A d \in Callers : planned'[d] = IF d = c THEN n ELSE planned[d]
    BY <1>1, <1>2 DEF TypeOK
  <1>4. planned[c] = 0 => \A m \in TableIds : n = m => tables[c][m] = {}
    <2>1. Vacant(job[x].ticket)
      BY <1>2 DEF Fresh, Pending
    <2> QED
      BY <1>1, <2>1 DEF Vacant
  <1>5. InPlace(x)'
    BY <1>1, <1>2, <1>3 DEF InPlace, Sweeping
  <1>6. Grasped(x)'
    BY <1>2 DEF Lone, Grasped, Handling
  <1> HIDE DEF n
  <1>7. Newest'
    <2> SUFFICES ASSUME NEW d \in Callers, NEW m \in TableIds, planned'[d] = m,
                        NEW r \in tables[d][m]
                 PROVE  NewestOf(r)
      BY <1>2 DEF Newest, NewestOf
    <2>1. planned[d] = m
      BY <1>3, <1>4 DEF n
    <2> QED
      BY <2>1 DEF Stock, Newest
  <1>8. Kept'
    <2>1. ASSUME NEW r \in issued, Placed(r) PROVE Placed(r)'
      <3>1. PICK m \in TableIds : planned[r.caller] = m /\ r \in tables[r.caller][m]
        BY <2>1 DEF Placed
      <3>2. r.caller \in Callers /\ m # 0
        BY <1>1 DEF TypeOK, Record, TableIds
      <3>3. planned'[r.caller] = m
        BY <1>3, <3>1, <3>2 DEF n
      <3> QED
        BY <1>2, <3>1, <3>3 DEF Placed
    <2>2. \A y \in Threads, r \in issued : Replanning(y, r) => Replanning(y, r)'
      BY <1>2 DEF Replanning, Lonely, InStore
    <2> QED
      BY <1>1, <1>2, <2>1, <2>2, KeptStays DEF Stock
  <1>9. Stock'
    BY <1>2, <1>7, <1>8 DEF Stock, Ordered, Covers
  <1> QED
    BY <1>2, <1>5, <1>6, <1>9, StillInformed DEF Lone, Rested

LEMMA DisplaceLone ==
    ASSUME IInv, Stock, NEW x \in Threads, Lonely(x), Lone(x), Displace(x)
    PROVE  Lone(x)' /\ Stock'
  <1> DEFINE c == job[x].caller
             n == table[x]
             t == job[x].text
  <1>1. TypeOK /\ job[x] \in Job /\ c \in Callers /\ n \in TableIds
    BY DEF Displace, IInv, Located, Serving, Holding, Planning, Job
  <1>2. /\ pc[x] = "displace" /\ pc'[x] = "insert"
        /\ UNCHANGED <<planned, approvals, clock, job, table, issued>>
        /\ tables' = [tables EXCEPT ![c][n] = @ \ Keyed(@, t)]
    BY <1>1 DEF Displace, Move, local, history, TypeOK
  <1>3. /\ tables'[c][n] = tables[c][n] \ Keyed(tables[c][n], t)
        /\ \A d \in Callers, m \in TableIds :
              d # c \/ m # n => tables'[d][m] = tables[d][m]
    BY <1>1, <1>2 DEF TypeOK
  <1>4. InPlace(x)'
    BY <1>2 DEF Lone, InPlace, Sweeping, Planning
  <1>5. Grasped(x)'
    BY <1>2, <1>3 DEF Lone, Grasped, Handling, Keyed
  <1>6. ASSUME NEW r \in issued, Owed(r)', Placed(r)
        PROVE  Placed(r)'
    <2>1. PICK m \in TableIds : planned[r.caller] = m /\ r \in tables[r.caller][m]
      BY <1>6 DEF Placed
    <2>2. r.caller \in Callers /\ ~(r.caller = c /\ r.text = t)
      BY <1>1, <1>2, <1>6 DEF Owed, Replanning, TypeOK, Record
    <2>3. r \in tables'[r.caller][m]
      BY <1>1, <1>3, <2>1, <2>2 DEF Keyed
    <2> QED
      BY <1>2, <2>1, <2>3 DEF Placed
  <1>7. Stock'
    <2>1. \A y \in Threads, r \in issued : Replanning(y, r) => Replanning(y, r)'
      BY <1>2 DEF Replanning, Lonely, InStore
    <2>2. \A d \in Callers, m \in TableIds : tables'[d][m] \subseteq tables[d][m]
      BY <1>1, <1>3
    <2> QED
      BY <1>1, <1>2, <1>6, <2>1, <2>2, StockStays
  <1> QED
    BY <1>2, <1>4, <1>5, <1>7, StillInformed DEF Lone, Rested

LEMMA LaterIsFinite ==
    ASSUME IsFiniteSet(issued), NEW r
    PROVE  IsFiniteSet(Later(r)) /\ Cardinality(Later(r)) \in Nat
  <1> DEFINE newer == {p \in issued : p.caller = r.caller /\ p.id > r.id}
             text == [q \in newer |-> q.text]
  <1>1. IsFiniteSet(newer)
    BY FS_Subset
  <1>2. text \in Surjection(newer, Later(r))
    BY DEF Later, Surjection
  <1> HIDE DEF newer, text
  <1> QED
    BY <1>1, <1>2, FS_Surjection, FS_CardinalityType

(* A new plan comes last; it displaces nothing, and the plans of other     *)
(* texts are owed less for it.                                             *)
LEMMA InsertLone ==
    ASSUME IInv, Stock, NEW x \in Threads, Lonely(x), Lone(x), Insert(x)
    PROVE  Lone(x)' /\ Stock'
  <1> DEFINE c == job[x].caller
             n == table[x]
             t == job[x].text
             new == Stored(x)
  <1>1. TypeOK /\ job[x] \in Job /\ c \in Callers /\ n \in TableIds /\ born \in Nat
    BY DEF Insert, IInv, Located, Serving, Holding, Planning, Job, TypeOK
  <1>2. /\ pc[x] = "insert" /\ pc'[x] = "trim"
        /\ UNCHANGED <<planned, approvals, clock, job, table>>
        /\ tables' = [tables EXCEPT ![c][n] = (@ \ Keyed(@, t)) \cup {new}]
        /\ issued' = issued \cup {new}
    BY <1>1 DEF Insert, Move, TypeOK
  <1>3. Keyed(tables[c][n], t) = {} /\ planned[c] = n
    BY <1>2 DEF Lone, Grasped, InPlace, Planning
  <1>4. /\ tables'[c][n] = tables[c][n] \cup {new}
        /\ \A d \in Callers, m \in TableIds :
              d # c \/ m # n => tables'[d][m] = tables[d][m]
    BY <1>1, <1>2, <1>3 DEF TypeOK
  <1>5. new.id = born + 1 /\ new.slot = born + 1 /\ new.caller = c /\ new.text = t
    BY <1>3 DEF Stored
  <1>6. \A q \in issued : q.id \in Nat /\ q.id =< born /\ q.caller \in Callers
    BY <1>1 DEF IInv, Stocked, Numbered, TypeOK, Record
  <1> HIDE DEF new, c, n, t
  <1>7. InPlace(x)'
    BY <1>2 DEF Lone, InPlace, Sweeping, Planning
  <1>8. Grasped(x)'
    BY <1>2 DEF Lone, Grasped, Handling
  <1>9. Newest'
    <2> SUFFICES ASSUME NEW d \in Callers, NEW m \in TableIds, planned[d] = m,
                        NEW r \in tables'[d][m], NEW q \in issued',
                        q.caller = r.caller, q.text = r.text
                 PROVE  q.id =< r.id
      BY <1>2 DEF Newest, NewestOf
    <2>1. CASE r = new
      BY <1>1, <1>2, <1>5, <1>6, <2>1
    <2>2. CASE r # new
      <3>1. r \in tables[d][m] /\ r.caller = d
        BY <1>4, <2>2 DEF IInv, Stocked, InStock
      <3>2. q # new
        BY <1>3, <1>5, <3>1 DEF Keyed
      <3> QED
        BY <1>2, <3>1, <3>2 DEF Stock, Newest, NewestOf
    <2> QED
      BY <2>1, <2>2
  <1>10. Ordered'
    BY <1>4, <1>5 DEF Stock, Ordered
  <1>11. Covers'
    <2>1. \A a \in approvals : a.plan =< born /\ a.plan \in Nat
      BY <1>6 DEF IInv, Stocked, ApprovedInPerson
    <2> QED
      BY <1>1, <1>2, <1>5, <2>1 DEF Stock, Covers
  <1>12. ASSUME NEW r \in issued', Owed(r)' PROVE Placed(r)'
    <2>1. CASE r = new
      BY <1>1, <1>2, <1>3, <1>4, <1>5, <2>1 DEF Placed
    <2>2. CASE r # new
      <3>1. r \in issued /\ ~(r.caller = c /\ r.text = t)
        <4>1. r.caller = c /\ r.text = t => new.id =< r.id
          BY <1>2, <1>5, <1>12 DEF Owed, NewestOf
        <4> QED
          BY <1>1, <1>2, <1>5, <1>6, <2>2, <4>1
      <3>2. \A y \in Threads : ~Replanning(y, r)
        BY <3>1 DEF Replanning, Lonely, InStore, c, t
      <3>3. NewestOf(r)
        BY <1>2, <1>12 DEF Owed, NewestOf
      <3>4. Cardinality(Later(r)) < KEPT
        <4>1. IsFiniteSet(issued')
          BY <1>2, FS_AddElement DEF Stock, Kept
        <4>2. Later(r) \subseteq Later(r)'
          BY <1>2 DEF Later
        <4>3. IsFiniteSet(Later(r))' /\ Cardinality(Later(r))' \in Nat
          <5> DEFINE newer == {p \in issued' : p.caller = r.caller /\ p.id > r.id}
                     text == [q \in newer |-> q.text]
          <5>1. IsFiniteSet(newer)
            BY <4>1, FS_Subset
          <5>2. text \in Surjection(newer, Later(r)')
            BY DEF Later, Surjection
          <5> HIDE DEF newer, text
          <5> QED
            BY <5>1, <5>2, FS_Surjection, FS_CardinalityType
        <4>4. Cardinality(Later(r)) =< Cardinality(Later(r)') /\ Cardinality(Later(r)) \in Nat
          BY <4>2, <4>3, FS_Subset, FS_CardinalityType
        <4> QED
          BY <1>12, <4>3, <4>4, StoreAssumption DEF Owed
      <3>5. Placed(r)
        BY <1>2, <1>12, <3>1, <3>2, <3>3, <3>4 DEF Stock, Kept, Owed
      <3> QED
        BY <1>1, <1>2, <1>4, <1>6, <3>1, <3>5 DEF Placed
    <2> QED
      BY <2>1, <2>2
  <1>13. IsFiniteSet(issued')
    BY <1>2, FS_AddElement DEF Stock, Kept
  <1>14. Stock'
    BY <1>9, <1>10, <1>11, <1>12, <1>13 DEF Stock, Kept
  <1>15. issued \subseteq issued'
    BY <1>2
  <1> QED
    BY <1>2, <1>7, <1>8, <1>14, <1>15, StillInformed DEF Lone, Rested

LEMMA TrimMoreLone ==
    ASSUME IInv, NEW x \in Threads, Lone(x), TrimMore(x)
    PROVE  Lone(x)'
  <1>1. /\ pc[x] = "trim" /\ pc'[x] = "evict" /\ OverKept(x)
        /\ UNCHANGED <<planned, tables, clock, job, table, issued>>
    BY DEF TrimMore, Move, store, local, history, IInv, TypeOK
  <1> QED
    BY <1>1, StillInformed DEF Lone, Rested, InPlace, Grasped, OverKept, Sweeping, Planning, Handling

(* What goes to the oldest place was overtaken by as many as are kept.     *)
LEMMA OldestIsOwedNothing ==
    ASSUME IInv, Stock, NEW c \in Callers, NEW n \in TableIds,
           Cardinality(tables[c][n]) > KEPT, NEW r \in Oldest(tables[c][n])
    PROVE  ~Owed(r)
  <1> DEFINE all == tables[c][n]
             rest == all \ {r}
             text == [q \in rest |-> q.text]
  <1>1. r \in all /\ all \subseteq issued /\ \A q \in all : q.caller = c /\ r.slot =< q.slot
    BY DEF Oldest, IInv, Stocked, InStock
  <1>2. IsFiniteSet(all)
    BY <1>1, FS_Subset DEF Stock, Kept
  <1>3. Cardinality(rest) >= KEPT
    <2>1. Cardinality(rest) = Cardinality(all) - 1 /\ Cardinality(all) \in Nat
      BY <1>1, <1>2, FS_RemoveElement, FS_CardinalityType
    <2> QED
      BY <2>1, StoreAssumption
  <1>4. ASSUME NEW q \in rest PROVE q \in issued /\ q.caller = r.caller /\ q.id > r.id
    <2>1. q \in all /\ q # r /\ q \in issued /\ r \in issued
      BY <1>1
    <2>2. r.slot =< q.slot /\ r.slot = r.id /\ q.slot = q.id
      BY <1>1, <2>1 DEF Stock, Ordered
    <2>3. r.id # q.id /\ r.id \in Nat /\ q.id \in Nat
      BY <2>1 DEF IInv, Stocked, Numbered, TypeOK, Record
    <2>4. r.id =< q.id
      BY <2>2
    <2> QED
      BY <1>1, <2>1, <2>3, <2>4
  <1>5. text \in Injection(rest, Later(r))
    <2>1. text \in [rest -> Later(r)]
      BY <1>4 DEF Later
    <2>2. \A p, q \in rest : text[p] = text[q] => p = q
      BY DEF IInv, Stocked, OnePerText
    <2>3. IsInjective(text)
      BY <2>1, <2>2 DEF IsInjective
    <2> QED
      BY <2>1, <2>3 DEF Injection
  <1>6. IsFiniteSet(Later(r)) /\ Cardinality(Later(r)) \in Nat
    BY LaterIsFinite DEF Stock, Kept
  <1> HIDE DEF rest, text
  <1>7. Cardinality(rest) =< Cardinality(Later(r)) /\ Cardinality(rest) \in Nat
    BY <1>5, <1>6, FS_Injection, FS_CardinalityType
  <1> QED
    BY <1>3, <1>6, <1>7, StoreAssumption DEF Owed

LEMMA EvictLone ==
    ASSUME IInv, Stock, NEW x \in Threads, Lonely(x), Lone(x), Evict(x)
    PROVE  Lone(x)' /\ Stock'
  <1> DEFINE c == job[x].caller
             n == table[x]
  <1>1. TypeOK /\ c \in Callers /\ n \in TableIds
    BY DEF Evict, IInv, Located, Serving, Holding, Planning, Job
  <1>2. /\ pc[x] = "evict" /\ pc'[x] = "trim"
        /\ UNCHANGED <<planned, approvals, clock, job, table, issued>>
        /\ tables' = [tables EXCEPT ![c][n] = @ \ Oldest(@)]
    BY <1>1 DEF Evict, Move, local, history, TypeOK
  <1>3. /\ tables'[c][n] = tables[c][n] \ Oldest(tables[c][n])
        /\ \A d \in Callers, m \in TableIds :
              d # c \/ m # n => tables'[d][m] = tables[d][m]
    BY <1>1, <1>2 DEF TypeOK
  <1>4. Cardinality(tables[c][n]) > KEPT
    BY <1>2 DEF Lone, Grasped, OverKept
  <1>5. \A r \in Oldest(tables[c][n]) : ~Owed(r)
    BY <1>1, <1>4, OldestIsOwedNothing
  <1> HIDE DEF c, n
  <1>6. ASSUME NEW r \in issued, Owed(r), Placed(r)
        PROVE  Placed(r)'
    <2>1. PICK m \in TableIds : planned[r.caller] = m /\ r \in tables[r.caller][m]
      BY <1>6 DEF Placed
    <2>2. r.caller \in Callers
      BY <1>1 DEF TypeOK, Record
    <2>3. r \in tables'[r.caller][m]
      BY <1>3, <1>5, <1>6, <2>1, <2>2
    <2> QED
      BY <1>2, <2>1, <2>3 DEF Placed
  <1>7. Stock'
    <2>1. \A y \in Threads, r \in issued : Replanning(y, r) => Replanning(y, r)'
      BY <1>2 DEF Replanning, Lonely, InStore
    <2>2. \A d \in Callers, m \in TableIds : tables'[d][m] \subseteq tables[d][m]
      BY <1>1, <1>3
    <2> QED
      BY <1>1, <1>2, <1>6, <2>1, <2>2, StockStays
  <1>8. InPlace(x)' /\ Grasped(x)'
    BY <1>2 DEF Lone, Rested, InPlace, Grasped, Sweeping, Planning, Handling
  <1> QED
    BY <1>2, <1>7, <1>8, StillInformed DEF Lone, Rested

-----------------------------------------------------------------------------
(* The lookup of a lone call                                               *)
LEMMA GetLone ==
    ASSUME IInv, NEW x \in Threads, Lone(x), GetTable(x)
    PROVE  Lone(x)'
  <1>1. /\ pc[x] = "sweep" /\ pc'[x] = "find" /\ table'[x] = planned[job[x].caller]
        /\ UNCHANGED <<planned, tables, clock, job, issued>>
    BY DEF GetTable, Swept, Move, store, history, IInv, TypeOK
  <1>2. InPlace(x)' /\ Grasped(x)'
    BY <1>1 DEF Lone, Rested, InPlace, Grasped, Sweeping, Planning, Handling
  <1> QED
    BY <1>1, <1>2, StillInformed DEF Lone, Rested

LEMMA FindLone ==
    ASSUME IInv, NEW x \in Threads, Lone(x), FindRecord(x)
    PROVE  Lone(x)'
  <1>1. /\ pc[x] = "find" /\ pc'[x] \in {"mark", "flag"} /\ InTable(x) # {}
        /\ UNCHANGED <<planned, tables, clock, job, table, issued>> /\ found'[x] = InTable(x)
    BY DEF FindRecord, Move, store, history, IInv, TypeOK
  <1>2. job[x].caller \in Callers /\ table[x] # 0 /\ table[x] \in TableIds
    BY <1>1, StoreAssumption DEF InTable, IInv, Located, Serving, Job, TypeOK, TableIds
  <1>3. planned[job[x].caller] = table[x]
    BY <1>1 DEF Lone, InPlace
  <1>4. \A r \in found'[x] : r \in tables[job[x].caller][table[x]] /\ r.caller = job[x].caller
    BY <1>1, <1>2 DEF InTable, Keyed, IInv, Stocked, InStock
  <1>5. \A r \in found'[x] : Placed(r)'
    BY <1>1, <1>2, <1>3, <1>4 DEF Placed
  <1>6. InPlace(x)' /\ Grasped(x)'
    BY <1>1, <1>5 DEF Lone, Rested, InPlace, Grasped, Sweeping, Planning
  <1> QED
    BY <1>1, <1>6, StillInformed DEF Lone, Rested

(* The approval that a run rests on is over all that its user was shown:   *)
(* the record found is the newest of its text.                             *)
LEMMA FlagLone ==
    ASSUME IInv, Stock, NEW x \in Threads, Lone(x), FlagSet(x)
    PROVE  Lone(x)'
  <1>1. /\ pc[x] = "flag" /\ pc'[x] = "post"
        /\ UNCHANGED <<planned, tables, approvals, clock, job, found, issued>>
        /\ \A r \in found[x] : Approved(r)
    BY DEF FlagSet, Move, store, local, history, IInv, TypeOK
  <1>2. ASSUME NEW r \in found[x]
        PROVE  \E a \in approvals : a.plan = r.id /\ job[x].shown \subseteq a.over
    <2>1. Stocked /\ r \in issued /\ r.caller = job[x].caller /\ r.text = job[x].text
      BY <1>1 DEF IInv, Handled, Handling
    <2>2. PICK a \in approvals : a.plan = r.id
      BY <1>1 DEF Approved
    <2>3. a.caller = r.caller /\ a.text = r.text
      BY <2>1, <2>2 DEF Stocked, ApprovedInPerson, Numbered
    <2>4. Placed(r) /\ r.caller \in Callers
      BY <1>1, <2>1 DEF Lone, Grasped, IInv, TypeOK, Record
    <2>5. NewestOf(r)
      BY <2>4 DEF Stock, Newest, Placed
    <2>6. ASSUME NEW i \in job[x].shown PROVE i \in a.over
      <3>1. PICK q \in issued : q.id = i /\ q.caller = job[x].caller /\ q.text = job[x].text
        BY <1>1 DEF Lone, Informed
      <3> QED
        BY <2>1, <2>2, <2>3, <2>5, <3>1 DEF Stock, NewestOf, Covers
    <2> QED
      BY <2>2, <2>6
  <1>3. Rested(x)'
    BY <1>1, <1>2 DEF Rested
  <1>4. InPlace(x)' /\ Grasped(x)'
    BY <1>1 DEF Lone, InPlace, Grasped, Sweeping, Planning
  <1> QED
    BY <1>1, <1>3, <1>4, StillInformed DEF Lone

(* An approval is over all that was stored of its text, up to its plan.    *)
LEMMA MarkCovers ==
    ASSUME IInv, Stock, NEW x \in Threads, Lonely(x), Mark(x)
    PROVE  Stock'
  <1>1. /\ pc[x] = "mark" /\ pc'[x] = "idle"
        /\ UNCHANGED <<planned, tables, clock, issued>>
        /\ approvals' = approvals \cup
             {[plan |-> r.id, caller |-> job[x].caller, text |-> job[x].text,
               over |-> Ids(issued, job[x].caller, job[x].text)] : r \in found[x]}
    BY DEF Mark, Answer, Move, history, IInv, TypeOK
  <1>2. Covers'
    BY <1>1 DEF Stock, Covers, Ids
  <1>3. Kept'
    <2>1. \A y \in Threads, r \in issued : Replanning(y, r) => Replanning(y, r)'
      BY <1>1 DEF Replanning, Lonely, InStore
    <2>2. \A r \in issued : Placed(r) => Placed(r)'
      BY <1>1 DEF Placed
    <2> QED
      BY <1>1, <2>1, <2>2, KeptStays DEF Stock, IInv
  <1> QED
    BY <1>1, <1>2, <1>3 DEF Stock, Newest, NewestOf, Ordered

-----------------------------------------------------------------------------
LEMMA LoneCall ==
    ASSUME IInv, Stock, NEW x \in Threads, Lonely(x), Call(x)
    PROVE  Lone(x)' /\ Stock'
  <1>1. PICK c \in Callers, t \in Texts :
            CallPlan(x, c, t) \/ CallApprove(x, c, t) \/ CallRun(x, c, t)
    BY DEF Call
  <1>2. /\ UNCHANGED <<planned, tables, approvals, clock, issued>> /\ pc[x] = "idle"
        /\ \E op \in Operations, k \in 0 .. calls + 1 : Enter(x, op, c, t, k)
    <2>1. calls \in Nat
      BY DEF IInv, TypeOK
    <2>2. 0 \in 0 .. calls + 1 /\ calls + 1 \in 0 .. calls + 1
      BY <2>1
    <2> QED
      BY <1>1, <2>2 DEF CallPlan, CallApprove, CallRun, Enter, store, Operations
  <1>3. Lone(x)'
    BY <1>2, EnterLone
  <1>4. Stock'
    BY <1>2, StockUntouched DEF IInv, Lonely, InStore
  <1> QED
    BY <1>3, <1>4

LEMMA LoneStep ==
    ASSUME IInv, Fresh, Stock, NEW x \in Threads, Lonely(x), Lone(x), Step(x)
    PROVE  Lone(x)' /\ Stock'
  <1>1. CASE PopExpired(x) \/ DropCaller(x) \/ SetDefault(x) \/ Displace(x) \/ Insert(x)
             \/ Evict(x)
    BY <1>1, PopLone, DropLone, SetDefaultLone, DisplaceLone, InsertLone, EvictLone
  <1>2. CASE ListTables(x) \/ VisitTable(x) \/ TestEmpty(x) \/ TrimMore(x) \/ GetTable(x)
             \/ FindRecord(x) \/ FlagSet(x)
    <2>1. Lone(x)'
      BY <1>2, ListLone, VisitLone, TestLone, TrimMoreLone, GetLone, FindLone, FlagLone
    <2>2. UNCHANGED <<planned, tables, approvals, clock, issued>> /\ pc[x] # "insert"
      BY <1>2 DEF ListTables, VisitTable, TestEmpty, TrimMore, GetTable, Swept, FindRecord,
                  FlagSet, store, history
    <2> QED
      BY <2>1, <2>2, StockUntouched DEF IInv, Lonely, InStore
  <1>3. CASE FindPlanned(x)
    <2>1. UNCHANGED <<planned, tables, approvals, clock, issued>> /\ pc[x] # "insert"
      BY <1>3 DEF FindPlanned, Enter, store
    <2>2. Lone(x)'
      BY <1>3, <2>1, EnterLone DEF FindPlanned
    <2> QED
      BY <2>1, <2>2, StockUntouched DEF IInv, Lonely, InStore
  <1>4. CASE TrimDone(x) \/ EvictRaises(x) \/ FindNothing(x) \/ FlagUnset(x)
             \/ RunAnswered(x)
    <2>1. Answer(x) /\ pc[x] # "insert" /\ UNCHANGED <<planned, tables, approvals, clock, issued>>
      BY <1>4 DEF TrimDone, EvictRaises, FindNothing, FlagUnset, RunAnswered, store, history
    <2> QED
      BY <2>1, AnswerLone, StockUntouched DEF IInv, Lonely, InStore
  <1>5. CASE Mark(x)
    BY <1>5, MarkCovers, AnswerLone DEF Mark
  <1> QED
    BY <1>1, <1>2, <1>3, <1>4, <1>5 DEF Step, Sweep, RecordPlan, LookUp

(* What a thread does leaves what the other threads hold alone.            *)
LEMMA OthersHold ==
    ASSUME IInv, NEW x \in Threads, Call(x) \/ Step(x), NEW y \in Threads, y # x
    PROVE  /\ pc'[y] = pc[y] /\ job'[y] = job[y] /\ todo'[y] = todo[y] /\ at'[y] = at[y]
           /\ stale'[y] = stale[y] /\ table'[y] = table[y] /\ found'[y] = found[y]
  <1> USE DEF Move, local, IInv, TypeOK
  <1>1. CASE Call(x)
    BY <1>1 DEF Call, CallPlan, CallApprove, CallRun, Enter
  <1>2. CASE Sweep(x)
    BY <1>2 DEF Sweep, ListTables, VisitTable, PopExpired, TestEmpty, DropCaller
  <1>3. CASE RecordPlan(x)
    BY <1>3 DEF RecordPlan, SetDefault, Displace, Insert, TrimMore, TrimDone, Evict,
                EvictRaises, Answer
  <1>4. CASE LookUp(x)
    BY <1>4 DEF LookUp, GetTable, FindNothing, FindPlanned, FindRecord, Mark, FlagSet,
                FlagUnset, RunAnswered, Answer, Enter
  <1> QED
    BY <1>1, <1>2, <1>3, <1>4 DEF Step

(* Nor do a thread's steps outside the store touch it, and they end in no  *)
(* call that overlaps with another unless that is noted.                   *)
LEMMA OutsideTheStore ==
    ASSUME IInv, NEW x \in Threads, Call(x) \/ Step(x), ~InStore(pc[x])
    PROVE  /\ UNCHANGED <<planned, tables, approvals, issued, clock>>
           /\ Call(x) \/ RunAnswered(x)
  <1>1. pc[x] \in {"idle", "post"}
    BY DEF InStore
  <1>2. CASE Call(x)
    BY <1>2 DEF Call, CallPlan, CallApprove, CallRun, Enter, store
  <1>3. CASE Step(x)
    <2>1. RunAnswered(x)
      BY <1>1, <1>3 DEF Step, Sweep, ListTables, VisitTable, PopExpired, TestEmpty,
         DropCaller, RecordPlan, SetDefault, Swept, Displace, Insert, TrimMore, TrimDone,
         Evict, EvictRaises, LookUp, GetTable, FindNothing, FindPlanned, FindRecord, Mark,
         FlagSet, FlagUnset
    <2> QED
      BY <2>1 DEF RunAnswered, store, history
  <1> QED
    BY <1>2, <1>3

(* Nothing is forgotten while the process lives.                           *)
LEMMA HistoryGrows ==
    ASSUME IInv, NEW x \in Threads, Call(x) \/ Step(x)
    PROVE  /\ issued \subseteq issued' /\ approvals \subseteq approvals'
           /\ clock' = clock /\ restarts' = restarts
           /\ overlapped => overlapped'
  <1> DEFINE Grows == /\ issued \subseteq issued' /\ approvals \subseteq approvals'
                      /\ clock' = clock /\ restarts' = restarts
                      /\ overlapped => overlapped'
  <1> USE DEF store, history, bounds
  <1>1. CASE Call(x)
    BY <1>1 DEF Call, CallPlan, CallApprove, CallRun, Enter
  <1>2. CASE Sweep(x)
    BY <1>2 DEF Sweep, ListTables, VisitTable, PopExpired, TestEmpty, DropCaller
  <1>3. CASE RecordPlan(x)
    <2>1. Insert(x) => Grows
      BY DEF Insert
    <2>2. TrimDone(x) => Grows
      BY DEF TrimDone
    <2>3. SetDefault(x) \/ Displace(x) \/ TrimMore(x) \/ Evict(x) \/ EvictRaises(x)
              => UNCHANGED <<issued, approvals, clock, restarts, overlapped>>
      BY DEF SetDefault, Displace, TrimMore, Evict, EvictRaises
    <2> QED
      BY <1>3, <2>1, <2>2, <2>3 DEF RecordPlan
  <1>4. CASE LookUp(x)
    <2>1. Mark(x) => Grows
      BY DEF Mark
    <2>2. FindPlanned(x) => Grows
      BY DEF FindPlanned, Enter
    <2>3. GetTable(x) \/ FindNothing(x) \/ FindRecord(x) \/ FlagSet(x) \/ FlagUnset(x)
              \/ RunAnswered(x)
              => UNCHANGED <<issued, approvals, clock, restarts, overlapped>>
      BY DEF GetTable, FindNothing, FindRecord, FlagSet, FlagUnset, RunAnswered
    <2> QED
      BY <1>4, <2>1, <2>2, <2>3 DEF LookUp
  <1> QED
    BY <1>1, <1>2, <1>3, <1>4 DEF Step

LEMMA OthersInTurn ==
    ASSUME IInv, Stock, NEW x \in Threads, Call(x) \/ Step(x),
           NEW y \in Threads, y # x, Lone(y), ~InStore(pc[y]) \/ ~InStore(pc[x])
    PROVE  Lone(y)'
  <1>1. /\ pc'[y] = pc[y] /\ job'[y] = job[y] /\ todo'[y] = todo[y] /\ at'[y] = at[y]
        /\ stale'[y] = stale[y] /\ table'[y] = table[y] /\ found'[y] = found[y]
    BY OthersHold
  <1>2. issued \subseteq issued' /\ approvals \subseteq approvals' /\ clock' = clock
    BY HistoryGrows
  <1>3. Informed(y)' /\ Rested(y)'
    BY <1>1, <1>2 DEF Lone, Informed, Rested
  <1>4. CASE ~InStore(pc[y])
    <2>1. InPlace(y)' /\ Grasped(y)'
      BY <1>1, <1>2, <1>4 DEF Lone, InPlace, Grasped, InStore, Sweeping, Planning
    <2> QED
      BY <1>3, <2>1 DEF Lone
  <1>5. CASE ~InStore(pc[x])
    <2>1. UNCHANGED <<planned, tables>>
      BY <1>5, OutsideTheStore
    <2>2. InPlace(y)'
      BY <1>1, <2>1 DEF Lone, InPlace
    <2>3. Grasped(y)'
      BY <1>1, <1>2, <2>1 DEF Lone, Grasped, Placed, Expired, OverKept
    <2> QED
      BY <1>3, <2>2, <2>3 DEF Lone
  <1> QED
    BY <1>4, <1>5

LEMMA NextInTurn == IInv /\ Fresh /\ InTurn /\ [Next]_vars => InTurn'
  <1> SUFFICES ASSUME IInv, Fresh, InTurn, [Next]_vars PROVE InTurn'
    OBVIOUS
  <1>1. ASSUME NEW x \in Threads, Call(x) \/ Step(x) PROVE InTurn'
    <2> SUFFICES ASSUME ~overlapped' PROVE Stock' /\ \A y \in Threads :
                                        Lone(y)' /\ (InStore(pc[y])' => Lonely(y)')
      BY DEF InTurn
    <2>1. ~overlapped
      BY <1>1, HistoryGrows
    <2>2. Stock /\ \A y \in Threads : Lone(y) /\ (InStore(pc[y]) => Lonely(y))
      BY <2>1 DEF InTurn
    <2>3. \A y \in Threads : y # x =>
              pc'[y] = pc[y] /\ (~InStore(pc[y]) \/ ~InStore(pc[x]))
      BY <1>1, <2>2, OthersHold DEF Lonely
    <2>4. Call(x) => Lonely(x)
      BY <1>1, <2>1 DEF Call, CallPlan, CallApprove, CallRun, Enter, Lonely
    <2>5. Stock' /\ Lone(x)'
      <3>1. CASE Call(x)
        BY <2>2, <2>4, <3>1, LoneCall
      <3>2. CASE Step(x) /\ InStore(pc[x])
        BY <2>2, <3>2, LoneStep
      <3>3. CASE Step(x) /\ ~InStore(pc[x]) /\ ~Call(x)
        <4>1. RunAnswered(x) /\ UNCHANGED <<planned, tables, approvals, issued, clock>>
          BY <3>3, OutsideTheStore
        <4>2. \A y \in Threads : pc[y] = "insert" => pc'[y] = "insert" /\ job'[y] = job[y]
          BY <1>1, <3>3, OthersHold DEF InStore
        <4>3. Stock'
          BY <2>2, <4>1, <4>2, StockUntouched DEF IInv
        <4> QED
          BY <4>1, <4>3, AnswerLone DEF RunAnswered
      <3> QED
        BY <1>1, <3>1, <3>2, <3>3
    <2>6. \A y \in Threads : Lone(y)'
      BY <1>1, <2>2, <2>3, <2>5, OthersInTurn
    <2>7. InStore(pc'[x]) => Lonely(x)
      <3>1. CASE Call(x)
        BY <2>4, <3>1
      <3>2. CASE InStore(pc[x])
        BY <2>2, <3>2
      <3>3. CASE RunAnswered(x)
        BY <3>3, AnswerLone DEF RunAnswered, InStore
      <3> QED
        BY <1>1, <3>1, <3>2, <3>3, OutsideTheStore
    <2>8. \A y \in Threads : InStore(pc[y])' => Lonely(y)'
      BY <2>2, <2>3, <2>7 DEF Lonely
    <2> QED
      BY <2>5, <2>6, <2>8
  <1>2. CASE Tick \/ UNCHANGED vars
    <2>1. /\ UNCHANGED <<planned, tables, approvals, issued, overlapped, pc, job, todo, at,
                         stale, table, found>>
          /\ clock' = clock \/ clock' = clock + 1
      BY <1>2 DEF Tick, store, local, history, vars
    <2> SUFFICES ASSUME ~overlapped' PROVE Stock' /\ \A y \in Threads :
                                        Lone(y)' /\ (InStore(pc[y])' => Lonely(y)')
      BY DEF InTurn
    <2>2. Stock /\ \A y \in Threads : Lone(y) /\ (InStore(pc[y]) => Lonely(y))
      BY <2>1 DEF InTurn
    <2>3. Stock'
      BY <2>1, <2>2, StockUntouched DEF IInv
    <2>4. ASSUME NEW y \in Threads PROVE Lone(y)'
      <3>1. pc[y] # "idle" => job[y].now \in Nat /\ clock \in Nat
        BY DEF IInv, TypeOK, Located, Serving, Job
      <3>2. pc[y] # "idle" => job[y].now =< clock'
        BY <2>1, <2>2, <3>1 DEF Lone, Grasped
      <3>3. Lone(y)
        BY <2>2
      <3> QED
        BY <2>1, <3>2, <3>3 DEF Lone, Rested, InPlace, Grasped, Informed, Placed, Expired,
                                OverKept
    <2> QED
      BY <2>1, <2>2, <2>3, <2>4 DEF Lonely
  <1>3. CASE Restart
    BY <1>3, RestartInTurn
  <1> QED
    BY <1>1, <1>2, <1>3 DEF Next

LEMMA InTurnInvariant == Spec => [](IInv /\ InTurn)
  <1>1. Init => InTurn
    BY InitInTurn
  <1>2. Init => Fresh
    BY DEF Init, Fresh, Vacant, Pending, Planning, TableIds
  <1>3. IInv /\ Fresh /\ [Next]_vars => Fresh'
    BY NextFresh
  <1> QED
    BY <1>1, <1>2, <1>3, NextInTurn, Inductive, PTL DEF Spec

(* As long as no two operations were in the store at a time, on any number *)
(* of threads, a lookup finds a plan that its user was shown until it      *)
(* expires, is planned again, or as many newer texts were planned as are   *)
(* kept (lines 26-33 of core/planned_manifests.py).                        *)
THEOREM KeptUntilItExpires == Spec => []KeptInTurn
  <1>1. ASSUME IInv, Stock, NEW r \in issued, StillPromised(r)
        PROVE  Live(r.caller, r.text) = {r}
    <2>1. Kept /\ Stocked /\ Located
      BY <1>1 DEF Stock, IInv
    <2>2. \A x \in Threads : ~Replanning(x, r)
      BY <1>1, <2>1 DEF StillPromised, Replanning, Located, Holding, Planning
    <2>3. Owed(r)
      BY <1>1, <2>2 DEF StillPromised, Owed, NewestOf, Later
    <2>4. PICK n \in TableIds : planned[r.caller] = n /\ r \in tables[r.caller][n]
      BY <2>1, <2>3 DEF Kept, Placed
    <2>5. r.caller \in Callers /\ n # 0
      BY <1>1 DEF IInv, TypeOK, Record, TableIds
    <2> QED
      BY <2>1, <2>4, <2>5 DEF Live, Keyed, Stocked, OnePerText
  <1>2. IInv /\ InTurn => KeptInTurn
    BY <1>1 DEF InTurn, KeptInTurn, RecordKeptUntilItExpires
  <1> QED
    BY <1>2, InTurnInvariant, PTL

(* Nor does a run, however many calls come while it lasts, rest on a click *)
(* that was made before a plan of the text, which its user was shown by    *)
(* the time of the check, was stored (lines 17-19 and 122-129).            *)
THEOREM NoEarlierClick == Spec => []ClickedInTurn
  <1>1. InTurn => ClickedInTurn
    BY DEF InTurn, Lone, Rested, ClickedInTurn, EarlierClickDoesNotCarryOver
  <1> QED
    BY <1>1, InTurnInvariant, PTL

(* And whoever is told that the manifest may now be executed, it may: the  *)
(* record that a lookup finds has its flag set (lines 114-119).            *)
THEOREM ApprovedIsFound == Spec => ApprovedInTurn
  <1>1. ASSUME IInv, NEW x \in Threads, Lone(x), [Next]_vars, NEW c \in Callers,
               NEW t \in Texts, pc[x] = "mark", pc'[x] = "idle", restarts' = restarts,
               job[x].caller = c, job[x].text = t
        PROVE  (\E r \in Live(c, t) : Approved(r))'
    <2>1. TypeOK
      BY <1>1 DEF IInv
    <2>2. Mark(x)
      <3>1. ~(Tick \/ UNCHANGED vars)
        BY <1>1 DEF Tick, vars
      <3>2. ~Restart
        BY <1>1, <2>1 DEF Restart, TypeOK
      <3>3. PICK y \in Threads : Call(y) \/ Step(y)
        BY <1>1, <3>1, <3>2 DEF Next
      <3>4. y = x
        BY <1>1, <3>3, OthersHold
      <3>5. ~Call(x)
        BY <1>1 DEF Call, CallPlan, CallApprove, CallRun
      <3>6. ~Sweep(x) /\ ~RecordPlan(x)
        BY <1>1 DEF Sweep, ListTables, VisitTable, PopExpired, TestEmpty, DropCaller,
                    RecordPlan, SetDefault, Swept, Displace, Insert, TrimMore, TrimDone,
                    Evict, EvictRaises
      <3> QED
        BY <1>1, <3>3, <3>4, <3>5, <3>6
        DEF Step, LookUp, GetTable, Swept, FindNothing, FindPlanned, FindRecord,
            FlagSet, FlagUnset, RunAnswered
    <2>3. PICK r \in issued : found[x] = {r} /\ r.caller = c /\ r.text = t
      BY <1>1 DEF IInv, Handled, Handling
    <2>4. PICK n \in TableIds : planned[c] = n /\ r \in tables[c][n]
      BY <1>1, <2>3 DEF Lone, Grasped, Placed
    <2>5. UNCHANGED <<planned, tables>> /\ n # 0
      BY <2>2 DEF Mark, TableIds
    <2>6. r \in Live(c, t)'
      BY <2>3, <2>4, <2>5 DEF Live, Keyed
    <2>7. Approved(r)'
      <3>1. [plan |-> r.id, caller |-> c, text |-> t, over |-> Ids(issued, c, t)] \in approvals'
        BY <1>1, <2>2, <2>3 DEF Mark
      <3> QED
        BY <3>1 DEF Approved
    <2> QED
      BY <2>6, <2>7
  <1>2. IInv /\ InTurn /\ [Next]_vars => [~overlapped => ApprovalStands]_vars
    BY <1>1 DEF InTurn, ApprovalStands
  <1> QED
    BY <1>2, InTurnInvariant, PTL DEF Spec, ApprovedInTurn
=============================================================================
