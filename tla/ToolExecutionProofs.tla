------------------------ MODULE ToolExecutionProofs ------------------------
(***************************************************************************)
(* Theorems about ToolExecution, for any runs, subjects, limits and        *)
(* bounds.  The counts of running_by_caller are exact only together with   *)
(* the finiteness of what they count, and a day's limit only because the   *)
(* lock keeps what start() found true until it records (Booked).           *)
(***************************************************************************)
EXTENDS ToolExecution, FiniteSetTheorems, TLAPS

Exact == \A c \in Subjects :
    /\ Limited(c) => IsFiniteSet(Going(c))
    /\ running[c] = IF Limited(c) THEN Cardinality(Going(c)) ELSE 0
    /\ Limited(c) => running[c] =< RunsAtOnce

Placed == /\ TypeOK
          /\ Exact

-----------------------------------------------------------------------------
LEMMA DayStarts ==
    ASSUME NEW b \in Budgets, day \in Nat
    PROVE  Rolled(b) \in Budgets /\ Rolled(b).day = day
  BY DEF Rolled, Budgets, Emptied

LEMMA BudgetKept ==
    ASSUME NEW b \in Budgets, NEW c \in Callers, NEW n \in Nat, NEW limit, day \in Nat
    PROVE  Recorded(b, limit, c, n) \in Budgets
  <1>1. Rolled(b) \in Budgets
    BY DayStarts
  <1> QED
    BY <1>1 DEF Recorded, Budgets

LEMMA AtLeastZero ==
    ASSUME NEW n \in Int
    PROVE  /\ Max({0, n}) \in Nat
           /\ Max({0, n}) >= n
           /\ Max({0, n}) = 0 \/ Max({0, n}) = n
  <1> DEFINE S == {0, n}
  <1>1. \E x \in S : \A y \in S : x >= y
    OBVIOUS
  <1>2. Max(S) \in S /\ \A y \in S : Max(S) >= y
    BY <1>1 DEF Max
  <1> QED
    BY <1>2

LEMMA GrownType ==
    ASSUME TypeOK, NEW r \in Runs
    PROVE  Grown(r) \in Nat
  <1>1. size[caller[r]] \in Nat /\ before[r] \in Nat
    BY DEF TypeOK
  <1> QED
    BY <1>1, AtLeastZero DEF Grown

(* What a step of one run does to the counts.                              *)
LEMMA Counting ==
    ASSUME Placed, NEW r \in Runs, NEW step \in Steps,
           pc[r] # "caller" \/ step \notin Counted, Move(r, step),
           \A c \in Callers : c # caller[r] => running'[c] = running[c],
           running' \in [Callers -> Int], \A x \in Runs : caller'[x] = caller[x] \/ x = r,
           pc[r] # "caller" => caller' = caller,
           LET c == caller[r]
           IN running'[c] = IF ~Limited(c) \/ (pc[r] \in Counted <=> step \in Counted)
                              THEN running[c]
                              ELSE IF step \in Counted THEN running[c] + 1
                                                       ELSE running[c] - 1,
           LET c == caller[r]
           IN Limited(c) /\ pc[r] \notin Counted /\ step \in Counted
                => running[c] < RunsAtOnce
    PROVE  Exact' /\ \A c \in Subjects : running'[c] \in Nat
  <1> SUFFICES ASSUME NEW c \in Subjects
               PROVE  /\ Limited(c) => IsFiniteSet(Going(c)')
                      /\ running'[c] = IF Limited(c) THEN Cardinality(Going(c)') ELSE 0
                      /\ Limited(c) => running'[c] =< RunsAtOnce
                      /\ running'[c] \in Nat
    BY DEF Exact, Limited
  <1>0. c \in Callers /\ running[c] \in Nat /\ RunsAtOnce \in Nat /\ pc \in [Runs -> Steps]
    BY ExecutionAssumption DEF Placed, TypeOK, Callers
  <1>1. pc' = [pc EXCEPT ![r] = step]
    BY DEF Move
  <1>2. CASE c # caller[r] \/ (pc[r] \in Counted <=> step \in Counted)
    <2>1. Going(c)' = Going(c)
      BY <1>0, <1>1, <1>2 DEF Going, Counted
    <2>2. running'[c] = running[c]
      BY <1>0, <1>2
    <2> QED
      BY <1>0, <2>1, <2>2 DEF Placed, Exact
  <1>3. CASE c = caller[r] /\ ~Limited(c)
    BY <1>0, <1>3 DEF Placed, Exact
  <1>4. CASE c = caller[r] /\ Limited(c) /\ pc[r] \notin Counted /\ step \in Counted
    <2>1. Going(c)' = Going(c) \cup {r} /\ r \notin Going(c)
      BY <1>0, <1>1, <1>4 DEF Going
    <2>2. /\ IsFiniteSet(Going(c) \cup {r})
          /\ Cardinality(Going(c) \cup {r}) = Cardinality(Going(c)) + 1
      BY <1>4, <2>1, FS_AddElement DEF Placed, Exact
    <2> QED
      BY <1>0, <1>4, <2>1, <2>2 DEF Placed, Exact
  <1>5. CASE c = caller[r] /\ Limited(c) /\ pc[r] \in Counted /\ step \notin Counted
    <2>1. Going(c)' = Going(c) \ {r} /\ r \in Going(c)
      BY <1>0, <1>1, <1>5 DEF Going, Counted
    <2>2. /\ IsFiniteSet(Going(c) \ {r})
          /\ Cardinality(Going(c) \ {r}) = Cardinality(Going(c)) - 1
      BY <1>5, <2>1, FS_RemoveElement DEF Placed, Exact
    <2>3. Cardinality(Going(c) \ {r}) \in Nat
      BY <2>2, FS_CardinalityType
    <2> QED
      BY <1>0, <1>5, <2>1, <2>2, <2>3 DEF Placed, Exact
  <1> QED
    BY <1>2, <1>3, <1>4, <1>5

LEMMA CountsUntouched ==
    ASSUME Placed, UNCHANGED <<pc, caller, running>>
    PROVE  Exact'
  BY DEF Placed, Exact, Going, Limited

(* A step of one run that neither takes nor gives back a place.            *)
LEMMA CountsKept ==
    ASSUME Placed, NEW r \in Runs, NEW step \in Steps, pc[r] # "caller",
           pc[r] \in Counted <=> step \in Counted, Move(r, step),
           UNCHANGED <<caller, running>>
    PROVE  Exact'
  <1>1. running \in [Callers -> Int]
    BY DEF Placed, TypeOK
  <1> QED
    BY <1>1, Counting

(* No step has another effect on what is in the state than to keep its     *)
(* shape and the counts.                                                   *)
LEMMA PlacedKept ==
    ASSUME Placed, [Next]_vars
    PROVE  Placed'
  <1> USE DEF deployment, request, identity, work, measures, limits, past
  <1>0. TypeOK /\ Exact
    BY DEF Placed
  <1>1. ASSUME NEW r \in Runs, Exchange(r)
        PROVE  Placed'
    <2>1. TypeOK'
      BY <1>0, <1>1 DEF Exchange, TypeOK, Move, Steps
    <2>2. Exact'
      BY <1>0, <1>1, CountsKept DEF Exchange, Steps, Counted, Placed
    <2> QED
      BY <2>1, <2>2 DEF Placed
  <1>2. ASSUME NEW r \in Runs, CallerOf(r)
        PROVE  Placed'
    <2>1. TypeOK'
      BY <1>0, <1>2 DEF CallerOf, TypeOK, Move, Steps, Whose, Callers
    <2>2. /\ running \in [Callers -> Int]
          /\ \A x \in Runs : caller'[x] = caller[x] \/ x = r
      BY <1>0, <1>2 DEF CallerOf, TypeOK
    <2>3. Exact'
      BY <1>2, <2>2, Counting DEF CallerOf, Steps, Counted
    <2> QED
      BY <2>1, <2>3 DEF Placed
  <1>3. ASSUME NEW r \in Runs, AskRuns(r)
        PROVE  Placed'
    <2>1. runBudget' \in Budgets
      BY <1>0, <1>3, DayStarts DEF AskRuns, TypeOK
    <2>2. TypeOK'
      BY <1>0, <1>3, <2>1 DEF AskRuns, Refuse, TypeOK, Move, Steps
    <2>3. Exact'
      BY <1>3, CountsKept DEF AskRuns, Refuse, Steps, Counted
    <2> QED
      BY <2>2, <2>3 DEF Placed
  <1>4. ASSUME NEW r \in Runs, AskOutput(r)
        PROVE  Placed'
    <2>1. outputBudget' \in Budgets
      BY <1>0, <1>4, DayStarts DEF AskOutput, TypeOK
    <2>2. CASE Refuse(r) /\ UNCHANGED running
      <3>1. TypeOK'
        BY <1>0, <1>4, <2>1, <2>2 DEF AskOutput, Refuse, TypeOK, Move, Steps
      <3>2. Exact'
        BY <1>4, <2>2, CountsKept DEF AskOutput, Refuse, Steps, Counted
      <3> QED
        BY <3>1, <3>2 DEF Placed
    <2>3. CASE ~(Refuse(r) /\ UNCHANGED running)
      <3> DEFINE c == caller[r]
      <3>1. /\ Move(r, "record") /\ UNCHANGED <<caller, lock>>
            /\ running' = [running EXCEPT ![c] = IF Limited(c) THEN @ + 1 ELSE @]
            /\ Limited(c) => ~(running[c] >= RunsAtOnce)
        BY <1>4, <2>3 DEF AskOutput
      <3>2. running \in [Callers -> Nat] /\ c \in Callers /\ RunsAtOnce \in Nat
        BY <1>0, ExecutionAssumption DEF TypeOK
      <3>3. /\ running' \in [Callers -> Nat]
            /\ \A x \in Callers : x # c => running'[x] = running[x]
            /\ running'[c] = IF Limited(c) THEN running[c] + 1 ELSE running[c]
            /\ Limited(c) => running[c] < RunsAtOnce
        BY <3>1, <3>2
      <3>4. TypeOK'
        BY <1>0, <1>4, <2>1, <3>1, <3>3 DEF AskOutput, TypeOK, Move, Steps
      <3>5. Exact'
        <4>1. running' \in [Callers -> Int]
          BY <3>3
        <4> QED
          BY <1>4, <3>1, <3>3, <4>1, Counting DEF AskOutput, Steps, Counted
      <3> QED
        BY <3>4, <3>5 DEF Placed
    <2> QED
      BY <2>2, <2>3
  <1>5. ASSUME NEW r \in Runs, RecordRun(r)
        PROVE  Placed'
    <2>1. runBudget' \in Budgets
      BY <1>0, <1>5, BudgetKept DEF RecordRun, TypeOK
    <2>2. TypeOK'
      BY <1>0, <1>5, <2>1 DEF RecordRun, TypeOK, Move, Steps
    <2>3. Exact'
      BY <1>5, CountsKept DEF RecordRun, Steps, Counted
    <2> QED
      BY <2>2, <2>3 DEF Placed
  <1>6. ASSUME NEW r \in Runs, MeasureBefore(r)
        PROVE  Placed'
    <2>1. before' \in [Runs -> Nat]
      BY <1>0, <1>6 DEF MeasureBefore, TypeOK
    <2>2. TypeOK'
      BY <1>0, <1>6, <2>1 DEF MeasureBefore, TypeOK, Move, Steps
    <2>3. Exact'
      BY <1>6, CountsKept DEF MeasureBefore, Steps, Counted
    <2> QED
      BY <2>2, <2>3 DEF Placed
  <1>7. ASSUME NEW r \in Runs, Send(r)
        PROVE  Placed'
    <2>1. TypeOK'
      BY <1>0, <1>7 DEF Send, TypeOK, Move, Steps, Whose, Callers
    <2>2. Exact'
      BY <1>7, CountsKept DEF Send, Steps, Counted
    <2> QED
      BY <2>1, <2>2 DEF Placed
  <1>8. ASSUME NEW r \in Runs, MeasureAfter(r)
        PROVE  Placed'
    <2>1. TypeOK'
      BY <1>0, <1>8, GrownType DEF MeasureAfter, TypeOK, Move, Steps
    <2>2. Exact'
      BY <1>8, CountsKept DEF MeasureAfter, Steps, Counted
    <2> QED
      BY <2>1, <2>2 DEF Placed
  <1>9. ASSUME NEW r \in Runs, Finish(r)
        PROVE  Placed'
    <2> DEFINE c == caller[r]
    <2>1. outputBudget' \in Budgets
      BY <1>0, <1>9, BudgetKept DEF Finish, TypeOK
    <2>2. running \in [Callers -> Nat] /\ c \in Callers
      BY <1>0 DEF TypeOK
    <2>3. /\ running' \in [Callers -> Int]
          /\ \A x \in Callers : x # c => running'[x] = running[x]
          /\ running'[c] = IF Limited(c) THEN running[c] - 1 ELSE running[c]
      BY <1>9, <2>2 DEF Finish, Left
    <2>4. Exact' /\ \A x \in Subjects : running'[x] \in Nat
      BY <1>9, <2>3, Counting DEF Finish, Steps, Counted
    <2>5. \A x \in Callers : running'[x] \in Nat
      BY <2>2, <2>3, <2>4 DEF Callers, Limited
    <2>6. running' \in [Callers -> Nat]
      BY <2>3, <2>5
    <2>7. TypeOK'
      BY <1>0, <1>9, <2>1, <2>6 DEF Finish, TypeOK, Move, Steps
    <2> QED
      BY <2>4, <2>7 DEF Placed
  <1>10. ASSUME NEW r \in Runs, TokenEnds(r) \/ ToolEnds(r)
         PROVE  Placed'
    <2>1. TypeOK'
      BY <1>0, <1>10 DEF TokenEnds, ToolEnds, TypeOK
    <2>2. Exact'
      BY <1>10, CountsUntouched DEF TokenEnds, ToolEnds
    <2> QED
      BY <2>1, <2>2 DEF Placed
  <1>11. ASSUME NEW r \in Runs, Write(r)
         PROVE  Placed'
    <2>1. Directory(r) \in Callers
      BY <1>0 DEF TypeOK, Directory, Whose, Callers
    <2>2. TypeOK'
      BY <1>0, <1>11, <2>1 DEF Write, TypeOK
    <2>3. Exact'
      BY <1>11, CountsUntouched DEF Write
    <2> QED
      BY <2>2, <2>3 DEF Placed
  <1>12. ASSUME NEW d \in Subjects, Remove(d)
         PROVE  Placed'
    <2>1. TypeOK'
      BY <1>0, <1>12 DEF Remove, TypeOK, Callers
    <2>2. Exact'
      BY <1>12, CountsUntouched DEF Remove
    <2> QED
      BY <2>1, <2>2 DEF Placed
  <1>13. CASE Midnight \/ UNCHANGED vars
    <2>1. TypeOK'
      BY <1>0, <1>13 DEF Midnight, vars, TypeOK
    <2>2. Exact'
      BY <1>13, CountsUntouched DEF Midnight, vars
    <2> QED
      BY <2>1, <2>2 DEF Placed
  <1> QED
    BY <1>1, <1>2, <1>3, <1>4, <1>5, <1>6, <1>7, <1>8, <1>9, <1>10, <1>11, <1>12, <1>13
       DEF Next, Run

LEMMA PlacedAtFirst == Init => Placed
  <1> SUFFICES ASSUME Init
               PROVE  Placed
    OBVIOUS
  <1>1. TypeOK
    BY DEF Init, TypeOK, Emptied, Budgets, Callers, Steps
  <1>2. \A c \in Subjects : Going(c) = {}
    BY DEF Init, Going, Counted
  <1>3. Exact
    BY <1>2, FS_EmptySet, ExecutionAssumption DEF Exact, Init, Callers
  <1> QED
    BY <1>1, <1>3 DEF Placed

(* The state of the limits, the runs and their tools keeps its shape.      *)
THEOREM TypeCorrect == Spec => []TypeOK
  <1>1. Placed /\ [Next]_vars => Placed'
    BY PlacedKept
  <1>2. Placed => TypeOK
    BY DEF Placed
  <1> QED
    BY <1>1, <1>2, PlacedAtFirst, PTL DEF Spec

(* A subject's count is the number of its runs between start and finish,   *)
(* and within what it may have at once.                                    *)
THEOREM CountsExact == Spec => []RunningExact
  <1>1. Placed /\ [Next]_vars => Placed'
    BY PlacedKept
  <1>2. Placed => RunningExact
    BY DEF Placed, Exact, RunningExact
  <1> QED
    BY <1>1, <1>2, PlacedAtFirst, PTL DEF Spec

-----------------------------------------------------------------------------
(* The runs of a day.                                                      *)

BeganBy(d, c) == {r \in BeganOn(d) : caller[r] = c}

Unrecorded == {"new", "caller", "start", "output", "record", "refused", "failed"}

Within(d) == /\ RunsPerDay # 0 => Cardinality(BeganOn(d)) =< RunsPerDay
             /\ \A c \in Subjects :
                  RunsPerCaller # 0 => Cardinality(BeganBy(d, c)) =< RunsPerCaller

\* Only the run that holds the lock is between its check and its record.
Guarded == /\ \A r \in Runs : pc[r] \in {"output", "record"} <=> r \in lock
           /\ \A r, q \in lock : r = q

\* What the run budget says of today is what began today.
Tallied == /\ IsFiniteSet(BeganOn(day))
           /\ IF runBudget.day = day
                THEN /\ runBudget.spent = Cardinality(BeganOn(day))
                     /\ RunsPerCaller # 0 => \A c \in Subjects :
                          runBudget.by[c] = Cardinality(BeganBy(day, c))
                ELSE BeganOn(day) = {}

\* What the lock's holder was told is still true, unless the day is over.
Admitted == \A r \in lock : runBudget.day = day =>
              ~Refuses(runBudget, RunsPerDay, RunsPerCaller, caller[r], 1)

\* Nothing began after today, and nothing begins before its record.
Elapsed == /\ runBudget.day =< day
           /\ \A r \in Runs : began[r] =< day
           /\ \A r \in Runs : pc[r] \in Unrecorded => began[r] = -1

Booked == Guarded /\ Tallied /\ Admitted /\ Elapsed /\ \A d \in Nat : d =< day => Within(d)

LEMMA BookedUntouched ==
    ASSUME TypeOK, Booked, UNCHANGED <<day, runBudget, began>>, lock' \subseteq lock,
           \A r \in Runs : pc'[r] \in {"output", "record"} <=> r \in lock',
           \A r \in Runs : pc'[r] \in Unrecorded => pc[r] \in Unrecorded,
           \A r \in Runs : caller'[r] = caller[r] \/ (began[r] = -1 /\ r \notin lock),
           lock \subseteq Runs
    PROVE  Booked'
  <1>0. day \in Nat
    BY DEF TypeOK
  <1>1. \A d : BeganOn(d)' = BeganOn(d)
    BY DEF BeganOn
  <1>2. \A d \in Nat : \A c : BeganBy(d, c)' = BeganBy(d, c)
    <2> SUFFICES ASSUME NEW d \in Nat, NEW c
                 PROVE  BeganBy(d, c)' = BeganBy(d, c)
      OBVIOUS
    <2>1. \A r \in BeganOn(d) : caller'[r] = caller[r]
      BY DEF BeganOn
    <2> QED
      BY <1>1, <2>1 DEF BeganBy
  <1>3. Guarded'
    BY DEF Booked, Guarded
  <1>4. Tallied'
    BY <1>0, <1>1, <1>2 DEF Booked, Tallied
  <1>5. Admitted'
    BY DEF Booked, Admitted, Refuses, Past
  <1>6. Elapsed'
    BY DEF Booked, Elapsed
  <1>7. \A d \in Nat : d =< day => Within(d)'
    BY <1>1, <1>2 DEF Booked, Within
  <1> QED
    BY <1>3, <1>4, <1>5, <1>6, <1>7 DEF Booked

LEMMA BookedMidnight ==
    ASSUME TypeOK, Booked, Midnight
    PROVE  Booked'
  <1> USE DEF limits, past, identity
  <1>0. PICK d \in Nat : d = day + 1
    BY DEF TypeOK
  <1>1. day \in Nat /\ day' = d /\ UNCHANGED <<pc, caller, lock, runBudget, began>>
    BY <1>0 DEF Midnight, TypeOK
  <1>2. \A e : BeganOn(e)' = BeganOn(e) /\ \A c : BeganBy(e, c)' = BeganBy(e, c)
    BY <1>1 DEF BeganOn, BeganBy
  <1>3. BeganOn(d) = {} /\ \A c : BeganBy(d, c) = {}
    BY <1>0, <1>1 DEF Booked, Elapsed, BeganOn, BeganBy, TypeOK
  <1>4. runBudget.day # d /\ runBudget.day =< d
    BY <1>0, <1>1 DEF Booked, Elapsed, TypeOK, Budgets
  <1>5. \A e \in Nat : e =< d => Within(e)'
    <2>1. Cardinality({}) = 0
      BY FS_EmptySet
    <2>2. Within(d)
      BY <1>3, <2>1, ExecutionAssumption DEF Within
    <2>3. \A e \in Nat : e =< d => e =< day \/ e = d
      BY <1>0, <1>1
    <2> QED
      BY <1>2, <2>2, <2>3 DEF Booked, Within
  <1>6. Tallied'
    BY <1>1, <1>2, <1>3, <1>4, FS_EmptySet DEF Tallied
  <1>7. Guarded' /\ Admitted' /\ Elapsed'
    BY <1>0, <1>1, <1>4 DEF Booked, Guarded, Admitted, Elapsed, TypeOK
  <1> QED
    BY <1>1, <1>5, <1>6, <1>7 DEF Booked

LEMMA BookedAsked ==
    ASSUME TypeOK, Booked, NEW r \in Runs, AskRuns(r)
    PROVE  Booked'
  <1> USE DEF limits, past, identity
  <1>0. /\ day \in Nat /\ pc \in [Runs -> Steps] /\ lock = {}
        /\ runBudget' = Rolled(runBudget) /\ runBudget'.day = day
        /\ UNCHANGED <<day, caller, began>> /\ pc[r] = "start"
    BY DayStarts DEF AskRuns, TypeOK
  <1>1. \A d : BeganOn(d)' = BeganOn(d) /\ \A c : BeganBy(d, c)' = BeganBy(d, c)
    BY <1>0 DEF BeganOn, BeganBy
  <1>2. Tallied'
    <2>1. CASE runBudget.day = day
      BY <1>0, <1>1, <2>1 DEF Booked, Tallied, Rolled
    <2>2. CASE runBudget.day # day
      <3>1. BeganOn(day) = {} /\ \A c : BeganBy(day, c) = {}
        BY <2>2 DEF Booked, Tallied, BeganBy
      <3>2. IsFiniteSet({}) /\ Cardinality({}) = 0
        BY FS_EmptySet
      <3>3. runBudget'.spent = 0 /\ \A c \in Callers : runBudget'.by[c] = 0
        BY <1>0, <2>2 DEF Rolled, Emptied
      <3> QED
        BY <1>0, <1>1, <3>1, <3>2, <3>3 DEF Tallied, Callers
    <2> QED
      BY <2>1, <2>2
  <1>3. CASE Refuses(runBudget', RunsPerDay, RunsPerCaller, caller[r], 1)
    <2>1. pc' = [pc EXCEPT ![r] = "refused"] /\ lock' = {}
      BY <1>3 DEF AskRuns, Refuse, Move
    <2>2. Guarded' /\ Admitted'
      BY <1>0, <2>1 DEF Booked, Guarded, Admitted
    <2>3. Elapsed'
      BY <1>0, <2>1 DEF Booked, Elapsed, Unrecorded
    <2> QED
      BY <1>0, <1>1, <1>2, <2>2, <2>3 DEF Booked, Within
  <1>4. CASE ~Refuses(runBudget', RunsPerDay, RunsPerCaller, caller[r], 1)
    <2>1. pc' = [pc EXCEPT ![r] = "output"] /\ lock' = {r}
      BY <1>4 DEF AskRuns, Move
    <2>2. Guarded'
      BY <1>0, <2>1 DEF Booked, Guarded
    <2>3. Admitted'
      BY <1>0, <1>4, <2>1 DEF Admitted, Refuses, Past
    <2>4. Elapsed'
      BY <1>0, <2>1 DEF Booked, Elapsed, Unrecorded
    <2> QED
      BY <1>0, <1>1, <1>2, <2>2, <2>3, <2>4 DEF Booked, Within
  <1> QED
    BY <1>3, <1>4

LEMMA BookedRecorded ==
    ASSUME TypeOK, Booked, lock \subseteq Runs, NEW r \in Runs, RecordRun(r)
    PROVE  Booked'
  <1> USE DEF limits, past, identity
  <1> DEFINE c == caller[r]
  <1>0. /\ day \in Nat /\ pc \in [Runs -> Steps] /\ began \in [Runs -> Nat \cup {-1}]
        /\ pc[r] = "record" /\ lock' = {} /\ UNCHANGED <<day, caller>>
        /\ pc' = [pc EXCEPT ![r] = "before"] /\ began' = [began EXCEPT ![r] = day]
        /\ runBudget' = Recorded(runBudget, RunsPerCaller, c, 1)
        /\ c \in Callers
    BY DEF RecordRun, TypeOK, Move
  <1>1. r \in lock /\ began[r] = -1
    BY <1>0 DEF Booked, Guarded, Elapsed, Unrecorded
  <1>2. /\ BeganOn(day)' = BeganOn(day) \cup {r} /\ r \notin BeganOn(day)
        /\ IsFiniteSet(BeganOn(day))
    BY <1>0, <1>1 DEF BeganOn, Booked, Tallied
  <1>3. /\ IsFiniteSet(BeganOn(day)')
        /\ Cardinality(BeganOn(day)') = Cardinality(BeganOn(day)) + 1
        /\ Cardinality(BeganOn(day)) \in Nat
    BY <1>2, FS_AddElement, FS_CardinalityType
  <1>4. \A x \in Subjects :
           /\ Cardinality(BeganBy(day, x)) \in Nat
           /\ Cardinality(BeganBy(day, x)') =
                IF x = c THEN Cardinality(BeganBy(day, x)) + 1
                         ELSE Cardinality(BeganBy(day, x))
    <2> TAKE x \in Subjects
    <2>1. BeganBy(day, x) \subseteq BeganOn(day) /\ r \notin BeganBy(day, x)
      BY <1>2 DEF BeganBy
    <2>2. IsFiniteSet(BeganBy(day, x)) /\ Cardinality(BeganBy(day, x)) \in Nat
      BY <1>2, <2>1, FS_Subset, FS_CardinalityType
    <2>3. BeganBy(day, x)' = IF x = c THEN BeganBy(day, x) \cup {r} ELSE BeganBy(day, x)
      BY <1>0, <1>2 DEF BeganBy
    <2> QED
      BY <2>1, <2>2, <2>3, FS_AddElement
  <1>5. /\ runBudget'.day = day
        /\ runBudget'.spent = Cardinality(BeganOn(day)')
        /\ RunsPerCaller # 0 => \A x \in Subjects :
             runBudget'.by[x] = Cardinality(BeganBy(day, x)')
        /\ RunsPerDay # 0 => Cardinality(BeganOn(day)') =< RunsPerDay
        /\ RunsPerCaller # 0 => \A x \in Subjects :
             Cardinality(BeganBy(day, x)') =< RunsPerCaller
    <2> DEFINE kept == Rolled(runBudget)
    <2>1. kept \in Budgets /\ kept.day = day
      BY <1>0, DayStarts DEF TypeOK
    <2>2. /\ kept.spent = Cardinality(BeganOn(day))
          /\ RunsPerCaller # 0 => \A x \in Subjects :
               kept.by[x] = Cardinality(BeganBy(day, x))
      <3>1. CASE runBudget.day = day
        BY <3>1 DEF Booked, Tallied, Rolled
      <3>2. CASE runBudget.day # day
        <4>1. BeganOn(day) = {} /\ \A x : BeganBy(day, x) = {}
          BY <3>2 DEF Booked, Tallied, BeganBy
        <4>2. Cardinality({}) = 0
          BY FS_EmptySet
        <4> QED
          BY <3>2, <4>1, <4>2 DEF Rolled, Emptied, Callers
      <3> QED
        BY <3>1, <3>2
    <2>3. /\ RunsPerDay # 0 => kept.spent + 1 =< RunsPerDay
          /\ RunsPerCaller # 0 /\ c # Nobody => kept.by[c] + 1 =< RunsPerCaller
      <3>0. RunsPerDay \in Nat /\ RunsPerCaller \in Nat
        BY ExecutionAssumption
      <3>1. CASE runBudget.day = day
        BY <1>0, <1>1, <2>1, <3>0, <3>1 DEF Booked, Admitted, Refuses, Past, Rolled, Budgets
      <3>2. CASE runBudget.day # day
        BY <1>0, <3>0, <3>2 DEF Rolled, Emptied
      <3> QED
        BY <3>1, <3>2
    <2>4. kept.by \in [Callers -> Nat]
      BY <2>1 DEF Budgets
    <2>5. /\ runBudget'.day = day /\ runBudget'.spent = kept.spent + 1
          /\ runBudget'.by =
               [kept.by EXCEPT ![c] = @ + IF c = Nobody \/ RunsPerCaller = 0 THEN 0 ELSE 1]
      BY <1>0 DEF Recorded
    <2> HIDE DEF kept
    <2>6. ASSUME RunsPerCaller # 0, NEW x \in Subjects
          PROVE  /\ runBudget'.by[x] = Cardinality(BeganBy(day, x)')
                 /\ x = c => Cardinality(BeganBy(day, x)') =< RunsPerCaller
      <3>1. x \in Callers /\ x # Nobody
        BY ExecutionAssumption DEF Callers
      <3>2. runBudget'.by[x] = IF x = c THEN kept.by[x] + 1 ELSE kept.by[x]
        BY <1>0, <2>4, <2>5, <2>6, <3>1
      <3> QED
        BY <1>4, <2>2, <2>3, <2>6, <3>1, <3>2
    <2>7. RunsPerCaller # 0 => \A x \in Subjects :
             x # c => Cardinality(BeganBy(day, x)') =< RunsPerCaller
      BY <1>0, <1>4 DEF Booked, Within
    <2> QED
      BY <1>3, <2>2, <2>3, <2>5, <2>6, <2>7
  <1>6. Tallied'
    BY <1>0, <1>3, <1>5 DEF Tallied
  <1>7. Guarded' /\ Admitted' /\ Elapsed'
    <2>1. \A q \in Runs : pc[q] \in {"output", "record"} => q = r
      BY <1>1 DEF Booked, Guarded
    <2> QED
      BY <1>0, <1>5, <2>1 DEF Booked, Guarded, Admitted, Elapsed, Unrecorded
  <1>8. \A d \in Nat : d # day => BeganOn(d)' = BeganOn(d) /\ \A x : BeganBy(d, x)' = BeganBy(d, x)
    BY <1>0, <1>1 DEF BeganOn, BeganBy
  <1>9. \A d \in Nat : d =< day => Within(d)'
    BY <1>0, <1>5, <1>8 DEF Booked, Within
  <1> QED
    BY <1>0, <1>6, <1>7, <1>9 DEF Booked

LEMMA BookedKept ==
    ASSUME TypeOK, Booked, [Next]_vars
    PROVE  Booked'
  <1> USE DEF deployment, request, identity, work, measures, limits, past
  <1>0. pc \in [Runs -> Steps] /\ caller \in [Runs -> Callers] /\ lock \subseteq Runs
    BY DEF TypeOK
  <1>1. ASSUME NEW r \in Runs, Exchange(r)
        PROVE  Booked'
    BY <1>0, <1>1, BookedUntouched DEF Exchange, Booked, Guarded, Move, Unrecorded
  <1>2. ASSUME NEW r \in Runs, CallerOf(r)
        PROVE  Booked'
    <2>1. began[r] = -1 /\ r \notin lock
      BY <1>2 DEF CallerOf, Booked, Guarded, Elapsed, Unrecorded
    <2> QED
      BY <1>0, <1>2, <2>1, BookedUntouched DEF CallerOf, Booked, Guarded, Move, Unrecorded
  <1>3. ASSUME NEW r \in Runs, AskRuns(r)
        PROVE  Booked'
    BY <1>3, BookedAsked
  <1>4. ASSUME NEW r \in Runs, AskOutput(r)
        PROVE  Booked'
    <2>1. \A q \in Runs : pc[q] \in {"output", "record"} => q = r
      BY <1>4 DEF AskOutput, Booked, Guarded
    <2>2. CASE Move(r, "refused") /\ lock' = {}
      BY <1>0, <1>4, <2>1, <2>2, BookedUntouched
         DEF AskOutput, Booked, Guarded, Move, Unrecorded
    <2>3. CASE Move(r, "record") /\ UNCHANGED lock
      BY <1>0, <1>4, <2>3, BookedUntouched
         DEF AskOutput, Booked, Guarded, Move, Unrecorded
    <2> QED
      BY <1>4, <2>2, <2>3 DEF AskOutput, Refuse
  <1>5. ASSUME NEW r \in Runs, RecordRun(r)
        PROVE  Booked'
    BY <1>0, <1>5, BookedRecorded
  <1>6. ASSUME NEW r \in Runs, MeasureBefore(r) \/ Send(r) \/ MeasureAfter(r) \/ Finish(r)
        PROVE  Booked'
    <2>1. /\ pc[r] \notin Unrecorded
          /\ \E step \in {"send", "work", "after", "finish", "done"} : Move(r, step)
          /\ UNCHANGED <<day, caller, runBudget, began, lock>>
      BY <1>6 DEF MeasureBefore, Send, MeasureAfter, Finish, Unrecorded
    <2> QED
      BY <1>0, <2>1, BookedUntouched DEF Booked, Guarded, Move, Unrecorded
  <1>7. ASSUME NEW r \in Runs, TokenEnds(r) \/ ToolEnds(r) \/ Write(r)
        PROVE  Booked'
    BY <1>0, <1>7, BookedUntouched DEF TokenEnds, ToolEnds, Write, Booked, Guarded
  <1>8. ASSUME NEW d \in Subjects, Remove(d)
        PROVE  Booked'
    BY <1>0, <1>8, BookedUntouched DEF Remove, Booked, Guarded
  <1>9. CASE Midnight
    BY <1>9, BookedMidnight
  <1>10. CASE UNCHANGED vars
    BY <1>0, <1>10, BookedUntouched DEF vars, Booked, Guarded
  <1> QED
    BY <1>1, <1>2, <1>3, <1>4, <1>5, <1>6, <1>7, <1>8, <1>9, <1>10 DEF Next, Run

LEMMA BookedAtFirst == Init => Booked
  <1> SUFFICES ASSUME Init
               PROVE  Booked
    OBVIOUS
  <1>1. \A d \in Nat : BeganOn(d) = {} /\ \A c : BeganBy(d, c) = {}
    BY DEF Init, BeganOn, BeganBy
  <1>2. IsFiniteSet({}) /\ Cardinality({}) = 0
    BY FS_EmptySet
  <1>3. \A d \in Nat : Within(d)
    BY <1>1, <1>2, ExecutionAssumption DEF Within
  <1>4. Tallied
    <2>1. day \in Nat /\ runBudget.day # day
      BY DEF Init, Emptied
    <2> QED
      BY <1>1, <1>2, <2>1 DEF Tallied
  <1> QED
    BY <1>3, <1>4 DEF Init, Emptied, Booked, Guarded, Admitted, Elapsed

(* No day has more runs than its limit, of all or of one subject.          *)
THEOREM DaysKeepTheirLimits == Spec => []DailyRunsWithinLimits
  <1> DEFINE Inv == Placed /\ Booked
  <1>1. Init => Inv
    BY PlacedAtFirst, BookedAtFirst
  <1>2. Inv /\ [Next]_vars => Inv'
    BY PlacedKept, BookedKept DEF Placed
  <1>3. Inv => DailyRunsWithinLimits
    BY DEF Booked, Within, BeganBy, DailyRunsWithinLimits, Placed, TypeOK
  <1> HIDE DEF Inv
  <1> QED
    BY <1>1, <1>2, <1>3, PTL DEF Spec

-----------------------------------------------------------------------------
(* The directory that a run in the executor writes to.                     *)

Unsent == {"new", "caller", "start", "output", "record", "before", "send"}

Filed == \A r \in Runs :
    /\ told[r] \in {subject[r], Nobody}
    /\ pc[r] \in Unsent => tool[r] = "none" /\ writesTo[r] = {}
    /\ remote => writesTo[r] \subseteq {told[r]}

(* A run in the executor writes to one directory, whatever becomes of its  *)
(* token, its own subject's or the one of nobody.                          *)
THEOREM FilesTogether == Spec => []RemoteFilesTogether
  <1> USE DEF deployment, request, identity, work, measures, limits, past
  <1> DEFINE Inv == TypeOK /\ Filed
  <1>1. Init => Filed
    BY DEF Init, Filed
  <1>2. TypeOK /\ Filed /\ [Next]_vars => Filed'
    <2> SUFFICES ASSUME TypeOK, Filed, [Next]_vars
                 PROVE  Filed'
      OBVIOUS
    <2>0. /\ pc \in [Runs -> Steps] /\ told \in [Runs -> Callers]
          /\ tool \in [Runs -> {"none", "working", "ended"}]
          /\ writesTo \in [Runs -> SUBSET Callers]
      BY DEF TypeOK
    <2>1. ASSUME NEW r \in Runs,
                 Exchange(r) \/ CallerOf(r) \/ AskRuns(r) \/ AskOutput(r) \/ RecordRun(r)
          PROVE  Filed'
      <3>1. pc[r] \in Unsent /\ UNCHANGED <<remote, told, subject, tool, writesTo>>
        BY <2>1 DEF Exchange, CallerOf, AskRuns, AskOutput, RecordRun, Unsent
      <3>2. \E step : Move(r, step)
        BY <2>1 DEF Exchange, CallerOf, AskRuns, AskOutput, RecordRun, Refuse
      <3> QED
        BY <2>0, <3>1, <3>2 DEF Filed, Move
    <2>2. ASSUME NEW r \in Runs, MeasureBefore(r)
          PROVE  Filed'
      BY <2>0, <2>2 DEF MeasureBefore, Filed, Move, Unsent
    <2>3. ASSUME NEW r \in Runs, Send(r)
          PROVE  Filed'
      BY <2>0, <2>3 DEF Send, Filed, Move, Unsent, Whose
    <2>4. ASSUME NEW r \in Runs, MeasureAfter(r) \/ Finish(r)
          PROVE  Filed'
      BY <2>0, <2>4 DEF MeasureAfter, Finish, Filed, Move, Unsent
    <2>5. ASSUME NEW r \in Runs, Write(r)
          PROVE  Filed'
      BY <2>0, <2>5 DEF Write, Directory, Filed, Unsent
    <2>6. ASSUME NEW r \in Runs, TokenEnds(r) \/ ToolEnds(r)
          PROVE  Filed'
      BY <2>0, <2>6 DEF TokenEnds, ToolEnds, Filed, Unsent
    <2>7. ASSUME NEW d \in Subjects, Remove(d)
          PROVE  Filed'
      BY <2>7 DEF Remove, Filed
    <2>8. CASE Midnight \/ UNCHANGED vars
      BY <2>8 DEF Midnight, vars, Filed
    <2> QED
      BY <2>1, <2>2, <2>3, <2>4, <2>5, <2>6, <2>7, <2>8 DEF Next, Run
  <1>3. Filed => RemoteFilesTogether
    <2> SUFFICES ASSUME Filed, remote, NEW r \in Runs
                 PROVE  /\ writesTo[r] \subseteq {subject[r], Nobody}
                        /\ Cardinality(writesTo[r]) <= 1
      BY DEF RemoteFilesTogether
    <2>1. writesTo[r] = {} \/ writesTo[r] = {told[r]}
      BY DEF Filed
    <2>2. Cardinality({}) = 0 /\ Cardinality({told[r]}) = 1
      BY FS_EmptySet, FS_Singleton
    <2> QED
      BY <2>1, <2>2, SMTT(30) DEF Filed
  <1> QED
    BY <1>1, <1>2, <1>3, TypeCorrect, PTL DEF Spec
-----------------------------------------------------------------------------
(* What callers are charged for their outputs.                             *)

(* While a run is awaited its caller's directory has grown by what it      *)
(* wrote, but for what was removed; and that is what it is measured by.    *)
Awaited == \A r \in Runs :
    /\ pc[r] \in Unsent => owed[r] = 0
    /\ pc[r] \in {"send", "work", "after"} /\ Measured(caller[r]) =>
           before[r] + owed[r] =< size[caller[r]] + removed[caller[r]]
    /\ pc[r] = "finish" /\ Measured(caller[r]) => Added(r) =< written[r]
    /\ pc[r] # "done" => settled[r] = -1

ChargedFor(c) ==
    /\ IsFiniteSet(AddedBytes(SettledOn(outputBudget.day, c)))
    /\ Cardinality(AddedBytes(SettledOn(outputBudget.day, c))) =< outputBudget.by[c]

(* The budget holds what was settled on its day, and who is about to be    *)
(* recorded was told so under the lock.                                    *)
Charged ==
    /\ outputBudget.day =< day
    /\ \A r \in Runs : settled[r] =< outputBudget.day
    /\ outputBudget.day # -1 => \A c \in Subjects : Measured(c) => ChargedFor(c)
    /\ \A r \in Runs : pc[r] = "record" /\ Measured(caller[r]) =>
           outputBudget.by[caller[r]] =< OutputPerDay

LEMMA AddedType ==
    ASSUME TypeOK, NEW r \in Runs
    PROVE  /\ Added(r) \in Nat
           /\ Added(r) = 0 \/ Added(r) = owed[r] - removed[caller[r]]
           /\ Added(r) >= owed[r] - removed[caller[r]]
  <1>1. owed[r] \in Nat /\ removed[caller[r]] \in Nat
    BY DEF TypeOK
  <1> QED
    BY <1>1, AtLeastZero DEF Added

(* Removals take away from what runs added, and nothing adds to it after   *)
(* they are settled.                                                       *)
LEMMA ChargesStay ==
    ASSUME TypeOK, TypeOK', Charged, UNCHANGED <<outputBudget, settled>>,
           day' = day \/ day' = day + 1,
           \A r \in Runs : settled[r] # -1 => caller'[r] = caller[r] /\ owed'[r] = owed[r],
           \A c \in Callers : removed[c] =< removed'[c],
           \A r \in Runs : pc'[r] = "record" => pc[r] = "record" /\ caller'[r] = caller[r]
    PROVE  Charged'
  <1>1. ASSUME NEW c \in Subjects, Measured(c), outputBudget.day # -1
        PROVE  ChargedFor(c)'
    <2> DEFINE d == outputBudget.day
    <2>1. SettledOn(d, c)' = SettledOn(d, c)
      BY <1>1 DEF SettledOn
    <2>2. ASSUME NEW r \in SettledOn(d, c) PROVE Added(r)' =< Added(r)
      <3>1. r \in Runs /\ caller'[r] = caller[r] /\ owed'[r] = owed[r]
        BY <1>1 DEF SettledOn
      <3>2. /\ removed[caller[r]] =< removed'[caller[r]] /\ owed[r] \in Nat
            /\ removed[caller[r]] \in Nat /\ removed'[caller[r]] \in Nat
        BY <3>1 DEF TypeOK
      <3>3. Added(r) \in Nat /\ Added(r) >= owed[r] - removed[caller[r]]
        BY <3>1, AddedType
      <3>4. Added(r)' = Max({0, owed[r] - removed'[caller[r]]})
        BY <3>1 DEF Added
      <3>5. owed[r] - removed'[caller[r]] \in Int
        BY <3>2
      <3>6. Added(r)' = 0 \/ Added(r)' = owed[r] - removed'[caller[r]]
        BY <3>4, <3>5, AtLeastZero
      <3> QED
        BY <3>2, <3>3, <3>6
    <2>3. ASSUME NEW r \in SettledOn(d, c)
          PROVE  {r} \X (1 .. Added(r))' \subseteq {r} \X (1 .. Added(r))
      <3>0. r \in Runs
        BY DEF SettledOn
      <3>1. Added(r) \in Nat
        BY <3>0, AddedType
      <3>2. owed'[r] - removed'[caller'[r]] \in Int
        <4>1. owed'[r] \in Nat /\ removed'[caller'[r]] \in Nat
          BY <3>0 DEF TypeOK
        <4> QED
          BY <4>1
      <3>3. Added(r)' \in Nat
        BY <3>2, AtLeastZero DEF Added
      <3> QED
        BY <2>2, <3>1, <3>3
    <2>4. AddedBytes(SettledOn(d, c))' \subseteq AddedBytes(SettledOn(d, c))
      BY <2>1, <2>3 DEF AddedBytes
    <2>5. ChargedFor(c)
      BY <1>1 DEF Charged
    <2>6. /\ IsFiniteSet(AddedBytes(SettledOn(d, c))')
          /\ Cardinality(AddedBytes(SettledOn(d, c))') =<
                 Cardinality(AddedBytes(SettledOn(d, c)))
          /\ Cardinality(AddedBytes(SettledOn(d, c))) \in Nat
          /\ Cardinality(AddedBytes(SettledOn(d, c))') \in Nat
      BY <2>4, <2>5, FS_Subset, FS_CardinalityType DEF ChargedFor
    <2>7. outputBudget.by[c] \in Nat
      BY DEF TypeOK, Budgets, Callers
    <2> QED
      BY <2>5, <2>6, <2>7 DEF ChargedFor
  <1>2. outputBudget.day =< day'
    BY DEF Charged, TypeOK, Budgets
  <1> QED
    BY <1>1, <1>2 DEF Charged, Measured

LEMMA ChargedAsked ==
    ASSUME TypeOK, TypeOK', Guarded, Charged, NEW r \in Runs, AskOutput(r)
    PROVE  Charged'
  <1> USE DEF past, identity, deployment, request, work, measures
  <1>1. /\ pc[r] = "output" /\ outputBudget' = Rolled(outputBudget)
        /\ UNCHANGED <<day, caller, settled, owed, removed>>
        /\ day \in Nat /\ outputBudget \in Budgets
        /\ outputBudget.day =< day /\ outputBudget.day \in Int
    BY DEF AskOutput, TypeOK, Charged, Budgets
  <1>2. \A q \in Runs : pc[q] = "record" => q = r
    BY <1>1 DEF Guarded
  <1>3. ASSUME pc'[r] = "record", Measured(caller[r])
        PROVE  outputBudget'.by[caller[r]] =< OutputPerDay
    <2>1. ~Spent(caller[r])
      <3>1. Spent(caller[r]) => Move(r, "refused")
        BY DEF AskOutput, Refuse
      <3> QED
        BY <1>3, <3>1 DEF Move, TypeOK
    <2>2. outputBudget'.by[caller[r]] \in Nat /\ OutputPerDay \in Nat
      BY ExecutionAssumption DEF TypeOK, Budgets
    <2>3. ~Past(OutputPerDay, outputBudget'.by[caller[r]] + 0)
      BY <1>3, <2>1 DEF Spent, Refuses, Measured
    <2> QED
      BY <1>3, <2>2, <2>3 DEF Past, Measured
  <1>4. \A q \in Runs : pc'[q] = "record" => q = r
    <2>1. \E step : Move(r, step)
      BY DEF AskOutput, Refuse
    <2> QED
      BY <1>2, <2>1 DEF Move, TypeOK
  <1>5. CASE outputBudget.day = day
    BY <1>1, <1>3, <1>4, <1>5 DEF Rolled, Charged, ChargedFor, AddedBytes, SettledOn, Added,
                                  Measured
  <1>6. CASE outputBudget.day # day
    <2>1. outputBudget' = Emptied(day)
      BY <1>1, <1>6 DEF Rolled
    <2>2. \A q \in Runs : settled[q] < day /\ settled[q] =< day
      <3>1. \A q \in Runs : settled[q] =< outputBudget.day /\ settled[q] \in Int
        BY DEF Charged, TypeOK
      <3>2. outputBudget.day < day
        BY <1>1, <1>6
      <3> QED
        BY <1>1, <3>1, <3>2
    <2>3. ASSUME NEW c \in Subjects PROVE ChargedFor(c)'
      <3>1. SettledOn(day, c)' = {}
        BY <1>1, <2>2 DEF SettledOn, TypeOK
      <3>2. AddedBytes(SettledOn(day, c))' = {}
        BY <3>1 DEF AddedBytes
      <3>3. outputBudget'.day = day /\ outputBudget'.by[c] = 0
        BY <2>1 DEF Emptied, Callers
      <3> QED
        BY <1>1, <3>2, <3>3, FS_EmptySet DEF ChargedFor
    <2> QED
      BY <1>1, <1>3, <1>4, <2>1, <2>2, <2>3 DEF Charged, Emptied, Measured
  <1> QED
    BY <1>5, <1>6

LEMMA ChargedFinished ==
    ASSUME TypeOK, TypeOK', Guarded, Charged, Awaited, NEW r \in Runs, Finish(r)
    PROVE  Charged'
  <1> USE DEF past, identity, deployment, request, work, measures
  <1> DEFINE c == caller[r]
             kept == Rolled(outputBudget)
  <1>1. /\ pc[r] = "finish" /\ lock = {} /\ c \in Callers
        /\ outputBudget' = Recorded(outputBudget, OutputPerDay, c, written[r])
        /\ settled' = [settled EXCEPT ![r] = day] /\ pc' = [pc EXCEPT ![r] = "done"]
        /\ UNCHANGED <<day, caller, owed, removed>>
        /\ day \in Nat /\ outputBudget \in Budgets /\ outputBudget.day \in Int
        /\ written[r] \in Nat
    BY DEF Finish, TypeOK, Budgets, Move
  <1>2. settled[r] = -1 /\ \A q \in Runs : pc'[q] # "record"
    BY <1>1 DEF Awaited, Guarded, TypeOK
  <1>3. kept \in Budgets /\ kept.day = day /\ kept.by \in [Callers -> Nat]
    BY <1>1, DayStarts DEF Budgets
  <1>4. outputBudget'.day = day
        /\ outputBudget'.by =
             [kept.by EXCEPT ![c] = @ + IF c = Nobody \/ OutputPerDay = 0 THEN 0 ELSE written[r]]
    BY <1>1 DEF Recorded
  <1>5. ASSUME NEW x \in Subjects, Measured(x)
        PROVE  /\ IsFiniteSet(AddedBytes(SettledOn(day, x)))
               /\ Cardinality(AddedBytes(SettledOn(day, x))) =< kept.by[x]
               /\ Cardinality(AddedBytes(SettledOn(day, x))) \in Nat
    <2>1. CASE outputBudget.day = day
      BY <1>1, <1>5, <2>1, FS_CardinalityType DEF Charged, ChargedFor, Rolled
    <2>2. CASE outputBudget.day # day
      <3>0. \A q \in Runs : settled[q] =< outputBudget.day /\ settled[q] \in Int
        BY DEF Charged, TypeOK
      <3>1. SettledOn(day, x) = {}
        <4>1. outputBudget.day < day
          BY <1>1, <2>2 DEF Charged
        <4> QED
          BY <1>1, <3>0, <4>1 DEF SettledOn
      <3>2. AddedBytes(SettledOn(day, x)) = {} /\ kept.by[x] = 0
        BY <2>2, <3>1 DEF AddedBytes, Rolled, Emptied, Callers
      <3> QED
        BY <3>2, FS_EmptySet
    <2> QED
      BY <2>1, <2>2
  <1> HIDE DEF c, kept
  <1>6. ASSUME NEW x \in Subjects, Measured(x) PROVE ChargedFor(x)'
    <2> DEFINE old == AddedBytes(SettledOn(day, x))
               own == {r} \X (1 .. Added(r))
               new == AddedBytes(SettledOn(day, x))'
    <2>0. x \in Callers /\ kept.by[x] \in Nat
      BY <1>3 DEF Callers
    <2>1. SettledOn(day, x)' = IF x = c THEN SettledOn(day, x) \cup {r} ELSE SettledOn(day, x)
      BY <1>1, <1>2 DEF SettledOn, TypeOK, c
    <2>2. \A q \in Runs : Added(q)' = Added(q)
      BY <1>1 DEF Added
    <2>3. new = IF x = c THEN old \cup own ELSE old
      BY <2>1, <2>2 DEF AddedBytes, SettledOn
    <2>4. CASE x # c
      <3>1. outputBudget'.by[x] = kept.by[x]
        BY <1>3, <1>4, <2>0, <2>4
      <3>2. new = old
        BY <2>3, <2>4
      <3>3. IsFiniteSet(old) /\ Cardinality(old) =< kept.by[x]
        BY <1>5, <1>6
      <3>4. IsFiniteSet(new) /\ Cardinality(new) =< outputBudget'.by[x]
        BY <3>1, <3>2, <3>3
      <3>5. ChargedFor(x)' <=> /\ IsFiniteSet(AddedBytes(SettledOn(day, x))')
                               /\ Cardinality(AddedBytes(SettledOn(day, x))') =<
                                      outputBudget'.by[x]
        BY <1>1, <1>4 DEF ChargedFor
      <3> QED
        BY <3>4, <3>5
    <2>5. CASE x = c
      <3>1. Added(r) \in Nat /\ Added(r) =< written[r]
        BY <1>1, <1>6, <2>5, AddedType DEF Awaited, c
      <3>2. IsFiniteSet(own) /\ Cardinality(own) = Added(r)
        <4>1. IsFiniteSet(1 .. Added(r)) /\ Cardinality(1 .. Added(r)) = Added(r)
          BY <3>1, FS_Interval
        <4>2. IsFiniteSet({r}) /\ Cardinality({r}) = 1
          BY FS_Singleton
        <4>3. IsFiniteSet(own) /\ Cardinality(own) = Cardinality({r}) * Cardinality(1 .. Added(r))
          BY <4>1, <4>2, FS_Product
        <4> QED
          BY <3>1, <4>1, <4>2, <4>3
      <3>3. IsFiniteSet(old) /\ Cardinality(old) \in Nat /\ Cardinality(old) =< kept.by[x]
        BY <1>5, <1>6
      <3>4. /\ IsFiniteSet(old \cup own)
            /\ Cardinality(old \cup own) =< Cardinality(old) + Cardinality(own)
        <4>1. Cardinality(old \cap own) \in Nat
          BY <3>3, FS_Intersection, FS_CardinalityType
        <4>2. Cardinality(own) \in Nat
          BY <3>1, <3>2
        <4> HIDE DEF old, own
        <4>3. /\ IsFiniteSet(old \cup own)
              /\ Cardinality(old \cup own) =
                     Cardinality(old) + Cardinality(own) - Cardinality(old \cap own)
          BY <3>2, <3>3, FS_Union
        <4> QED
          BY <3>3, <4>1, <4>2, <4>3
      <3>5. outputBudget'.by[x] = kept.by[x] + written[r]
        BY <1>1, <1>3, <1>4, <1>6, <2>0, <2>5 DEF Measured
      <3>6. Cardinality(old \cup own) \in Nat
        BY <3>4, FS_CardinalityType
      <3> HIDE DEF old, own
      <3>7. Cardinality(old \cup own) =< kept.by[x] + written[r]
        BY <1>1, <2>0, <3>1, <3>2, <3>3, <3>4, <3>6
      <3>8. IsFiniteSet(new) /\ Cardinality(new) =< outputBudget'.by[x]
        BY <2>3, <2>5, <3>4, <3>5, <3>7
      <3>9. ChargedFor(x)' <=> /\ IsFiniteSet(AddedBytes(SettledOn(day, x))')
                               /\ Cardinality(AddedBytes(SettledOn(day, x))') =<
                                      outputBudget'.by[x]
        BY <1>1, <1>4 DEF ChargedFor
      <3> QED
        BY <3>8, <3>9
    <2> QED
      BY <2>4, <2>5
  <1>7. \A q \in Runs : settled'[q] =< day
    <2>1. \A q \in Runs : settled[q] =< outputBudget.day /\ settled[q] \in Int
      BY DEF Charged, TypeOK
    <2>2. outputBudget.day =< day
      BY DEF Charged
    <2> QED
      BY <1>1, <2>1, <2>2 DEF TypeOK
  <1> QED
    BY <1>1, <1>2, <1>4, <1>6, <1>7 DEF Charged, Measured

LEMMA ChargedKept ==
    ASSUME TypeOK, TypeOK', Booked, Awaited, Charged, [Next]_vars
    PROVE  Charged'
  <1> USE DEF deployment, request, identity, work, measures, limits, past
  <1>0. /\ pc \in [Runs -> Steps] /\ caller \in [Runs -> Callers]
        /\ \A c \in Callers : removed[c] =< removed[c]
        /\ \A r \in Runs : pc[r] # "done" => settled[r] = -1
    BY DEF TypeOK, Awaited
  <1>1. ASSUME NEW r \in Runs, Exchange(r) \/ CallerOf(r) \/ AskRuns(r) \/ RecordRun(r)
                               \/ MeasureBefore(r) \/ Send(r) \/ MeasureAfter(r)
        PROVE  Charged'
    <2>1. /\ UNCHANGED <<outputBudget, settled, day, owed, removed>>
          /\ \A q \in Runs : caller'[q] = caller[q] \/ (q = r /\ pc[r] = "caller")
      <3>1. CASE CallerOf(r)
        BY <1>0, <3>1 DEF CallerOf
      <3>2. CASE Exchange(r) \/ AskRuns(r) \/ RecordRun(r)
        BY <3>2 DEF Exchange, AskRuns, RecordRun
      <3>3. CASE MeasureBefore(r)
        BY <3>3 DEF MeasureBefore
      <3>4. CASE Send(r)
        BY <3>4 DEF Send
      <3>5. CASE MeasureAfter(r)
        BY <3>5 DEF MeasureAfter
      <3> QED
        BY <1>1, <3>1, <3>2, <3>3, <3>4, <3>5
    <2>2. \E step : step # "record" /\ Move(r, step)
      BY <1>1 DEF Exchange, CallerOf, AskRuns, Refuse, RecordRun, MeasureBefore, Send,
                  MeasureAfter
    <2>3. \A q \in Runs : pc'[q] = "record" => q # r /\ pc[q] = "record"
      BY <1>0, <2>2 DEF Move
    <2>4. \A q \in Runs : settled[q] # -1 => q # r \/ pc[r] # "caller"
      BY <1>0
    <2> QED
      BY <1>0, <2>1, <2>3, <2>4, ChargesStay
  <1>2. ASSUME NEW r \in Runs, AskOutput(r)
        PROVE  Charged'
    BY <1>2, ChargedAsked DEF Booked
  <1>3. ASSUME NEW r \in Runs, Finish(r)
        PROVE  Charged'
    BY <1>3, ChargedFinished DEF Booked
  <1>4. ASSUME NEW r \in Runs, Write(r)
        PROVE  Charged'
    <2>1. /\ UNCHANGED <<outputBudget, settled, day, caller, pc, removed>>
          /\ \A q \in Runs : owed'[q] = owed[q] \/ pc[q] = "work"
      BY <1>4 DEF Write, TypeOK
    <2> QED
      BY <1>0, <2>1, ChargesStay
  <1>5. ASSUME NEW r \in Runs, TokenEnds(r) \/ ToolEnds(r)
        PROVE  Charged'
    BY <1>0, <1>5, ChargesStay DEF TokenEnds, ToolEnds
  <1>6. ASSUME NEW d \in Subjects, Remove(d)
        PROVE  Charged'
    <2>1. /\ UNCHANGED <<outputBudget, settled, day, caller, pc, owed>>
          /\ \A c \in Callers : removed[c] =< removed'[c]
      BY <1>6 DEF Remove, TypeOK
    <2> QED
      BY <2>1, ChargesStay
  <1>7. CASE Midnight \/ UNCHANGED vars
    BY <1>0, <1>7, ChargesStay DEF Midnight, vars
  <1> QED
    BY <1>1, <1>2, <1>3, <1>4, <1>5, <1>6, <1>7 DEF Next, Run

LEMMA AwaitedKept ==
    ASSUME TypeOK, TypeOK', Awaited, [Next]_vars
    PROVE  Awaited'
  <1> USE DEF deployment, request, identity, work, measures, limits, past
  <1>0. /\ pc \in [Runs -> Steps] /\ caller \in [Runs -> Callers]
        /\ before \in [Runs -> Nat] /\ owed \in [Runs -> Nat] /\ written \in [Runs -> Nat]
        /\ size \in [Callers -> Nat] /\ removed \in [Callers -> Nat]
        /\ settled \in [Runs -> Nat \cup {-1}]
    BY DEF TypeOK
  <1>1. ASSUME NEW r \in Runs, Exchange(r) \/ CallerOf(r) \/ AskRuns(r) \/ AskOutput(r)
                               \/ RecordRun(r)
        PROVE  Awaited'
    <2>1. /\ UNCHANGED <<before, owed, size, removed, written, settled>>
          /\ \A q \in Runs : caller'[q] = caller[q] \/ q = r
          /\ \E step \in Unsent \cup {"refused", "failed"} : Move(r, step) /\ step # "send"
          /\ pc[r] \in Unsent
      BY <1>0, <1>1 DEF Exchange, CallerOf, AskRuns, AskOutput, Refuse, RecordRun, Unsent
    <2> QED
      BY <1>0, <2>1 DEF Awaited, Added, Move, Unsent
  <1>2. ASSUME NEW r \in Runs, MeasureBefore(r)
        PROVE  Awaited'
    <2>1. /\ UNCHANGED <<owed, size, removed, written, settled, caller>>
          /\ pc[r] = "before" /\ \E step \in {"send", "work"} : Move(r, step)
          /\ before' = [before EXCEPT ![r] = IF Measured(caller[r]) THEN size[caller[r]] ELSE 0]
      BY <1>2 DEF MeasureBefore
    <2>2. owed[r] = 0 /\ settled[r] = -1
      BY <2>1 DEF Awaited, Unsent
    <2>3. Measured(caller[r]) => before'[r] + owed[r] =< size[caller[r]] + removed[caller[r]]
      BY <1>0, <2>1, <2>2
    <2> QED
      BY <1>0, <2>1, <2>2, <2>3 DEF Awaited, Added, Move, Unsent
  <1>3. ASSUME NEW r \in Runs, Send(r)
        PROVE  Awaited'
    <2>1. /\ UNCHANGED <<before, owed, size, removed, written, settled, caller>>
          /\ pc[r] = "send" /\ \E step \in {"after", "work"} : Move(r, step)
      BY <1>3 DEF Send
    <2> QED
      BY <1>0, <2>1 DEF Awaited, Added, Move, Unsent
  <1>4. ASSUME NEW r \in Runs, MeasureAfter(r)
        PROVE  Awaited'
    <2>1. /\ UNCHANGED <<before, owed, size, removed, settled, caller>>
          /\ pc[r] \in {"after", "work"} /\ Move(r, "finish")
          /\ written' = [written EXCEPT ![r] = Grown(r)]
      BY <1>4 DEF MeasureAfter
    <2>2. Measured(caller[r]) => Added(r) =< Grown(r)
      <3>1. SUFFICES ASSUME Measured(caller[r]) PROVE Added(r) =< Grown(r)
        OBVIOUS
      <3>2. before[r] + owed[r] =< size[caller[r]] + removed[caller[r]]
        BY <2>1, <3>1 DEF Awaited
      <3>3. Added(r) = 0 \/ Added(r) = owed[r] - removed[caller[r]]
        BY AddedType
      <3>4. Grown(r) \in Nat /\ Grown(r) >= size[caller[r]] - before[r]
        BY <1>0, <3>1, AtLeastZero DEF Grown
      <3> QED
        BY <1>0, <3>2, <3>3, <3>4
    <2>3. Added(r)' = Added(r) /\ written'[r] = Grown(r)
      BY <1>0, <2>1 DEF Added
    <2>4. pc' = [pc EXCEPT ![r] = "finish"]
      BY <2>1 DEF Move
    <2>5. \A q \in Runs \ {r} : written'[q] = written[q] /\ Added(q)' = Added(q)
      BY <1>0, <2>1 DEF Added
    <2> QED
      BY <1>0, <2>1, <2>2, <2>3, <2>4, <2>5 DEF Awaited, Unsent, Measured
  <1>5. ASSUME NEW r \in Runs, Finish(r)
        PROVE  Awaited'
    <2>1. /\ UNCHANGED <<owed, size, removed, caller>> /\ pc' = [pc EXCEPT ![r] = "done"]
          /\ \A q \in Runs \ {r} : /\ before'[q] = before[q] /\ written'[q] = written[q]
                                   /\ settled'[q] = settled[q]
      BY <1>0, <1>5 DEF Finish, Move
    <2> QED
      BY <1>0, <2>1 DEF Awaited, Added, Unsent, Measured
  <1>6. ASSUME NEW r \in Runs, Write(r)
        PROVE  Awaited'
    <2> DEFINE d == Directory(r)
    <2>1. /\ UNCHANGED <<pc, caller, before, removed, written, settled>>
          /\ size' = [size EXCEPT ![d] = @ + 1]
          /\ owed' = [owed EXCEPT ![r] = IF pc[r] = "work" /\ d = caller[r] THEN @ + 1 ELSE @]
      BY <1>6 DEF Write
    <2> HIDE DEF d
    <2>2. \A c \in Callers : size'[c] = IF c = d THEN size[c] + 1 ELSE size[c]
      BY <1>0, <2>1
    <2>3. \A q \in Runs : owed'[q] =
              IF q = r /\ pc[r] = "work" /\ d = caller[r] THEN owed[q] + 1 ELSE owed[q]
      BY <1>0, <2>1
    <2>4. ASSUME NEW q \in Runs, pc[q] \in {"send", "work", "after"}, Measured(caller[q])
          PROVE  before[q] + owed'[q] =< size'[caller[q]] + removed[caller[q]]
      <3>1. before[q] + owed[q] =< size[caller[q]] + removed[caller[q]]
        BY <2>4 DEF Awaited
      <3> QED
        BY <1>0, <2>2, <2>3, <3>1
    <2>5. \A q \in Runs : pc[q] # "work" => owed'[q] = owed[q]
      BY <2>3
    <2> QED
      BY <1>0, <2>1, <2>4, <2>5 DEF Awaited, Added, Unsent, Measured
  <1>7. ASSUME NEW d \in Subjects, Remove(d)
        PROVE  Awaited'
    <2>1. /\ UNCHANGED <<pc, caller, before, owed, written, settled>> /\ size[d] > 0
          /\ d \in Callers
          /\ \A c \in Callers :
                /\ size'[c] = IF c = d THEN size[c] - 1 ELSE size[c]
                /\ removed'[c] = IF c = d THEN removed[c] + 1 ELSE removed[c]
      BY <1>0, <1>7 DEF Remove, Callers
    <2>2. \A c \in Callers : /\ size'[c] + removed'[c] = size[c] + removed[c]
                             /\ removed'[c] \in Nat /\ removed'[c] >= removed[c]
      BY <1>0, <2>1
    <2>3. ASSUME NEW q \in Runs, Added(q) =< written[q] PROVE Added(q)' =< written[q]
      <3>1. Added(q) \in Nat /\ Added(q) >= owed[q] - removed[caller[q]]
        BY AddedType
      <3>2. Added(q)' = 0 \/ Added(q)' = owed[q] - removed'[caller[q]]
        BY <1>0, <2>1, <2>2, AtLeastZero DEF Added
      <3> QED
        BY <1>0, <2>2, <2>3, <3>1, <3>2
    <2> QED
      BY <1>0, <2>1, <2>2, <2>3 DEF Awaited, Unsent, Measured
  <1>8. CASE Midnight \/ UNCHANGED vars \/ \E r \in Runs : TokenEnds(r) \/ ToolEnds(r)
    BY <1>8 DEF Midnight, vars, TokenEnds, ToolEnds, Awaited, Added, Unsent, Measured
  <1> QED
    BY <1>1, <1>2, <1>3, <1>4, <1>5, <1>6, <1>7, <1>8 DEF Next, Run

LEMMA ChargedSpec == Spec => [](TypeOK /\ Charged /\ Booked)
  <1> DEFINE Inv == Placed /\ Booked /\ Awaited /\ Charged
  <1>1. Init => Inv
    BY PlacedAtFirst, BookedAtFirst DEF Init, Awaited, Charged, Emptied, Unsent
  <1>2. Inv /\ [Next]_vars => Inv'
    BY PlacedKept, BookedKept, AwaitedKept, ChargedKept DEF Placed
  <1>3. Inv => TypeOK /\ Charged /\ Booked
    BY DEF Placed
  <1> HIDE DEF Inv
  <1> QED
    BY <1>1, <1>2, <1>3, PTL DEF Spec

(* A subject is charged at least what its settled runs added, however they *)
(* overlap, span midnight, are given up or have files removed under them   *)
(* (ToolRunLimits.run, finish, DailyBudget.record).                        *)
THEOREM OutputIsCharged == Spec => []OutputCharged
  <1>1. TypeOK /\ Charged => OutputCharged
    BY DEF TypeOK, Charged, ChargedFor, OutputCharged
  <1> QED
    BY <1>1, ChargedSpec, PTL

(* And once that is over its limit no run of its begins on that day: start *)
(* keeps the lock between the question and the record, and finish takes    *)
(* the same lock.                                                          *)
THEOREM NoneOnceOver == Spec => NoRunOnceOver
  <1>1. ASSUME TypeOK, Charged, Booked, [Next]_vars, NEW r \in Runs, began[r] = -1,
               began'[r] = day, Measured(caller[r])
        PROVE  Cardinality(AddedBytes(SettledOn(day, caller[r]))) <= OutputPerDay
    <2> DEFINE c == caller[r]
    <2>1. pc[r] = "record"
      <3>1. began'[r] # began[r]
        BY <1>1 DEF TypeOK
      <3>2. PICK q \in Runs : RecordRun(q)
        BY <1>1, <3>1 DEF Next, Run, past, vars, Exchange, CallerOf, AskRuns, AskOutput,
           MeasureBefore, Send, MeasureAfter, Finish, TokenEnds, Write, ToolEnds, Remove,
           Midnight
      <3>3. q = r
        BY <1>1, <3>1, <3>2 DEF RecordRun, TypeOK
      <3> QED
        BY <3>2, <3>3 DEF RecordRun
    <2>2. c \in Subjects /\ outputBudget.by[c] \in Nat /\ OutputPerDay \in Nat /\ day \in Nat
      BY <1>1, ExecutionAssumption DEF TypeOK, Measured, Callers, Budgets
    <2>3. outputBudget.by[c] =< OutputPerDay
      BY <1>1, <2>1 DEF Charged
    <2>4. CASE outputBudget.day = day
      <3>1. ChargedFor(c)
        BY <1>1, <2>2, <2>4 DEF Charged
      <3>2. Cardinality(AddedBytes(SettledOn(day, c))) \in Nat
        BY <2>4, <3>1, FS_CardinalityType DEF ChargedFor
      <3> QED
        BY <2>2, <2>3, <2>4, <3>1, <3>2 DEF ChargedFor
    <2>5. CASE outputBudget.day # day
      <3>0. \A q \in Runs : settled[q] =< outputBudget.day /\ settled[q] \in Int
        BY <1>1 DEF Charged, TypeOK
      <3>1. \A q \in Runs : settled[q] # day
        <4>1. outputBudget.day =< day /\ outputBudget.day \in Int
          BY <1>1 DEF Charged, TypeOK, Budgets
        <4> QED
          BY <2>2, <2>5, <3>0, <4>1
      <3>2. AddedBytes(SettledOn(day, c)) = {}
        BY <3>1 DEF AddedBytes, SettledOn
      <3> QED
        BY <2>2, <3>2, FS_EmptySet
    <2> QED
      BY <2>4, <2>5
  <1>2. TypeOK /\ Charged /\ Booked /\ [Next]_vars =>
            [\A r \in Runs : LET c == caller[r] IN
                 began[r] = -1 /\ began'[r] = day /\ Measured(c) =>
                    Cardinality(AddedBytes(SettledOn(day, c))) <= OutputPerDay]_vars
    BY <1>1
  <1> QED
    BY <1>2, ChargedSpec, PTL DEF Spec, NoRunOnceOver
=============================================================================
