--------------------------- MODULE ToolExecution ---------------------------
(***************************************************************************)
(* core/tool_executor.py with api/tool_run_limits.py and                   *)
(* api/daily_budget.py: one run of a tool, in this process or in the       *)
(* executor, and the limits it counts against.                             *)
(*                                                                         *)
(* A run (a thread of the API) exchanges its caller's token for a short    *)
(* one, takes its place under the lock of ToolRunLimits, measures the      *)
(* caller's outputs directory, lets the tool work, measures again and      *)
(* settles.  Midnight, the end of a token and the removal of files may     *)
(* fall between any two steps, and a tool that the API has given up on     *)
(* works on in the executor.                                               *)
(*                                                                         *)
(* Some definitions stand beside the one the code has (PastByOne,          *)
(* SpentByNobody, LeftCrowded, GrownAlone, VerifiedAgain): mistakes that a *)
(* change to the code could make, which the properties below tell from the *)
(* code.                                                                   *)
(***************************************************************************)
EXTENDS Integers, FiniteSets, FiniteSetsExt

CONSTANTS Runs,          \* the calls of execute_tool
          Subjects,      \* the subjects of tokens, each with a directory
          Nobody,        \* caller None: the anonymous directory, which all share
          RunsPerDay,    \* runs_per_day, 0 for no limit, as all the limits
          RunsPerCaller, \* runs_per_caller_per_day
          RunsAtOnce,    \* runs_at_once_per_caller
          OutputPerDay,  \* output_bytes_per_caller_per_day
          MaxDay,        \* bound: days in a behaviour
          MaxWrites,     \* bound: files written in a behaviour, of one byte each
          MaxRemovals    \* bound: files removed in a behaviour

ASSUME ExecutionAssumption ==
    /\ Nobody \notin Subjects
    /\ \A n \in {RunsPerDay, RunsPerCaller, RunsAtOnce, OutputPerDay} : n \in Nat
    /\ \A n \in {MaxDay, MaxWrites, MaxRemovals} : n \in Nat

VARIABLES gated,    \* whether PLATFORM_JWT_SECRET is set
          remote,   \* whether GEOLANG_EXECUTOR_URL is set
          day,      \* today()
          pc,       \* where each run is
          subject,  \* whose token each run came with
          live,     \* whether its token is still in use and accepted
          caller,   \* what caller_of made of it
          told,     \* the outputs_directory the executor is told
          tool,     \* what the tool is doing, wherever it runs
          before,   \* the size of the outputs when the run began
          written,  \* and by how much they grew
          lock,     \* the run inside ToolRunLimits.start, if any
          runBudget,    \* run_budget
          outputBudget, \* output_budget
          running,  \* running_by_caller, 0 where there is no entry
          size,     \* directory_bytes of each directory
          removed,  \* history: files removed from each directory
          began,    \* history: the day each run was recorded on, -1 before
          settled,  \* history: the day its output was, -1 before
          wrote,    \* the bytes its tool has written
          owed,     \* history: those in its caller's directory until it was measured
          writesTo  \* history: the directories its tool wrote to

deployment == <<gated, remote>>
request == <<subject, live>>
identity == <<caller, told>>
work == <<tool, size, wrote, owed, writesTo>>
measures == <<before, written>>
limits == <<lock, runBudget, outputBudget, running>>
past == <<began, settled>>
vars == <<gated, remote, day, pc, subject, live, caller, told, tool, before, written,
          lock, runBudget, outputBudget, running, size, removed, began, settled,
          wrote, owed, writesTo>>

Callers == Subjects \cup {Nobody}
Steps == {"new", "caller", "start", "output", "record", "before", "send", "work",
          "after", "finish", "refused", "failed", "done"}
Counted == {"record", "before", "send", "work", "after", "finish"}
Over == {"refused", "failed", "done"}

Move(r, step) == pc' = [pc EXCEPT ![r] = step]

-----------------------------------------------------------------------------
(* DailyBudget, with a limit per day and one per caller.                   *)

Emptied(d) == [day |-> d, spent |-> 0, by |-> [c \in Callers |-> 0]]

\* start_new_day_if_due
Rolled(b) == IF b.day = day THEN b ELSE Emptied(day)

PastByOne(limit, amount) == limit # 0 /\ amount > limit + 1

Past(limit, amount) == limit # 0 /\ amount > limit

\* refusal, of a budget whose day has been started
Refuses(b, perDay, perCaller, c, amount) ==
    \/ Past(perDay, b.spent + amount)
    \/ c # Nobody /\ Past(perCaller, b.by[c] + amount)

\* record
Recorded(b, perCaller, c, amount) ==
    LET kept == Rolled(b)
        more == IF c = Nobody \/ perCaller = 0 THEN 0 ELSE amount
    IN [day |-> day,
        spent |-> kept.spent + amount,
        by |-> [kept.by EXCEPT ![c] = @ + more]]

-----------------------------------------------------------------------------
(* execute_tool, up to the lock of the limits.                             *)

\* Without the gate a token goes on unchanged, and nobody can say whose it is.
Whose(r) == IF gated /\ live[r] THEN subject[r] ELSE Nobody

Exchange(r) ==
    /\ pc[r] = "new"
    /\ \/ Move(r, "caller")
       \/ gated /\ Move(r, "failed") \* no live token, or not the role for it
    /\ UNCHANGED <<deployment, day, request, identity, work, measures, limits,
                   removed, past>>

CallerOf(r) ==
    /\ pc[r] = "caller"
    /\ caller' = [caller EXCEPT ![r] = Whose(r)]
    /\ Move(r, "start")
    /\ UNCHANGED <<deployment, day, request, told, work, measures, limits, removed,
                   past>>

\* The source token's own end can come soon after the exchange.  When a run
\* is over nobody asks about its token again, which counts as ended from then on.
TokenEnds(r) ==
    /\ gated
    /\ live[r]
    /\ pc[r] \in {"caller", "start", "output", "record", "before", "send", "work"}
    /\ pc[r] = "work" => tool[r] = "working"
    /\ live' = [live EXCEPT ![r] = FALSE]
    /\ UNCHANGED <<deployment, day, pc, subject, identity, work, measures, limits,
                   removed, past>>

-----------------------------------------------------------------------------
(* ToolRunLimits.start, which reads the clock three times under its lock,  *)
(* and finish, which reads it once.                                        *)

Refuse(r) ==
    /\ Move(r, "refused")
    /\ lock' = {}

AskRuns(r) ==
    /\ pc[r] = "start"
    /\ lock = {}
    /\ runBudget' = Rolled(runBudget)
    /\ IF Refuses(runBudget', RunsPerDay, RunsPerCaller, caller[r], 1)
         THEN Refuse(r)
         ELSE Move(r, "output") /\ lock' = {r}
    /\ UNCHANGED <<deployment, day, request, identity, work, measures, outputBudget,
                   running, removed, past>>

SpentByNobody(c) == Refuses(outputBudget', 0, OutputPerDay, Nobody, 0)

\* A caller may start once more at the limit itself: an amount of 0 is asked for.
Spent(c) == Refuses(outputBudget', 0, OutputPerDay, c, 0)

Limited(c) == c # Nobody /\ RunsAtOnce # 0

AskOutput(r) ==
    LET c == caller[r]
    IN /\ pc[r] = "output"
       /\ outputBudget' = Rolled(outputBudget)
       /\ IF Spent(c) \/ (Limited(c) /\ running[c] >= RunsAtOnce)
            THEN Refuse(r) /\ UNCHANGED running
            ELSE /\ Move(r, "record")
                 /\ running' = [running EXCEPT ![c] = IF Limited(c) THEN @ + 1 ELSE @]
                 /\ UNCHANGED lock
       /\ UNCHANGED <<deployment, day, request, identity, work, measures, runBudget,
                      removed, past>>

RecordRun(r) ==
    /\ pc[r] = "record"
    /\ runBudget' = Recorded(runBudget, RunsPerCaller, caller[r], 1)
    /\ lock' = {}
    /\ began' = [began EXCEPT ![r] = day]
    /\ Move(r, "before")
    /\ UNCHANGED <<deployment, day, request, identity, work, measures, outputBudget,
                   running, removed, settled>>

LeftCrowded(c) == IF Limited(c) /\ running[c] > 1 THEN running[c] - 1 ELSE running[c]

Left(c) == IF Limited(c) THEN running[c] - 1 ELSE running[c]

Finish(r) ==
    LET c == caller[r]
    IN /\ pc[r] = "finish"
       /\ lock = {}
       /\ outputBudget' = Recorded(outputBudget, OutputPerDay, c, written[r])
       /\ running' = [running EXCEPT ![c] = Left(c)]
       /\ settled' = [settled EXCEPT ![r] = day]
       /\ before' = [before EXCEPT ![r] = 0]
       /\ written' = [written EXCEPT ![r] = 0]
       /\ Move(r, "done")
       /\ UNCHANGED <<deployment, day, request, identity, work, lock, runBudget,
                      removed, began>>

-----------------------------------------------------------------------------
(* ToolRunLimits.run: the outputs are measured before and after the tool   *)
(* works, here or in the executor.  A walk over the directory is one step. *)

Measured(c) == c # Nobody /\ OutputPerDay # 0

MeasureBefore(r) ==
    /\ pc[r] = "before"
    /\ before' = [before EXCEPT
                    ![r] = IF Measured(caller[r]) THEN size[caller[r]] ELSE 0]
    /\ IF remote
         THEN Move(r, "send") /\ UNCHANGED tool
         ELSE Move(r, "work") /\ tool' = [tool EXCEPT ![r] = "working"]
    /\ UNCHANGED <<deployment, day, request, identity, size, wrote, owed, writesTo, written,
                   limits, removed, past>>

\* _execute_remotely verifies the token again, this time for good.
Send(r) ==
    /\ pc[r] = "send"
    /\ told' = [told EXCEPT ![r] = Whose(r)]
    /\ \/ Move(r, "work") /\ tool' = [tool EXCEPT ![r] = "working"]
       \/ Move(r, "after") /\ UNCHANGED tool \* unreachable, refused or busy
    /\ UNCHANGED <<deployment, day, request, caller, size, wrote, owed, writesTo, measures,
                   limits, removed, past>>

VerifiedAgain(r) == Whose(r)

\* current_caller_directory, as the tool calls it.
Directory(r) == IF remote THEN told[r] ELSE Whose(r)

Write(r) ==
    LET d == Directory(r)
    IN /\ tool[r] = "working"
       /\ MapThenSumSet(LAMBDA x : wrote[x], Runs) < MaxWrites
       /\ size' = [size EXCEPT ![d] = @ + 1]
       /\ writesTo' = [writesTo EXCEPT ![r] = @ \cup {d}]
       /\ wrote' = [wrote EXCEPT ![r] = @ + 1]
       /\ owed' = [owed EXCEPT ![r] = IF pc[r] = "work" /\ d = caller[r]
                                       THEN @ + 1 ELSE @]
       /\ UNCHANGED <<deployment, day, pc, request, identity, tool, measures, limits,
                      removed, past>>

\* It returns, raises or is killed.
ToolEnds(r) ==
    /\ tool[r] = "working"
    /\ tool' = [tool EXCEPT ![r] = "ended"]
    /\ UNCHANGED <<deployment, day, pc, request, identity, size, wrote, owed, writesTo,
                   measures, limits, removed, past>>

Answered(r) == tool[r] = "ended"

\* EXECUTOR_TIMEOUT_SECONDS, or a connection that breaks
GivesUp(r) == remote /\ tool[r] = "working"

GrownAlone(r) ==
    IF Measured(caller[r]) /\ running[caller[r]] = 1
      THEN Max({0, size[caller[r]] - before[r]}) ELSE 0

Grown(r) ==
    IF Measured(caller[r]) THEN Max({0, size[caller[r]] - before[r]}) ELSE 0

\* Nobody can tell the end of the wait from the measurement that follows it.
MeasureAfter(r) ==
    /\ \/ pc[r] = "after"
       \/ pc[r] = "work" /\ (Answered(r) \/ GivesUp(r))
    /\ written' = [written EXCEPT ![r] = Grown(r)]
    /\ live' = [live EXCEPT ![r] = FALSE]
    /\ Move(r, "finish")
    /\ UNCHANGED <<deployment, day, subject, identity, work, before, limits, removed,
                   past>>

\* The retention sweep, or DELETE /outputs/{filename}.  Nobody's directory is not
\* measured.
Remove(d) ==
    /\ size[d] > 0
    /\ MapThenSumSet(LAMBDA c : removed[c], Callers) < MaxRemovals
    /\ size' = [size EXCEPT ![d] = @ - 1]
    /\ removed' = [removed EXCEPT ![d] = @ + 1]
    /\ UNCHANGED <<deployment, day, pc, request, identity, tool, wrote, owed, writesTo,
                   measures, limits, past>>

Midnight ==
    /\ day < MaxDay
    /\ day' = day + 1
    /\ UNCHANGED <<deployment, pc, request, identity, work, measures, limits, removed,
                   past>>

Run(r) ==
    \/ Exchange(r) \/ CallerOf(r)
    \/ AskRuns(r) \/ AskOutput(r) \/ RecordRun(r)
    \/ MeasureBefore(r) \/ Send(r) \/ MeasureAfter(r)
    \/ Finish(r)

Init ==
    /\ gated \in BOOLEAN
    /\ remote \in BOOLEAN
    /\ day = 0
    /\ pc = [r \in Runs |-> "new"]
    /\ subject \in [Runs -> IF gated THEN Subjects ELSE {Nobody}]
    /\ live = [r \in Runs |-> gated]
    /\ caller = [r \in Runs |-> Nobody]
    /\ told = [r \in Runs |-> Nobody]
    /\ tool = [r \in Runs |-> "none"]
    /\ before = [r \in Runs |-> 0]
    /\ written = [r \in Runs |-> 0]
    /\ lock = {}
    /\ runBudget = Emptied(-1)
    /\ outputBudget = Emptied(-1)
    /\ running = [c \in Callers |-> 0]
    /\ size = [c \in Callers |-> 0]
    /\ removed = [c \in Callers |-> 0]
    /\ began = [r \in Runs |-> -1]
    /\ settled = [r \in Runs |-> -1]
    /\ wrote = [r \in Runs |-> 0]
    /\ owed = [r \in Runs |-> 0]
    /\ writesTo = [r \in Runs |-> {}]

Next ==
    \/ \E r \in Runs : Run(r) \/ TokenEnds(r) \/ Write(r) \/ ToolEnds(r)
    \/ \E d \in Subjects : Remove(d)
    \/ Midnight

Spec == Init /\ [][Next]_vars

-----------------------------------------------------------------------------
Budgets == [day : Nat \cup {-1}, spent : Nat, by : [Callers -> Nat]]

(* The state keeps its shape; above all no count of runs under way, kept   *)
(* by start and finish, falls below zero, and one run at most is in start. *)
TypeOK ==
    /\ gated \in BOOLEAN
    /\ remote \in BOOLEAN
    /\ day \in Nat
    /\ pc \in [Runs -> Steps]
    /\ subject \in [Runs -> Callers]
    /\ live \in [Runs -> BOOLEAN]
    /\ caller \in [Runs -> Callers]
    /\ told \in [Runs -> Callers]
    /\ tool \in [Runs -> {"none", "working", "ended"}]
    /\ before \in [Runs -> Nat]
    /\ written \in [Runs -> Nat]
    /\ lock \in SUBSET Runs
    /\ runBudget \in Budgets
    /\ outputBudget \in Budgets
    /\ running \in [Callers -> Nat]
    /\ size \in [Callers -> Nat]
    /\ removed \in [Callers -> Nat]
    /\ began \in [Runs -> Nat \cup {-1}]
    /\ settled \in [Runs -> Nat \cup {-1}]
    /\ wrote \in [Runs -> Nat]
    /\ owed \in [Runs -> Nat]
    /\ writesTo \in [Runs -> SUBSET Callers]

Going(c) == {r \in Runs : caller[r] = c /\ pc[r] \in Counted}

(* running_by_caller is exact: a subject's count is the number of its runs *)
(* between start and finish, on whatever way they end, and never more than *)
(* a caller may have at once.                                              *)
RunningExact ==
    \A c \in Subjects :
        /\ running[c] = IF Limited(c) THEN Cardinality(Going(c)) ELSE 0
        /\ Limited(c) => running[c] <= RunsAtOnce

BeganOn(d) == {r \in Runs : began[r] = d}

(* No day has more runs than its limit, of all callers or of one subject,  *)
(* with midnight between any two of the times that start() reads the       *)
(* clock, and with runs that go on over midnight.                          *)
DailyRunsWithinLimits ==
    \A d \in 0..day :
        /\ RunsPerDay # 0 => Cardinality(BeganOn(d)) <= RunsPerDay
        /\ \A c \in Subjects : RunsPerCaller # 0 =>
             Cardinality({r \in BeganOn(d) : caller[r] = c}) <= RunsPerCaller

SettledOn(d, c) == {r \in Runs : settled[r] = d /\ caller[r] = c}

\* What a run added, as far as a measurement can tell: removals may hide some.
Added(r) == Max({0, owed[r] - removed[caller[r]]})

\* What runs added, each byte by its run and its number.
AddedBytes(rs) == UNION {{r} \X (1 .. Added(r)) : r \in rs}

(* Runs that overlap, or span midnight, do not hide each other's files:    *)
(* what a subject is charged for the day is no less than what the runs     *)
(* that settled on it added while they were awaited.                       *)
OutputCharged ==
    \A c \in Subjects : Measured(c) /\ outputBudget.day = day =>
        Cardinality(AddedBytes(SettledOn(day, c))) <= outputBudget.by[c]

(* Once over, the next call is refused (docs/api_reference.md): a run is   *)
(* recorded for a subject only if the runs it settled that day, as charged *)
(* to it, added no more than its limit.                                    *)
NoRunOnceOver ==
    [][\A r \in Runs : LET c == caller[r] IN
         began[r] = -1 /\ began'[r] = day /\ Measured(c) =>
            Cardinality(AddedBytes(SettledOn(day, c))) <= OutputPerDay]_vars

(* A run in the executor writes to one directory from its first file to    *)
(* its last, its own subject's or the one of nobody, although its token    *)
(* may end in the middle: never part here and part there, and never        *)
(* another subject's.                                                      *)
RemoteFilesTogether ==
    remote => \A r \in Runs :
        /\ writesTo[r] \subseteq {subject[r], Nobody}
        /\ Cardinality(writesTo[r]) <= 1
=============================================================================
