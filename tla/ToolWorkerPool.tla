-------------------------- MODULE ToolWorkerPool --------------------------
(***************************************************************************)
(* api/tool_worker_pool.py: the executor's pool of tool workers.           *)
(*                                                                         *)
(* A call (a thread of the executor's thread pool) takes one of Limit      *)
(* slots, takes a worker, talks to it over a pipe and kills it.  Refill    *)
(* threads start workers ahead of time.  Workers are processes that may    *)
(* stop at any moment.  Each direction of a pipe never holds more than one *)
(* message, because either side waits for the other's answer; "torn" is    *)
(* the part of a message that a worker wrote before it died.               *)
(*                                                                         *)
(* Some definitions stand beside the one the code has                      *)
(* (AnswerBusyAndRelease, WakeNobody, Peeked, NoRefill, FullByOne,         *)
(* TimedAtStart, Closed, LockIgnored): mistakes that a change to the code  *)
(* could make, which the properties below tell from the code.              *)
(***************************************************************************)
EXTENDS Integers, Sequences, FiniteSets

CONSTANTS Calls,      \* the requests to run a tool
          Limit,      \* max_concurrent()
          MaxWorkers, \* bound: worker processes in a behaviour
          MaxAsks     \* bound: plan record operations asked for in a behaviour

ASSUME PoolAssumption ==
    /\ Limit \in Nat \ {0}
    /\ MaxWorkers \in Nat
    /\ MaxAsks \in Nat

VARIABLES running,   \* _running
          queue,     \* the waiters of _slots, oldest first
          notified,  \* the waiters that notify() picked and that have not run since
          pc,        \* where each call is
          late,      \* the calls whose current deadline has passed
          worker,    \* the worker each call has, 0 for none
          answer,    \* what each call is answered
          idle,      \* _idle
          refills,   \* refill threads that wait for _refill_lock
          refilling, \* whether one of them holds it
          adding,    \* the worker it has started and not yet appended, 0 for none
          phase,     \* "serving", "stopping", "cleared"
          doomed,    \* the workers that shutdown() took out and has yet to stop
          proc,      \* what each worker process is doing
          open,      \* whether the executor holds its end of the pipe
          toWorker,  \* the message on its way to the worker
          toPool,    \* the message on its way to the executor
          asks,      \* the record operations asked for so far
          started,   \* the workers started so far, numbered in order
          given,     \* history: the runs each worker was sent
          ran,       \* history: the calls whose tool began to run
          early      \* history: the workers started before shutdown() was called

slots == <<running, queue, notified>>
call == <<pc, late, worker, answer>>
spare == <<idle, refills, refilling, adding>>
life == <<phase, doomed, early>>
pipes == <<proc, open, toWorker, toPool, asks>>
vars == <<running, queue, notified, pc, late, worker, answer, idle, refills,
          refilling, adding, phase, doomed, proc, open, toWorker, toPool, asks,
          started, given, ran, early>>

Workers == 1..MaxWorkers
CallSteps == {"new", "slot", "wait", "take", "boot", "boot checks", "send", "run",
              "run checks", "stop", "release", "done"}
Failures == {"never started", "over memory", "over time", "stopped"}
Answers == {"none", "busy", "result", "raised"} \cup Failures
ProcSteps == {"unborn", "loading", "waiting", "tool", "asking", "leaving", "dead"}
Alive == {"loading", "waiting", "tool", "asking", "leaving"}

Holds == {"take", "boot", "boot checks", "send", "run", "run checks", "stop", "release"}
SlotHolders == {c \in Calls : pc[c] \in Holds}
Listed(w) == \E i \in 1..Len(idle) : idle[i] = w

Move(c, step) == pc' = [pc EXCEPT ![c] = step]

-----------------------------------------------------------------------------
(* _take_slot and _release_slot.                                           *)

Arrive(c) ==
    /\ pc[c] = "new"
    /\ phase = "serving"
    /\ Move(c, "slot")
    /\ UNCHANGED <<slots, late, worker, answer, spare, life, pipes, started, given, ran>>

(* The call has the condition's lock: it has just come, it was notified,   *)
(* or its wait ran out.                                                    *)
Awake(c) == \/ pc[c] = "slot"
            \/ pc[c] = "wait" /\ (c \in notified \/ c \in late)

(* The waiters without c, which may be anywhere among them.                *)
Place(c) == CHOOSE i \in 1..Len(queue) : queue[i] = c
Others(c) ==
    IF \E i \in 1..Len(queue) : queue[i] = c
      THEN [i \in 1..(Len(queue) - 1) |-> queue[IF i < Place(c) THEN i ELSE i + 1]]
      ELSE queue

TakeSlot(c) ==
    /\ Awake(c)
    /\ running < Limit
    /\ running' = running + 1
    /\ queue' = Others(c)
    /\ notified' = notified \ {c}
    /\ late' = late \ {c}
    /\ Move(c, "take")
    /\ UNCHANGED <<worker, answer, spare, life, pipes, started, given, ran>>

WaitForSlot(c) ==
    /\ Awake(c)
    /\ running >= Limit
    /\ c \notin late
    /\ queue' = Append(Others(c), c)
    /\ notified' = notified \ {c}
    /\ Move(c, "wait")
    /\ UNCHANGED <<running, late, worker, answer, spare, life, pipes, started, given, ran>>

AnswerBusyAndRelease(c) ==
    /\ Awake(c)
    /\ running >= Limit
    /\ c \in late
    /\ answer' = [answer EXCEPT ![c] = "busy"]
    /\ queue' = Others(c)
    /\ notified' = notified \ {c}
    /\ late' = late \ {c}
    /\ Move(c, "release")
    /\ UNCHANGED <<running, worker, spare, life, pipes, started, given, ran>>

AnswerBusy(c) ==
    /\ Awake(c)
    /\ running >= Limit
    /\ c \in late
    /\ answer' = [answer EXCEPT ![c] = "busy"]
    /\ queue' = Others(c)
    /\ notified' = notified \ {c}
    /\ late' = late \ {c}
    /\ Move(c, "done")
    /\ UNCHANGED <<running, worker, spare, life, pipes, started, given, ran>>

WakeNobody == UNCHANGED <<queue, notified>>

(* notify(): the oldest waiter, if any.                                    *)
Wake == IF queue = <<>>
          THEN UNCHANGED <<queue, notified>>
          ELSE queue' = Tail(queue) /\ notified' = notified \cup {Head(queue)}

ReleaseSlot(c) ==
    /\ pc[c] = "release"
    /\ running' = running - 1
    /\ Wake
    /\ worker' = [worker EXCEPT ![c] = 0]
    /\ Move(c, "done")
    /\ UNCHANGED <<late, answer, spare, life, pipes, started, given, ran>>

(* Time passes: the deadline of what the call is waiting for has come.     *)
TimedAtStart == {"slot", "wait", "boot", "boot checks"}
Timed == {"slot", "wait", "boot", "boot checks", "run", "run checks"}

Expire(c) ==
    /\ pc[c] \in Timed
    /\ c \notin late
    /\ late' = late \cup {c}
    /\ UNCHANGED <<slots, pc, worker, answer, spare, life, pipes, started, given, ran>>

-----------------------------------------------------------------------------
(* _start_worker: the next process, about to load the geo stack.           *)
Spawn ==
    /\ started < MaxWorkers
    /\ started' = started + 1
    /\ proc' = [proc EXCEPT ![started + 1] = "loading"]
    /\ open' = [open EXCEPT ![started + 1] = TRUE]
    /\ UNCHANGED <<toWorker, toPool, asks, given, ran>>

Peeked == idle
Popped == Tail(idle)

NoRefill == UNCHANGED refills
RefillInBackground == refills' = refills + 1

(* _take_worker: the oldest idle worker or else a new one, and a refill    *)
(* thread either way.                                                      *)
TakeIdle(c) ==
    /\ pc[c] = "take"
    /\ idle # <<>>
    /\ worker' = [worker EXCEPT ![c] = Head(idle)]
    /\ idle' = Popped
    /\ RefillInBackground
    /\ Move(c, "boot")
    /\ UNCHANGED <<slots, late, answer, refilling, adding, life, pipes, started, given, ran>>

TakeFresh(c) ==
    /\ pc[c] = "take"
    /\ idle = <<>>
    /\ Spawn
    /\ worker' = [worker EXCEPT ![c] = started + 1]
    /\ RefillInBackground
    /\ Move(c, "boot")
    /\ UNCHANGED <<slots, late, answer, idle, refilling, adding, life>>

(* _refill *)
LockRefill ==
    /\ refills > 0
    /\ ~refilling
    /\ refills' = refills - 1
    /\ refilling' = TRUE
    /\ UNCHANGED <<slots, call, idle, adding, life, pipes, started, given, ran>>

FullByOne == Len(idle) > Limit
Full == Len(idle) >= Limit

RefillWorker ==
    /\ refilling
    /\ adding = 0
    /\ ~Full
    /\ Spawn
    /\ adding' = started + 1
    /\ UNCHANGED <<slots, call, idle, refills, refilling, life>>

AppendWorker ==
    /\ adding # 0
    /\ idle' = Append(idle, adding)
    /\ adding' = 0
    /\ UNCHANGED <<slots, call, refills, refilling, life, pipes, started, given, ran>>

UnlockRefill ==
    /\ refilling
    /\ adding = 0
    /\ Full
    /\ refilling' = FALSE
    /\ UNCHANGED <<slots, call, idle, refills, adding, life, pipes, started, given, ran>>

-----------------------------------------------------------------------------
(* _run_in_worker.  In "boot" the call waits for READY and in "run" for    *)
(* the reply: _next_message polls the pipe, and when there was nothing to  *)
(* read it makes its checks before it polls again.                         *)

Booting(c) == pc[c] \in {"boot", "boot checks"}
Gone(w) == proc[w] = "dead"

(* What recv() finds in a pipe whose other end is closed: end of file, or  *)
(* an error that is none of EOFError, when the worker left a message       *)
(* unread or its own message unfinished.                                   *)
EndOfFile(w) == Gone(w) /\ toPool[w] = "none" /\ toWorker[w] = "none"
Broken(w) == \/ toPool[w] = "torn"
             \/ Gone(w) /\ toPool[w] = "none" /\ toWorker[w] # "none"
Readable(w) == toPool[w] # "none" \/ Gone(w)

(* The failure is on its way to the caller: _end_run comes first.          *)
Fail(c, failure) ==
    /\ answer' = [answer EXCEPT ![c] = IF Booting(c) THEN "never started" ELSE failure]
    /\ late' = late \ {c}
    /\ Move(c, "stop")
    /\ UNCHANGED <<slots, worker, spare, life, pipes, started, given, ran>>

PollNothing(c) ==
    /\ pc[c] \in {"boot", "run"}
    /\ ~Readable(worker[c])
    /\ Move(c, IF pc[c] = "boot" THEN "boot checks" ELSE "run checks")
    /\ UNCHANGED <<slots, late, worker, answer, spare, life, pipes, started, given, ran>>

ReadReady(c) ==
    /\ pc[c] = "boot"
    /\ toPool[worker[c]] = "ready"
    /\ toPool' = [toPool EXCEPT ![worker[c]] = "none"]
    /\ late' = late \ {c}
    /\ Move(c, "send")
    /\ UNCHANGED <<slots, worker, answer, spare, life, proc, open, toWorker, asks,
                   started, given, ran>>

SendRun(c) ==
    /\ pc[c] = "send"
    /\ ~Gone(worker[c])
    /\ toWorker' = [toWorker EXCEPT ![worker[c]] = "run"]
    /\ given' = [given EXCEPT ![worker[c]] = @ \cup {c}]
    /\ Move(c, "run")
    /\ UNCHANGED <<slots, late, worker, answer, spare, life, proc, open, toPool, asks,
                   started, ran>>

(* except OSError around the send of the run                               *)
SendFails(c) ==
    /\ pc[c] = "send"
    /\ Gone(worker[c])
    /\ Fail(c, "stopped")

ReadReply(c) ==
    /\ pc[c] = "run"
    /\ toPool[worker[c]] = "reply"
    /\ toPool' = [toPool EXCEPT ![worker[c]] = "none"]
    /\ answer' = [answer EXCEPT ![c] = "result"]
    /\ late' = late \ {c}
    /\ Move(c, "stop")
    /\ UNCHANGED <<slots, worker, spare, life, proc, open, toWorker, asks, started,
                   given, ran>>

(* RecordAsk: the executor applies the operation and sends its answer.     *)
AnswerAsk(c) ==
    /\ pc[c] = "run"
    /\ toPool[worker[c]] = "ask"
    /\ ~Gone(worker[c])
    /\ toPool' = [toPool EXCEPT ![worker[c]] = "none"]
    /\ toWorker' = [toWorker EXCEPT ![worker[c]] = "answer"]
    /\ UNCHANGED <<slots, call, spare, life, proc, open, asks, started, given, ran>>

(* The operation raises (PlannedManifests, EvictRaises), the worker is no  *)
(* longer there to be answered, or recv() meets a broken pipe.  Nothing    *)
(* catches it: the call ends in an error of the server, and the pipe is    *)
(* closed with the frame that held it, but nobody stops the worker.        *)
ConversationRaises(c) ==
    /\ \/ pc[c] = "run" /\ toPool[worker[c]] = "ask"
       \/ pc[c] \in {"boot", "run"} /\ Broken(worker[c])
    /\ answer' = [answer EXCEPT ![c] = "raised"]
    /\ open' = [open EXCEPT ![worker[c]] = FALSE]
    /\ toPool' = [toPool EXCEPT ![worker[c]] = "none"]
    /\ late' = late \ {c}
    /\ Move(c, "release")
    /\ UNCHANGED <<slots, worker, spare, life, proc, toWorker, asks, started, given, ran>>

ReadEndOfFile(c) ==
    /\ pc[c] \in {"boot", "run"}
    /\ EndOfFile(worker[c])
    /\ Fail(c, "stopped")

Checking(c) == pc[c] \in {"boot checks", "run checks"}

(* The resident memory of a process that is gone reads as 0.               *)
OverMemory(c) ==
    /\ Checking(c)
    /\ ~Gone(worker[c])
    /\ Fail(c, "over memory")

OverTime(c) ==
    /\ Checking(c)
    /\ c \in late
    /\ Fail(c, "over time")

PollAgain(c) ==
    /\ Checking(c)
    /\ c \notin late
    /\ Move(c, IF pc[c] = "boot checks" THEN "boot" ELSE "run")
    /\ UNCHANGED <<slots, late, worker, answer, spare, life, pipes, started, given, ran>>

Closed(w) == /\ open' = [open EXCEPT ![w] = FALSE]
             /\ UNCHANGED <<proc, toWorker, toPool, asks>>

(* _stop: close the pipe and kill the process.                             *)
Stopped(w) == /\ open' = [open EXCEPT ![w] = FALSE]
              /\ proc' = [proc EXCEPT ![w] = "dead"]
              /\ UNCHANGED <<toWorker, toPool, asks>>

EndRun(c) ==
    /\ pc[c] = "stop"
    /\ Stopped(worker[c])
    /\ Move(c, "release")
    /\ UNCHANGED <<slots, late, worker, answer, spare, life, started, given, ran>>

-----------------------------------------------------------------------------
(* _worker_main.  A send to a closed pipe raises, as does a receive from   *)
(* one that holds nothing more.                                            *)

Process(w, step) == proc' = [proc EXCEPT ![w] = step]
Rest == <<slots, call, spare, life, open, started, given>>

SendReady(w) ==
    /\ proc[w] = "loading"
    /\ IF open[w]
         THEN Process(w, "waiting") /\ toPool' = [toPool EXCEPT ![w] = "ready"]
         ELSE Process(w, "dead") /\ UNCHANGED toPool
    /\ UNCHANGED <<Rest, toWorker, asks, ran>>

ReceiveRun(w) ==
    /\ proc[w] = "waiting"
    /\ toWorker[w] = "run"
    /\ toWorker' = [toWorker EXCEPT ![w] = "none"]
    /\ ran' = ran \cup given[w]
    /\ Process(w, "tool")
    /\ UNCHANGED <<Rest, toPool, asks>>

(* The executor closed the pipe of a worker that waits for a run or for an *)
(* answer: the first ends it, the second raises inside its tool.           *)
ReceiveNothing(w) ==
    /\ ~open[w]
    /\ toWorker[w] = "none"
    /\ \/ proc[w] = "waiting" /\ Process(w, "dead")
       \/ proc[w] = "asking" /\ Process(w, "tool")
    /\ UNCHANGED <<Rest, toWorker, toPool, asks, ran>>

Ask(w) ==
    /\ proc[w] = "tool"
    /\ open[w]
    /\ asks < MaxAsks
    /\ asks' = asks + 1
    /\ toPool' = [toPool EXCEPT ![w] = "ask"]
    /\ Process(w, "asking")
    /\ UNCHANGED <<Rest, toWorker, ran>>

ReceiveAnswer(w) ==
    /\ proc[w] = "asking"
    /\ toWorker[w] = "answer"
    /\ toWorker' = [toWorker EXCEPT ![w] = "none"]
    /\ Process(w, "tool")
    /\ UNCHANGED <<Rest, toPool, asks, ran>>

SendReply(w) ==
    /\ proc[w] = "tool"
    /\ IF open[w]
         THEN Process(w, "leaving") /\ toPool' = [toPool EXCEPT ![w] = "reply"]
         ELSE Process(w, "dead") /\ UNCHANGED toPool
    /\ UNCHANGED <<Rest, toWorker, asks, ran>>

(* It is done, or the kernel killed it, or it crashed; a tool's process    *)
(* may be in the middle of writing a message.                              *)
Exit(w) ==
    /\ proc[w] \in Alive
    /\ Process(w, "dead")
    /\ \/ UNCHANGED toPool
       \/ /\ proc[w] = "tool" /\ open[w]
          /\ toPool' = [toPool EXCEPT ![w] = "torn"]
    /\ UNCHANGED <<Rest, toWorker, asks, ran>>

-----------------------------------------------------------------------------
(* shutdown(), which the server calls once its requests are answered.      *)

CallShutdown ==
    /\ phase = "serving"
    /\ \A c \in Calls : pc[c] \in {"new", "done"}
    /\ phase' = "stopping"
    /\ early' = 1..started
    /\ UNCHANGED <<slots, call, spare, doomed, pipes, started, given, ran>>

LockIgnored == TRUE
LockFree == ~refilling

ClearIdle ==
    /\ phase = "stopping"
    /\ LockFree
    /\ phase' = "cleared"
    /\ doomed' = {w \in Workers : Listed(w)}
    /\ idle' = <<>>
    /\ UNCHANGED <<slots, call, refills, refilling, adding, early, pipes, started,
                   given, ran>>

StopIdle ==
    /\ \E w \in doomed : Stopped(w) /\ doomed' = doomed \ {w}
    /\ UNCHANGED <<slots, call, spare, phase, early, started, given, ran>>

-----------------------------------------------------------------------------
(* The pool has just been started: one refill thread is on its way.        *)
Init ==
    /\ running = 0 /\ queue = <<>> /\ notified = {}
    /\ pc = [c \in Calls |-> "new"]
    /\ worker = [c \in Calls |-> 0]
    /\ answer = [c \in Calls |-> "none"]
    /\ late = {} /\ idle = <<>> /\ refills = 1 /\ refilling = FALSE /\ adding = 0
    /\ phase = "serving" /\ doomed = {} /\ early = {}
    /\ proc = [w \in Workers |-> "unborn"]
    /\ open = [w \in Workers |-> FALSE]
    /\ toWorker = [w \in Workers |-> "none"]
    /\ toPool = [w \in Workers |-> "none"]
    /\ asks = 0
    /\ started = 0 /\ ran = {}
    /\ given = [w \in Workers |-> {}]

TakeOrRefuse(c) == TakeSlot(c) \/ WaitForSlot(c) \/ AnswerBusy(c)

Converse(c) == \/ PollNothing(c) \/ ReadReady(c) \/ SendRun(c) \/ SendFails(c)
               \/ ReadReply(c) \/ AnswerAsk(c) \/ ConversationRaises(c)
               \/ ReadEndOfFile(c) \/ OverMemory(c) \/ OverTime(c) \/ PollAgain(c)

Run(c) == \/ TakeOrRefuse(c) \/ TakeIdle(c) \/ TakeFresh(c) \/ Converse(c)
          \/ EndRun(c) \/ ReleaseSlot(c)

Refill == LockRefill \/ RefillWorker \/ AppendWorker \/ UnlockRefill

WorkerStep(w) == \/ SendReady(w) \/ ReceiveRun(w) \/ ReceiveNothing(w) \/ Ask(w)
                 \/ ReceiveAnswer(w) \/ SendReply(w) \/ Exit(w)

Shutdown == CallShutdown \/ ClearIdle \/ StopIdle

Next == \/ \E c \in Calls : Arrive(c) \/ Run(c) \/ Expire(c)
        \/ \E w \in Workers : WorkerStep(w)
        \/ Refill
        \/ Shutdown

Spec == Init /\ [][Next]_vars

(* Threads are scheduled and clocks advance.  Nothing is assumed of the    *)
(* workers: a tool may hang.                                               *)
FairSpec == /\ Spec
            /\ \A c \in Calls : WF_vars(Run(c)) /\ WF_vars(Expire(c))
            /\ WF_vars(Refill)

-----------------------------------------------------------------------------
TypeOK ==
    /\ running \in 0..Limit
    /\ queue \in Seq(Calls)
    /\ notified \subseteq Calls
    /\ pc \in [Calls -> CallSteps]
    /\ late \subseteq Calls
    /\ worker \in [Calls -> 0..MaxWorkers]
    /\ answer \in [Calls -> Answers]
    /\ idle \in Seq(Workers)
    /\ refills \in Nat
    /\ refilling \in BOOLEAN
    /\ adding \in 0..MaxWorkers
    /\ phase \in {"serving", "stopping", "cleared"}
    /\ doomed \subseteq Workers
    /\ proc \in [Workers -> ProcSteps]
    /\ open \in [Workers -> BOOLEAN]
    /\ toWorker \in [Workers -> {"none", "run", "answer"}]
    /\ toPool \in [Workers -> {"none", "ready", "ask", "reply", "torn"}]
    /\ asks \in 0..MaxAsks
    /\ started \in 0..MaxWorkers
    /\ given \in [Workers -> SUBSET Calls]
    /\ ran \subseteq Calls
    /\ early \subseteq Workers

(* GEOLANG_TOOL_MAX_CONCURRENT caps the runs in flight: the count is the   *)
(* number of calls that hold a slot, whatever woke them (lines 261-275).   *)
RunsWithinLimit ==
    /\ running = Cardinality(SlotHolders)
    /\ running =< Limit

(* No wakeup is lost: while a call waits to be notified, every free slot   *)
(* has a notified call on its way to it (lines 263-275).                   *)
NoLostWakeup ==
    queue # <<>> => Limit - running =< Cardinality(notified)

(* A worker is used for one run and then replaced, so nothing a run leaked *)
(* is there for the next caller: no worker is ever given to two calls or   *)
(* goes back among the idle ones (lines 286-305).                          *)
WorkerUsedOnce ==
    /\ \A w \in Workers :
          /\ Cardinality(given[w]) =< 1
          /\ Cardinality({c \in Calls : worker[c] = w}) =< 1
          /\ given[w] # {} => ~Listed(w) /\ adding # w
    /\ \A c \in Calls : worker[c] # 0 => ~Listed(worker[c])

(* The worker processes the executor watches are never more than twice the *)
(* limit: those of the calls that hold a slot and the spare ones, whatever *)
(* refills, deaths and failures interleave (lines 286-341).                *)
ProcessesBounded ==
    Cardinality({w \in Workers : proc[w] \in Alive /\ open[w]}) =< 2 * Limit

(* A call that is told busy or never started can be repeated: its tool did *)
(* not run.  A call that is answered with a result had its own tool run,   *)
(* in a worker that is dead when the slot is given back (lines 249-334).   *)
AnswersMatchRuns ==
    \A c \in Calls :
        /\ answer[c] \in {"busy", "never started"} => c \notin ran
        /\ answer[c] = "result" => c \in ran
        /\ \A w \in Workers :
              worker[c] = w /\ pc[c] = "release" /\ answer[c] # "raised" => Gone(w)

(* The refill lock is taken so that no worker started before shutdown() is *)
(* called lands among the idle ones after it (lines 240-247).              *)
EarlyWorkersStopped ==
    phase = "cleared" => \A w \in early : ~Listed(w) /\ adding # w

(* Every call is answered, with workers that may hang and calls that       *)
(* compete for slots.                                                      *)
EveryCallAnswered == \A c \in Calls : pc[c] = "slot" ~> pc[c] = "done"

(* Workers are started ahead of time: until the pool is cleared, whenever   *)
(* it has fewer idle workers than the limit a refill is on its way that    *)
(* will not stop before it has as many (lines 294-305).                    *)
RefillOnItsWay ==
    phase # "cleared" => Full \/ refills > 0 \/ refilling

(* Every way a run can fail has its message (RUN_FAILED_MESSAGES): a call  *)
(* whose worker stopped is told that it stopped without answering.         *)
EveryFailureHasItsReason == \A c \in Calls : answer[c] # "raised"
=============================================================================
