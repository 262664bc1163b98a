----------------------- MODULE ToolWorkerPoolProofs -----------------------
(***************************************************************************)
(* Theorems about ToolWorkerPool, for any calls, limit and bounds.  The    *)
(* inductive invariant counts the calls that hold a slot (Counted), says   *)
(* that a waiter stands once in the queue and not also among the notified  *)
(* (InLine), and that enough of the notified are on their way (Woken).     *)
(***************************************************************************)
EXTENDS ToolWorkerPool, FiniteSetTheorems, TLAPS

Counted == /\ IsFiniteSet(SlotHolders)
           /\ running = Cardinality(SlotHolders)
           /\ running =< Limit

InLine == /\ \A i, j \in 1..Len(queue) : queue[i] = queue[j] => i = j
          /\ \A i \in 1..Len(queue) : queue[i] \notin notified

Woken == IsFiniteSet(notified) /\ NoLostWakeup

IInv == TypeOK /\ Counted /\ InLine /\ Woken

-----------------------------------------------------------------------------
(* The waiters without c are the queue's own, in its order.                *)
LEMMA OthersAreWaiters ==
    ASSUME queue \in Seq(Calls), InLine, NEW c \in Calls
    PROVE  /\ Others(c) \in Seq(Calls)
           /\ queue = <<>> => Others(c) = <<>>
           /\ \A i, j \in 1..Len(Others(c)) : Others(c)[i] = Others(c)[j] => i = j
           /\ \A i \in 1..Len(Others(c)) :
                 /\ Others(c)[i] # c
                 /\ Others(c)[i] \notin notified
  <1>1. CASE \E i \in 1..Len(queue) : queue[i] = c
    <2>1. Place(c) \in 1..Len(queue) /\ queue[Place(c)] = c
      BY <1>1 DEF Place
    <2> DEFINE p == Place(c)
               n == Len(queue) - 1
               skip(i) == IF i < p THEN i ELSE i + 1
    <2>2. n \in Nat
      BY <2>1
    <2>3. Others(c) = [i \in 1..n |-> queue[skip(i)]]
      BY <1>1 DEF Others
    <2>4. \A i \in 1..n : skip(i) \in 1..Len(queue) /\ skip(i) # p
      BY <2>1, <2>2
    <2>5. \A i, j \in 1..n : skip(i) = skip(j) => i = j
      BY <2>1, <2>2
    <2> HIDE DEF p, n, skip
    <2>6. \A i \in 1..n : queue[skip(i)] \in Calls
      BY <2>4
    <2>7. Others(c) \in Seq(Calls) /\ Len(Others(c)) = n
      BY <2>2, <2>3, <2>6
    <2>8. \A i \in 1..n : Others(c)[i] = queue[skip(i)]
      BY <2>3
    <2>9. \A i \in 1..n : Others(c)[i] # c /\ Others(c)[i] \notin notified
      BY <2>1, <2>4, <2>8 DEF InLine, p
    <2>10. \A i, j \in 1..n : Others(c)[i] = Others(c)[j] => i = j
      BY <2>4, <2>5, <2>8 DEF InLine
    <2>11. queue # <<>>
      BY <2>1
    <2> QED
      BY <2>7, <2>9, <2>10, <2>11
  <1>2. CASE ~\E i \in 1..Len(queue) : queue[i] = c
    <2>1. Others(c) = queue
      BY <1>2 DEF Others
    <2> QED
      BY <1>2, <2>1 DEF InLine
  <1> QED
    BY <1>1, <1>2

(* What a step of one call does to the calls that hold a slot.             *)
LEMMA Taken ==
    ASSUME TypeOK, Counted, NEW c \in Calls, NEW step \in Holds, pc[c] \notin Holds,
           running < Limit, running' = running + 1, Move(c, step)
    PROVE  Counted'
  <1>1. SlotHolders' = SlotHolders \cup {c} /\ c \notin SlotHolders
    BY DEF SlotHolders, Move, TypeOK
  <1>2. /\ IsFiniteSet(SlotHolders \cup {c})
        /\ Cardinality(SlotHolders \cup {c}) = Cardinality(SlotHolders) + 1
    BY <1>1, FS_AddElement DEF Counted
  <1>3. running \in Nat /\ Limit \in Nat
    BY PoolAssumption DEF TypeOK
  <1> QED
    BY <1>1, <1>2, <1>3 DEF Counted

LEMMA GivenBack ==
    ASSUME TypeOK, Counted, NEW c \in Calls, NEW step \in CallSteps \ Holds,
           pc[c] \in Holds, running' = running - 1, Move(c, step)
    PROVE  Counted' /\ running' \in 0..Limit
  <1>1. SlotHolders' = SlotHolders \ {c} /\ c \in SlotHolders
    BY DEF SlotHolders, Move, TypeOK
  <1>2. /\ IsFiniteSet(SlotHolders \ {c})
        /\ Cardinality(SlotHolders \ {c}) = Cardinality(SlotHolders) - 1
    BY <1>1, FS_RemoveElement DEF Counted
  <1>3. Cardinality(SlotHolders \ {c}) \in Nat
    BY <1>2, FS_CardinalityType
  <1>4. running \in Nat /\ Limit \in Nat
    BY PoolAssumption DEF TypeOK
  <1> QED
    BY <1>1, <1>2, <1>3, <1>4 DEF Counted

LEMMA Kept ==
    ASSUME TypeOK, Counted, NEW c \in Calls, NEW step, pc[c] \in Holds <=> step \in Holds,
           UNCHANGED running, Move(c, step)
    PROVE  Counted'
  <1>1. SlotHolders' = SlotHolders
    BY DEF SlotHolders, Move, TypeOK
  <1> QED
    BY <1>1 DEF Counted

(* A step after which nobody holds more or less, and nobody waits or wakes *)
(* differently.                                                            *)
LEMMA SlotsKept ==
    ASSUME IInv, NEW c \in Calls, NEW step, pc[c] \in Holds <=> step \in Holds,
           UNCHANGED slots, Move(c, step)
    PROVE  Counted' /\ InLine' /\ Woken'
  <1>1. Counted'
    BY Kept DEF IInv, slots
  <1> QED
    BY <1>1 DEF IInv, slots, InLine, Woken, NoLostWakeup

LEMMA SlotsUntouched ==
    ASSUME IInv, UNCHANGED <<slots, pc>>
    PROVE  Counted' /\ InLine' /\ Woken'
  BY DEF IInv, slots, Counted, SlotHolders, InLine, Woken, NoLostWakeup

(* The slots, and those who wait for one: each step of a call.             *)
LEMMA SlotSteps ==
    ASSUME IInv, NEW c \in Calls, TakeOrRefuse(c) \/ ReleaseSlot(c)
    PROVE  /\ running' \in 0..Limit /\ queue' \in Seq(Calls) /\ notified' \subseteq Calls
           /\ Counted' /\ InLine' /\ Woken'
  <1>0. /\ TypeOK /\ Counted /\ InLine /\ Woken
        /\ running \in 0..Limit /\ Limit \in Nat /\ queue \in Seq(Calls)
        /\ notified \subseteq Calls
    BY PoolAssumption DEF IInv, TypeOK
  <1>1. /\ IsFiniteSet(notified \ {c})
        /\ Cardinality(notified \ {c}) \in Nat /\ Cardinality(notified) \in Nat
        /\ Cardinality(notified) =< Cardinality(notified \ {c}) + 1
    <2>1. IsFiniteSet(notified)
      BY <1>0 DEF Woken
    <2>2. Cardinality(notified) \in Nat
      BY <2>1, FS_CardinalityType
    <2>3. /\ IsFiniteSet(notified \ {c})
          /\ Cardinality(notified \ {c}) = IF c \in notified THEN Cardinality(notified) - 1
                                           ELSE Cardinality(notified)
      BY <2>1, FS_RemoveElement
    <2>4. Cardinality(notified \ {c}) \in Nat
      BY <2>3, FS_CardinalityType
    <2> QED
      BY <2>2, <2>3, <2>4
  <1>2. CASE TakeSlot(c)
    <2>1. /\ queue' = Others(c) /\ notified' = notified \ {c} /\ running' = running + 1
          /\ running < Limit /\ pc[c] \notin Holds /\ Move(c, "take")
      BY <1>2 DEF TakeSlot, Awake, Holds
    <2>2. Counted'
      BY <1>0, <2>1, Taken DEF Holds
    <2>3. InLine' /\ queue' \in Seq(Calls)
      BY <1>0, <2>1, OthersAreWaiters DEF InLine
    <2>4. queue' # <<>> => Limit - running =< Cardinality(notified)
      BY <1>0, <2>1, OthersAreWaiters DEF Woken, NoLostWakeup
    <2>5. Woken'
      BY <1>0, <1>1, <2>1, <2>4 DEF Woken, NoLostWakeup
    <2> QED
      BY <1>0, <2>1, <2>2, <2>3, <2>5
  <1>3. CASE WaitForSlot(c)
    <2>1. /\ queue' = Append(Others(c), c) /\ notified' = notified \ {c}
          /\ running' = running /\ running >= Limit /\ pc[c] \notin Holds
          /\ Move(c, "wait")
      BY <1>3 DEF WaitForSlot, Awake, Holds
    <2>2. Counted'
      BY <1>0, <2>1, Kept DEF Holds
    <2>3. /\ Others(c) \in Seq(Calls) /\ queue' \in Seq(Calls)
          /\ Len(queue') = Len(Others(c)) + 1 /\ queue'[Len(queue')] = c
          /\ \A i \in 1..Len(Others(c)) : queue'[i] = Others(c)[i]
      BY <1>0, <2>1, OthersAreWaiters
    <2>4. InLine'
      BY <1>0, <2>1, <2>3, OthersAreWaiters, SMTT(30) DEF InLine
    <2>5. Woken'
      BY <1>0, <1>1, <2>1 DEF Woken, NoLostWakeup
    <2> QED
      BY <1>0, <2>1, <2>2, <2>3, <2>4, <2>5
  <1>4. CASE AnswerBusy(c)
    <2>1. /\ queue' = Others(c) /\ notified' = notified \ {c} /\ running' = running
          /\ running >= Limit /\ pc[c] \notin Holds /\ Move(c, "done")
      BY <1>4 DEF AnswerBusy, Awake, Holds
    <2>2. Counted'
      BY <1>0, <2>1, Kept DEF Holds
    <2>3. InLine' /\ queue' \in Seq(Calls)
      BY <1>0, <2>1, OthersAreWaiters DEF InLine
    <2>4. Woken'
      BY <1>0, <1>1, <2>1 DEF Woken, NoLostWakeup
    <2> QED
      BY <1>0, <2>1, <2>2, <2>3, <2>4
  <1>5. CASE ReleaseSlot(c)
    <2>1. running' = running - 1 /\ pc[c] \in Holds /\ Move(c, "done") /\ Wake
      BY <1>5 DEF ReleaseSlot, Holds
    <2>2. Counted' /\ running' \in 0..Limit
      BY <1>0, <2>1, GivenBack DEF Holds, CallSteps
    <2>3. CASE queue = <<>>
      <3>1. queue' = queue /\ notified' = notified
        BY <2>1, <2>3 DEF Wake
      <3> QED
        BY <1>0, <2>2, <2>3, <3>1 DEF InLine, Woken, NoLostWakeup
    <2>4. CASE queue # <<>>
      <3>1. queue' = Tail(queue) /\ notified' = notified \cup {Head(queue)}
        BY <2>1, <2>4 DEF Wake
      <3>2. /\ Head(queue) = queue[1] /\ Head(queue) \in Calls
            /\ queue' \in Seq(Calls) /\ Len(queue') = Len(queue) - 1
            /\ Len(queue) \in Nat \ {0}
            /\ \A i \in 1..Len(queue') : queue'[i] = queue[i + 1]
        BY <1>0, <2>4, <3>1
      <3>3. InLine'
        BY <1>0, <3>1, <3>2 DEF InLine
      <3>4. Head(queue) \notin notified
        BY <1>0, <3>2 DEF InLine
      <3>5. /\ IsFiniteSet(notified')
            /\ Cardinality(notified') = Cardinality(notified) + 1
        BY <1>0, <3>1, <3>4, FS_AddElement DEF Woken
      <3>6. Limit - running =< Cardinality(notified)
        BY <1>0, <2>4 DEF Woken, NoLostWakeup
      <3>7. Woken'
        BY <1>0, <1>1, <2>1, <3>5, <3>6 DEF Woken, NoLostWakeup
      <3> QED
        BY <1>0, <2>2, <3>1, <3>2, <3>3, <3>7
    <2> QED
      BY <2>3, <2>4
  <1> QED
    BY <1>2, <1>3, <1>4, <1>5 DEF TakeOrRefuse

-----------------------------------------------------------------------------
LEMMA InitIInv == Init => IInv
  <1> SUFFICES ASSUME Init
               PROVE  IInv
    OBVIOUS
  <1> USE PoolAssumption DEF Init
  <1>1. TypeOK
    <2>1. <<>> \in Seq(Calls) /\ <<>> \in Seq(Workers)
      OBVIOUS
    <2>2. 0 \in 0..Limit /\ 0 \in 0..MaxWorkers /\ 0 \in 0..MaxAsks
      OBVIOUS
    <2>3. /\ pc \in [Calls -> CallSteps] /\ answer \in [Calls -> Answers]
          /\ worker \in [Calls -> 0..MaxWorkers] /\ proc \in [Workers -> ProcSteps]
      BY <2>2 DEF CallSteps, Answers, ProcSteps
    <2> QED
      BY <2>1, <2>2, <2>3 DEF TypeOK
  <1>2. SlotHolders = {}
    BY DEF SlotHolders, Holds
  <1>3. Counted
    BY <1>2, FS_EmptySet DEF Counted
  <1>4. InLine /\ Woken
    BY FS_EmptySet DEF InLine, Woken, NoLostWakeup
  <1> QED
    BY <1>1, <1>3, <1>4 DEF IInv

(* The types, one step per action.                                         *)
LEMMA NextTyped == IInv /\ [Next]_vars => TypeOK'
  <1> SUFFICES ASSUME IInv, [Next]_vars
               PROVE  TypeOK'
    OBVIOUS
  <1> USE PoolAssumption DEF Move, slots, call, spare, life, pipes
  <1>0. TypeOK
    BY DEF IInv
  <1>1. ASSUME NEW c \in Calls, TakeOrRefuse(c) \/ ReleaseSlot(c)
        PROVE  TypeOK'
    <2>1. running' \in 0..Limit /\ queue' \in Seq(Calls) /\ notified' \subseteq Calls
      BY <1>1, SlotSteps
    <2>2. CASE TakeSlot(c)
      BY <1>0, <2>1, <2>2 DEF TakeSlot, TypeOK, CallSteps
    <2>3. CASE WaitForSlot(c)
      BY <1>0, <2>1, <2>3 DEF WaitForSlot, TypeOK, CallSteps
    <2>4. CASE AnswerBusy(c)
      BY <1>0, <2>1, <2>4 DEF AnswerBusy, TypeOK, CallSteps, Answers
    <2>5. CASE ReleaseSlot(c)
      <3>1. 0 \in 0..MaxWorkers
        OBVIOUS
      <3> QED
        BY <1>0, <2>1, <2>5, <3>1 DEF ReleaseSlot, TypeOK, CallSteps
    <2> QED
      BY <1>1, <2>2, <2>3, <2>4, <2>5 DEF TakeOrRefuse
  <1>2. ASSUME NEW c \in Calls, Arrive(c)
        PROVE  TypeOK'
    BY <1>0, <1>2 DEF Arrive, TypeOK, CallSteps
  <1>3. ASSUME NEW c \in Calls, Expire(c)
        PROVE  TypeOK'
    BY <1>0, <1>3 DEF Expire, TypeOK
  <1>4. ASSUME NEW c \in Calls, TakeIdle(c)
        PROVE  TypeOK'
    <2>1. idle \in Seq(Workers) /\ idle # <<>>
      BY <1>0, <1>4 DEF TakeIdle, TypeOK
    <2>2. Tail(idle) \in Seq(Workers) /\ Head(idle) \in Workers
      BY <2>1
    <2>3. Head(idle) \in 0..MaxWorkers
      BY <2>2 DEF Workers
    <2>4. worker' \in [Calls -> 0..MaxWorkers] /\ pc' \in [Calls -> CallSteps]
      BY <1>0, <1>4, <2>3 DEF TakeIdle, TypeOK, CallSteps
    <2>5. refills' \in Nat /\ idle' \in Seq(Workers)
      BY <1>0, <1>4, <2>2 DEF TakeIdle, Popped, RefillInBackground, TypeOK
    <2> QED
      BY <1>0, <1>4, <2>4, <2>5 DEF TakeIdle, TypeOK
  <1>5. ASSUME NEW c \in Calls, TakeFresh(c)
        PROVE  TypeOK'
    <2>1. started + 1 \in 0..MaxWorkers
      BY <1>0, <1>5 DEF TakeFresh, Spawn, TypeOK
    <2>2. worker' \in [Calls -> 0..MaxWorkers] /\ pc' \in [Calls -> CallSteps]
      BY <1>0, <1>5, <2>1 DEF TakeFresh, TypeOK, CallSteps
    <2>3. proc' \in [Workers -> ProcSteps] /\ open' \in [Workers -> BOOLEAN]
      BY <1>0, <1>5 DEF TakeFresh, Spawn, TypeOK, ProcSteps
    <2>4. refills' \in Nat /\ started' \in 0..MaxWorkers
      BY <1>0, <1>5, <2>1 DEF TakeFresh, Spawn, RefillInBackground, TypeOK
    <2> QED
      BY <1>0, <1>5, <2>2, <2>3, <2>4 DEF TakeFresh, Spawn, TypeOK
  <1>6. ASSUME NEW c \in Calls, PollNothing(c)
        PROVE  TypeOK'
    BY <1>0, <1>6 DEF PollNothing, TypeOK, CallSteps
  <1>7. ASSUME NEW c \in Calls, ReadReady(c)
        PROVE  TypeOK'
    BY <1>0, <1>7 DEF ReadReady, TypeOK, CallSteps
  <1>8. ASSUME NEW c \in Calls, SendRun(c)
        PROVE  TypeOK'
    BY <1>0, <1>8 DEF SendRun, TypeOK, CallSteps
  <1>9. ASSUME NEW c \in Calls, SendFails(c)
        PROVE  TypeOK'
    BY <1>0, <1>9 DEF SendFails, Fail, Failures, TypeOK, CallSteps, Answers
  <1>10. ASSUME NEW c \in Calls, ReadReply(c)
        PROVE  TypeOK'
    BY <1>0, <1>10 DEF ReadReply, TypeOK, CallSteps, Answers
  <1>11. ASSUME NEW c \in Calls, AnswerAsk(c)
        PROVE  TypeOK'
    BY <1>0, <1>11 DEF AnswerAsk, TypeOK
  <1>12. ASSUME NEW c \in Calls, ConversationRaises(c)
        PROVE  TypeOK'
    BY <1>0, <1>12 DEF ConversationRaises, TypeOK, CallSteps, Answers
  <1>13. ASSUME NEW c \in Calls, ReadEndOfFile(c)
        PROVE  TypeOK'
    BY <1>0, <1>13 DEF ReadEndOfFile, Fail, Failures, TypeOK, CallSteps, Answers
  <1>14. ASSUME NEW c \in Calls, OverMemory(c)
        PROVE  TypeOK'
    BY <1>0, <1>14 DEF OverMemory, Fail, Failures, TypeOK, CallSteps, Answers
  <1>15. ASSUME NEW c \in Calls, OverTime(c)
        PROVE  TypeOK'
    BY <1>0, <1>15 DEF OverTime, Fail, Failures, TypeOK, CallSteps, Answers
  <1>16. ASSUME NEW c \in Calls, PollAgain(c)
        PROVE  TypeOK'
    BY <1>0, <1>16 DEF PollAgain, TypeOK, CallSteps
  <1>17. ASSUME NEW c \in Calls, EndRun(c)
        PROVE  TypeOK'
    BY <1>0, <1>17 DEF EndRun, Stopped, TypeOK, CallSteps, ProcSteps
  <1>18. ASSUME NEW w \in Workers, SendReady(w)
        PROVE  TypeOK'
    BY <1>0, <1>18 DEF SendReady, Process, Rest, TypeOK, ProcSteps
  <1>19. ASSUME NEW w \in Workers, ReceiveRun(w)
        PROVE  TypeOK'
    BY <1>0, <1>19 DEF ReceiveRun, Process, Rest, TypeOK, ProcSteps
  <1>20. ASSUME NEW w \in Workers, ReceiveNothing(w)
        PROVE  TypeOK'
    BY <1>0, <1>20 DEF ReceiveNothing, Process, Rest, TypeOK, ProcSteps
  <1>21. ASSUME NEW w \in Workers, Ask(w)
        PROVE  TypeOK'
    BY <1>0, <1>21 DEF Ask, Process, Rest, TypeOK, ProcSteps
  <1>22. ASSUME NEW w \in Workers, ReceiveAnswer(w)
        PROVE  TypeOK'
    BY <1>0, <1>22 DEF ReceiveAnswer, Process, Rest, TypeOK, ProcSteps
  <1>23. ASSUME NEW w \in Workers, SendReply(w)
        PROVE  TypeOK'
    BY <1>0, <1>23 DEF SendReply, Process, Rest, TypeOK, ProcSteps
  <1>24. ASSUME NEW w \in Workers, Exit(w)
        PROVE  TypeOK'
    BY <1>0, <1>24 DEF Exit, Process, Rest, TypeOK, ProcSteps
  <1>25. ASSUME LockRefill
        PROVE  TypeOK'
    BY <1>0, <1>25 DEF LockRefill, TypeOK
  <1>26. ASSUME RefillWorker
        PROVE  TypeOK'
    BY <1>0, <1>26 DEF RefillWorker, Spawn, TypeOK, ProcSteps, Workers
  <1>27. ASSUME AppendWorker
        PROVE  TypeOK'
    BY <1>0, <1>27 DEF AppendWorker, TypeOK, Workers
  <1>28. ASSUME UnlockRefill
        PROVE  TypeOK'
    BY <1>0, <1>28 DEF UnlockRefill, TypeOK, Workers
  <1>29. ASSUME CallShutdown
        PROVE  TypeOK'
    BY <1>0, <1>29 DEF CallShutdown, Workers, TypeOK
  <1>30. ASSUME ClearIdle
        PROVE  TypeOK'
    BY <1>0, <1>30 DEF ClearIdle, TypeOK
  <1>31. ASSUME StopIdle
        PROVE  TypeOK'
    BY <1>0, <1>31 DEF StopIdle, Stopped, TypeOK, ProcSteps
  <1>32. ASSUME UNCHANGED vars
        PROVE  TypeOK'
    BY <1>0, <1>32 DEF vars, TypeOK
  <1> QED
    BY <1>1, <1>2, <1>3, <1>4, <1>5, <1>6, <1>7, <1>8, <1>9, <1>10, <1>11, <1>12, <1>13, <1>14, <1>15, <1>16, <1>17, <1>18, <1>19, <1>20, <1>21, <1>22, <1>23, <1>24, <1>25, <1>26, <1>27, <1>28, <1>29, <1>30, <1>31, <1>32
        DEF Next, Run, Converse, WorkerStep, Refill, Shutdown

(* The slots and their waiters.  Most steps leave both alone.              *)
LEMMA NextSlots == IInv /\ [Next]_vars => Counted' /\ InLine' /\ Woken'
  <1> SUFFICES ASSUME IInv, [Next]_vars
               PROVE  Counted' /\ InLine' /\ Woken'
    OBVIOUS
  <1>1. ASSUME NEW c \in Calls, TakeOrRefuse(c) \/ ReleaseSlot(c)
        PROVE  Counted' /\ InLine' /\ Woken'
    BY <1>1, SlotSteps
  <1>2. ASSUME NEW c \in Calls, Arrive(c)
        PROVE  Counted' /\ InLine' /\ Woken'
    <2>1. UNCHANGED slots /\ Move(c, "slot") /\ pc[c] = "new"
      BY <1>2 DEF Arrive
    <2>2. pc[c] \in Holds <=> "slot" \in Holds
      BY <2>1 DEF Holds
    <2> QED
      BY <2>1, <2>2, SlotsKept
  <1>3. ASSUME NEW c \in Calls, TakeIdle(c) \/ TakeFresh(c) \/ Converse(c) \/ EndRun(c)
        PROVE  Counted' /\ InLine' /\ Woken'
    <2>1. CASE AnswerAsk(c)
      BY <2>1, SlotsUntouched DEF AnswerAsk, call
    <2>2. ASSUME ~AnswerAsk(c)
          PROVE  UNCHANGED slots /\ pc[c] \in Holds /\ \E step \in Holds : Move(c, step)
      <3>1. CASE TakeIdle(c) \/ TakeFresh(c)
        BY <3>1 DEF TakeIdle, TakeFresh, Holds
      <3>2. CASE PollNothing(c) \/ PollAgain(c)
        BY <3>2 DEF PollNothing, PollAgain, Checking, Holds
      <3>3. CASE ReadReady(c) \/ SendRun(c) \/ ReadReply(c) \/ ConversationRaises(c)
        BY <3>3 DEF ReadReady, SendRun, ReadReply, ConversationRaises, Holds
      <3>4. CASE SendFails(c) \/ ReadEndOfFile(c) \/ OverMemory(c) \/ OverTime(c)
        BY <3>4 DEF SendFails, ReadEndOfFile, OverMemory, OverTime, Checking, Fail, Holds
      <3>5. CASE EndRun(c)
        BY <3>5 DEF EndRun, Holds
      <3> QED
        BY <1>3, <2>2, <3>1, <3>2, <3>3, <3>4, <3>5 DEF Converse
    <2>3. CASE ~AnswerAsk(c)
      <3>1. PICK step \in Holds : Move(c, step)
        BY <2>2, <2>3
      <3> QED
        BY <2>2, <2>3, <3>1, SlotsKept
    <2> QED
      BY <2>1, <2>3
  <1>4. ASSUME NEW c \in Calls, Expire(c)
        PROVE  Counted' /\ InLine' /\ Woken'
    BY <1>4, SlotsUntouched DEF Expire
  <1>5. ASSUME NEW w \in Workers, WorkerStep(w)
        PROVE  Counted' /\ InLine' /\ Woken'
    BY <1>5, SlotsUntouched DEF WorkerStep, SendReady, ReceiveRun, ReceiveNothing, Ask,
          ReceiveAnswer, SendReply, Exit, Rest, call
  <1>6. CASE Refill
    BY <1>6, SlotsUntouched DEF Refill, LockRefill, RefillWorker, AppendWorker,
          UnlockRefill, call
  <1>7. CASE Shutdown
    BY <1>7, SlotsUntouched DEF Shutdown, CallShutdown, ClearIdle, StopIdle, call
  <1>8. CASE UNCHANGED vars
    BY <1>8, SlotsUntouched DEF vars, slots
  <1> QED
    BY <1>1, <1>2, <1>3, <1>4, <1>5, <1>6, <1>7, <1>8 DEF Next, Run

LEMMA Inductive == Spec => []IInv
  <1>1. IInv /\ [Next]_vars => IInv'
    BY NextTyped, NextSlots DEF IInv
  <1> QED
    BY InitIInv, <1>1, PTL DEF Spec

-----------------------------------------------------------------------------
(* The pool's state keeps its shape; above all, the count of runs never    *)
(* leaves 0..Limit whatever wakes a call, times out or barges in.          *)
THEOREM TypeCorrect == Spec => []TypeOK
  <1>1. IInv => TypeOK
    BY DEF IInv
  <1> QED
    BY Inductive, <1>1, PTL

(* GEOLANG_TOOL_MAX_CONCURRENT caps the runs in flight, for any calls and  *)
(* any limit (_take_slot and _release_slot).                               *)
THEOREM LimitHolds == Spec => []RunsWithinLimit
  <1>1. IInv => RunsWithinLimit
    BY DEF IInv, Counted, RunsWithinLimit
  <1> QED
    BY Inductive, <1>1, PTL

(* One notify per release is enough: no free slot is left to sleeping      *)
(* calls, although a notified call may give up or be overtaken.            *)
THEOREM WakeupsKept == Spec => []NoLostWakeup
  <1>1. IInv => NoLostWakeup
    BY DEF IInv, Woken
  <1> QED
    BY Inductive, <1>1, PTL

(* Until the pool is cleared, a missing spare worker has a refill on its   *)
(* way (_take_worker and _refill).                                         *)
THEOREM SparesComeBack == Spec => []RefillOnItsWay
  <1>1. Init => RefillOnItsWay
    BY DEF Init, RefillOnItsWay
  <1>2. IInv /\ RefillOnItsWay /\ [Next]_vars => RefillOnItsWay'
    <2> SUFFICES ASSUME IInv, RefillOnItsWay, [Next]_vars
                 PROVE  RefillOnItsWay'
      OBVIOUS
    <2>0. idle \in Seq(Workers) /\ refills \in Nat /\ Limit \in Nat
      BY PoolAssumption DEF IInv, TypeOK
    <2> USE DEF spare, life, RefillOnItsWay, Full
    <2>1. ASSUME NEW c \in Calls, TakeIdle(c) \/ TakeFresh(c)
          PROVE  RefillOnItsWay'
      BY <2>0, <2>1 DEF TakeIdle, TakeFresh, RefillInBackground
    <2>2. ASSUME NEW c \in Calls, Converse(c) \/ EndRun(c)
          PROVE  RefillOnItsWay'
      BY <2>2 DEF Converse, PollNothing, ReadReady, SendRun, SendFails, ReadReply, AnswerAsk,
            ConversationRaises, ReadEndOfFile, OverMemory, OverTime, PollAgain, Fail, EndRun
    <2>3. ASSUME NEW c \in Calls, Arrive(c) \/ Expire(c) \/ TakeOrRefuse(c) \/ ReleaseSlot(c)
          PROVE  RefillOnItsWay'
      BY <2>3 DEF Arrive, Expire, TakeOrRefuse, TakeSlot, WaitForSlot, AnswerBusy, ReleaseSlot
    <2>4. ASSUME NEW w \in Workers, WorkerStep(w)
          PROVE  RefillOnItsWay'
      BY <2>4 DEF WorkerStep, SendReady, ReceiveRun, ReceiveNothing, Ask, ReceiveAnswer,
            SendReply, Exit, Rest
    <2>5. CASE LockRefill \/ RefillWorker \/ UnlockRefill
      BY <2>5 DEF LockRefill, RefillWorker, UnlockRefill
    <2>6. CASE AppendWorker
      <3>1. adding \in Workers
        BY <2>6 DEF AppendWorker, IInv, TypeOK, Workers
      <3>2. Len(idle') = Len(idle) + 1
        BY <2>0, <2>6, <3>1 DEF AppendWorker
      <3> QED
        BY <2>0, <2>6, <3>2 DEF AppendWorker
    <2>7. CASE Shutdown
      BY <2>7 DEF Shutdown, CallShutdown, ClearIdle, StopIdle
    <2>8. CASE UNCHANGED vars
      BY <2>8 DEF vars
    <2> QED
      BY <2>1, <2>2, <2>3, <2>4, <2>5, <2>6, <2>7, <2>8 DEF Next, Run, Refill
  <1> QED
    BY Inductive, <1>1, <1>2, PTL DEF Spec

-----------------------------------------------------------------------------
(* Who has a worker.  It is new, on its way to the idle ones, idle, or a   *)
(* call's, and never two of these; only a call's worker was ever sent a    *)
(* run, and not before the call is past "send".                            *)
Placed == /\ \A i \in 1..Len(idle) : idle[i] =< started /\ idle[i] # adding
          /\ \A i, j \in 1..Len(idle) : idle[i] = idle[j] => i = j
          /\ adding =< started

Owned == \A c \in Calls : worker[c] # 0 =>
             /\ worker[c] =< started
             /\ worker[c] # adding
             /\ \A i \in 1..Len(idle) : idle[i] # worker[c]
             /\ \A d \in Calls : worker[d] = worker[c] => d = c

Fresh(step) == step \in {"boot", "boot checks", "send"}

Unsent == \A c \in Calls : Fresh(pc[c]) => given[worker[c]] = {}

Sent == \A w \in Workers :
            /\ \A c, d \in given[w] : c = d
            /\ given[w] # {} => /\ w =< started
                                /\ w # adding
                                /\ \A i \in 1..Len(idle) : idle[i] # w

Once == Placed /\ Owned /\ Unsent /\ Sent

LEMMA InitOnce == Init => Once
  BY PoolAssumption DEF Init, Once, Placed, Owned, Unsent, Sent, Fresh

(* A step that moves no worker, sends no run, and makes no call's worker   *)
(* one that is yet to be sent a run.                                       *)
LEMMA OnceKept ==
    ASSUME TypeOK, Once, UNCHANGED <<worker, idle, adding, started, given>>,
           \A c \in Calls : Fresh(pc'[c]) => Fresh(pc[c])
    PROVE  Once'
  BY DEF Once, Placed, Owned, Unsent, Sent

(* A process is started, and it is nobody's.                               *)
LEMMA SpawnedIsNew ==
    ASSUME TypeOK, Once, Spawn
    PROVE  /\ started' = started + 1 /\ started + 1 \in Workers
           /\ given' = given /\ given[started + 1] = {}
           /\ adding # started + 1
           /\ \A c \in Calls : worker[c] # started + 1
           /\ \A i \in 1..Len(idle) : idle[i] \in Nat /\ idle[i] # started + 1
  <1>1. started \in Nat /\ started < MaxWorkers /\ started + 1 \in Workers
    BY PoolAssumption DEF TypeOK, Spawn, Workers
  <1>2. \A i \in 1..Len(idle) : idle[i] \in Nat
    <2>1. idle \in Seq(Workers)
      BY DEF TypeOK
    <2>2. \A i \in 1..Len(idle) : idle[i] \in Workers
      BY <2>1
    <2> QED
      BY <2>2 DEF Workers
  <1>3. adding \in Nat /\ \A c \in Calls : worker[c] \in Nat
    BY PoolAssumption DEF TypeOK
  <1>4. given[started + 1] = {}
    BY <1>1 DEF Once, Sent
  <1> QED
    BY <1>1, <1>2, <1>3, <1>4 DEF Spawn, Once, Placed, Owned

LEMMA NextOnce == TypeOK /\ Once /\ [Next]_vars => Once'
  <1> SUFFICES ASSUME TypeOK, Once, [Next]_vars
               PROVE  Once'
    OBVIOUS
  <1>0. /\ pc \in [Calls -> CallSteps] /\ worker \in [Calls -> 0..MaxWorkers]
        /\ idle \in Seq(Workers) /\ started \in Nat /\ adding \in Nat
        /\ given \in [Workers -> SUBSET Calls]
        /\ Workers \subseteq Nat \ {0} /\ MaxWorkers \in Nat
    BY PoolAssumption DEF TypeOK, Workers
  <1>1. ASSUME NEW c \in Calls, TakeIdle(c)
        PROVE  Once'
    <2>1. /\ idle # <<>> /\ worker' = [worker EXCEPT ![c] = Head(idle)]
          /\ idle' = Tail(idle) /\ pc' = [pc EXCEPT ![c] = "boot"]
          /\ UNCHANGED <<adding, started, given>>
      BY <1>1 DEF TakeIdle, Popped, Move, pipes
    <2>2. /\ Head(idle) = idle[1] /\ Head(idle) \in Workers /\ 1 \in 1..Len(idle)
          /\ Len(idle') = Len(idle) - 1
          /\ \A i \in 1..Len(idle') : i + 1 \in 1..Len(idle) /\ idle'[i] = idle[i + 1]
      BY <1>0, <2>1
    <2>3. Placed'
      BY <1>0, <2>1, <2>2 DEF Once, Placed
    <2>4. Owned'
      <3>1. worker'[c] = idle[1] /\ \A d \in Calls : d # c => worker'[d] = worker[d]
        BY <1>0, <2>1, <2>2
      <3>2. \A i \in 1..Len(idle') : idle'[i] # idle[1]
        BY <1>0, <2>2 DEF Once, Placed
      <3>3. idle[1] =< started /\ idle[1] # adding
        BY <2>2 DEF Once, Placed
      <3>4. \A d \in Calls : worker[d] # 0 => worker[d] # idle[1]
        BY <2>2 DEF Once, Owned
      <3>5. idle[1] # 0
        BY <1>0, <2>2
      <3> QED
        BY <2>1, <2>2, <3>1, <3>2, <3>3, <3>4, <3>5 DEF Once, Owned
    <2>5. Unsent'
      <3>1. given[idle[1]] = {}
        BY <2>2 DEF Once, Sent
      <3> QED
        BY <1>0, <2>1, <2>2, <3>1 DEF Once, Unsent, Fresh
    <2>6. Sent'
      BY <2>1, <2>2 DEF Once, Sent
    <2> QED
      BY <2>3, <2>4, <2>5, <2>6 DEF Once
  <1>2. ASSUME NEW c \in Calls, TakeFresh(c)
        PROVE  Once'
    <2>1. /\ Spawn /\ worker' = [worker EXCEPT ![c] = started + 1]
          /\ idle' = idle /\ adding' = adding /\ pc' = [pc EXCEPT ![c] = "boot"]
      BY <1>2 DEF TakeFresh, Move
    <2>2. /\ started' = started + 1 /\ started + 1 \in Workers
          /\ given' = given /\ given[started + 1] = {} /\ adding # started + 1
          /\ \A d \in Calls : worker[d] # started + 1
          /\ \A i \in 1..Len(idle) : idle[i] \in Nat /\ idle[i] # started + 1
      BY <2>1, SpawnedIsNew
    <2>3. Placed' /\ Sent'
      BY <1>0, <2>1, <2>2 DEF Once, Placed, Sent
    <2>4. /\ worker'[c] = started + 1
          /\ \A d \in Calls : d # c => worker'[d] = worker[d] /\ worker[d] \in Nat
      BY <1>0, <2>1
    <2>5. Owned'
      BY <1>0, <2>1, <2>2, <2>4 DEF Once, Owned
    <2>6. Unsent'
      BY <1>0, <2>1, <2>2, <2>4 DEF Once, Unsent, Fresh
    <2> QED
      BY <2>3, <2>5, <2>6 DEF Once
  <1>3. ASSUME NEW c \in Calls, SendRun(c)
        PROVE  Once'
    <2>1. /\ pc[c] = "send" /\ pc' = [pc EXCEPT ![c] = "run"]
          /\ given' = [given EXCEPT ![worker[c]] = @ \cup {c}]
          /\ UNCHANGED <<worker, idle, adding, started>>
      BY <1>3 DEF SendRun, Move, spare
    <2>2. given[worker[c]] = {}
      BY <2>1 DEF Once, Unsent, Fresh
    <2>3. Placed' /\ Owned'
      BY <2>1 DEF Once, Placed, Owned
    <2>4. Unsent'
      <3> SUFFICES ASSUME NEW d \in Calls, Fresh(pc'[d])
                   PROVE  given'[worker[d]] = {}
        BY <2>1 DEF Unsent
      <3>1. d # c /\ Fresh(pc[d])
        BY <1>0, <2>1 DEF Fresh
      <3>2. given[worker[d]] = {}
        BY <3>1 DEF Once, Unsent
      <3>3. CASE worker[d] # worker[c]
        BY <1>0, <2>1, <3>2, <3>3
      <3>4. CASE worker[d] = worker[c]
        BY <1>0, <2>1, <3>1, <3>2, <3>4 DEF Once, Owned
      <3> QED
        BY <3>3, <3>4
    <2>5. Sent'
      <3>1. \A w \in Workers : w # worker[c] => given'[w] = given[w]
        BY <1>0, <2>1
      <3>2. worker[c] \in Workers => given'[worker[c]] = {c} /\ worker[c] # 0
        BY <1>0, <2>1, <2>2
      <3> QED
        BY <2>1, <3>1, <3>2 DEF Once, Sent, Owned
    <2> QED
      BY <2>3, <2>4, <2>5 DEF Once
  <1>4. ASSUME NEW c \in Calls, ReleaseSlot(c)
        PROVE  Once'
    <2>1. /\ worker' = [worker EXCEPT ![c] = 0] /\ pc' = [pc EXCEPT ![c] = "done"]
          /\ UNCHANGED <<idle, adding, started, given>>
      BY <1>4 DEF ReleaseSlot, Move, spare
    <2>2. /\ worker'[c] = 0 /\ pc'[c] = "done"
          /\ \A d \in Calls : d # c => worker'[d] = worker[d] /\ pc'[d] = pc[d]
      BY <1>0, <2>1
    <2>3. Placed' /\ Sent'
      BY <2>1 DEF Once, Placed, Sent
    <2>4. Owned'
      BY <2>1, <2>2 DEF Once, Owned
    <2>5. Unsent'
      BY <2>1, <2>2 DEF Once, Unsent, Fresh
    <2> QED
      BY <2>3, <2>4, <2>5 DEF Once
  <1>5. ASSUME NEW c \in Calls,
               \/ Arrive(c) \/ Expire(c) \/ TakeOrRefuse(c) \/ EndRun(c)
               \/ Converse(c) /\ ~SendRun(c)
        PROVE  Once'
    <2>1. UNCHANGED <<worker, idle, adding, started, given>>
      BY <1>5 DEF Arrive, Expire, TakeOrRefuse, TakeSlot, WaitForSlot, AnswerBusy, EndRun,
            Converse, PollNothing, ReadReady, SendFails, ReadReply, AnswerAsk,
            ConversationRaises, ReadEndOfFile, OverMemory, OverTime, PollAgain, Fail, spare,
            call
    <2>2. \A d \in Calls : Fresh(pc'[d]) => Fresh(pc[d])
      BY <1>0, <1>5 DEF Arrive, Expire, TakeOrRefuse, TakeSlot, WaitForSlot, AnswerBusy,
            EndRun, Converse, PollNothing, ReadReady, SendFails, ReadReply, AnswerAsk,
            ConversationRaises, ReadEndOfFile, OverMemory, OverTime, PollAgain, Checking,
            Fail, Move, Fresh, call
    <2> QED
      BY <2>1, <2>2, OnceKept
  <1>6. ASSUME NEW w \in Workers, WorkerStep(w)
        PROVE  Once'
    BY <1>6, OnceKept DEF WorkerStep, SendReady, ReceiveRun, ReceiveNothing, Ask,
          ReceiveAnswer, SendReply, Exit, Rest, call, spare
  <1>7. CASE LockRefill \/ UnlockRefill \/ CallShutdown \/ StopIdle
    BY <1>7, OnceKept DEF LockRefill, UnlockRefill, CallShutdown, StopIdle, call, spare
  <1>8. CASE RefillWorker
    <2>1. Spawn /\ adding' = started + 1 /\ UNCHANGED <<worker, pc, idle>>
      BY <1>8 DEF RefillWorker, call
    <2>2. /\ started' = started + 1 /\ started + 1 \in Workers
          /\ given' = given /\ given[started + 1] = {}
          /\ \A d \in Calls : worker[d] # started + 1
          /\ \A i \in 1..Len(idle) : idle[i] \in Nat /\ idle[i] # started + 1
      BY <2>1, SpawnedIsNew
    <2>3. \A d \in Calls : worker[d] \in Nat
      BY <1>0
    <2>4. Placed'
      BY <1>0, <2>1, <2>2 DEF Once, Placed
    <2>5. Owned'
      BY <1>0, <2>1, <2>2, <2>3 DEF Once, Owned
    <2>6. Unsent'
      BY <2>1, <2>2 DEF Once, Unsent
    <2>7. Sent'
      BY <1>0, <2>1, <2>2 DEF Once, Sent, Workers
    <2> QED
      BY <2>4, <2>5, <2>6, <2>7 DEF Once
  <1>9. CASE AppendWorker
    <2>1. /\ adding # 0 /\ idle' = Append(idle, adding) /\ adding' = 0
          /\ UNCHANGED <<worker, pc, started, given>>
      BY <1>9 DEF AppendWorker, call
    <2>2. adding \in Workers
      BY <2>1 DEF TypeOK, Workers
    <2>3. /\ Len(idle') = Len(idle) + 1 /\ idle'[Len(idle')] = adding
          /\ \A i \in 1..Len(idle) : idle'[i] = idle[i] /\ idle[i] # 0
      BY <1>0, <2>1, <2>2
    <2>4. Placed'
      BY <1>0, <2>1, <2>2, <2>3 DEF Once, Placed
    <2>5. Owned'
      BY <1>0, <2>1, <2>2, <2>3 DEF Once, Owned
    <2>6. Unsent'
      BY <2>1 DEF Once, Unsent
    <2>7. Sent'
      BY <1>0, <2>1, <2>2, <2>3 DEF Once, Sent
    <2> QED
      BY <2>4, <2>5, <2>6, <2>7 DEF Once
  <1>10. CASE ClearIdle
    BY <1>0, <1>10 DEF ClearIdle, call, Once, Placed, Owned, Unsent, Sent
  <1>11. CASE UNCHANGED vars
    BY <1>11, OnceKept DEF vars
  <1> QED
    BY <1>1, <1>2, <1>3, <1>4, <1>5, <1>6, <1>7, <1>8, <1>9, <1>10, <1>11
       DEF Next, Run, Refill, Shutdown, Converse

LEMMA AtMostOneElement ==
    ASSUME NEW S, \A x, y \in S : x = y
    PROVE  IsFiniteSet(S) /\ Cardinality(S) =< 1
  <1>1. CASE S = {}
    BY <1>1, FS_EmptySet
  <1>2. CASE S # {}
    <2>1. PICK x \in S : TRUE
      BY <1>2
    <2>2. S = {} \cup {x}
      BY <2>1
    <2> QED
      BY <2>2, FS_EmptySet, FS_AddElement
  <1> QED
    BY <1>1, <1>2

(* A worker is used for one run: whatever calls, refills, failures and     *)
(* shutdown interleave, no worker is ever given to two calls, sent two     *)
(* runs, or idle again once it was sent one (_take_worker and _refill).    *)
THEOREM WorkersUsedOnce == Spec => []WorkerUsedOnce
  <1>1. Spec => []Once
    <2>1. IInv => TypeOK
      BY DEF IInv
    <2> QED
      BY InitOnce, NextOnce, Inductive, <2>1, PTL DEF Spec
  <1>2. TypeOK /\ Once => WorkerUsedOnce
    <2> SUFFICES ASSUME TypeOK, Once
                 PROVE  WorkerUsedOnce
      OBVIOUS
    <2>1. ASSUME NEW w \in Workers
          PROVE  /\ Cardinality(given[w]) =< 1
                 /\ Cardinality({c \in Calls : worker[c] = w}) =< 1
                 /\ given[w] # {} => ~Listed(w) /\ adding # w
      <3>1. Cardinality(given[w]) =< 1
        BY AtMostOneElement DEF Once, Sent
      <3>2. w # 0
        BY DEF Workers
      <3>3. \A c, d \in {e \in Calls : worker[e] = w} : c = d
        BY <3>2 DEF Once, Owned
      <3>4. Cardinality({c \in Calls : worker[c] = w}) =< 1
        BY <3>3, AtMostOneElement
      <3> QED
        BY <3>1, <3>4 DEF Once, Sent, Listed
    <2>2. \A c \in Calls : worker[c] # 0 => ~Listed(worker[c])
      BY DEF Once, Owned, Listed
    <2> QED
      BY <2>1, <2>2 DEF WorkerUsedOnce
  <1>3. IInv => TypeOK
    BY DEF IInv
  <1> QED
    BY Inductive, <1>1, <1>2, <1>3, PTL

-----------------------------------------------------------------------------
(* A worker is appended by the refill thread that holds the lock, and the  *)
(* workers that shutdown() must stop are among those started.              *)
Locked == /\ adding # 0 => refilling
          /\ \A w \in early : w =< started
          /\ phase # "serving" => \A c \in Calls : pc[c] \in {"new", "done"}

Late == Locked /\ EarlyWorkersStopped

LEMMA NextLate == TypeOK /\ Late /\ [Next]_vars => Late'
  <1> SUFFICES ASSUME TypeOK, Late, [Next]_vars
               PROVE  Late'
    OBVIOUS
  <1> USE DEF Late, Locked, EarlyWorkersStopped, Listed, spare, life
  <1>0. /\ idle \in Seq(Workers) /\ started \in Nat /\ early \subseteq Workers
        /\ Workers \subseteq Nat \ {0} /\ pc \in [Calls -> CallSteps]
    BY PoolAssumption DEF TypeOK, Workers
  <1>1. ASSUME NEW c \in Calls, Arrive(c) \/ Expire(c) \/ Run(c), phase # "serving"
        PROVE  FALSE
    BY <1>1 DEF Arrive, Expire, Run, TakeOrRefuse, TakeSlot, WaitForSlot, AnswerBusy, Awake,
          TakeIdle, TakeFresh, Converse, PollNothing, ReadReady, SendRun, SendFails, ReadReply,
          AnswerAsk, ConversationRaises, ReadEndOfFile, OverMemory, OverTime, PollAgain,
          Checking, EndRun, ReleaseSlot, Timed
  <1>2. ASSUME NEW c \in Calls, Arrive(c) \/ Expire(c) \/ Run(c)
        PROVE  /\ UNCHANGED <<adding, refilling, phase, early>>
               /\ started' \in Nat /\ started =< started'
    <2>1. CASE TakeFresh(c)
      BY <1>0, <2>1 DEF TakeFresh, Spawn
    <2>2. CASE ~TakeFresh(c)
      <3>1. UNCHANGED <<adding, refilling, phase, early, started>>
        BY <1>2, <2>2 DEF Arrive, Expire, Run, TakeOrRefuse, TakeSlot, WaitForSlot,
              AnswerBusy, TakeIdle, Converse, PollNothing, ReadReady, SendRun, SendFails,
              ReadReply, AnswerAsk, ConversationRaises, ReadEndOfFile, OverMemory, OverTime,
              PollAgain, Fail, EndRun, ReleaseSlot
      <3> QED
        BY <1>0, <3>1
    <2> QED
      BY <2>1, <2>2
  <1>3. ASSUME NEW c \in Calls, Arrive(c) \/ Expire(c) \/ Run(c)
        PROVE  Late'
    <2>1. phase = "serving" /\ phase' = phase
      BY <1>1, <1>2, <1>3
    <2>2. /\ UNCHANGED <<adding, refilling, early>>
          /\ started' \in Nat /\ started =< started'
      BY <1>2, <1>3
    <2>3. \A w \in early : w \in Nat /\ w =< started
      BY <1>0
    <2> QED
      BY <1>0, <2>1, <2>2, <2>3
  <1>4. ASSUME NEW w \in Workers, WorkerStep(w)
        PROVE  Late'
    BY <1>4 DEF WorkerStep, SendReady, ReceiveRun, ReceiveNothing, Ask, ReceiveAnswer,
          SendReply, Exit, Rest, call
  <1>5. CASE LockRefill \/ UnlockRefill \/ StopIdle
    BY <1>5 DEF LockRefill, UnlockRefill, StopIdle, call
  <1>6. CASE RefillWorker
    <2>1. /\ adding' = started + 1 /\ started' = started + 1 /\ refilling
          /\ UNCHANGED <<idle, refilling, phase, early, pc>>
      BY <1>6 DEF RefillWorker, Spawn, call
    <2>2. \A w \in early : w \in Nat /\ w =< started
      BY <1>0
    <2> QED
      BY <1>0, <2>1, <2>2
  <1>7. CASE AppendWorker
    <2>1. /\ adding # 0 /\ idle' = Append(idle, adding) /\ adding' = 0
          /\ UNCHANGED <<refilling, phase, early, started, pc>>
      BY <1>7 DEF AppendWorker, call
    <2>2. adding \in Workers
      BY <2>1 DEF TypeOK, Workers
    <2>3. /\ Len(idle') = Len(idle) + 1 /\ idle'[Len(idle')] = adding
          /\ \A i \in 1..Len(idle) : idle'[i] = idle[i]
      BY <1>0, <2>1, <2>2
    <2> QED
      BY <1>0, <2>1, <2>3
  <1>8. CASE CallShutdown
    <2>1. /\ phase' = "stopping" /\ early' = 1..started
          /\ \A c \in Calls : pc[c] \in {"new", "done"}
          /\ UNCHANGED <<pc, started, adding, refilling>>
      BY <1>8 DEF CallShutdown, call
    <2> QED
      BY <1>0, <2>1
  <1>9. CASE ClearIdle
    <2>1. /\ phase = "stopping" /\ phase' = "cleared" /\ ~refilling /\ idle' = <<>>
          /\ UNCHANGED <<adding, early, refilling, started, pc>>
      BY <1>9 DEF ClearIdle, LockFree, call
    <2>2. adding = 0
      BY <2>1
    <2> QED
      BY <1>0, <2>1, <2>2
  <1>10. CASE UNCHANGED vars
    BY <1>10 DEF vars
  <1> QED
    BY <1>3, <1>4, <1>5, <1>6, <1>7, <1>8, <1>9, <1>10 DEF Next, Refill, Shutdown

(* The refill lock keeps every worker that was started before shutdown()   *)
(* from landing among the idle ones after it (shutdown and _refill).       *)
THEOREM ShutdownMissesNone == Spec => []EarlyWorkersStopped
  <1>1. Init => Late
    BY DEF Init, Late, Locked, EarlyWorkersStopped
  <1>2. IInv => TypeOK
    BY DEF IInv
  <1>3. Late => EarlyWorkersStopped
    BY DEF Late
  <1> QED
    BY Inductive, NextLate, <1>1, <1>2, <1>3, PTL DEF Spec
-----------------------------------------------------------------------------
(* Where a worker can be whose pipe the executor holds: with the refill    *)
(* thread that started it, among the idle ones, with a call, or among      *)
(* those that shutdown() has taken out.  Calls have no more than they have *)
(* slots, and the others are limited by what a refill looks at.            *)
Keeps(step) == step \in {"boot", "boot checks", "send", "run", "run checks", "stop"}

Employed(w) == \E c \in Calls : Keeps(pc[c]) /\ worker[c] = w

Roomy == /\ IF adding = 0 THEN Len(idle) =< Limit ELSE Len(idle) < Limit
         /\ phase # "cleared" => doomed = {}
         /\ doomed \subseteq Workers
         /\ IsFiniteSet(doomed) /\ Cardinality(doomed) =< Limit

Housed == \A w \in Workers : open[w] => \/ adding = w
                                        \/ Listed(w)
                                        \/ w \in doomed
                                        \/ Employed(w)

LEMMA FewListed ==
    ASSUME idle \in Seq(Workers)
    PROVE  /\ IsFiniteSet({w \in Workers : Listed(w)})
           /\ Cardinality({w \in Workers : Listed(w)}) =< Len(idle)
  <1> DEFINE T == {w \in Workers : Listed(w)}
             f == [i \in 1..Len(idle) |-> idle[i]]
  <1>1. \A i \in 1..Len(idle) : idle[i] \in T
    BY DEF Listed
  <1>2. f \in Surjection(1..Len(idle), T)
    BY <1>1 DEF Surjection, Listed
  <1>3. /\ IsFiniteSet(1..Len(idle))
        /\ Cardinality(1..Len(idle)) = Len(idle)
    <2>1. Len(idle) \in Nat
      OBVIOUS
    <2>2. Len(idle) \in Int /\ 1 \in Int
      BY <2>1
    <2>3. /\ IsFiniteSet(1..Len(idle))
          /\ Cardinality(1..Len(idle)) = IF 1 > Len(idle) THEN 0 ELSE Len(idle) - 1 + 1
      BY <2>2, FS_Interval, ZenonT(20)
    <2> QED
      BY <2>1, <2>3
  <1> HIDE DEF T, f
  <1>4. IsFiniteSet(T) /\ Cardinality(T) =< Cardinality(1..Len(idle))
    BY <1>2, <1>3, FS_Surjection
  <1> QED
    BY <1>3, <1>4 DEF T

LEMMA FewEmployed ==
    ASSUME TypeOK, Counted
    PROVE  /\ IsFiniteSet({w \in Workers : Employed(w)})
           /\ Cardinality({w \in Workers : Employed(w)}) =< Limit
  <1> DEFINE S == {c \in Calls : Keeps(pc[c]) /\ worker[c] \in Workers}
             T == {w \in Workers : Employed(w)}
             f == [c \in S |-> worker[c]]
  <1>1. S \in SUBSET SlotHolders
    <2>1. \A c \in Calls : Keeps(pc[c]) => pc[c] \in Holds
      BY DEF Holds, Keeps
    <2> QED
      BY <2>1 DEF SlotHolders
  <1>2. f \in Surjection(S, T)
    BY DEF Surjection, Employed
  <1>3. IsFiniteSet(SlotHolders) /\ Cardinality(SlotHolders) \in Nat
        /\ Cardinality(SlotHolders) =< Limit /\ Limit \in Nat
    BY FS_CardinalityType, PoolAssumption DEF Counted
  <1> HIDE DEF S, T, f
  <1>4. IsFiniteSet(S) /\ Cardinality(S) =< Cardinality(SlotHolders)
    BY <1>1, <1>3, FS_Subset
  <1>5. IsFiniteSet(T) /\ Cardinality(T) =< Cardinality(S)
    BY <1>2, <1>4, FS_Surjection
  <1>6. Cardinality(S) \in Nat /\ Cardinality(T) \in Nat
    BY <1>4, <1>5, FS_CardinalityType
  <1>7. Cardinality(T) =< Limit
    BY <1>3, <1>4, <1>5, <1>6
  <1> QED
    BY <1>5, <1>7 DEF T

(* A step that opens no pipe, and takes no worker from where it is.        *)
LEMMA HousedKept ==
    ASSUME Housed, UNCHANGED <<adding, idle, doomed>>,
           \A w \in Workers : open'[w] => open[w],
           \A w \in Workers : open'[w] /\ Employed(w) => Employed(w)'
    PROVE  Housed'
  BY DEF Housed, Listed

LEMMA ConverseApart ==
    ASSUME NEW c \in Calls, Converse(c)
    PROVE  /\ UNCHANGED <<spare, life, worker>>
           /\ ConversationRaises(c) \/ UNCHANGED open
  <1>1. ASSUME ReadReady(c) \/ SendRun(c) \/ ReadReply(c) \/ AnswerAsk(c)
        PROVE  UNCHANGED <<spare, life, worker, open>>
    BY <1>1 DEF ReadReady, SendRun, ReadReply, AnswerAsk, call
  <1>2. ASSUME PollNothing(c) \/ PollAgain(c)
        PROVE  UNCHANGED <<spare, life, worker, open>>
    BY <1>2 DEF PollNothing, PollAgain, pipes
  <1>3. ASSUME SendFails(c) \/ ReadEndOfFile(c) \/ OverMemory(c) \/ OverTime(c)
        PROVE  UNCHANGED <<spare, life, worker, open>>
    BY <1>3 DEF SendFails, ReadEndOfFile, OverMemory, OverTime, Fail, pipes
  <1>4. ASSUME ConversationRaises(c)
        PROVE  UNCHANGED <<spare, life, worker>>
    BY <1>4 DEF ConversationRaises
  <1> QED
    BY <1>1, <1>2, <1>3, <1>4 DEF Converse

LEMMA ConverseKeeps ==
    ASSUME TypeOK, NEW c \in Calls, Converse(c), ~ConversationRaises(c)
    PROVE  \A d \in Calls : Keeps(pc[d]) => Keeps(pc'[d])
  <1>0. pc \in [Calls -> CallSteps]
    BY DEF TypeOK
  <1>1. CASE AnswerAsk(c)
    BY <1>1 DEF AnswerAsk, call
  <1>2. CASE ~AnswerAsk(c)
    <2>1. \/ Move(c, "boot checks") \/ Move(c, "run checks") \/ Move(c, "send")
          \/ Move(c, "run") \/ Move(c, "stop") \/ Move(c, "boot")
      BY <1>2 DEF Converse, PollNothing, ReadReady, SendRun, SendFails, ReadReply,
            ReadEndOfFile, OverMemory, OverTime, PollAgain, Fail
    <2>2. PICK step : Keeps(step) /\ pc' = [pc EXCEPT ![c] = step]
      BY <2>1 DEF Move, Keeps
    <2> QED
      BY <1>0, <2>2
  <1> QED
    BY <1>1, <1>2

LEMMA NextRoomy ==
    ASSUME TypeOK, Locked, Roomy, [Next]_vars
    PROVE  Roomy'
  <1>0. /\ idle \in Seq(Workers) /\ Limit \in Nat /\ Len(idle) \in Nat
        /\ started \in Nat /\ adding \in 0..MaxWorkers
        /\ Workers \subseteq Nat \ {0}
    BY PoolAssumption DEF TypeOK, Workers
  <1>1. ASSUME NEW c \in Calls, Arrive(c) \/ Expire(c) \/ (Run(c) /\ ~TakeIdle(c))
        PROVE  Roomy'
    <2>1. CASE Arrive(c) \/ Expire(c) \/ TakeOrRefuse(c) \/ TakeFresh(c) \/ EndRun(c)
                  \/ ReleaseSlot(c)
      BY <2>1 DEF Arrive, Expire, TakeOrRefuse, TakeSlot, WaitForSlot, AnswerBusy,
            TakeFresh, EndRun, ReleaseSlot, spare, life, Roomy
    <2>2. CASE Converse(c)
      <3>1. UNCHANGED <<spare, life>>
        BY <2>2, ConverseApart
      <3> QED
        BY <3>1 DEF spare, life, Roomy
    <2> QED
      BY <1>1, <2>1, <2>2 DEF Run
  <1>2. ASSUME NEW c \in Calls, TakeIdle(c)
        PROVE  Roomy'
    <2>1. /\ idle # <<>> /\ idle' = Tail(idle)
          /\ UNCHANGED <<adding, phase, doomed>>
      BY <1>2 DEF TakeIdle, Popped, life
    <2>2. Len(idle') = Len(idle) - 1
      BY <1>0, <2>1
    <2> QED
      BY <1>0, <2>1, <2>2 DEF Roomy
  <1>3. ASSUME NEW w \in Workers, WorkerStep(w)
        PROVE  Roomy'
    BY <1>3 DEF WorkerStep, SendReady, ReceiveRun, ReceiveNothing, Ask, ReceiveAnswer,
          SendReply, Exit, Rest, spare, life, Roomy
  <1>4. CASE LockRefill \/ UnlockRefill \/ CallShutdown
    BY <1>4 DEF LockRefill, UnlockRefill, CallShutdown, spare, life, Roomy
  <1>5. CASE RefillWorker
    <2>1. /\ adding = 0 /\ adding' = started + 1 /\ ~(Len(idle) >= Limit)
          /\ UNCHANGED <<idle, phase, doomed>>
      BY <1>5 DEF RefillWorker, Full, life
    <2> QED
      BY <1>0, <2>1 DEF Roomy
  <1>6. CASE AppendWorker
    <2>1. /\ adding # 0 /\ idle' = Append(idle, adding) /\ adding' = 0
          /\ UNCHANGED <<phase, doomed>>
      BY <1>6 DEF AppendWorker, life
    <2>2. Len(idle') = Len(idle) + 1
      BY <1>0, <2>1
    <2> QED
      BY <1>0, <2>1, <2>2 DEF Roomy
  <1>7. CASE ClearIdle
    <2>1. /\ phase' = "cleared" /\ idle' = <<>> /\ adding' = adding /\ ~refilling
          /\ doomed' = {w \in Workers : Listed(w)}
      BY <1>7 DEF ClearIdle, LockFree
    <2>2. adding = 0 /\ Len(idle) =< Limit
      BY <2>1 DEF Locked, Roomy
    <2>3. /\ IsFiniteSet(doomed') /\ Cardinality(doomed') =< Len(idle)
          /\ doomed' \subseteq Workers
      BY <1>0, <2>1, FewListed
    <2>4. Cardinality(doomed') \in Nat
      BY <2>3, FS_CardinalityType
    <2>5. Len(idle') = 0
      BY <2>1
    <2> QED
      BY <1>0, <2>1, <2>2, <2>3, <2>4, <2>5 DEF Roomy
  <1>8. CASE StopIdle
    <2>1. PICK w \in doomed : doomed' = doomed \ {w}
      BY <1>8 DEF StopIdle
    <2>2. UNCHANGED <<adding, idle, phase>>
      BY <1>8 DEF StopIdle, spare
    <2>3. doomed' \in SUBSET doomed /\ IsFiniteSet(doomed)
      BY <2>1 DEF Roomy
    <2>4. IsFiniteSet(doomed') /\ Cardinality(doomed') =< Cardinality(doomed)
      BY <2>3, FS_Subset
    <2>5. Cardinality(doomed') \in Nat /\ Cardinality(doomed) \in Nat
      BY <2>3, <2>4, FS_CardinalityType
    <2> QED
      BY <1>0, <2>2, <2>3, <2>4, <2>5 DEF Roomy
  <1>9. CASE UNCHANGED vars
    BY <1>9 DEF vars, Roomy
  <1> QED
    BY <1>1, <1>2, <1>3, <1>4, <1>5, <1>6, <1>7, <1>8, <1>9 DEF Next, Refill, Shutdown

LEMMA NextHoused ==
    ASSUME TypeOK, Locked, Roomy, Housed, [Next]_vars
    PROVE  Housed'
  <1>0. /\ pc \in [Calls -> CallSteps] /\ worker \in [Calls -> 0..MaxWorkers]
        /\ idle \in Seq(Workers) /\ started \in Nat
        /\ open \in [Workers -> BOOLEAN]
    BY DEF TypeOK
  <1>1. ASSUME NEW c \in Calls, \/ Arrive(c) \/ Expire(c) \/ TakeOrRefuse(c)
                                \/ Converse(c) /\ ~ConversationRaises(c)
        PROVE  Housed'
    <2>1. CASE Arrive(c) \/ Expire(c) \/ TakeOrRefuse(c)
      <3>1. UNCHANGED <<adding, idle, doomed, open, worker>>
        BY <2>1 DEF Arrive, Expire, TakeOrRefuse, TakeSlot, WaitForSlot, AnswerBusy, spare,
              life, pipes
      <3>2. \A d \in Calls : Keeps(pc[d]) => pc'[d] = pc[d]
        BY <1>0, <2>1 DEF Arrive, Expire, TakeOrRefuse, TakeSlot, WaitForSlot, AnswerBusy,
              Awake, Move, Keeps
      <3> QED
        BY <3>1, <3>2, HousedKept DEF Employed
    <2>2. CASE Converse(c) /\ ~ConversationRaises(c)
      <3>1. UNCHANGED <<spare, life, worker, open>>
        BY <2>2, ConverseApart
      <3>2. \A d \in Calls : Keeps(pc[d]) => Keeps(pc'[d])
        BY <2>2, ConverseKeeps
      <3> QED
        BY <3>1, <3>2, HousedKept DEF Employed, spare, life
    <2> QED
      BY <1>1, <2>1, <2>2
  <1>2. ASSUME NEW c \in Calls, EndRun(c) \/ ConversationRaises(c)
        PROVE  Housed'
    <2>1. /\ open' = [open EXCEPT ![worker[c]] = FALSE]
          /\ pc' = [pc EXCEPT ![c] = "release"]
          /\ UNCHANGED <<adding, idle, doomed, worker>>
      BY <1>2 DEF EndRun, Stopped, ConversationRaises, Move, spare, life
    <2>2. \A w \in Workers : open'[w] => open[w] /\ w # worker[c]
      BY <1>0, <2>1
    <2>3. \A d \in Calls : d # c => pc'[d] = pc[d]
      BY <1>0, <2>1
    <2> QED
      BY <2>1, <2>2, <2>3, HousedKept DEF Employed
  <1>3. ASSUME NEW c \in Calls, ReleaseSlot(c)
        PROVE  Housed'
    <2>1. /\ pc[c] = "release" /\ pc' = [pc EXCEPT ![c] = "done"]
          /\ worker' = [worker EXCEPT ![c] = 0]
          /\ UNCHANGED <<adding, idle, doomed, open>>
      BY <1>3 DEF ReleaseSlot, Move, spare, life, pipes
    <2>2. \A d \in Calls : d # c => pc'[d] = pc[d] /\ worker'[d] = worker[d]
      BY <1>0, <2>1
    <2>3. ~Keeps(pc[c])
      BY <2>1 DEF Keeps
    <2> QED
      BY <2>1, <2>2, <2>3, HousedKept DEF Employed
  <1>4. ASSUME NEW c \in Calls, TakeIdle(c)
        PROVE  Housed'
    <2>1. /\ pc[c] = "take" /\ pc' = [pc EXCEPT ![c] = "boot"] /\ idle # <<>>
          /\ worker' = [worker EXCEPT ![c] = Head(idle)] /\ idle' = Tail(idle)
          /\ UNCHANGED <<adding, doomed, open>>
      BY <1>4 DEF TakeIdle, Popped, Move, life, pipes
    <2>2. /\ pc'[c] = "boot" /\ worker'[c] = idle[1]
          /\ \A d \in Calls : d # c => pc'[d] = pc[d] /\ worker'[d] = worker[d]
      BY <1>0, <2>1
    <2>3. ~Keeps(pc[c]) /\ Keeps("boot")
      BY <2>1 DEF Keeps
    <2>4. \A w \in Workers : Employed(w) \/ w = idle[1] => Employed(w)'
      BY <2>2, <2>3 DEF Employed
    <2>5. \A w \in Workers : Listed(w) => w = idle[1] \/ Listed(w)'
      <3> SUFFICES ASSUME NEW i \in 1..Len(idle), i # 1
                   PROVE  \E j \in 1..Len(idle') : idle'[j] = idle[i]
        BY DEF Listed
      <3>1. Len(idle') = Len(idle) - 1 /\ i - 1 \in 1..Len(idle') /\ idle'[i - 1] = idle[i]
        BY <1>0, <2>1
      <3> QED
        BY <3>1
    <2> QED
      BY <2>1, <2>4, <2>5 DEF Housed
  <1>5. ASSUME NEW c \in Calls, TakeFresh(c)
        PROVE  Housed'
    <2>1. /\ pc[c] = "take" /\ pc' = [pc EXCEPT ![c] = "boot"]
          /\ worker' = [worker EXCEPT ![c] = started + 1]
          /\ open' = [open EXCEPT ![started + 1] = TRUE]
          /\ UNCHANGED <<adding, doomed, idle>>
      BY <1>5 DEF TakeFresh, Spawn, Move, life
    <2>2. /\ pc'[c] = "boot" /\ worker'[c] = started + 1
          /\ \A d \in Calls : d # c => pc'[d] = pc[d] /\ worker'[d] = worker[d]
      BY <1>0, <2>1
    <2>3. ~Keeps(pc[c]) /\ Keeps("boot")
      BY <2>1 DEF Keeps
    <2>4. \A w \in Workers : Employed(w) \/ w = started + 1 => Employed(w)'
      BY <2>2, <2>3 DEF Employed
    <2>5. \A w \in Workers : open'[w] => open[w] \/ w = started + 1
      BY <1>0, <2>1
    <2>6. \A w \in Workers : Listed(w)' <=> Listed(w)
      BY <2>1 DEF Listed
    <2> QED
      BY <2>1, <2>4, <2>5, <2>6 DEF Housed
  <1>6. ASSUME NEW w \in Workers, WorkerStep(w)
        PROVE  Housed'
    <2>1. UNCHANGED <<adding, idle, doomed, open, pc, worker>>
      BY <1>6 DEF WorkerStep, SendReady, ReceiveRun, ReceiveNothing, Ask, ReceiveAnswer,
            SendReply, Exit, Rest, spare, life, call
    <2> QED
      BY <2>1, HousedKept DEF Employed
  <1>7. CASE LockRefill \/ UnlockRefill \/ CallShutdown
    <2>1. UNCHANGED <<adding, idle, doomed, open, pc, worker>>
      BY <1>7 DEF LockRefill, UnlockRefill, CallShutdown, spare, life, call, pipes
    <2> QED
      BY <2>1, HousedKept DEF Employed
  <1>8. CASE RefillWorker
    <2>1. /\ adding = 0 /\ adding' = started + 1
          /\ open' = [open EXCEPT ![started + 1] = TRUE]
          /\ UNCHANGED <<doomed, idle, pc, worker>>
      BY <1>8 DEF RefillWorker, Spawn, life, call
    <2>2. \A w \in Workers : open'[w] => open[w] \/ w = started + 1
      BY <1>0, <2>1
    <2>3. \A w \in Workers : /\ Listed(w)' <=> Listed(w)
                             /\ Employed(w)' <=> Employed(w)
                             /\ w # 0
      BY <2>1 DEF Listed, Employed, Workers
    <2> QED
      BY <2>1, <2>2, <2>3 DEF Housed
  <1>9. CASE AppendWorker
    <2>1. /\ adding # 0 /\ idle' = Append(idle, adding) /\ adding' = 0
          /\ UNCHANGED <<doomed, open, pc, worker>>
      BY <1>9 DEF AppendWorker, life, call, pipes
    <2>2. adding \in Workers
      BY <2>1, PoolAssumption DEF TypeOK, Workers
    <2>3. /\ Len(idle') = Len(idle) + 1 /\ idle'[Len(idle')] = adding
          /\ \A i \in 1..Len(idle) : idle'[i] = idle[i]
      BY <1>0, <2>1, <2>2
    <2>4. Len(idle) \in Nat
      BY <1>0
    <2>5. \A w \in Workers : Listed(w) \/ adding = w => Listed(w)'
      BY <2>3, <2>4 DEF Listed
    <2>6. \A w \in Workers : Employed(w)' <=> Employed(w)
      BY <2>1 DEF Employed
    <2> QED
      BY <2>1, <2>5, <2>6 DEF Housed
  <1>10. CASE ClearIdle
    <2>1. /\ phase = "stopping" /\ doomed' = {w \in Workers : Listed(w)}
          /\ UNCHANGED <<adding, open, pc, worker>>
      BY <1>10 DEF ClearIdle, call, pipes
    <2>2. doomed = {}
      BY <2>1 DEF Roomy
    <2>3. \A w \in Workers : Employed(w)' <=> Employed(w)
      BY <2>1 DEF Employed
    <2> QED
      BY <2>1, <2>2, <2>3 DEF Housed
  <1>11. CASE StopIdle
    <2>1. PICK w \in doomed : Stopped(w) /\ doomed' = doomed \ {w}
      BY <1>11 DEF StopIdle
    <2>2. /\ open' = [open EXCEPT ![w] = FALSE] /\ doomed' = doomed \ {w}
          /\ UNCHANGED <<adding, idle, pc, worker>>
      BY <1>11, <2>1 DEF StopIdle, Stopped, spare, call
    <2>3. \A v \in Workers : open'[v] => open[v] /\ v # w
      BY <1>0, <2>2
    <2>4. \A v \in Workers : /\ Listed(v)' <=> Listed(v)
                             /\ Employed(v)' <=> Employed(v)
      BY <2>2 DEF Listed, Employed
    <2> QED
      BY <2>2, <2>3, <2>4 DEF Housed
  <1>12. CASE UNCHANGED vars
    BY <1>12, HousedKept DEF vars, Employed
  <1> QED
    BY <1>1, <1>2, <1>3, <1>4, <1>5, <1>6, <1>7, <1>8, <1>9, <1>10, <1>11, <1>12
       DEF Next, Run, Refill, Shutdown

LEMMA TwoShares ==
    ASSUME NEW p \in Nat, NEW q \in Nat, NEW both \in Nat, NEW w \in Nat, NEW n \in Nat,
           p =< n, q =< n, w =< p + q - both
    PROVE  w =< 2 * n
  OBVIOUS

LEMMA HousedAreFew ==
    ASSUME IInv, Locked, Roomy, Housed
    PROVE  ProcessesBounded
  <1> DEFINE W == {w \in Workers : proc[w] \in Alive /\ open[w]}
             I == {w \in Workers : Listed(w)}
             E == {w \in Workers : Employed(w)}
             A == I \cup {adding}
  <1>0. /\ TypeOK /\ Counted /\ Limit \in Nat /\ Len(idle) \in Nat
        /\ idle \in Seq(Workers)
    BY PoolAssumption DEF IInv, TypeOK
  <1>1. /\ IsFiniteSet(I) /\ Cardinality(I) =< Len(idle)
        /\ IsFiniteSet(E) /\ Cardinality(E) =< Limit
        /\ IsFiniteSet(doomed) /\ Cardinality(doomed) =< Limit
    BY <1>0, FewListed, FewEmployed DEF Roomy
  <1>2. W \subseteq A \cup E \cup doomed /\ (adding = 0 => W \subseteq I \cup E \cup doomed)
    BY DEF Housed, Workers
  <1>3. E = {} \/ doomed = {}
    <2>1. CASE phase = "serving"
      BY <2>1 DEF Roomy
    <2>2. CASE phase # "serving"
      BY <2>2 DEF Employed, Keeps, Locked
    <2> QED
      BY <2>1, <2>2
  <1> HIDE DEF W, I, E
  <1>4. /\ Cardinality(I) \in Nat /\ Cardinality(E) \in Nat /\ Cardinality(doomed) \in Nat
        /\ IsFiniteSet(A) /\ Cardinality(A) =< Cardinality(I) + 1
    <2>1. /\ Cardinality(I) \in Nat /\ Cardinality(E) \in Nat
          /\ Cardinality(doomed) \in Nat
      BY <1>1, FS_CardinalityType
    <2>2. /\ IsFiniteSet(A)
          /\ Cardinality(A) = IF adding \in I THEN Cardinality(I) ELSE Cardinality(I) + 1
      BY <1>1, FS_AddElement
    <2> QED
      BY <2>1, <2>2
  <1>5. Cardinality(A) \in Nat
    BY <1>4, FS_CardinalityType
  <1>6. PICK P : /\ IsFiniteSet(P) /\ Cardinality(P) =< Limit /\ Cardinality(P) \in Nat
                 /\ W \subseteq P \cup E \cup doomed
    <2>1. CASE adding = 0
      BY <1>0, <1>1, <1>2, <1>4, <2>1 DEF Roomy
    <2>2. CASE adding # 0
      <3>1. Cardinality(A) =< Limit
        BY <1>0, <1>1, <1>4, <1>5, <2>2 DEF Roomy
      <3> QED
        BY <1>2, <1>4, <1>5, <3>1
    <2> QED
      BY <2>1, <2>2
  <1>7. PICK Q : /\ IsFiniteSet(Q) /\ Cardinality(Q) =< Limit /\ Cardinality(Q) \in Nat
                 /\ W \subseteq P \cup Q
    BY <1>1, <1>3, <1>4, <1>6
  <1>8. /\ IsFiniteSet(P \cup Q)
        /\ Cardinality(P \cup Q) = Cardinality(P) + Cardinality(Q) - Cardinality(P \cap Q)
        /\ IsFiniteSet(P \cap Q)
    BY <1>6, <1>7, FS_Union, FS_Intersection
  <1>9. /\ W \in SUBSET (P \cup Q) /\ IsFiniteSet(W)
        /\ Cardinality(W) =< Cardinality(P \cup Q)
    BY <1>7, <1>8, FS_Subset
  <1>10. /\ Cardinality(W) \in Nat /\ Cardinality(P \cap Q) \in Nat
         /\ Cardinality(P \cup Q) \in Nat
    BY <1>8, <1>9, FS_CardinalityType
  <1>11. Cardinality(W) =< 2 * Limit
    BY <1>0, <1>6, <1>7, <1>8, <1>9, <1>10, TwoShares
  <1> QED
    BY <1>11 DEF W, ProcessesBounded

(* No more processes than two to a slot, however calls, deaths, refills    *)
(* and shutdown interleave (_take_worker, _refill and shutdown).           *)
THEOREM FewProcesses == Spec => []ProcessesBounded
  <1>1. Init => Late /\ Roomy /\ Housed
    BY FS_EmptySet, PoolAssumption
       DEF Init, Late, Locked, EarlyWorkersStopped, Roomy, Housed
  <1>2. TypeOK /\ Late /\ Roomy /\ Housed /\ [Next]_vars => Late' /\ Roomy' /\ Housed'
    BY NextLate, NextRoomy, NextHoused DEF Late
  <1>3. IInv => TypeOK
    BY DEF IInv
  <1>4. IInv /\ Late /\ Roomy /\ Housed => ProcessesBounded
    BY HousedAreFew DEF Late
  <1> QED
    BY Inductive, <1>1, <1>2, <1>3, <1>4, PTL DEF Spec

-----------------------------------------------------------------------------
(* The answers match what ran.                                             *)
(*                                                                         *)
(* What a call may say of its tool follows from where it is (Honest), and  *)
(* what a worker does or has said from the run that was sent to it         *)
(* (Working), which is nobody else's (Once).                               *)

Before(step) == step \in {"new", "slot", "wait", "take", "boot", "boot checks", "send"}
Sending(step) == step \in {"run", "run checks"}
Employing(step) == Fresh(step) \/ Sending(step) \/ step \in {"stop", "release"}
Repeatable == {"busy", "never started"}

(* The worker has begun a tool, or says what only a tool or its end says.  *)
Used(w) == proc[w] \in {"tool", "asking", "leaving"} \/ toPool[w] \in {"ask", "reply"}

Working ==
    /\ \A w \in Workers : Used(w) => given[w] # {} /\ given[w] \subseteq ran
    /\ \A w \in Workers : toWorker[w] = "run" => given[w] # {}
    /\ \A c \in ran : \E w \in Workers : c \in given[w]

Honest(c) ==
    /\ Employing(pc[c]) => worker[c] \in Workers
    /\ Before(pc[c]) \/ Sending(pc[c]) => answer[c] = "none"
    /\ Before(pc[c]) \/ answer[c] \in Repeatable => \A w \in Workers : c \notin given[w]
    /\ Sending(pc[c]) => c \in given[worker[c]]
    /\ answer[c] = "result" => c \in ran
    /\ pc[c] = "release" /\ answer[c] # "raised" => Gone(worker[c])

Matched == Working /\ \A c \in Calls : Honest(c)

-----------------------------------------------------------------------------
LEMMA InitMatched == Init => Matched
  BY PoolAssumption DEF Init, Matched, Working, Used, Honest, Employing, Fresh, Sending

(* A step that is none of this call's ...                                  *)
LEMMA HonestApart ==
    ASSUME NEW d \in Calls, Honest(d),
           pc'[d] = pc[d], answer'[d] = answer[d], worker'[d] = worker[d],
           \A w \in Workers : d \in given'[w] <=> d \in given[w], ran \subseteq ran',
           worker[d] \in Workers /\ Gone(worker[d]) => proc'[worker[d]] = "dead"
    PROVE  Honest(d)'
  BY DEF Honest, Gone, Employing, Fresh, Sending

(* ... and one that brings no worker further.                              *)
LEMMA WorkingKept ==
    ASSUME Working, UNCHANGED <<given, ran>>,
           \A w \in Workers : Used(w)' => Used(w),
           \A w \in Workers : toWorker'[w] = "run" => toWorker[w] = "run"
    PROVE  Working'
  BY DEF Working

Only(c) == \A d \in Calls \ {c} :
               pc'[d] = pc[d] /\ answer'[d] = answer[d] /\ worker'[d] = worker[d]

-----------------------------------------------------------------------------
(* Steps of a call that leave its worker alone                             *)
Aside(c) ==
    \/ Arrive(c) \/ Expire(c) \/ TakeOrRefuse(c) \/ PollNothing(c) \/ PollAgain(c)
    \/ SendFails(c) \/ ReadEndOfFile(c) \/ OverMemory(c) \/ OverTime(c)
    \/ TakeIdle(c) \/ ReleaseSlot(c)

LEMMA FailHonest ==
    ASSUME TypeOK, NEW c \in Calls, Honest(c), NEW failure \in {"over memory", "over time", "stopped"},
           Fail(c, failure), pc[c] \in {"boot", "boot checks", "send", "run", "run checks"}
    PROVE  Honest(c)' /\ Only(c) /\ UNCHANGED <<pipes, given, ran>>
  <1>1. /\ pc'[c] = "stop" /\ answer'[c] = IF Booting(c) THEN "never started" ELSE failure
        /\ UNCHANGED <<worker, pipes, given, ran>>
    BY DEF Fail, Move, TypeOK
  <1>2. Only(c)
    BY DEF Fail, Move, TypeOK, Only
  <1>3. answer'[c] \in Repeatable => Before(pc[c])
    BY <1>1 DEF Booting, Before, Repeatable
  <1>4. answer'[c] # "result"
    BY <1>1
  <1>5. worker[c] \in Workers
    BY DEF Honest, Employing, Fresh, Sending
  <1> QED
    BY <1>1, <1>2, <1>3, <1>4, <1>5 DEF Honest, Before, Employing, Fresh, Sending

LEMMA AsideHonest ==
    ASSUME IInv, Once, NEW c \in Calls, Honest(c), Aside(c)
    PROVE  Honest(c)' /\ Only(c) /\ UNCHANGED <<pipes, given, ran>>
  <1>1. TypeOK
    BY DEF IInv
  <1>2. CASE Arrive(c)
    BY <1>1, <1>2 DEF Arrive, Move, TypeOK, Honest, Before, Employing, Fresh, Sending,
                      Only, pipes
  <1>3. CASE Expire(c)
    BY <1>3 DEF Expire, Honest, Only, pipes, Gone
  <1>4. CASE TakeOrRefuse(c)
    <2>1. \/ pc'[c] \in {"take", "wait"} /\ answer' = answer
          \/ pc'[c] = "done" /\ answer'[c] = "busy"
      <3>1. TakeSlot(c) => pc'[c] = "take" /\ answer' = answer
        BY <1>1 DEF TakeSlot, Move, TypeOK
      <3>2. WaitForSlot(c) => pc'[c] = "wait" /\ answer' = answer
        BY <1>1 DEF WaitForSlot, Move, TypeOK
      <3>3. AnswerBusy(c) => pc'[c] = "done" /\ answer'[c] = "busy"
        BY <1>1 DEF AnswerBusy, Move, TypeOK
      <3> QED
        BY <1>4, <3>1, <3>2, <3>3 DEF TakeOrRefuse
    <2>2. Only(c) /\ UNCHANGED <<worker, pipes, given, ran>>
      BY <1>1, <1>4 DEF TakeOrRefuse, TakeSlot, WaitForSlot, AnswerBusy, Move, TypeOK, Only
    <2>3. Before(pc[c])
      BY <1>4 DEF TakeOrRefuse, TakeSlot, WaitForSlot, AnswerBusy, Awake, Before
    <2> QED
      BY <2>1, <2>2, <2>3 DEF Honest, Before, Employing, Fresh, Sending
  <1>5. CASE PollNothing(c) \/ PollAgain(c)
    <2>1. \/ pc[c] \in {"boot", "boot checks"} /\ pc'[c] \in {"boot", "boot checks"}
          \/ pc[c] \in {"run", "run checks"} /\ pc'[c] \in {"run", "run checks"}
      BY <1>1, <1>5 DEF PollNothing, PollAgain, Checking, Move, TypeOK
    <2>2. Only(c) /\ UNCHANGED <<answer, worker, pipes, given, ran>>
      BY <1>1, <1>5 DEF PollNothing, PollAgain, Move, TypeOK, Only
    <2> QED
      BY <2>1, <2>2 DEF Honest, Before, Employing, Fresh, Sending
  <1>6. CASE SendFails(c) \/ ReadEndOfFile(c) \/ OverMemory(c) \/ OverTime(c)
    BY <1>1, <1>6, FailHonest DEF SendFails, ReadEndOfFile, OverMemory, OverTime, Checking
  <1>7. CASE TakeIdle(c)
    <2>1. /\ pc[c] = "take" /\ pc'[c] = "boot" /\ worker'[c] = Head(idle)
          /\ UNCHANGED <<answer, pipes, given, ran>> /\ idle # <<>>
      BY <1>1, <1>7 DEF TakeIdle, Move, TypeOK
    <2>2. Head(idle) \in Workers
      BY <1>1, <2>1 DEF TypeOK
    <2>3. Only(c)
      BY <1>1, <1>7 DEF TakeIdle, Move, TypeOK, Only
    <2> QED
      BY <2>1, <2>2, <2>3 DEF Honest, Before, Employing, Fresh, Sending
  <1>8. CASE ReleaseSlot(c)
    <2>1. /\ pc'[c] = "done" /\ UNCHANGED <<answer, pipes, given, ran>> /\ Only(c)
      BY <1>1, <1>8 DEF ReleaseSlot, Move, TypeOK, Only
    <2> QED
      BY <2>1 DEF Honest, Before, Employing, Fresh, Sending
  <1> QED
    BY <1>2, <1>3, <1>4, <1>5, <1>6, <1>7, <1>8 DEF Aside

-----------------------------------------------------------------------------
(* What a call reads from its worker's pipe, and its end                   *)
Reads(c) == ReadReady(c) \/ ReadReply(c) \/ AnswerAsk(c) \/ ConversationRaises(c) \/ EndRun(c)

LEMMA ReadsHonest ==
    ASSUME IInv, Working, NEW c \in Calls, Honest(c), Reads(c)
    PROVE  /\ Honest(c)' /\ Only(c) /\ UNCHANGED <<given, ran>>
           /\ \A w \in Workers : Used(w)' => Used(w)
           /\ \A w \in Workers : toWorker'[w] = "run" => toWorker[w] = "run"
           /\ \A w \in Workers : Gone(w) => Gone(w)'
  <1>1. TypeOK
    BY DEF IInv
  <1>2. CASE ReadReady(c)
    <2>1. /\ pc[c] = "boot" /\ pc'[c] = "send"
          /\ toPool' = [toPool EXCEPT ![worker[c]] = "none"]
          /\ UNCHANGED <<answer, worker, proc, toWorker, given, ran>> /\ Only(c)
      BY <1>1, <1>2 DEF ReadReady, Move, TypeOK, Only
    <2> QED
      BY <1>1, <2>1 DEF Honest, Before, Employing, Fresh, Sending, Used, Gone, TypeOK
  <1>3. CASE ReadReply(c)
    <2>1. /\ pc[c] = "run" /\ pc'[c] = "stop" /\ toPool[worker[c]] = "reply"
          /\ toPool' = [toPool EXCEPT ![worker[c]] = "none"] /\ answer'[c] = "result"
          /\ UNCHANGED <<worker, proc, toWorker, given, ran>> /\ Only(c)
      BY <1>1, <1>3 DEF ReadReply, Move, TypeOK, Only
    <2>2. worker[c] \in Workers /\ c \in given[worker[c]]
      BY <2>1 DEF Honest, Employing, Sending
    <2>3. c \in ran
      BY <2>1, <2>2 DEF Working, Used
    <2> QED
      BY <1>1, <2>1, <2>2, <2>3 DEF Honest, Before, Employing, Fresh, Sending, Used, Gone,
                                    Repeatable, TypeOK
  <1>4. CASE AnswerAsk(c)
    <2>1. /\ pc[c] = "run" /\ UNCHANGED <<pc, answer, worker, proc, given, ran>>
          /\ toPool' = [toPool EXCEPT ![worker[c]] = "none"]
          /\ toWorker' = [toWorker EXCEPT ![worker[c]] = "answer"]
      BY <1>4 DEF AnswerAsk, call
    <2> QED
      BY <1>1, <2>1 DEF Honest, Only, Used, Gone, TypeOK
  <1>5. CASE ConversationRaises(c)
    <2>1. /\ Employing(pc[c]) /\ pc'[c] = "release" /\ answer'[c] = "raised"
          /\ toPool' = [toPool EXCEPT ![worker[c]] = "none"]
          /\ UNCHANGED <<worker, proc, toWorker, given, ran>> /\ Only(c)
      BY <1>1, <1>5 DEF ConversationRaises, Move, TypeOK, Only, Employing, Fresh, Sending
    <2> QED
      BY <1>1, <2>1 DEF Honest, Before, Employing, Fresh, Sending, Used, Gone, Repeatable,
                        TypeOK
  <1>6. CASE EndRun(c)
    <2>1. /\ pc[c] = "stop" /\ pc'[c] = "release"
          /\ proc' = [proc EXCEPT ![worker[c]] = "dead"]
          /\ UNCHANGED <<answer, worker, toWorker, toPool, given, ran>> /\ Only(c)
      BY <1>1, <1>6 DEF EndRun, Stopped, Move, TypeOK, Only
    <2>2. worker[c] \in Workers
      BY <2>1 DEF Honest, Employing
    <2>3. proc'[worker'[c]] = "dead"
      BY <1>1, <2>1, <2>2 DEF TypeOK
    <2> QED
      BY <1>1, <2>1, <2>2, <2>3 DEF Honest, Before, Employing, Fresh, Sending, Used, Gone,
                                    TypeOK
  <1> QED
    BY <1>2, <1>3, <1>4, <1>5, <1>6 DEF Reads
-----------------------------------------------------------------------------
(* The steps that start a worker, give it its run, or are its own          *)
LEMMA SpawnKeeps ==
    ASSUME TypeOK, Once, Working, Spawn
    PROVE  /\ Working' /\ started + 1 \in Workers /\ UNCHANGED <<given, ran>>
           /\ \A c \in Calls : worker[c] \in Workers /\ Gone(worker[c]) =>
                                proc'[worker[c]] = "dead"
           /\ \A c \in Calls : c \notin given[started + 1]
  <1>1. /\ started + 1 \in Workers /\ given[started + 1] = {}
        /\ \A c \in Calls : worker[c] # started + 1
    BY SpawnedIsNew
  <1>2. /\ proc' = [proc EXCEPT ![started + 1] = "loading"]
        /\ UNCHANGED <<toWorker, toPool, given, ran>>
    BY DEF Spawn
  <1>3. \A w \in Workers : Used(w)' => Used(w)
    BY <1>1, <1>2 DEF Used, TypeOK
  <1>4. Working'
    BY <1>2, <1>3, WorkingKept
  <1> QED
    BY <1>1, <1>2, <1>4 DEF Gone, TypeOK

LEMMA SendMatched ==
    ASSUME IInv, Once, Matched, NEW c \in Calls, SendRun(c)
    PROVE  Matched'
  <1>1. TypeOK /\ Honest(c)
    BY DEF IInv, Matched
  <1>2. /\ pc[c] = "send" /\ pc'[c] = "run"
        /\ given' = [given EXCEPT ![worker[c]] = @ \cup {c}]
        /\ toWorker' = [toWorker EXCEPT ![worker[c]] = "run"]
        /\ UNCHANGED <<answer, worker, proc, toPool, ran>> /\ Only(c)
    BY <1>1 DEF SendRun, Move, TypeOK, Only
  <1>3. worker[c] \in Workers /\ answer[c] = "none"
    BY <1>1, <1>2 DEF Honest, Employing, Fresh, Before
  <1>4. given[worker[c]] = {}
    BY <1>2 DEF Once, Unsent, Fresh
  <1>5. given'[worker[c]] = {c} /\ \A w \in Workers \ {worker[c]} : given'[w] = given[w]
    BY <1>1, <1>2, <1>3, <1>4 DEF TypeOK
  <1>6. \A w \in Workers : Used(w)' => w # worker[c] /\ Used(w)
    BY <1>2, <1>4 DEF Used, Matched, Working
  <1>7. Working'
    <2>1. \A w \in Workers : Used(w)' => given'[w] # {} /\ given'[w] \subseteq ran'
      BY <1>2, <1>5, <1>6 DEF Matched, Working
    <2>2. \A w \in Workers : toWorker'[w] = "run" => given'[w] # {}
      BY <1>1, <1>2, <1>5 DEF Matched, Working, TypeOK
    <2>3. \A d \in ran' : \E w \in Workers : d \in given'[w]
      BY <1>2, <1>4, <1>5 DEF Matched, Working
    <2> QED
      BY <2>1, <2>2, <2>3 DEF Working
  <1>8. Honest(c)'
    BY <1>2, <1>3, <1>5 DEF Honest, Employing, Fresh, Sending, Before, Repeatable
  <1>9. ASSUME NEW d \in Calls, d # c
        PROVE  Honest(d)'
    <2>1. \A w \in Workers : d \in given'[w] <=> d \in given[w]
      BY <1>4, <1>5, <1>9
    <2> QED
      BY <1>2, <1>9, <2>1, HonestApart DEF Only, Matched, Gone
  <1> QED
    BY <1>7, <1>8, <1>9 DEF Matched

LEMMA WorkerKeeps ==
    ASSUME TypeOK, Working, NEW w \in Workers, WorkerStep(w)
    PROVE  /\ Working' /\ UNCHANGED <<call, given>> /\ ran \subseteq ran'
           /\ \A v \in Workers : Gone(v) => proc'[v] = "dead"
  <1>1. UNCHANGED <<call, given>>
    BY DEF WorkerStep, SendReady, ReceiveRun, ReceiveNothing, Ask, ReceiveAnswer, SendReply,
           Exit, Rest
  <1>2. \A s : Process(w, s) => \A v \in Workers : proc'[v] = IF v = w THEN s ELSE proc[v]
    BY DEF Process, TypeOK
  <1>3. CASE ReceiveRun(w)
    <2>1. /\ proc[w] = "waiting" /\ toWorker[w] = "run" /\ Process(w, "tool")
          /\ toWorker' = [toWorker EXCEPT ![w] = "none"]
          /\ ran' = ran \cup given[w] /\ UNCHANGED toPool
      BY <1>3 DEF ReceiveRun
    <2>2. \A v \in Workers : Used(v)' => v = w \/ Used(v)
      BY <1>2, <2>1 DEF Used
    <2>3. Working'
      BY <1>1, <2>1, <2>2 DEF Working, TypeOK
    <2>4. \A v \in Workers : Gone(v) => proc'[v] = "dead"
      BY <1>2, <2>1 DEF Gone
    <2> QED
      BY <1>1, <2>1, <2>3, <2>4
  <1>4. ASSUME ~ReceiveRun(w)
        PROVE  ran' = ran /\ \A v \in Workers : toWorker'[v] = "run" => toWorker[v] = "run"
    BY <1>4 DEF WorkerStep, SendReady, ReceiveNothing, Ask, ReceiveAnswer, SendReply, Exit,
                TypeOK
  <1>5. ASSUME ~ReceiveRun(w)
        PROVE  \A v \in Workers : Used(v)' => Used(v)
    BY <1>2, <1>5 DEF WorkerStep, SendReady, ReceiveNothing, Ask, ReceiveAnswer, SendReply,
                      Exit, Used, TypeOK
  <1>6. ASSUME ~ReceiveRun(w)
        PROVE  \A v \in Workers : Gone(v) => proc'[v] = "dead"
    BY <1>2, <1>6 DEF WorkerStep, SendReady, ReceiveNothing, Ask, ReceiveAnswer, SendReply,
                      Exit, Gone, Alive
  <1> QED
    BY <1>1, <1>3, <1>4, <1>5, <1>6, WorkingKept

LEMMA NextMatched == IInv /\ Once /\ Matched /\ [Next]_vars => Matched'
  <1> SUFFICES ASSUME IInv, Once, Matched, [Next]_vars PROVE Matched'
    OBVIOUS
  <1>1. TypeOK
    BY DEF IInv
  <1>2. ASSUME NEW c \in Calls, Aside(c) \/ Reads(c)
        PROVE  Matched'
    <2>1. /\ Honest(c)' /\ Only(c) /\ UNCHANGED <<given, ran>>
          /\ \A w \in Workers : Used(w)' => Used(w)
          /\ \A w \in Workers : toWorker'[w] = "run" => toWorker[w] = "run"
          /\ \A w \in Workers : Gone(w) => proc'[w] = "dead"
      BY <1>2, AsideHonest, ReadsHonest DEF Matched, Used, Gone, pipes
    <2>2. \A d \in Calls \ {c} : Honest(d)'
      BY <2>1, HonestApart DEF Only, Matched
    <2> QED
      BY <2>1, <2>2, WorkingKept DEF Matched
  <1>3. ASSUME NEW c \in Calls, TakeFresh(c)
        PROVE  Matched'
    <2>1. /\ pc[c] = "take" /\ pc'[c] = "boot" /\ Only(c) /\ Spawn /\ answer' = answer
          /\ worker'[c] = started + 1
      BY <1>1, <1>3 DEF TakeFresh, Move, Only, TypeOK
    <2>2. /\ Working' /\ started + 1 \in Workers /\ UNCHANGED <<given, ran>>
          /\ \A d \in Calls : worker[d] \in Workers /\ Gone(worker[d]) =>
                                  proc'[worker[d]] = "dead"
      BY <1>1, <2>1, SpawnKeeps DEF Matched
    <2>3. Honest(c)'
      BY <2>1, <2>2 DEF Matched, Honest, Before, Employing, Fresh, Sending
    <2>4. \A d \in Calls \ {c} : Honest(d)'
      BY <2>1, <2>2, HonestApart DEF Only, Matched
    <2> QED
      BY <2>2, <2>3, <2>4 DEF Matched
  <1>4. ASSUME NEW w \in Workers, WorkerStep(w)
        PROVE  Matched'
    <2>1. /\ Working' /\ UNCHANGED <<call, given>> /\ ran \subseteq ran'
          /\ \A v \in Workers : Gone(v) => proc'[v] = "dead"
      BY <1>1, <1>4, WorkerKeeps DEF Matched
    <2> QED
      BY <2>1, HonestApart DEF Matched, call
  <1>5. CASE RefillWorker
    <2>1. Spawn /\ UNCHANGED call
      BY <1>5 DEF RefillWorker
    <2>2. /\ Working' /\ UNCHANGED <<given, ran>>
          /\ \A d \in Calls : worker[d] \in Workers /\ Gone(worker[d]) =>
                                  proc'[worker[d]] = "dead"
      BY <1>1, <2>1, SpawnKeeps DEF Matched
    <2> QED
      BY <2>1, <2>2, HonestApart DEF Matched, call
  <1>6. CASE StopIdle
    <2>1. PICK w \in doomed : Stopped(w)
      BY <1>6 DEF StopIdle
    <2>2. w \in Workers /\ UNCHANGED <<call, toWorker, toPool, given, ran>>
      BY <1>1, <1>6, <2>1 DEF StopIdle, Stopped, TypeOK
    <2>3. \A v \in Workers : proc'[v] = IF v = w THEN "dead" ELSE proc[v]
      BY <1>1, <2>1, <2>2 DEF Stopped, TypeOK
    <2>4. /\ \A v \in Workers : Used(v)' => Used(v)
          /\ \A v \in Workers : Gone(v) => proc'[v] = "dead"
      BY <2>2, <2>3 DEF Used, Gone
    <2> QED
      BY <2>2, <2>4, HonestApart, WorkingKept DEF Matched, call
  <1>7. CASE LockRefill \/ AppendWorker \/ UnlockRefill \/ CallShutdown \/ ClearIdle
             \/ UNCHANGED vars
    <2>1. UNCHANGED <<call, pipes, given, ran>>
      BY <1>7 DEF LockRefill, AppendWorker, UnlockRefill, CallShutdown, ClearIdle, vars,
                  call, pipes
    <2>2. UNCHANGED <<pc, answer, worker, proc, toWorker, toPool, given, ran>>
      BY <2>1 DEF call, pipes
    <2> QED
      BY <2>2, HonestApart, WorkingKept DEF Matched, Used, Gone
  <1> QED
    BY <1>2, <1>3, <1>4, <1>5, <1>6, <1>7, SendMatched
    DEF Next, Run, Converse, Aside, Reads, Refill, Shutdown

(* Whatever workers hang, die or answer late, a call that is told to come  *)
(* back had no tool run, one that has a result had its own, and the worker *)
(* of a call that is not cut short by an error is dead when its slot goes  *)
(* to the next (_run_in_worker and run, lines 249-334).                    *)
THEOREM AnswersAreTrue == Spec => []AnswersMatchRuns
  <1>1. IInv => TypeOK
    BY DEF IInv
  <1>2. IInv /\ Once /\ [Next]_vars => Once'
    BY <1>1, NextOnce
  <1>3. Matched => AnswersMatchRuns
    BY DEF Matched, Working, Honest, Repeatable, AnswersMatchRuns
  <1> QED
    BY InitOnce, InitMatched, Inductive, NextMatched, <1>2, <1>3, PTL DEF Spec
=============================================================================
